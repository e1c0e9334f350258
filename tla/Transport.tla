----------------------------- MODULE Transport -----------------------------
(***************************************************************************)
(* pyddm/transport/base.py: what a Transport promises its user.  One link   *)
(* at a time is owned.  A link that drops by itself is told once; one the   *)
(* user disconnects is not.  Frames come only over the owned link, in the   *)
(* order they were sent, and a write is accepted only while a link is       *)
(* owned.                                                                   *)
(***************************************************************************)
EXTENDS Naturals

CONSTANT Links      \* the numbers of the links

VARIABLES
    owned,  \* the link the user owns, 0 for none
    opened, \* how many links there have been
    told,   \* how often each link's drop was told
    last,   \* the number of the last frame delivered from each link
    wrote   \* how many writes each link accepted

vars == << owned, opened, told, last, wrote >>

Init ==
    /\ owned = 0
    /\ opened = 0
    /\ told = [k \in Links |-> 0]
    /\ last = [k \in Links |-> 0]
    /\ wrote = [k \in Links |-> 0]

Connect ==
    /\ owned = 0
    /\ opened + 1 \in Links
    /\ opened' = opened + 1
    /\ owned' = opened + 1
    /\ UNCHANGED << told, last, wrote >>

Disconnect ==
    /\ owned # 0
    /\ owned' = 0
    /\ UNCHANGED << opened, told, last, wrote >>

Drop ==
    /\ owned # 0
    /\ told[owned] = 0
    /\ told' = [told EXCEPT ![owned] = 1]
    /\ owned' = 0
    /\ UNCHANGED << opened, last, wrote >>

Deliver ==
    /\ owned # 0
    /\ last' \in [Links -> Nat]
    /\ last'[owned] > last[owned]
    /\ \A k \in Links \ {owned} : last'[k] = last[k]
    /\ UNCHANGED << owned, opened, told, wrote >>

Write ==
    /\ owned # 0
    /\ wrote' = [wrote EXCEPT ![owned] = @ + 1]
    /\ UNCHANGED << owned, opened, told, last >>

Next == Connect \/ Disconnect \/ Drop \/ Deliver \/ Write

Spec == Init /\ [][Next]_vars
=============================================================================
