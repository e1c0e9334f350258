--------------------------- MODULE OrderedOutbox ---------------------------
(***************************************************************************)
(* What a Session promises the protocol machine about the frames it asks    *)
(* to have written: they are settled strictly in the order of asking, each  *)
(* once, and to be settled is to have reached the device or to be given up  *)
(* for good.  Nothing is retried, nothing overtakes, nothing is forgotten   *)
(* in the middle.                                                           *)
(***************************************************************************)
EXTENDS Naturals, Sequences

VARIABLES
    asked,  \* the frames asked for, in order
    sent,   \* the places in asked of those that reached the device
    lost    \* the places of those that were given up

vars == << asked, sent, lost >>

Settled == sent \cup lost

Init ==
    /\ asked = << >>
    /\ sent = {}
    /\ lost = {}

\* More frames are asked for, behind the others.
Ask ==
    /\ Len(asked') >= Len(asked)
    /\ \A i \in 1 .. Len(asked) : asked'[i] = asked[i]
    /\ UNCHANGED << sent, lost >>

\* The oldest frame that is not settled is settled, one way or the other.
Settle(n) ==
    /\ n \notin Settled
    /\ \A k \in 1 .. n - 1 : k \in Settled
    /\ \/ sent' = sent \cup {n} /\ lost' = lost
       \/ lost' = lost \cup {n} /\ sent' = sent
    /\ UNCHANGED asked

Next ==
    \/ Ask
    \/ \E n \in 1 .. Len(asked) : Settle(n)

Spec == Init /\ [][Next]_vars
=============================================================================
