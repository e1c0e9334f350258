---------------------------- MODULE Cfx3Session ----------------------------
(***************************************************************************)
(* A Session talking to a CFX3 cooler over one BLE link.  The cooler is     *)
(* outside the repository; it is modelled from the frames the repository    *)
(* recorded and from the simulator its tests use:                           *)
(*   - it says nothing until it is sent a PING, which it ACKs;              *)
(*   - it ACKs HELLO, and from then on PINGs the client every 2 s;          *)
(*   - it ACKs a SUBSCRIBE at once; one that comes before the client's      *)
(*     first ACK goes no further, a later one is answered with a PUBLISH;   *)
(*   - it publishes the next value only after the client ACKed the last.    *)
(* Frames in either direction arrive in order, or not at all when the link  *)
(* drops.                                                                   *)
(***************************************************************************)
EXTENDS Session

CONSTANTS
    MaxPings,   \* bound: PINGs the cooler sends
    Nudges      \* may API callers use ping()?

\* A CFX3 speaks DDM1.
ASSUME Cfx3Assumption ==
    /\ Protocol = "ddm1"
    /\ MaxPings \in Nat
    /\ Nudges \in BOOLEAN

VARIABLES
    rxq,        \* notifications on their way to the host
    heard,      \* how many frames of wire the cooler has processed
    hello,      \* the cooler got HELLO: its session is up
    credit,     \* the client has ACKed since the cooler last published
    pending,    \* subscribed topics whose value is still to be published
    pings,      \* PINGs sent
    publishes   \* PUBLISHes sent

deviceVars == << rxq, heard, hello, credit, pending, pings, publishes >>
cfx3Vars == << vars, deviceVars >>

Cfx3Init ==
    /\ Init
    /\ rxq = << >>
    /\ heard = 0
    /\ hello = FALSE
    /\ credit = FALSE
    /\ pending = {}
    /\ pings = 0
    /\ publishes = 0

Emit(f) == rxq' = Append(rxq, f)

\* The cooler forgets the session with the link.
DeviceResets ==
    /\ rxq' = << >>
    /\ heard' = Len(wire')
    /\ hello' = FALSE
    /\ credit' = FALSE
    /\ pending' = {}
    /\ UNCHANGED << pings, publishes >>

HostStep ==
    /\ HostNext \/ LinkDrops
    /\ ~Nudges => \A c \in Callers : call'[c] # "PING"
    /\ IF link /\ ~link' THEN DeviceResets ELSE UNCHANGED deviceVars

Deliver ==
    /\ rxq # << >>
    /\ rxq' = Tail(rxq)
    /\ IF armed THEN Notify(Head(rxq)) ELSE UNCHANGED vars
    /\ UNCHANGED << heard, hello, credit, pending, pings, publishes >>

Places(f) == {i \in DOMAIN wire : wire[i].frame = f}

\* The client has ACKed something (acks_received: a session has one link, so
\* all of wire is this link's).
Acked == Places("ACK") \cap 1 .. heard # {}

\* "Real cooler: silent until its PINGs are ACKed": until then a SUBSCRIBE is
\* ACKed and forgotten.
DeviceHears ==
    /\ link
    /\ heard < Len(wire)
    /\ heard' = heard + 1
    /\ LET f == wire[heard + 1].frame
       IN  /\ IF f = "ACK" THEN UNCHANGED rxq ELSE Emit(Control("ACK"))
           /\ hello' = (hello \/ f = "HELLO")
           /\ credit' = (credit \/ f = "ACK")
           /\ IF f = "SUBSCRIBE" /\ Acked
              THEN \E t \in Topics : pending' = pending \cup {t}
              ELSE UNCHANGED pending
    /\ UNCHANGED << vars, pings, publishes >>

DevicePings ==
    /\ link
    /\ hello
    /\ pings < MaxPings
    /\ pings' = pings + 1
    /\ Emit(Control("PING"))
    /\ UNCHANGED << vars, heard, hello, credit, pending, publishes >>

DevicePublishes ==
    /\ link
    /\ hello
    /\ credit
    /\ \E t \in pending, v \in Values :
           /\ Emit(Publish(t, v))
           /\ pending' = pending \ {t}
    /\ credit' = FALSE
    /\ publishes' = publishes + 1
    /\ UNCHANGED << vars, heard, hello, pings >>

Cfx3Next == HostStep \/ Deliver \/ DeviceHears \/ DevicePings \/ DevicePublishes

Cfx3Spec == Cfx3Init /\ [][Cfx3Next]_cfx3Vars

\* The cooler answers, keeps pinging and publishes; the radio delivers.  The
\* steps of the session keep the fairness of Session.tla.
Cfx3Fairness ==
    /\ Fairness
    /\ WF_cfx3Vars(Deliver)
    /\ WF_cfx3Vars(DeviceHears)
    /\ WF_cfx3Vars(DevicePings)
    /\ WF_cfx3Vars(DevicePublishes)

Cfx3FairSpec == Cfx3Spec /\ Cfx3Fairness

-----------------------------------------------------------------------------
(* Properties.                                                             *)

\* The device's side has its types.
DeviceTypeOK ==
    /\ rxq \in Seq(DeviceFrames)
    /\ heard \in 0 .. Len(wire)
    /\ hello \in BOOLEAN /\ credit \in BOOLEAN
    /\ pending \subseteq Topics
    /\ pings \in 0 .. MaxPings
    /\ publishes \in Nat

\* The application's frames follow the handshake's: whatever way the tasks
\* interleave, HELLO is on the wire before any SUBSCRIBE or write ("the app
\* subscribes only after the handshake", the docstring of subscribe()).
NoDataBeforeHello ==
    \A i \in Places("SUBSCRIBE") \cup Places("WRITE") :
        \E j \in Places("HELLO") : j < i

\* READY on the host means the cooler's session is up, while the link lasts.
ReadyMeansHello == m.state = "ready" /\ link => hello

\* Nobody speaks before HELLO: the application not on the wire, READY not on the host.
HelloFirst == NoDataBeforeHello /\ ReadyMeansHello

\* The cooler is never given an ACK it has not earned with a PING or a
\* PUBLISH: an ACK too many would be taken as flow control for a later value.
AcksAreEarned == Cardinality(Places("ACK")) <= pings + publishes

\* The exchange is over before its end: the link or the session is gone, or a
\* frame was lost to a failed write.
Broken == ~link \/ closed \/ reported # {} \/ writer.pc = "dead"

\* Once the writer runs the handshake completes, even when start() has given
\* up waiting.
HandshakeCompletes == start \in {"wait", "ok", "timeout"} ~> readyEvt \/ Broken

\* A cooler that PINGs is ACKed, once at least: until then it answers no
\* subscription at all (docs/captures: no PUBLISH until the client ACKs).
CoolerIsAcked == pings > 0 ~> Acked \/ Broken

\* From then on a subscription it has heard is followed by a value: every
\* PUBLISH is ACKed, so the next one comes.
SubscriptionAnswered ==
    \A t \in Topics : t \in pending ~> m.values[t] # NoValue \/ Broken

\* The flow control of the two sides never leaves both waiting: the handshake
\* completes, the cooler's PINGs are ACKed and the subscriptions that come after
\* the first ACK are answered.  An earlier one is lost: the session does not wait
\* for a PING before it is READY, and does not subscribe again.
CoolerAnswers == HandshakeCompletes /\ CoolerIsAcked /\ SubscriptionAnswered
=============================================================================
