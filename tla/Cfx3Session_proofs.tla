------------------------- MODULE Cfx3Session_proofs -------------------------
(***************************************************************************)
(* Theorems about Cfx3Session.tla: the types of the cooler's side, that     *)
(* this system is one of those Session.tla describes, and the two claims    *)
(* about the exchange, HelloFirst and AcksAreEarned, for every number of    *)
(* callers, topics and values and every bound.                              *)
(***************************************************************************)
EXTENDS Cfx3Session, Session_proofs, FiniteSetTheorems

(***************************************************************************)
(* What a step of the host does, as far as the cooler can tell.            *)
(***************************************************************************)

\* The writer, or close() behind it, has a frame of the machine written.
MachineWrite ==
    /\ writer.pc \in {"lock", "cancelled"} /\ writer.item # 0
    /\ Transmit(asked[writer.item], writer.item)
    /\ UNCHANGED << m, asked, start, call, link >>

\* An API caller has its frame written, and is done.
AppWrite(c) ==
    /\ call[c] # NoCall
    /\ Transmit(call[c], 0)
    /\ call' = [call EXCEPT ![c] = NoCall]
    /\ UNCHANGED << m, asked, start, link >>

\* Nothing is written or asked for; something may come to an end.
WindsDown ==
    /\ UNCHANGED << wire, asked >>
    /\ m' = m \/ m' = MachineClose(m)
    /\ start' \in {"idle", "connect"} => start' = start
    /\ call' = call \/ \E c \in Callers : call' = [call EXCEPT ![c] = NoCall]
    /\ link' => link

\* Every step of the host is one of six kinds.
LEMMA HostCases ==
    ASSUME TypeInv, HostNext \/ LinkDrops
    PROVE  \/ StartCall \/ LinkUp \/ MachineWrite \/ WindsDown
           \/ \E c \in Callers : AppWrite(c) \/ \E f \in ApiFrames : ApiCall(c, f)
<1> USE DEF sessionVars, taskVars, transportVars, historyVars
<1>1. CASE StartStep
  <2>1. CASE StartRefused
    BY <2>1 DEF StartRefused, WindsDown
  <2>2. CASE ConnectReturns
    BY <2>2 DEF ConnectReturns, SpawnWriter, WindsDown
  <2>3. CASE ConnectFails
    BY <2>3 DEF ConnectFails, WindsDown
  <2>4. CASE StartReady \/ StartTimesOut
    BY <2>4 DEF StartReady, StartTimesOut, WindsDown
  <2> QED
    BY <1>1, <2>1, <2>2, <2>3, <2>4 DEF StartStep, ConnectEnds
<1>2. CASE WriterStep
  <2>1. CASE WriterGet
    BY <2>1 DEF WriterGet, WindsDown
  <2>2. CASE WriterWrites
    BY <2>2 DEF WriterWrites, MachineWrite, TypeInv, PlacesOfAsked
  <2>3. CASE WriterFails
    BY <2>3 DEF WriterFails, WindsDown
  <2>4. CASE WriterStops
    BY <2>4 DEF WriterStops, MachineWrite, WindsDown
  <2> QED
    BY <1>2, <2>1, <2>2, <2>3, <2>4 DEF WriterStep
<1>3. CASE CloseCall
  BY <1>3 DEF CloseCall, WindsDown
<1>4. CASE CloseRest
  BY <1>4 DEF CloseRest, CloseJoins, CloseRaises, CloseDisconnects, WindsDown
<1>5. CASE LinkDrops
  BY <1>5 DEF LinkDrops, WindsDown
<1>6. ASSUME NEW c \in Callers, ApiRest(c)
      PROVE  AppWrite(c) \/ WindsDown
  <2>1. CASE ApiWrites(c)
    BY <2>1 DEF ApiWrites, ApiEnds, AppWrite
  <2>2. CASE ApiFails(c)
    BY <2>2 DEF ApiFails, ApiEnds, WindsDown
  <2>3. CASE ApiCancelled(c)
    BY <2>3 DEF ApiCancelled, ApiEnds, AppWrite, WindsDown
  <2> QED
    BY <1>6, <2>1, <2>2, <2>3 DEF ApiRest
<1> QED
  BY <1>1, <1>2, <1>3, <1>4, <1>5, <1>6 DEF HostNext

\* The frame that is written is a frame of the host.
LEMMA WrittenFrames ==
    ASSUME TypeInv
    PROVE  /\ MachineWrite => writer.item \in DOMAIN asked /\ asked[writer.item] \in HostFrames
           /\ \A c \in Callers : AppWrite(c) => call[c] \in ApiFrames /\ call[c] \in HostFrames
<1>1. asked \in Seq(HostFrames) /\ writer.item \in 0 .. Len(asked)
  BY DEF TypeInv, TypeOK, PlacesOfAsked
<1>2. \A c \in Callers : call[c] \in ApiFrames \cup {NoCall}
  BY DEF TypeInv, TypeOK
<1>3. ApiFrames \subseteq HostFrames
  BY DEF ApiFrames, HostFrames
<1> QED
  BY <1>1, <1>2, <1>3 DEF MachineWrite, AppWrite

\* One entry more, at the end.
LEMMA TransmitAppends ==
    ASSUME wire \in Seq([frame : HostFrames, n : Nat]),
           NEW f \in HostFrames, NEW n \in Nat, Transmit(f, n)
    PROVE  /\ wire' \in Seq([frame : HostFrames, n : Nat])
           /\ Len(wire) \in Nat /\ Len(wire') = Len(wire) + 1
           /\ DOMAIN wire = 1 .. Len(wire) /\ DOMAIN wire' = 1 .. Len(wire) + 1
           /\ \A i \in DOMAIN wire : wire'[i] = wire[i]
           /\ wire'[Len(wire) + 1].frame = f /\ wire'[Len(wire) + 1].n = n
BY DEF Transmit

\* The wire never shrinks.
LEMMA WireGrows ==
    ASSUME TypeInv, HostNext \/ LinkDrops
    PROVE  Len(wire) \in Nat /\ Len(wire') \in Nat /\ Len(wire') >= Len(wire)
<1>1. wire \in Seq([frame : HostFrames, n : Nat]) /\ Len(wire) \in Nat
  BY DEF TypeInv, TypeOK
<1>2. CASE StartCall \/ LinkUp \/ WindsDown \/ \E c \in Callers, f \in ApiFrames : ApiCall(c, f)
  BY <1>1, <1>2 DEF StartCall, LinkUp, WindsDown, ApiCall, transportVars
<1>3. CASE MachineWrite
  <2>1. writer.item \in Nat /\ Transmit(asked[writer.item], writer.item)
    BY <1>3 DEF MachineWrite, TypeInv, TypeOK
  <2>2. asked[writer.item] \in HostFrames
    BY <1>3, WrittenFrames
  <2> QED
    BY <1>1, <2>1, <2>2, TransmitAppends
<1>4. ASSUME NEW c \in Callers, AppWrite(c)
      PROVE  Len(wire') \in Nat /\ Len(wire') >= Len(wire)
  <2>1. Transmit(call[c], 0) /\ call[c] \in HostFrames
    BY <1>4, WrittenFrames DEF AppWrite
  <2> QED
    BY <1>1, <2>1, TransmitAppends
<1> QED
  BY <1>1, <1>2, <1>3, <1>4, HostCases

(***************************************************************************)
(* The types of the cooler's side, and the session underneath.             *)
(***************************************************************************)

\* What the cooler sends is what the session takes for a frame of a device.
LEMMA CoolerFrames ==
    /\ Control("ACK") \in DeviceFrames
    /\ Control("PING") \in DeviceFrames
    /\ \A t \in Topics, v \in Values : Publish(t, v) \in DeviceFrames
BY Cfx3Assumption DEF DeviceFrames, ControlActions

\* A step of the whole system leaves the session alone or is one of its steps:
\* the cooler only adds order to what Session.tla lets any device send.
LEMMA StepOfSession ==
    ASSUME DeviceTypeOK, [Cfx3Next]_cfx3Vars
    PROVE  [Next]_vars
<1>1. CASE UNCHANGED cfx3Vars
  BY <1>1 DEF cfx3Vars
<1>2. CASE HostStep
  BY <1>2 DEF HostStep, Next
<1>3. CASE Deliver
  <2>1. rxq # << >> => Head(rxq) \in DeviceFrames
    BY DEF DeviceTypeOK
  <2> QED
    BY <1>3, <2>1 DEF Deliver, Next
<1>4. CASE DeviceHears \/ DevicePings \/ DevicePublishes
  BY <1>4 DEF DeviceHears, DevicePings, DevicePublishes
<1> QED
  BY <1>1, <1>2, <1>3, <1>4 DEF Cfx3Next

\* Every step keeps the types of the cooler's side.
LEMMA NextDevice == TypeInv /\ DeviceTypeOK /\ [Cfx3Next]_cfx3Vars => DeviceTypeOK'
<1> SUFFICES ASSUME TypeInv, DeviceTypeOK, [Cfx3Next]_cfx3Vars PROVE DeviceTypeOK'
  OBVIOUS
<1> USE DEF deviceVars
<1>a. /\ rxq \in Seq(DeviceFrames) /\ Len(wire) \in Nat /\ heard \in 0 .. Len(wire)
      /\ pings \in 0 .. MaxPings /\ MaxPings \in Nat
  BY Cfx3Assumption DEF DeviceTypeOK, TypeInv, TypeOK
<1>1. CASE UNCHANGED cfx3Vars
  BY <1>1 DEF cfx3Vars, vars, transportVars, DeviceTypeOK
<1>2. CASE HostStep
  <2>1. Len(wire') \in Nat /\ Len(wire') >= Len(wire)
    BY <1>2, WireGrows DEF HostStep
  <2>2. CASE link /\ ~link'
    <3>1. DeviceResets
      BY <1>2, <2>2 DEF HostStep
    <3>2. rxq' \in Seq(DeviceFrames)
      BY <3>1 DEF DeviceResets
    <3>3. heard' \in 0 .. Len(wire')
      BY <2>1, <3>1 DEF DeviceResets
    <3> QED
      BY <3>1, <3>2, <3>3 DEF DeviceResets, DeviceTypeOK
  <2>3. CASE ~(link /\ ~link')
    <3>1. UNCHANGED deviceVars
      BY <1>2, <2>3 DEF HostStep
    <3> QED
      BY <1>a, <2>1, <3>1 DEF DeviceTypeOK
  <2> QED
    BY <2>2, <2>3
<1>3. CASE Deliver
  <2>1. wire' = wire
    BY <1>3 DEF Deliver, Notify, vars, transportVars
  <2> QED
    BY <1>a, <1>3, <2>1 DEF Deliver, DeviceTypeOK
<1>4. CASE DeviceHears
  <2>1. rxq' = rxq \/ rxq' = Append(rxq, Control("ACK"))
    BY <1>4 DEF DeviceHears, Emit
  <2>2. rxq' \in Seq(DeviceFrames)
    BY <1>a, <2>1, CoolerFrames
  <2>3. wire' = wire /\ heard' \in 0 .. Len(wire)
    BY <1>a, <1>4 DEF DeviceHears, vars, transportVars
  <2>4. hello' \in BOOLEAN /\ credit' \in BOOLEAN
    <3>1. (hello \/ wire[heard + 1].frame = "HELLO") \in BOOLEAN
      OBVIOUS
    <3>2. (credit \/ wire[heard + 1].frame = "ACK") \in BOOLEAN
      OBVIOUS
    <3> QED
      BY <1>4, <3>1, <3>2 DEF DeviceHears
  <2>5. pending' \subseteq Topics
    BY <1>4 DEF DeviceHears, DeviceTypeOK
  <2>6. pings' = pings /\ publishes' = publishes
    BY <1>4 DEF DeviceHears
  <2> QED
    BY <2>2, <2>3, <2>4, <2>5, <2>6 DEF DeviceTypeOK
<1>5. CASE DevicePings
  <2>1. rxq' \in Seq(DeviceFrames)
    BY <1>a, <1>5, CoolerFrames DEF DevicePings, Emit
  <2>2. pings' \in 0 .. MaxPings
    BY <1>a, <1>5 DEF DevicePings
  <2> QED
    BY <1>5, <2>1, <2>2 DEF DevicePings, DeviceTypeOK, vars, transportVars
<1>6. CASE DevicePublishes
  <2>1. rxq' \in Seq(DeviceFrames) /\ pending' \subseteq Topics
    BY <1>a, <1>6, CoolerFrames DEF DevicePublishes, Emit, DeviceTypeOK
  <2>2. publishes' \in Nat
    BY <1>6 DEF DevicePublishes, DeviceTypeOK
  <2> QED
    BY <1>6, <2>1, <2>2 DEF DevicePublishes, DeviceTypeOK, vars, transportVars
<1> QED
  BY <1>1, <1>2, <1>3, <1>4, <1>5, <1>6 DEF Cfx3Next

\* All of it in one invariant: the session's own and the cooler's types.
LEMMA Cfx3Inductive == Cfx3Spec => [](TypeInv /\ OrderInv /\ DeviceTypeOK)
<1>1. Cfx3Init => TypeInv /\ OrderInv /\ DeviceTypeOK
  <2>1. ASSUME Cfx3Init PROVE DeviceTypeOK
    <3>1. wire = << >> /\ Len(wire) = 0
      BY <2>1 DEF Cfx3Init, Init
    <3>2. rxq = << >> /\ rxq \in Seq(DeviceFrames)
      BY <2>1 DEF Cfx3Init
    <3>3. heard \in 0 .. Len(wire) /\ pings \in 0 .. MaxPings /\ publishes \in Nat
      BY <2>1, <3>1, Cfx3Assumption DEF Cfx3Init
    <3> QED
      BY <2>1, <3>2, <3>3 DEF Cfx3Init, DeviceTypeOK
  <2> QED
    BY <2>1, InitTyped, InitOrder DEF Cfx3Init
<1>2. TypeInv /\ OrderInv /\ DeviceTypeOK /\ [Cfx3Next]_cfx3Vars
          => (TypeInv /\ OrderInv /\ DeviceTypeOK)'
  BY StepOfSession, NextTyped, NextOrder, NextDevice
<1> QED
  BY <1>1, <1>2, PTL DEF Cfx3Spec

\* A session with a CFX3 is a session: every behaviour of the two is one of
\* Session.tla, so what is proved there for any device holds here.
THEOREM Cfx3IsASession == Cfx3Spec => Spec
<1>1. Cfx3Init => Init
  BY DEF Cfx3Init
<1>2. DeviceTypeOK /\ [Cfx3Next]_cfx3Vars => [Next]_vars
  BY StepOfSession
<1> QED
  BY <1>1, <1>2, Cfx3Inductive, PTL DEF Cfx3Spec, Spec

(***************************************************************************)
(* HelloFirst.  Before HELLO everything is so quiet that the two sides can  *)
(* be described exactly: the host has asked for its PING and nothing else,  *)
(* and the cooler has answered that with at most one ACK.  The only thing   *)
(* the host can take for the answer to HELLO is the answer to HELLO.        *)
(***************************************************************************)
HelloSent == Places("HELLO") # {}
NobodyCalls == \A c \in Callers : call[c] = NoCall

\* The machine asks for its PING first and for no other.
OnePing ==
    \A i \in DOMAIN asked :
        asked[i] \in {"PING", "HELLO", "ACK"} /\ (asked[i] = "PING" => i = 1)

\* What is on the wire was asked for, or is an application's frame.
WireIsAsked ==
    \A i \in DOMAIN wire :
        IF wire[i].n = 0 THEN wire[i].frame \in {"SUBSCRIBE", "WRITE"}
        ELSE wire[i].n \in DOMAIN asked /\ wire[i].frame = asked[wire[i].n]

NotStarted ==
    /\ start = "idle" =>
           /\ asked = << >> /\ rxq = << >> /\ ~hello
           /\ m.state \in {"idle", "closed"}
           /\ NobodyCalls
    /\ start \in {"idle", "connect"} => wire = << >>

\* The application waits for the handshake.
AppWaits ==
    /\ m.state \in {"idle", "handshake"} =>
           NobodyCalls /\ \A i \in DOMAIN wire : wire[i].n # 0
    /\ \A c \in Callers : call[c] # "PING"
    /\ m.state = "ready" \/ ~NobodyCalls => HelloSent

\* The first step of the handshake: PING, perhaps answered.
AwaitsPingAck ==
    m.state = "handshake" /\ m.step = 0 =>
        asked = << "PING" >> /\ Len(rxq) <= heard /\ ~hello

\* The second: that answer was delivered, nothing follows but the one to HELLO.
AwaitsHelloAck ==
    m.state = "handshake" /\ m.step = 1 =>
        /\ wire # << >> /\ wire[1].n = 1 /\ heard >= 1
        /\ ~hello => rxq = << >>

\* The cooler speaks only when spoken to until it has HELLO.
CoolerWaits ==
    /\ ~hello => \A i \in DOMAIN rxq : rxq[i] = Control("ACK")
    /\ hello => HelloSent

HelloInv ==
    OnePing /\ WireIsAsked /\ NotStarted /\ AppWaits /\ AwaitsPingAck
        /\ AwaitsHelloAck /\ CoolerWaits /\ HelloFirst

\* What the PING-first handshake makes of the first call and of every frame.
LEMMA PingFirst ==
    ASSUME Handshake = DDM1_HANDSHAKE_WITH_PING
    PROVE  /\ Handshake.initial = << "PING" >>
           /\ Handshake.steps = HelloSteps /\ Len(Handshake.steps) = 2
           /\ Handshake.steps[1].expect = "ACK" /\ Handshake.steps[1].send = "HELLO"
           /\ Handshake.steps[2].expect = "ACK" /\ Handshake.steps[2].send = NoFrame
BY DEF DDM1_HANDSHAKE_WITH_PING, DDM1_HANDSHAKE, HelloSteps

LEMMA StartsWithPing ==
    ASSUME Handshake = DDM1_HANDSHAKE_WITH_PING, NEW mc \in Machines
    PROVE  /\ MachineStart(mc).sends = << "PING" >>
           /\ MachineStart(mc).machine.state = "handshake"
           /\ MachineStart(mc).machine.step = 0
<1>1. Handshake.steps # << >>
  BY PingFirst
<1> QED
  BY <1>1, PingFirst DEF MachineStart, Outcome, Machines

\* A frame moves the handshake only if it is an ACK; any other is answered
\* with an ACK or not at all.
ReceivePhases(mc, f, o) ==
    \/ /\ mc.state = "handshake" /\ mc.step = 0 /\ f = Control("ACK")
       /\ o.machine.state = "handshake" /\ o.machine.step = 1
       /\ o.sends = << "HELLO" >>
    \/ /\ mc.state = "handshake" /\ mc.step = 1 /\ f = Control("ACK")
       /\ o.machine.state = "ready"
       /\ o.sends = << >>
    \/ /\ o.machine.state = mc.state /\ o.machine.step = mc.step
       /\ o.sends = << >> \/ (o.sends = << "ACK" >> /\ f # Control("ACK"))

LEMMA ReceiveCases ==
    ASSUME Handshake = DDM1_HANDSHAKE_WITH_PING,
           NEW mc \in Machines, StepInBounds(mc), NEW f \in DeviceFrames
    PROVE  ReceivePhases(mc, f, Receive(mc, f))
<1> DEFINE counted == [mc EXCEPT !.received = @ + 1]
<1>1. counted \in Machines /\ counted.state = mc.state /\ counted.step = mc.step
  BY DEF Machines
<1>2. f.action = "ACK" => f = Control("ACK")
  BY DEF DeviceFrames, Control, Publish
<1>3. mc.state = "handshake" => mc.step = 0 \/ mc.step = 1
  <2>1. mc.step \in Nat
    BY DEF Machines
  <2>2. Len(Handshake.steps) = 2
    BY PingFirst
  <2> QED
    BY <2>1, <2>2 DEF StepInBounds
<1> HIDE DEF counted
<1>4. ReceivePhases(mc, f, Reject(counted))
  BY <1>1 DEF Reject, Outcome, Machines, ReceivePhases
<1>5. ASSUME f.action = "PUBLISH"
      PROVE  ReceivePhases(mc, f, OnPublish(counted, f))
  <2>1. f # Control("ACK")
    BY <1>5 DEF Control
  <2>2. OnPublish(counted, f).machine.state = mc.state /\ OnPublish(counted, f).machine.step = mc.step
    BY <1>1 DEF OnPublish, Outcome, Machines
  <2>3. OnPublish(counted, f).sends = << >> \/ OnPublish(counted, f).sends = << "ACK" >>
    BY DEF OnPublish, Outcome
  <2> QED
    BY <2>1, <2>2, <2>3 DEF ReceivePhases
<1>6. ReceivePhases(mc, f, OnControl(counted, f))
  <2>1. CASE counted.state = "handshake" /\ f.action = Handshake.steps[counted.step + 1].expect
    <3> DEFINE o == AdvanceHandshake(counted)
               done == counted.step + 1 >= Len(Handshake.steps)
    <3>1. OnControl(counted, f) = o
      BY <2>1 DEF OnControl
    <3>2. /\ o.machine.step = counted.step + 1
          /\ o.machine.state = IF done THEN "ready" ELSE counted.state
          /\ o.sends = OptionalFrame(Handshake.steps[counted.step + 1].send)
      BY <1>1 DEF AdvanceHandshake, Outcome, Machines
    <3>3. CASE counted.step = 0
      <4>1. f = Control("ACK")
        BY <1>2, <2>1, <3>3, PingFirst
      <4>2. o.sends = << "HELLO" >>
        BY <3>2, <3>3, PingFirst DEF OptionalFrame, NoFrame
      <4>3. o.machine.state = "handshake" /\ o.machine.step = 1
        BY <2>1, <3>2, <3>3, PingFirst
      <4> HIDE DEF o
      <4> QED
        BY <1>1, <2>1, <3>1, <3>3, <4>1, <4>2, <4>3 DEF ReceivePhases
    <3>4. CASE counted.step = 1
      <4>1. f = Control("ACK")
        BY <1>2, <2>1, <3>4, PingFirst
      <4>2. o.sends = << >>
        BY <3>2, <3>4, PingFirst DEF OptionalFrame
      <4>3. o.machine.state = "ready"
        <5>1. Len(Handshake.steps) = 2
          BY PingFirst
        <5>2. done
          BY <3>4, <5>1
        <5> HIDE DEF done, o
        <5> QED
          BY <3>2, <5>2
      <4> HIDE DEF o
      <4> QED
        BY <1>1, <2>1, <3>1, <3>4, <4>1, <4>2, <4>3 DEF ReceivePhases
    <3> QED
      BY <1>1, <1>3, <2>1, <3>3, <3>4
  <2>2. CASE ~(counted.state = "handshake" /\ f.action = Handshake.steps[counted.step + 1].expect)
    <3> DEFINE sends == IF counted.state = "ready" /\ Handshake.ack_pings /\ f.action = "PING"
                        THEN << "ACK" >> ELSE << >>
    <3>1. OnControl(counted, f) = Outcome(counted, sends, FALSE)
      BY <2>2 DEF OnControl
    <3>2. sends = << >> \/ (sends = << "ACK" >> /\ f # Control("ACK"))
      BY DEF Control
    <3> HIDE DEF sends
    <3> QED
      BY <1>1, <3>1, <3>2 DEF Outcome, ReceivePhases
  <2> QED
    BY <2>1, <2>2
<1> QED
  BY <1>4, <1>5, <1>6 DEF Receive, counted

\* Nor does an error listener that raises add to them.
LEMMA HandledCases ==
    ASSUME Handshake = DDM1_HANDSHAKE_WITH_PING,
           m \in Machines, StepInBounds(m), NEW f \in DeviceFrames, NEW o \in Handled(f)
    PROVE  ReceivePhases(m, f, o)
<1>1. ReceivePhases(m, f, Receive(m, f))
  BY ReceiveCases
<1>2. f.action = "PUBLISH" => f # Control("ACK")
  BY DEF Control
<1> QED
  BY <1>1, <1>2, HandledIsCut DEF ReceivePhases

\* One frame more keeps what is said about the wire's order, if the
\* application's comes after HELLO.
LEMMA HelloStays ==
    ASSUME wire \in Seq([frame : HostFrames, n : Nat]), NoDataBeforeHello,
           NEW f \in HostFrames, NEW n \in Nat, Transmit(f, n),
           f \in {"SUBSCRIBE", "WRITE"} => HelloSent
    PROVE  NoDataBeforeHello' /\ (HelloSent => HelloSent')
<1>1. /\ Len(wire) \in Nat /\ Len(wire') = Len(wire) + 1
      /\ DOMAIN wire = 1 .. Len(wire) /\ DOMAIN wire' = 1 .. Len(wire) + 1
      /\ \A i \in DOMAIN wire : wire'[i] = wire[i]
      /\ wire'[Len(wire) + 1].frame = f
  BY TransmitAppends
<1>2. \A g : Places(g)' = {i \in DOMAIN wire' : wire'[i].frame = g}
  BY DEF Places
<1>3. \A g : \A i \in DOMAIN wire : i \in Places(g) <=> i \in Places(g)'
  BY <1>1, <1>2 DEF Places
<1>4. HelloSent => HelloSent'
  BY <1>3 DEF HelloSent, Places
<1>5. NoDataBeforeHello'
  <2> SUFFICES ASSUME NEW i \in DOMAIN wire', wire'[i].frame \in {"SUBSCRIBE", "WRITE"}
               PROVE  \E j \in Places("HELLO")' : j < i
    BY DEF NoDataBeforeHello, Places
  <2>1. CASE i \in DOMAIN wire
    <3>1. i \in Places("SUBSCRIBE") \cup Places("WRITE")
      BY <1>1, <2>1 DEF Places
    <3>2. PICK j \in Places("HELLO") : j < i
      BY <3>1 DEF NoDataBeforeHello
    <3>3. j \in Places("HELLO")'
      BY <1>3, <3>2 DEF Places
    <3> QED
      BY <3>2, <3>3
  <2>2. CASE i \notin DOMAIN wire
    <3>1. i = Len(wire) + 1 /\ HelloSent
      BY <1>1, <2>2
    <3>2. PICK j \in Places("HELLO") : TRUE
      BY <3>1 DEF HelloSent
    <3>3. j \in DOMAIN wire /\ j \in Places("HELLO")'
      BY <1>3, <3>2 DEF Places
    <3> QED
      BY <1>1, <3>1, <3>3
  <2> QED
    BY <2>1, <2>2
<1> QED
  BY <1>4, <1>5

\* What the lemmas below need of the types.
Cfx3Typed == TypeInv /\ OrderInv /\ DeviceTypeOK

LEMMA Types ==
    ASSUME Cfx3Typed
    PROVE  /\ m \in Machines /\ asked \in Seq(HostFrames) /\ rxq \in Seq(DeviceFrames)
           /\ wire \in Seq([frame : HostFrames, n : Nat])
           /\ Len(wire) \in Nat /\ Len(rxq) \in Nat /\ DOMAIN wire = 1 .. Len(wire)
           /\ heard \in 0 .. Len(wire) /\ hello \in BOOLEAN
           /\ call \in [Callers -> ApiFrames \cup {NoCall}]
           /\ NoCall \notin ApiFrames
<1>1. NoCall \notin ApiFrames
  BY DEF NoCall, ApiFrames
<1> QED
  BY <1>1 DEF Cfx3Typed, TypeInv, TypeOK, DeviceTypeOK

\* A caller that is done is one caller less.
LEMMA OneCallLess ==
    ASSUME call \in [Callers -> ApiFrames \cup {NoCall}], NEW c \in Callers,
           call' = [call EXCEPT ![c] = NoCall], \A d \in Callers : call[d] # "PING"
    PROVE  /\ \A d \in Callers : call'[d] # "PING"
           /\ NobodyCalls => NobodyCalls'
BY DEF NobodyCalls, NoCall

\* The end of something, with or without the end of the link.
LEMMA HelloWindsDown ==
    ASSUME Cfx3Typed, HelloInv, WindsDown,
           UNCHANGED deviceVars \/ (DeviceResets /\ ~link')
    PROVE  HelloInv'
<1> USE DEF deviceVars
<1>1. /\ wire' = wire /\ asked' = asked /\ (link' => link)
      /\ start' \in {"idle", "connect"} => start' = start
  BY DEF WindsDown
<1>2. m' = m \/ m'.state = "closed"
  BY Types DEF WindsDown, MachineClose, Machines
<1>3. (NobodyCalls => NobodyCalls') /\ \A c \in Callers : call'[c] # "PING"
  BY OneCallLess, Types DEF WindsDown, NobodyCalls, HelloInv, AppWaits
<1>4. /\ rxq' = rxq /\ heard' = heard /\ hello' = hello
      \/ /\ rxq' = << >> /\ heard' = Len(wire) /\ hello' = FALSE /\ ~link'
  BY <1>1 DEF DeviceResets
<1>5. Len(<< >>) = 0
  OBVIOUS
<1>6. OnePing' /\ WireIsAsked' /\ (HelloSent <=> HelloSent') /\ NoDataBeforeHello'
  BY <1>1 DEF HelloInv, OnePing, WireIsAsked, HelloSent, HelloFirst, NoDataBeforeHello, Places
<1>7. NotStarted'
  BY <1>1, <1>2, <1>3, <1>4 DEF HelloInv, NotStarted
<1>8. AppWaits'
  <2>1. m'.state \in {"idle", "handshake"} => NobodyCalls' /\ \A i \in DOMAIN wire' : wire'[i].n # 0
    BY <1>1, <1>2, <1>3 DEF HelloInv, AppWaits
  <2>2. m'.state = "ready" \/ ~NobodyCalls' => HelloSent'
    BY <1>2, <1>3, <1>6 DEF HelloInv, AppWaits
  <2> QED
    BY <1>3, <2>1, <2>2 DEF AppWaits
<1>9. AwaitsPingAck'
  BY <1>1, <1>2, <1>4, <1>5, Types DEF HelloInv, AwaitsPingAck
<1>10. AwaitsHelloAck'
  BY <1>1, <1>2, <1>4, Types DEF HelloInv, AwaitsHelloAck
<1>11. CoolerWaits'
  BY <1>4, <1>6 DEF HelloInv, CoolerWaits
<1>12. ReadyMeansHello'
  BY <1>1, <1>2, <1>4 DEF HelloInv, HelloFirst, ReadyMeansHello
<1> QED
  BY <1>6, <1>7, <1>8, <1>9, <1>10, <1>11, <1>12 DEF HelloInv, HelloFirst

\* start() asks for the PING.
LEMMA HelloStartCall ==
    ASSUME Handshake = DDM1_HANDSHAKE_WITH_PING,
           Cfx3Typed, HelloInv, StartCall, UNCHANGED deviceVars
    PROVE  HelloInv'
<1>1. /\ start = "idle" /\ asked = << >> /\ rxq = << >> /\ ~hello /\ wire = << >>
      /\ NobodyCalls
  BY DEF StartCall, HelloInv, NotStarted
<1>2. /\ m'.state = "handshake" /\ m'.step = 0
      /\ asked' = << "PING" >>
  <2>1. asked' = << >> \o << "PING" >> /\ m' = MachineStart(m).machine
    BY <1>1, Types, StartsWithPing DEF StartCall, Dispatch
  <2> QED
    BY <2>1, Types, StartsWithPing
<1>3. /\ rxq' = << >> /\ hello' = hello /\ heard' = heard /\ wire' = << >>
      /\ call' = call /\ start' # "idle"
  BY <1>1 DEF deviceVars, StartCall, SpawnWriter
<1>4. NobodyCalls'
  BY <1>1, <1>3 DEF NobodyCalls
<1>5. OnePing' /\ WireIsAsked'
  BY <1>2, <1>3 DEF OnePing, WireIsAsked
<1>6. NotStarted' /\ AppWaits'
  BY <1>2, <1>3, <1>4 DEF NotStarted, AppWaits, NobodyCalls, NoCall
<1>7. AwaitsPingAck' /\ AwaitsHelloAck' /\ CoolerWaits'
  BY <1>1, <1>2, <1>3, Types DEF AwaitsPingAck, AwaitsHelloAck, CoolerWaits
<1>8. HelloFirst'
  BY <1>2, <1>3 DEF HelloFirst, NoDataBeforeHello, ReadyMeansHello, Places
<1> QED
  BY <1>5, <1>6, <1>7, <1>8 DEF HelloInv

\* A link comes up only before anything was written.
LEMMA HelloLinkUp ==
    ASSUME HelloInv, LinkUp, UNCHANGED deviceVars
    PROVE  HelloInv'
<1>1. wire = << >> /\ start' = "up" /\ UNCHANGED << m, asked, wire, call, rxq, heard, hello >>
  BY DEF LinkUp, HelloInv, NotStarted, deviceVars, historyVars
<1>2. ~HelloSent
  BY <1>1 DEF HelloSent, Places
<1>3. m'.state # "ready"
  BY <1>1, <1>2 DEF HelloInv, AppWaits
<1>4. /\ OnePing' /\ WireIsAsked' /\ AwaitsPingAck' /\ AwaitsHelloAck' /\ CoolerWaits'
      /\ NotStarted' /\ AppWaits'
  BY <1>1 DEF HelloInv, OnePing, WireIsAsked, AwaitsPingAck, AwaitsHelloAck, CoolerWaits,
              NotStarted, AppWaits, NobodyCalls, HelloSent, Places
<1>5. HelloFirst'
  BY <1>1, <1>3 DEF HelloFirst, NoDataBeforeHello, ReadyMeansHello, Places
<1> QED
  BY <1>4, <1>5 DEF HelloInv

\* A caller passes the ready check: the handshake is over.
LEMMA HelloApiCall ==
    ASSUME Cfx3Typed, HelloInv, NEW c \in Callers, NEW f \in ApiFrames, ApiCall(c, f),
           \A d \in Callers : call'[d] # "PING", UNCHANGED deviceVars
    PROVE  HelloInv'
<1>1. /\ UNCHANGED << m, asked, wire, start, link, rxq, heard, hello >>
      /\ call' = [call EXCEPT ![c] = f]
  BY DEF ApiCall, deviceVars, transportVars, historyVars
<1>2. m.state = "ready"
  <2>1. call'[c] = f
    BY <1>1, Types
  <2> QED
    BY <2>1 DEF ApiCall, Allowed
<1>3. HelloSent /\ HelloSent'
  BY <1>1, <1>2 DEF HelloInv, AppWaits, HelloSent, Places
<1>4. wire # << >>
  BY <1>3, Types DEF HelloSent, Places
<1>5. /\ OnePing' /\ WireIsAsked' /\ AwaitsPingAck' /\ AwaitsHelloAck' /\ CoolerWaits'
      /\ HelloFirst'
  BY <1>1 DEF HelloInv, OnePing, WireIsAsked, AwaitsPingAck, AwaitsHelloAck, CoolerWaits,
              HelloFirst, NoDataBeforeHello, ReadyMeansHello, HelloSent, Places
<1>6. NotStarted'
  BY <1>1, <1>2, <1>4 DEF HelloInv, NotStarted
<1>7. AppWaits'
  BY <1>1, <1>2, <1>3 DEF AppWaits
<1> QED
  BY <1>5, <1>6, <1>7 DEF HelloInv

\* The wire grows by one frame of a task that start() or HELLO let go.
LEMMA HelloTransmit ==
    ASSUME Cfx3Typed, HelloInv, UNCHANGED deviceVars,
           NEW f \in HostFrames, NEW n \in Nat, Transmit(f, n),
           UNCHANGED << m, asked, start, link >>,
           (NobodyCalls => NobodyCalls') /\ \A c \in Callers : call'[c] # "PING",
           IF n = 0 THEN f \in {"SUBSCRIBE", "WRITE"} /\ ~NobodyCalls
           ELSE n \in DOMAIN asked /\ f = asked[n] /\ start \notin {"idle", "connect"}
    PROVE  HelloInv'
<1>1. /\ UNCHANGED << rxq, heard, hello >>
      /\ m' = m /\ asked' = asked /\ start' = start /\ link' = link
  BY DEF deviceVars
<1>2. /\ Len(wire) \in Nat /\ Len(wire') = Len(wire) + 1
      /\ DOMAIN wire = 1 .. Len(wire) /\ DOMAIN wire' = 1 .. Len(wire) + 1
      /\ \A i \in DOMAIN wire : wire'[i] = wire[i]
      /\ wire'[Len(wire) + 1].frame = f /\ wire'[Len(wire) + 1].n = n
      /\ wire' \in Seq([frame : HostFrames, n : Nat])
  BY Types, TransmitAppends
<1>3. f \in {"SUBSCRIBE", "WRITE"} => n = 0 /\ HelloSent
  BY DEF HelloInv, OnePing, AppWaits
<1>4. NoDataBeforeHello' /\ (HelloSent => HelloSent')
  BY <1>3, Types, HelloStays DEF HelloInv, HelloFirst
<1>5. start \notin {"idle", "connect"}
  <2>1. CASE n = 0
    <3>1. HelloSent
      BY <1>3, <2>1
    <3>2. wire # << >>
      BY <3>1, Types DEF HelloSent, Places
    <3> QED
      BY <3>2 DEF HelloInv, NotStarted
  <2> QED
    BY <2>1
<1>6. OnePing' /\ NotStarted'
  BY <1>1, <1>5 DEF HelloInv, OnePing, NotStarted
<1>7. WireIsAsked'
  BY <1>1, <1>2 DEF HelloInv, WireIsAsked
<1>8. AppWaits'
  <2>1. ASSUME m.state \in {"idle", "handshake"}
        PROVE  NobodyCalls' /\ \A i \in DOMAIN wire' : wire'[i].n # 0
    BY <1>2, <2>1 DEF HelloInv, AppWaits
  <2> QED
    BY <1>1, <1>4, <2>1 DEF HelloInv, AppWaits
<1>9. AwaitsPingAck'
  BY <1>1 DEF HelloInv, AwaitsPingAck
<1>10. AwaitsHelloAck'
  <2>1. wire # << >> => 1 \in DOMAIN wire /\ wire'[1] = wire[1] /\ wire' # << >>
    BY <1>2, Types, SMTT(30)
  <2> QED
    BY <1>1, <2>1 DEF HelloInv, AwaitsHelloAck
<1>11. CoolerWaits' /\ ReadyMeansHello'
  BY <1>1, <1>4 DEF HelloInv, CoolerWaits, HelloFirst, ReadyMeansHello
<1> QED
  BY <1>4, <1>6, <1>7, <1>8, <1>9, <1>10, <1>11 DEF HelloInv, HelloFirst

\* Together: a step of the host.
LEMMA HelloHost ==
    ASSUME Handshake = DDM1_HANDSHAKE_WITH_PING, ~Nudges, Cfx3Typed, HelloInv, HostStep
    PROVE  HelloInv'
<1>1. TypeInv
  BY DEF Cfx3Typed
<1>2. \A c \in Callers : call'[c] # "PING"
  BY DEF HostStep
<1>3. UNCHANGED deviceVars \/ (DeviceResets /\ ~link' /\ link' # link)
  BY Types DEF HostStep, deviceVars
<1>4. CASE WindsDown
  BY <1>3, <1>4, HelloWindsDown
<1>5. CASE StartCall
  <2>1. link' = link
    BY <1>5 DEF StartCall
  <2> QED
    BY <1>3, <1>5, <2>1, HelloStartCall
<1>6. CASE LinkUp
  <2>1. link'
    BY <1>6 DEF LinkUp
  <2> QED
    BY <1>3, <1>6, <2>1, HelloLinkUp
<1>7. CASE MachineWrite
  <2>1. writer.item \in DOMAIN asked /\ asked[writer.item] \in HostFrames /\ writer.item \in Nat \ {0}
    BY <1>1, <1>7, WrittenFrames DEF MachineWrite, TypeInv, TypeOK
  <2>2. start \notin {"idle", "connect"}
    BY <1>7 DEF MachineWrite, Cfx3Typed, OrderInv
  <2>3. UNCHANGED deviceVars /\ (NobodyCalls => NobodyCalls')
    BY <1>3, <1>7 DEF MachineWrite, NobodyCalls
  <2>4. /\ UNCHANGED << m, asked, start, link >>
        /\ Transmit(asked[writer.item], writer.item)
    BY <1>7 DEF MachineWrite
  <2> QED
    BY <1>2, <2>1, <2>2, <2>3, <2>4, HelloTransmit
<1>8. ASSUME NEW c \in Callers, AppWrite(c)
      PROVE  HelloInv'
  <2>1. call[c] \in ApiFrames /\ call[c] \in HostFrames /\ call[c] # NoCall
    BY <1>1, <1>8, WrittenFrames DEF AppWrite
  <2>2. call[c] \in {"SUBSCRIBE", "WRITE"} /\ ~NobodyCalls
    BY <2>1 DEF ApiFrames, HelloInv, AppWaits, NobodyCalls
  <2>3. NobodyCalls => NobodyCalls'
    BY <2>2
  <2>4. UNCHANGED << m, asked, start, link >> /\ Transmit(call[c], 0)
    BY <1>8 DEF AppWrite
  <2>5. UNCHANGED deviceVars
    BY <1>3, <2>4
  <2> QED
    BY <1>2, <2>1, <2>2, <2>3, <2>4, <2>5, HelloTransmit
<1>9. ASSUME NEW c \in Callers, NEW f \in ApiFrames, ApiCall(c, f)
      PROVE  HelloInv'
  <2>1. link' = link
    BY <1>9 DEF ApiCall, transportVars
  <2>2. UNCHANGED deviceVars
    BY <1>3, <2>1
  <2> QED
    BY <1>2, <1>9, <2>2, HelloApiCall
<1> QED
  BY <1>1, <1>4, <1>5, <1>6, <1>7, <1>8, <1>9, HostCases DEF HostStep

\* In the first step of the handshake an answer is on its way only if the PING
\* was heard, and then nothing else was written or is on its way.
LEMMA OneAnswer ==
    ASSUME Cfx3Typed, HelloInv, m.state = "handshake", m.step = 0, rxq # << >>
    PROVE  /\ heard = 1 /\ wire # << >> /\ wire[1].n = 1
           /\ Tail(rxq) = << >>
<1>1. asked = << "PING" >> /\ Len(rxq) <= heard
  BY DEF HelloInv, AwaitsPingAck
<1>2. DOMAIN asked = {1}
  BY <1>1
<1>3. \A i \in DOMAIN wire : wire[i].n = 1
  BY <1>2 DEF HelloInv, AppWaits, WireIsAsked
<1>4. Len(rxq) >= 1
  BY Types
<1>5. Len(wire) = 1
  <2>1. ASSUME Len(wire) >= 2
        PROVE  FALSE
    <3>1. 1 \in DOMAIN wire /\ 2 \in DOMAIN wire
      BY <2>1, Types
    <3>2. wire[1].n < wire[2].n
      <4>1. wire[1].n # 0 /\ wire[2].n # 0
        BY <1>3, <3>1
      <4>2. WireInOrder
        BY DEF Cfx3Typed, OrderInv
      <4> QED
        BY <3>1, <4>1, <4>2 DEF WireInOrder
    <3> QED
      BY <1>3, <3>1, <3>2
  <2> QED
    BY <1>1, <1>4, <2>1, Types
<1>6. heard = 1 /\ Len(rxq) = 1
  BY <1>1, <1>4, <1>5, Types
<1>7. Tail(rxq) = << >>
  <2>1. rxq \in Seq(DeviceFrames) /\ Tail(rxq) \in Seq(DeviceFrames)
    BY Types
  <2>2. Len(Tail(rxq)) = 0
    BY <1>6, <2>1
  <2> QED
    BY <2>1, <2>2, EmptySeq
<1> QED
  BY <1>3, <1>5, <1>6, <1>7, Types

\* The frames the machine asks for on its way keep their description.
LEMMA AskedGrows ==
    ASSUME asked \in Seq(HostFrames), OnePing, WireIsAsked, wire' = wire,
           NEW s, asked' = asked \o s, s = << >> \/ s = << "ACK" >> \/ s = << "HELLO" >>,
           s = << "HELLO" >> => asked # << >>
    PROVE  OnePing' /\ WireIsAsked'
<1>1. CASE s = << >>
  <2>1. asked' = asked
    BY <1>1
  <2> QED
    BY <2>1 DEF OnePing, WireIsAsked
<1>2. CASE s = << "ACK" >> \/ s = << "HELLO" >>
  <2>1. /\ DOMAIN asked = 1 .. Len(asked) /\ DOMAIN asked' = 1 .. Len(asked) + 1
        /\ Len(asked) \in Nat
        /\ \A i \in DOMAIN asked : asked'[i] = asked[i]
        /\ asked'[Len(asked) + 1] \in {"ACK", "HELLO"}
    <3>1. PICK x \in {"ACK", "HELLO"} : asked' = asked \o << x >>
      BY <1>2
    <3>2. x \in HostFrames
      BY DEF HostFrames
    <3>3. asked' = Append(asked, x)
      BY <3>1, <3>2
    <3> QED
      BY <3>3
  <2>2. OnePing'
    BY <2>1 DEF OnePing
  <2>3. WireIsAsked'
    BY <2>1 DEF WireIsAsked
  <2> QED
    BY <2>2, <2>3
<1> QED
  BY <1>1, <1>2

\* A notification reaches the host, or a host that no longer listens.
LEMMA HelloDeliver ==
    ASSUME Handshake = DDM1_HANDSHAKE_WITH_PING, Cfx3Typed, HelloInv, Deliver
    PROVE  HelloInv'
<1>1. /\ rxq # << >> /\ rxq' = Tail(rxq) /\ UNCHANGED << heard, hello >>
      /\ UNCHANGED << wire, start, call, link >>
  BY DEF Deliver, Notify, vars, transportVars, taskVars
<1>2. /\ Len(rxq) >= 1 /\ Len(rxq') = Len(rxq) - 1
      /\ \A i \in DOMAIN rxq' : i + 1 \in DOMAIN rxq /\ rxq'[i] = rxq[i + 1]
      /\ 1 \in DOMAIN rxq /\ Head(rxq) = rxq[1]
  BY <1>1, Types
<1>3. start # "idle"
  BY <1>1 DEF HelloInv, NotStarted
<1>4. CoolerWaits'
  BY <1>1, <1>2 DEF HelloInv, CoolerWaits, HelloSent, Places
<1>5. (HelloSent <=> HelloSent') /\ NoDataBeforeHello' /\ (NobodyCalls <=> NobodyCalls')
  BY <1>1 DEF HelloSent, HelloInv, HelloFirst, NoDataBeforeHello, Places, NobodyCalls
<1>6. NotStarted'
  BY <1>1, <1>3 DEF HelloInv, NotStarted
<1>7. Head(rxq) # Control("ACK") => hello
  BY <1>2 DEF HelloInv, CoolerWaits
<1>8. CASE ~armed
  <2>1. m' = m /\ asked' = asked
    BY <1>8 DEF Deliver, vars, historyVars
  <2>2. AwaitsPingAck'
    BY <1>1, <1>2, <2>1, Types DEF HelloInv, AwaitsPingAck
  <2>3. AwaitsHelloAck'
    BY <1>1, <2>1 DEF HelloInv, AwaitsHelloAck
  <2>4. AppWaits'
    BY <1>1, <1>5, <2>1 DEF HelloInv, AppWaits
  <2> QED
    BY <1>1, <1>4, <1>5, <1>6, <2>1, <2>2, <2>3, <2>4
    DEF HelloInv, OnePing, WireIsAsked, HelloFirst, ReadyMeansHello
<1>9. CASE armed
  <2> DEFINE f == Head(rxq)
  <2>1. f \in DeviceFrames
    BY <1>1, Types
  <2>a. PICK o \in Handled(f) : Dispatch(o)
    BY <1>9 DEF Deliver, Notify
  <2>2. m' = o.machine /\ asked' = asked \o o.sends
    BY <2>a DEF Dispatch
  <2>3. ReceivePhases(m, f, o)
    BY <2>1, HandledCases, Types DEF Cfx3Typed, TypeInv
  <2> HIDE DEF f
  <2>f. f = Head(rxq)
    BY DEF f
  <2>4. CASE /\ m.state = "handshake" /\ m.step = 0
             /\ o.machine.state = "handshake" /\ o.machine.step = 1
             /\ o.sends = << "HELLO" >>
    <3>1. heard = 1 /\ wire # << >> /\ wire[1].n = 1 /\ rxq' = << >>
      BY <1>1, <2>4, OneAnswer
    <3>2. asked # << >>
      BY <2>4 DEF HelloInv, AwaitsPingAck
    <3>3. OnePing' /\ WireIsAsked'
      BY <1>1, <2>2, <2>4, <3>2, AskedGrows, Types DEF HelloInv
    <3>4. AwaitsPingAck' /\ AwaitsHelloAck'
      BY <1>1, <2>2, <2>4, <3>1 DEF AwaitsPingAck, AwaitsHelloAck
    <3>5. AppWaits' /\ ReadyMeansHello'
      BY <1>1, <1>5, <2>2, <2>4 DEF HelloInv, AppWaits, ReadyMeansHello
    <3> QED
      BY <1>4, <1>5, <1>6, <3>3, <3>4, <3>5 DEF HelloInv, HelloFirst
  <2>5. CASE /\ m.state = "handshake" /\ m.step = 1
             /\ o.machine.state = "ready"
             /\ o.sends = << >>
    <3>1. hello /\ HelloSent
      BY <1>1, <2>5 DEF HelloInv, AwaitsHelloAck, CoolerWaits
    <3>2. OnePing' /\ WireIsAsked'
      BY <1>1, <2>2, <2>5, AskedGrows, Types DEF HelloInv
    <3>3. AwaitsPingAck' /\ AwaitsHelloAck'
      BY <2>2, <2>5 DEF AwaitsPingAck, AwaitsHelloAck
    <3>4. AppWaits' /\ ReadyMeansHello'
      BY <1>1, <1>5, <2>2, <2>5, <3>1 DEF HelloInv, AppWaits, ReadyMeansHello
    <3> QED
      BY <1>4, <1>5, <1>6, <3>2, <3>3, <3>4 DEF HelloInv, HelloFirst
  <2>6. CASE /\ o.machine.state = m.state /\ o.machine.step = m.step
             /\ o.sends = << >> \/ (o.sends = << "ACK" >> /\ f # Control("ACK"))
    <3>1. OnePing' /\ WireIsAsked'
      BY <1>1, <2>2, <2>6, AskedGrows, Types DEF HelloInv
    <3>2. AwaitsPingAck'
      <4> SUFFICES ASSUME m.state = "handshake", m.step = 0
                   PROVE  asked' = << "PING" >> /\ Len(rxq') <= heard' /\ ~hello'
        BY <2>2, <2>6 DEF AwaitsPingAck
      <4>1. asked = << "PING" >> /\ Len(rxq) <= heard /\ ~hello
        BY DEF HelloInv, AwaitsPingAck
      <4>2. o.sends = << >>
        BY <1>7, <2>6, <2>f, <4>1
      <4> QED
        BY <1>1, <1>2, <2>2, <4>1, <4>2, Types
    <3>3. AwaitsHelloAck'
      BY <1>1, <2>2, <2>6 DEF HelloInv, AwaitsHelloAck
    <3>4. AppWaits' /\ ReadyMeansHello'
      BY <1>1, <1>5, <2>2, <2>6 DEF HelloInv, AppWaits, HelloFirst, ReadyMeansHello
    <3> QED
      BY <1>4, <1>5, <1>6, <3>1, <3>2, <3>3, <3>4 DEF HelloInv, HelloFirst
  <2> QED
    BY <2>3, <2>4, <2>5, <2>6 DEF ReceivePhases
<1> QED
  BY <1>8, <1>9

\* The cooler hears a frame, PINGs or publishes: the host is left alone.
LEMMA HelloCooler ==
    ASSUME Cfx3Typed, HelloInv,
           UNCHANGED << m, asked, wire, start, call, link >>,
           heard' \in Nat, hello' \in BOOLEAN,
           AwaitsPingAck', AwaitsHelloAck', CoolerWaits',
           hello => hello', start = "idle" => rxq' = << >> /\ ~hello'
    PROVE  HelloInv'
<1>1. /\ OnePing' /\ WireIsAsked' /\ (HelloSent <=> HelloSent') /\ NoDataBeforeHello'
      /\ (NobodyCalls <=> NobodyCalls')
  BY DEF HelloInv, OnePing, WireIsAsked, HelloSent, HelloFirst, NoDataBeforeHello, Places,
         NobodyCalls
<1>2. NotStarted' /\ AppWaits' /\ ReadyMeansHello'
  BY <1>1 DEF HelloInv, NotStarted, AppWaits, HelloFirst, ReadyMeansHello
<1> QED
  BY <1>1, <1>2 DEF HelloInv, HelloFirst

LEMMA HelloHeard ==
    ASSUME Cfx3Typed, HelloInv, DeviceHears
    PROVE  HelloInv'
<1> DEFINE e == wire[heard + 1]
<1>1. /\ UNCHANGED << m, asked, wire, start, call, link >>
      /\ heard + 1 \in DOMAIN wire /\ heard' = heard + 1 /\ heard \in Nat
  BY Types DEF DeviceHears, vars, transportVars, taskVars, historyVars
<1>2. /\ rxq' = IF e.frame = "ACK" THEN rxq ELSE Append(rxq, Control("ACK"))
      /\ hello' = (hello \/ e.frame = "HELLO")
  BY DEF DeviceHears, Emit
<1> HIDE DEF e
<1>e. e = wire[heard + 1]
  BY DEF e
<1>3. (hello => hello') /\ (~hello' => ~hello /\ e.frame # "HELLO") /\ hello' \in BOOLEAN
  BY <1>2, Types
<1>4. rxq' = rxq \/ rxq' = Append(rxq, Control("ACK"))
  BY <1>2
<1>5. start # "idle"
  BY <1>1, Types DEF HelloInv, NotStarted
<1>7. AwaitsPingAck'
  <2> SUFFICES ASSUME m.state = "handshake", m.step = 0
               PROVE  asked' = << "PING" >> /\ Len(rxq') <= heard' /\ ~hello'
    BY <1>1 DEF AwaitsPingAck
  <2>1. asked = << "PING" >> /\ Len(rxq) <= heard /\ ~hello
    BY DEF HelloInv, AwaitsPingAck
  <2>2. e.frame = "PING"
    <3>1. e.n # 0
      BY <1>1, <1>e DEF HelloInv, AppWaits
    <3>2. e.n \in DOMAIN asked /\ e.frame = asked[e.n]
      BY <1>1, <1>e, <3>1 DEF HelloInv, WireIsAsked
    <3> QED
      BY <2>1, <3>2
  <2>3. Len(rxq') <= heard'
    BY <1>1, <1>4, <2>1, Types
  <2> QED
    BY <1>1, <1>2, <2>1, <2>2, <2>3
<1>8. AwaitsHelloAck'
  <2> SUFFICES ASSUME m.state = "handshake", m.step = 1
               PROVE  /\ wire' # << >> /\ wire'[1].n = 1 /\ heard' >= 1
                      /\ ~hello' => rxq' = << >>
    BY <1>1 DEF AwaitsHelloAck
  <2>1. wire # << >> /\ wire[1].n = 1 /\ heard >= 1 /\ (~hello => rxq = << >>)
    BY DEF HelloInv, AwaitsHelloAck
  <2>2. ~hello' => e.frame = "ACK"
    <3>1. e.n # 0
      BY <1>1, <1>e DEF HelloInv, AppWaits
    <3>2. e.n \in DOMAIN asked /\ e.frame = asked[e.n]
      BY <1>1, <1>e, <3>1 DEF HelloInv, WireIsAsked
    <3>3. e.n > 1
      <4>1. WireInOrder
        BY DEF Cfx3Typed, OrderInv
      <4>2. 1 \in DOMAIN wire /\ 1 < heard + 1
        BY <1>1, <2>1, Types
      <4> QED
        BY <1>1, <1>e, <2>1, <3>1, <4>1, <4>2 DEF WireInOrder
    <3>4. e.frame \in {"PING", "HELLO", "ACK"} /\ e.frame # "PING"
      BY <3>2, <3>3 DEF HelloInv, OnePing
    <3> QED
      BY <1>3, <3>4
  <2> QED
    BY <1>1, <1>2, <1>3, <2>1, <2>2
<1>9. CoolerWaits'
  <2>1. ~hello' => \A i \in DOMAIN rxq' : rxq'[i] = Control("ACK")
    <3>1. ~hello => \A i \in DOMAIN rxq : rxq[i] = Control("ACK")
      BY DEF HelloInv, CoolerWaits
    <3>2. \A i \in DOMAIN rxq' : (i \in DOMAIN rxq /\ rxq'[i] = rxq[i]) \/ rxq'[i] = Control("ACK")
      <4>1. CASE rxq' = rxq
        BY <4>1
      <4>2. CASE rxq' = Append(rxq, Control("ACK"))
        <5>1. rxq \in Seq(DeviceFrames)
          BY Types
        <5> QED
          BY <4>2, <5>1
      <4> QED
        BY <1>4, <4>1, <4>2
    <3> QED
      BY <1>3, <3>1, <3>2
  <2>2. HelloSent => HelloSent'
    BY <1>1 DEF HelloSent, Places
  <2>3. hello' => HelloSent
    BY <1>1, <1>2, <1>e DEF HelloInv, CoolerWaits, HelloSent, Places
  <2> QED
    BY <2>1, <2>2, <2>3 DEF CoolerWaits
<1>10. heard' \in Nat
  BY <1>1
<1> QED
  BY <1>1, <1>3, <1>5, <1>7, <1>8, <1>9, <1>10, HelloCooler

LEMMA HelloSpoken ==
    ASSUME Cfx3Typed, HelloInv, DevicePings \/ DevicePublishes
    PROVE  HelloInv'
<1>1. /\ UNCHANGED << m, asked, wire, start, call, link >>
      /\ hello /\ hello' = hello /\ heard' = heard
  BY DEF DevicePings, DevicePublishes, vars, transportVars, taskVars, historyVars
<1>2. start # "idle"
  BY <1>1 DEF HelloInv, NotStarted
<1>3. AwaitsPingAck' /\ AwaitsHelloAck'
  BY <1>1 DEF HelloInv, AwaitsPingAck, AwaitsHelloAck
<1>4. CoolerWaits'
  BY <1>1 DEF HelloInv, CoolerWaits, HelloSent, Places
<1> QED
  BY <1>1, <1>2, <1>3, <1>4, Types, HelloCooler

\* Nobody speaks before HELLO: no SUBSCRIBE or write is on the wire without a
\* HELLO before it, and a session that is ready has a cooler that got HELLO.
\* With the PING-first handshake and without ping() from outside; an API PING
\* is ACKed like the first one, and that ACK would be taken for HELLO's.
THEOREM NobodySpeaksBeforeHello ==
    ASSUME Handshake = DDM1_HANDSHAKE_WITH_PING, ~Nudges
    PROVE  Cfx3Spec => []HelloFirst
<1>1. Cfx3Init => HelloInv
  <2> SUFFICES ASSUME Cfx3Init PROVE HelloInv
    OBVIOUS
  <2>1. /\ asked = << >> /\ wire = << >> /\ rxq = << >> /\ hello = FALSE
        /\ NobodyCalls /\ m.state = "idle"
    BY DEF Cfx3Init, Init, NobodyCalls, NewMachine
  <2>2. OnePing /\ WireIsAsked /\ NotStarted /\ AppWaits
    BY <2>1 DEF OnePing, WireIsAsked, NotStarted, AppWaits, NobodyCalls, NoCall
  <2>3. AwaitsPingAck /\ AwaitsHelloAck /\ CoolerWaits /\ HelloFirst
    BY <2>1 DEF AwaitsPingAck, AwaitsHelloAck, CoolerWaits, HelloFirst, NoDataBeforeHello,
                ReadyMeansHello, Places
  <2> QED
    BY <2>2, <2>3 DEF HelloInv
<1>2. Cfx3Typed /\ HelloInv /\ [Cfx3Next]_cfx3Vars => HelloInv'
  <2> SUFFICES ASSUME Cfx3Typed, HelloInv, [Cfx3Next]_cfx3Vars PROVE HelloInv'
    OBVIOUS
  <2>1. CASE UNCHANGED cfx3Vars
    <3>1. UNCHANGED << m, asked, wire, start, call, link, rxq, heard, hello >>
      BY <2>1 DEF cfx3Vars, vars, deviceVars, transportVars, taskVars, historyVars
    <3>2. AwaitsPingAck' /\ AwaitsHelloAck' /\ CoolerWaits'
      BY <3>1 DEF HelloInv, AwaitsPingAck, AwaitsHelloAck, CoolerWaits, HelloSent, Places
    <3> QED
      BY <3>1, <3>2, Types, HelloCooler DEF HelloInv, NotStarted
  <2> QED
    BY <2>1, HelloHost, HelloDeliver, HelloHeard, HelloSpoken DEF Cfx3Next
<1>3. HelloInv => HelloFirst
  BY DEF HelloInv
<1>4. Cfx3Spec => []Cfx3Typed
  BY Cfx3Inductive, PTL DEF Cfx3Typed
<1> QED
  BY <1>1, <1>2, <1>3, <1>4, PTL DEF Cfx3Spec

(***************************************************************************)
(* AcksAreEarned: what the host has asked the writer to ACK and what it is  *)
(* still to ACK is at most what the cooler sent.                            *)
(***************************************************************************)
Hits(s, T) == {i \in DOMAIN s : s[i] \in T}
Earning == {f \in DeviceFrames : f.action \in {"PING", "PUBLISH"}}

AckDebt ==
    Cardinality(Hits(asked, {"ACK"})) + Cardinality(Hits(rxq, Earning)) <= pings + publishes

WireAcksAsked ==
    \A i \in Places("ACK") : wire[i].n \in Hits(asked, {"ACK"})

\* None of the four configurations has ACK among what its handshake sends.
HandshakeNeverAcks ==
    /\ \A i \in DOMAIN Handshake.initial : Handshake.initial[i] # "ACK"
    /\ \A i \in DOMAIN Handshake.steps : Handshake.steps[i].send # "ACK"

LEMMA NoHandshakeAcks ==
    ASSUME Handshake \in {DDM1_HANDSHAKE, DDM1_HANDSHAKE_WITH_PING,
                          DDM2_HANDSHAKE_NONE, DDM2_HANDSHAKE_LIKE_DDM1}
    PROVE  HandshakeNeverAcks
<1>1. Handshake.steps = HelloSteps \/ Handshake.steps = << >>
  BY DEF DDM1_HANDSHAKE, DDM1_HANDSHAKE_WITH_PING, DDM2_HANDSHAKE_NONE, DDM2_HANDSHAKE_LIKE_DDM1
<1>2. Handshake.initial = << "PING" >> \/ Handshake.initial = << >>
  BY DEF DDM1_HANDSHAKE, DDM1_HANDSHAKE_WITH_PING, DDM2_HANDSHAKE_NONE, DDM2_HANDSHAKE_LIKE_DDM1
<1> QED
  BY <1>1, <1>2 DEF HandshakeNeverAcks, HelloSteps, NoFrame

(***************************************************************************)
(* Counting the places of a sequence that hold certain elements.           *)
(***************************************************************************)

LEMMA HitsFinite ==
    ASSUME NEW S, NEW s \in Seq(S), NEW T
    PROVE  IsFiniteSet(Hits(s, T)) /\ Cardinality(Hits(s, T)) \in Nat
<1>1. Hits(s, T) \in SUBSET (1 .. Len(s)) /\ Len(s) \in Nat
  BY DEF Hits
<1>2. IsFiniteSet(1 .. Len(s))
  BY <1>1, FS_Interval
<1>3. IsFiniteSet(Hits(s, T))
  BY <1>1, <1>2, FS_Subset
<1> QED
  BY <1>3, FS_CardinalityType

LEMMA HitsAppend ==
    ASSUME NEW S, NEW s \in Seq(S), NEW x \in S, NEW T
    PROVE  Cardinality(Hits(Append(s, x), T)) =
               Cardinality(Hits(s, T)) + IF x \in T THEN 1 ELSE 0
<1>1. /\ DOMAIN s = 1 .. Len(s) /\ Len(s) \in Nat
      /\ DOMAIN Append(s, x) = 1 .. Len(s) + 1
      /\ \A i \in 1 .. Len(s) : Append(s, x)[i] = s[i]
      /\ Append(s, x)[Len(s) + 1] = x
  OBVIOUS
<1>2. CASE x \in T
  <2>1. Hits(Append(s, x), T) = Hits(s, T) \cup {Len(s) + 1}
    BY <1>1, <1>2 DEF Hits
  <2>2. Len(s) + 1 \notin Hits(s, T)
    BY <1>1 DEF Hits
  <2> QED
    BY <1>2, <2>1, <2>2, HitsFinite, FS_AddElement
<1>3. CASE x \notin T
  <2>1. Hits(Append(s, x), T) = Hits(s, T)
    BY <1>1, <1>3 DEF Hits
  <2> QED
    BY <1>3, <2>1, HitsFinite
<1> QED
  BY <1>2, <1>3

\* Of the first element no place remains.
LEMMA HitsTail ==
    ASSUME NEW S, NEW s \in Seq(S), s # << >>, NEW T
    PROVE  Cardinality(Hits(Tail(s), T)) + (IF Head(s) \in T THEN 1 ELSE 0)
               <= Cardinality(Hits(s, T))
<1> DEFINE A == Hits(Tail(s), T)
           B == Hits(s, T) \ {1}
           next == [i \in A |-> i + 1]
<1>1. /\ Len(s) \in Nat \ {0} /\ DOMAIN s = 1 .. Len(s)
      /\ DOMAIN Tail(s) = 1 .. Len(s) - 1
      /\ \A i \in 1 .. Len(s) - 1 : Tail(s)[i] = s[i + 1]
      /\ Head(s) = s[1]
  OBVIOUS
<1>2. IsFiniteSet(A) /\ Cardinality(A) \in Nat
  <2>1. Tail(s) \in Seq(S)
    OBVIOUS
  <2> QED
    BY <2>1, HitsFinite
<1>3. /\ IsFiniteSet(Hits(s, T)) /\ Cardinality(Hits(s, T)) \in Nat
      /\ IsFiniteSet(B) /\ Cardinality(B) \in Nat
      /\ Cardinality(B) = Cardinality(Hits(s, T)) - (IF Head(s) \in T THEN 1 ELSE 0)
  <2>1. 1 \in Hits(s, T) <=> Head(s) \in T
    BY <1>1 DEF Hits
  <2>2. IsFiniteSet(Hits(s, T)) /\ Cardinality(Hits(s, T)) \in Nat
    BY HitsFinite
  <2>3. /\ IsFiniteSet(B)
        /\ Cardinality(B) = IF 1 \in Hits(s, T) THEN Cardinality(Hits(s, T)) - 1
                            ELSE Cardinality(Hits(s, T))
    BY <2>2, FS_RemoveElement
  <2>4. Cardinality(B) \in Nat
    BY <2>3, FS_CardinalityType
  <2> QED
    BY <2>1, <2>2, <2>3, <2>4
<1>4. Cardinality(A) <= Cardinality(B)
  <2>1. next \in [A -> B]
    BY <1>1 DEF Hits
  <2>2. \A i, j \in A : next[i] = next[j] => i = j
    BY <1>1 DEF Hits
  <2>3. ~(Cardinality(B) < Cardinality(A))
    <3> HIDE DEF A, B, next
    <3> QED
      BY <1>2, <1>3, <2>1, <2>2, FS_PigeonHole
  <2> QED
    BY <1>2, <1>3, <2>3
<1> QED
  BY <1>2, <1>3, <1>4

\* What has no hits adds none.
LEMMA HitsConcat ==
    ASSUME NEW S, NEW s \in Seq(S), NEW u \in Seq(S), NEW T, \A i \in DOMAIN u : u[i] \notin T
    PROVE  Hits(s \o u, T) = Hits(s, T)
<1>1. /\ Len(s) \in Nat /\ Len(u) \in Nat
      /\ DOMAIN s = 1 .. Len(s) /\ DOMAIN u = 1 .. Len(u)
      /\ DOMAIN (s \o u) = 1 .. Len(s) + Len(u)
      /\ \A i \in 1 .. Len(s) : (s \o u)[i] = s[i]
      /\ \A i \in Len(s) + 1 .. Len(s) + Len(u) :
             (s \o u)[i] = u[i - Len(s)] /\ i - Len(s) \in 1 .. Len(u)
  OBVIOUS
<1> QED
  BY <1>1 DEF Hits

(***************************************************************************)
(* Every ACK is owed to a PING or a PUBLISH.                               *)
(***************************************************************************)

\* The machine answers with an ACK only what earns one.
LEMMA ReceiveAcks ==
    ASSUME HandshakeNeverAcks, NEW mc \in Machines, StepInBounds(mc), NEW f \in DeviceFrames
    PROVE  \/ Receive(mc, f).sends = << >>
           \/ \E x \in HostFrames : Receive(mc, f).sends = << x >> /\ (x = "ACK" => f \in Earning)
<1> DEFINE counted == [mc EXCEPT !.received = @ + 1]
           Owed(o) == \/ o.sends = << >>
                      \/ \E x \in HostFrames : o.sends = << x >> /\ (x = "ACK" => f \in Earning)
<1>1. counted \in Machines /\ counted.state = mc.state /\ counted.step = mc.step
  BY DEF Machines
<1>2. "ACK" \in HostFrames
  BY DEF HostFrames
<1> HIDE DEF counted
<1>3. Owed(Reject(counted))
  BY DEF Reject, Outcome
<1>4. f.action = "PUBLISH" => Owed(OnPublish(counted, f))
  BY <1>2 DEF OnPublish, Outcome, Earning
<1>5. Owed(OnControl(counted, f))
  <2>1. CASE counted.state = "handshake" /\ f.action = Handshake.steps[counted.step + 1].expect
    <3> DEFINE send == Handshake.steps[counted.step + 1].send
    <3>1. OnControl(counted, f).sends = OptionalFrame(send)
      BY <2>1 DEF OnControl, AdvanceHandshake, Outcome
    <3>2. counted.step + 1 \in DOMAIN Handshake.steps
      BY <1>1, <2>1, HandshakeAssumption DEF StepInBounds, Machines
    <3>3. send # "ACK"
      BY <3>2 DEF HandshakeNeverAcks
    <3>4. send \in HostFrames \cup {NoFrame}
      <4>1. \A s \in Seq(HandshakeSteps) : \A i \in DOMAIN s : s[i] \in HandshakeSteps
        OBVIOUS
      <4>2. Handshake.steps[counted.step + 1] \in HandshakeSteps
        BY <3>2, <4>1, HandshakeAssumption
      <4> QED
        BY <4>2 DEF HandshakeSteps
    <3> HIDE DEF send
    <3> QED
      BY <3>1, <3>3, <3>4 DEF OptionalFrame
  <2>2. CASE ~(counted.state = "handshake" /\ f.action = Handshake.steps[counted.step + 1].expect)
    <3> DEFINE sends == IF counted.state = "ready" /\ Handshake.ack_pings /\ f.action = "PING"
                        THEN << "ACK" >> ELSE << >>
    <3>1. OnControl(counted, f).sends = sends
      BY <2>2 DEF OnControl, Outcome
    <3> QED
      BY <1>2, <3>1 DEF Earning
  <2> QED
    BY <2>1, <2>2
<1>6. Receive(mc, f) \in {Reject(counted), OnControl(counted, f)}
          \/ (f.action = "PUBLISH" /\ Receive(mc, f) = OnPublish(counted, f))
  BY DEF Receive, counted
<1>7. Owed(Receive(mc, f))
  BY <1>3, <1>4, <1>5, <1>6
<1> QED
  BY <1>7

\* The counts are numbers.
LEMMA CountsTyped ==
    ASSUME Cfx3Typed
    PROVE  /\ Cardinality(Hits(asked, {"ACK"})) \in Nat
           /\ Cardinality(Hits(rxq, Earning)) \in Nat
           /\ pings \in Nat /\ publishes \in Nat
<1>1. pings \in Nat /\ publishes \in Nat
  BY DEF Cfx3Typed, DeviceTypeOK
<1> QED
  BY <1>1, Types, HitsFinite

\* What is on the wire stays asked for while asked only grows.
LEMMA WireAcksKept ==
    ASSUME WireAcksAsked, wire' = wire, Hits(asked, {"ACK"}) \subseteq Hits(asked', {"ACK"})
    PROVE  WireAcksAsked'
BY DEF WireAcksAsked, Places

\* A step of the host asks for no ACK and writes only what was asked for.
LEMMA EarnedHost ==
    ASSUME HandshakeNeverAcks, Cfx3Typed, AckDebt, WireAcksAsked, HostStep
    PROVE  AckDebt' /\ WireAcksAsked'
<1>1. TypeInv
  BY DEF Cfx3Typed
<1>2. /\ rxq' = rxq \/ rxq' = << >>
      /\ pings' = pings /\ publishes' = publishes
  BY DEF HostStep, DeviceResets, deviceVars
<1>3. Hits(asked', {"ACK"}) = Hits(asked, {"ACK"})
  <2>1. CASE StartCall
    <3>1. asked' = asked \o Handshake.initial
      BY <2>1 DEF StartCall, Dispatch, MachineStart, Outcome
    <3>2. Handshake.initial \in Seq(HostFrames) /\ asked \in Seq(HostFrames)
      BY HandshakeAssumption, Types
    <3>3. \A i \in DOMAIN Handshake.initial : Handshake.initial[i] \notin {"ACK"}
      BY DEF HandshakeNeverAcks
    <3>4. Hits(asked \o Handshake.initial, {"ACK"}) = Hits(asked, {"ACK"})
      BY <3>2, <3>3, HitsConcat
    <3> QED
      BY <3>1, <3>4
  <2>2. ASSUME asked' = asked
        PROVE  Hits(asked', {"ACK"}) = Hits(asked, {"ACK"})
    BY <2>2
  <2>3. StartCall \/ asked' = asked
    BY <1>1, HostCases
    DEF HostStep, LinkUp, MachineWrite, WindsDown, AppWrite, ApiCall, historyVars
  <2> QED
    BY <2>1, <2>2, <2>3
<1>4. AckDebt'
  <2>1. CASE rxq' = rxq
    BY <1>2, <1>3, <2>1 DEF AckDebt
  <2>2. CASE rxq' = << >>
    <3>1. Hits(rxq', Earning) = {}
      BY <2>2 DEF Hits
    <3>2. Cardinality(Hits(rxq', Earning)) = 0
      BY <3>1, FS_EmptySet
    <3>3. Earning' = Earning
      BY DEF Earning
    <3> QED
      BY <1>2, <1>3, <3>2, <3>3, CountsTyped DEF AckDebt
  <2> QED
    BY <1>2, <2>1, <2>2
<1>5. WireAcksAsked'
  <2>1. CASE wire' = wire
    BY <1>3, <2>1, WireAcksKept
  <2>2. ASSUME NEW f \in HostFrames, NEW n \in Nat, Transmit(f, n),
               f = "ACK" => n \in Hits(asked, {"ACK"})
        PROVE  WireAcksAsked'
    <3>1. /\ DOMAIN wire = 1 .. Len(wire) /\ DOMAIN wire' = 1 .. Len(wire) + 1
          /\ \A i \in DOMAIN wire : wire'[i] = wire[i]
          /\ wire'[Len(wire) + 1].frame = f /\ wire'[Len(wire) + 1].n = n
          /\ Len(wire) \in Nat
      BY <2>2, Types, TransmitAppends
    <3> QED
      BY <1>3, <2>2, <3>1 DEF WireAcksAsked, Places
  <2>3. CASE MachineWrite
    <3>1. /\ writer.item \in DOMAIN asked /\ asked[writer.item] \in HostFrames
          /\ writer.item \in Nat /\ Transmit(asked[writer.item], writer.item)
      BY <1>1, <2>3, WrittenFrames DEF MachineWrite, TypeInv, TypeOK
    <3>2. asked[writer.item] = "ACK" => writer.item \in Hits(asked, {"ACK"})
      BY <3>1 DEF Hits
    <3> QED
      BY <2>2, <3>1, <3>2
  <2>4. ASSUME NEW c \in Callers, AppWrite(c)
        PROVE  WireAcksAsked'
    <3>1. call[c] \in ApiFrames /\ call[c] \in HostFrames /\ Transmit(call[c], 0)
      BY <1>1, <2>4, WrittenFrames DEF AppWrite
    <3>2. call[c] # "ACK"
      BY <3>1 DEF ApiFrames
    <3> QED
      BY <2>2, <3>1, <3>2
  <2>5. wire' = wire \/ MachineWrite \/ \E c \in Callers : AppWrite(c)
    BY <1>1, HostCases
    DEF HostStep, StartCall, LinkUp, WindsDown, ApiCall, transportVars
  <2> QED
    BY <2>1, <2>3, <2>4, <2>5
<1> QED
  BY <1>4, <1>5

\* A frame that is delivered pays for the ACK it gets.
LEMMA EarnedDeliver ==
    ASSUME HandshakeNeverAcks, Cfx3Typed, AckDebt, WireAcksAsked, Deliver
    PROVE  AckDebt' /\ WireAcksAsked'
<1> DEFINE f == Head(rxq)
<1>1. /\ rxq \in Seq(DeviceFrames) /\ rxq # << >> /\ rxq' = Tail(rxq) /\ rxq' \in Seq(DeviceFrames)
      /\ f \in DeviceFrames
      /\ wire' = wire /\ pings' = pings /\ publishes' = publishes
  BY Types DEF Deliver, Notify, vars, transportVars
<1>2. Cardinality(Hits(rxq', Earning)) + (IF f \in Earning THEN 1 ELSE 0)
          <= Cardinality(Hits(rxq, Earning))
  BY <1>1, HitsTail
<1> HIDE DEF f
<1> DEFINE Paid ==
             /\ Hits(asked, {"ACK"}) \subseteq Hits(asked', {"ACK"})
             /\ Cardinality(Hits(asked', {"ACK"})) \in Nat
             /\ Cardinality(Hits(asked', {"ACK"})) <=
                    Cardinality(Hits(asked, {"ACK"})) + IF f \in Earning THEN 1 ELSE 0
<1>3. Paid
  <2>1. asked \in Seq(HostFrames)
    BY Types
  <2>2. ASSUME asked' = asked PROVE Paid
    BY <2>2, CountsTyped
  <2>3. ASSUME NEW x \in HostFrames, asked' = Append(asked, x), x = "ACK" => f \in Earning
        PROVE  Paid
    <3>1. Cardinality(Hits(asked', {"ACK"})) =
              Cardinality(Hits(asked, {"ACK"})) + IF x \in {"ACK"} THEN 1 ELSE 0
      BY <2>1, <2>3, HitsAppend
    <3>2. Hits(asked, {"ACK"}) \subseteq Hits(asked', {"ACK"})
      BY <2>1, <2>3 DEF Hits
    <3> QED
      BY <2>3, <3>1, <3>2, CountsTyped
  <2>4. CASE armed
    <3>a. PICK o \in Handled(f) : Dispatch(o)
      BY <2>4 DEF Deliver, Notify, f
    <3>1. asked' = asked \o o.sends
      BY <3>a DEF Dispatch
    <3>2. o.sends = << >> \/ \E x \in HostFrames : o.sends = << x >> /\ (x = "ACK" => f \in Earning)
      BY <1>1, Types, ReceiveAcks, HandledIsCut DEF Cfx3Typed, TypeInv
    <3>3. CASE o.sends = << >>
      <4>1. asked' = asked
        BY <2>1, <3>1, <3>3
      <4> QED
        BY <2>2, <4>1
    <3>4. ASSUME NEW x \in HostFrames, o.sends = << x >>, x = "ACK" => f \in Earning
          PROVE  Paid
      <4>1. asked' = Append(asked, x)
        BY <2>1, <3>1, <3>4
      <4> QED
        BY <2>3, <3>4, <4>1
    <3> QED
      BY <3>2, <3>3, <3>4
  <2>5. CASE ~armed
    BY <2>2, <2>5 DEF Deliver, vars, historyVars
  <2> QED
    BY <2>4, <2>5
<1>4. Cardinality(Hits(rxq', Earning)) \in Nat
  BY <1>1, HitsFinite
<1>5. AckDebt'
  BY <1>1, <1>2, <1>3, <1>4, CountsTyped DEF AckDebt, Earning
<1> QED
  BY <1>1, <1>3, <1>5, WireAcksKept

\* The cooler counts what it sends.
LEMMA EarnedCooler ==
    ASSUME Cfx3Typed, AckDebt, WireAcksAsked, DeviceHears \/ DevicePings \/ DevicePublishes
    PROVE  AckDebt' /\ WireAcksAsked'
<1>1. wire' = wire /\ asked' = asked
  BY DEF DeviceHears, DevicePings, DevicePublishes, vars, transportVars, historyVars
<1>2. rxq \in Seq(DeviceFrames)
  BY Types
<1>3. WireAcksAsked'
  BY <1>1, WireAcksKept
<1>4. CASE DeviceHears
  <2>1. pings' = pings /\ publishes' = publishes
    BY <1>4 DEF DeviceHears
  <2>2. rxq' = rxq \/ rxq' = Append(rxq, Control("ACK"))
    BY <1>4 DEF DeviceHears, Emit
  <2>3. Control("ACK") \notin Earning
    BY DEF Control, Earning
  <2>4. Cardinality(Hits(rxq', Earning)) = Cardinality(Hits(rxq, Earning))
    <3>1. CASE rxq' = Append(rxq, Control("ACK"))
      <4>1. Cardinality(Hits(rxq', Earning)) = Cardinality(Hits(rxq, Earning)) + 0
        BY <1>2, <2>3, <3>1, CoolerFrames, HitsAppend
      <4> QED
        BY <4>1, CountsTyped
    <3> QED
      BY <2>2, <3>1
  <2> QED
    BY <1>1, <1>3, <2>1, <2>4 DEF AckDebt, Earning
<1>5. ASSUME NEW f \in Earning, rxq' = Append(rxq, f),
             pings' + publishes' = pings + publishes + 1
      PROVE  AckDebt'
  <2>1. f \in DeviceFrames
    BY DEF Earning
  <2>2. Cardinality(Hits(rxq', Earning)) = Cardinality(Hits(rxq, Earning)) + 1
    BY <1>2, <1>5, <2>1, HitsAppend
  <2> QED
    BY <1>1, <1>5, <2>2, CountsTyped DEF AckDebt, Earning
<1>6. CASE DevicePings
  <2>1. Control("PING") \in Earning
    BY CoolerFrames DEF Earning, Control
  <2>2. rxq' = Append(rxq, Control("PING")) /\ pings' + publishes' = pings + publishes + 1
    BY <1>6, CountsTyped DEF DevicePings, Emit
  <2> QED
    BY <1>3, <1>5, <2>1, <2>2
<1>7. CASE DevicePublishes
  <2>1. PICK t \in Topics, v \in Values : rxq' = Append(rxq, Publish(t, v))
    BY <1>7 DEF DevicePublishes, Emit, Cfx3Typed, DeviceTypeOK
  <2>2. Publish(t, v) \in Earning
    BY CoolerFrames DEF Earning, Publish
  <2>3. pings' + publishes' = pings + publishes + 1
    BY <1>7, CountsTyped DEF DevicePublishes
  <2> QED
    BY <1>3, <1>5, <2>1, <2>2, <2>3
<1> QED
  BY <1>4, <1>6, <1>7

\* The wire holds no more ACKs than the machine asked for: each has its place.
LEMMA AcksOnWire ==
    ASSUME Cfx3Typed, AckDebt, WireAcksAsked
    PROVE  AcksAreEarned
<1> DEFINE A == Places("ACK")
           B == Hits(asked, {"ACK"})
           place == [i \in A |-> wire[i].n]
<1>1. IsFiniteSet(B) /\ Cardinality(B) \in Nat
  BY Types, HitsFinite
<1>2. IsFiniteSet(A) /\ Cardinality(A) \in Nat
  <2>1. A \in SUBSET (1 .. Len(wire)) /\ Len(wire) \in Nat
    BY Types DEF Places
  <2>2. IsFiniteSet(1 .. Len(wire))
    BY <2>1, FS_Interval
  <2>3. IsFiniteSet(A)
    BY <2>1, <2>2, FS_Subset
  <2> QED
    BY <2>3, FS_CardinalityType
<1>3. place \in [A -> B]
  BY DEF WireAcksAsked
<1>4. \A i, j \in A : place[i] = place[j] => i = j
  <2> SUFFICES ASSUME NEW i \in A, NEW j \in A, wire[i].n = wire[j].n, i # j
               PROVE  FALSE
    OBVIOUS
  <2>1. i \in DOMAIN wire /\ j \in DOMAIN wire /\ i \in Nat /\ j \in Nat
    BY Types DEF Places
  <2>2. wire[i].n \in 1 .. Len(asked)
    BY Types DEF WireAcksAsked, Hits
  <2>3. WireInOrder
    BY DEF Cfx3Typed, OrderInv
  <2>4. wire[i].n \in Nat /\ wire[i].n # 0
    BY <2>2
  <2>5. i < j \/ j < i
    BY <2>1
  <2> QED
    BY <2>1, <2>3, <2>4, <2>5 DEF WireInOrder
<1>5. ~(Cardinality(B) < Cardinality(A))
  <2> HIDE DEF A, B, place
  <2> QED
    BY <1>1, <1>2, <1>3, <1>4, FS_PigeonHole
<1> QED
  BY <1>1, <1>2, <1>5, CountsTyped DEF AckDebt, AcksAreEarned

\* The cooler never gets an ACK it has not earned with a PING or a PUBLISH,
\* for every handshake that does not send ACKs itself (NoHandshakeAcks: none of
\* the four does), and whether or not somebody nudges.
THEOREM EveryAckIsEarned ==
    ASSUME HandshakeNeverAcks
    PROVE  Cfx3Spec => []AcksAreEarned
<1>1. Cfx3Init => AckDebt /\ WireAcksAsked
  <2> SUFFICES ASSUME Cfx3Init PROVE AckDebt /\ WireAcksAsked
    OBVIOUS
  <2>1. asked = << >> /\ rxq = << >> /\ wire = << >> /\ pings = 0 /\ publishes = 0
    BY DEF Cfx3Init, Init
  <2>2. Hits(asked, {"ACK"}) = {} /\ Hits(rxq, Earning) = {}
    BY <2>1 DEF Hits
  <2>3. Cardinality(Hits(asked, {"ACK"})) = 0 /\ Cardinality(Hits(rxq, Earning)) = 0
    BY <2>2, FS_EmptySet
  <2>4. AckDebt
    BY <2>1, <2>3 DEF AckDebt
  <2>5. WireAcksAsked
    BY <2>1 DEF WireAcksAsked, Places
  <2> QED
    BY <2>4, <2>5
<1>2. Cfx3Typed /\ AckDebt /\ WireAcksAsked /\ [Cfx3Next]_cfx3Vars => (AckDebt /\ WireAcksAsked)'
  <2> SUFFICES ASSUME Cfx3Typed, AckDebt, WireAcksAsked, [Cfx3Next]_cfx3Vars
               PROVE  AckDebt' /\ WireAcksAsked'
    OBVIOUS
  <2>1. CASE UNCHANGED cfx3Vars
    BY <2>1 DEF cfx3Vars, vars, deviceVars, transportVars, historyVars,
                AckDebt, WireAcksAsked, Places
  <2> QED
    BY <2>1, EarnedHost, EarnedDeliver, EarnedCooler DEF Cfx3Next
<1>3. Cfx3Typed /\ AckDebt /\ WireAcksAsked => AcksAreEarned
  BY AcksOnWire
<1>4. Cfx3Spec => []Cfx3Typed
  BY Cfx3Inductive, PTL DEF Cfx3Typed
<1> QED
  BY <1>1, <1>2, <1>3, <1>4, PTL DEF Cfx3Spec
=============================================================================
