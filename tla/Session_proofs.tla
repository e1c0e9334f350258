--------------------------- MODULE Session_proofs ---------------------------
(***************************************************************************)
(* Theorems about Session.tla, for every handshake configuration, number of *)
(* callers and bound.                                                       *)
(***************************************************************************)
EXTENDS Session, SequenceTheorems, TLAPS

(***************************************************************************)
(* The machine.                                                            *)
(***************************************************************************)

\* The handshake never runs past its last step: handshake.steps[step] exists.
StepInBounds(mc) == mc.state = "handshake" => mc.step < Len(Handshake.steps)

OutcomeTyped(o) ==
    /\ o.machine \in Machines
    /\ o.sends \in Seq(HostFrames)
    /\ o.ready \in BOOLEAN
    /\ StepInBounds(o.machine)

\* What OnPublish and OnControl may ask for.
LEMMA AckOrNothing == << "ACK" >> \in Seq(HostFrames) /\ << >> \in Seq(HostFrames)
<1>1. "ACK" \in HostFrames
  BY DEF HostFrames
<1> QED
  BY <1>1

\* start() of an idle machine leaves a machine, frames and a flag.
LEMMA MachineStartTyped ==
    ASSUME NEW mc \in Machines
    PROVE  OutcomeTyped(MachineStart(mc))
<1>1. CASE Handshake.steps = << >>
  BY <1>1, HandshakeAssumption
  DEF OutcomeTyped, StepInBounds, MachineStart, Outcome, Machines, States
<1>2. CASE Handshake.steps # << >>
  <2>1. Len(Handshake.steps) > 0
    BY <1>2, HandshakeAssumption
  <2> QED
    BY <1>2, <2>1, HandshakeAssumption
    DEF OutcomeTyped, StepInBounds, MachineStart, Outcome, Machines, States
<1> QED
  BY <1>1, <1>2

\* So does an expected control frame.
LEMMA AdvanceTyped ==
    ASSUME NEW mc \in Machines, mc.state = "handshake", StepInBounds(mc)
    PROVE  OutcomeTyped(AdvanceHandshake(mc))
<1> DEFINE step == Handshake.steps[mc.step + 1]
<1>1. mc.step + 1 \in 1 .. Len(Handshake.steps)
  BY HandshakeAssumption DEF StepInBounds, Machines
<1>2. step.send \in HostFrames \cup {NoFrame}
  <2>1. \A s \in Seq(HandshakeSteps) : \A i \in 1 .. Len(s) : s[i] \in HandshakeSteps
    OBVIOUS
  <2>2. step \in HandshakeSteps
    BY <1>1, <2>1, HandshakeAssumption
  <2> QED
    BY <2>2 DEF HandshakeSteps
<1>3. OptionalFrame(step.send) \in Seq(HostFrames)
  BY <1>2 DEF OptionalFrame
<1>4. Len(Handshake.steps) \in Nat
  BY HandshakeAssumption
<1> DEFINE done == mc.step + 1 >= Len(Handshake.steps)
           o == AdvanceHandshake(mc)
<1>5. /\ o.machine = [mc EXCEPT !.step = @ + 1, !.state = IF done THEN "ready" ELSE @]
      /\ o.sends = OptionalFrame(step.send)
      /\ o.ready = done
  BY DEF AdvanceHandshake, Outcome
<1>6. o.machine \in Machines
  <2>1. mc.step + 1 \in Nat
    BY DEF Machines
  <2>2. (IF done THEN "ready" ELSE mc.state) \in States
    BY DEF Machines, States
  <2> HIDE DEF done
  <2> QED
    BY <1>5, <2>1, <2>2 DEF Machines
<1>7. StepInBounds(o.machine)
  BY <1>4, <1>5 DEF Machines, StepInBounds
<1>8. o.ready \in BOOLEAN
  BY <1>5
<1> QED
  BY <1>3, <1>5, <1>6, <1>7, <1>8 DEF OutcomeTyped

\* And every notification, in every state.
LEMMA ReceiveTyped ==
    ASSUME NEW mc \in Machines, StepInBounds(mc), NEW f \in DeviceFrames
    PROVE  OutcomeTyped(Receive(mc, f))
<1> DEFINE counted == [mc EXCEPT !.received = @ + 1]
<1>1. counted \in Machines /\ StepInBounds(counted) /\ counted.state = mc.state
  BY DEF Machines, StepInBounds
<1> HIDE DEF counted
<1>2. OutcomeTyped(Reject(counted))
  BY <1>1 DEF OutcomeTyped, Reject, Outcome, Machines, StepInBounds
<1>3. ASSUME f.action = "PUBLISH"
      PROVE  OutcomeTyped(OnPublish(counted, f))
  <2>1. f.topic \in Topics /\ f.value \in Values
    BY <1>3 DEF DeviceFrames, Control, Publish, ControlActions
  <2> DEFINE o == OnPublish(counted, f)
             values == [counted.values EXCEPT ![f.topic] = f.value]
             acks == IF Handshake.ack_publishes THEN counted.acks_sent + 1 ELSE counted.acks_sent
  <2>2. /\ o.machine = [counted EXCEPT !.published = @ + 1, !.values = values,
                                       !.acks_sent = acks]
        /\ o.sends = IF Handshake.ack_publishes THEN << "ACK" >> ELSE << >>
        /\ o.ready = FALSE
    BY DEF OnPublish, Outcome
  <2>3. values \in [Topics -> Values \cup {NoValue}]
    BY <1>1, <2>1 DEF Machines
  <2>4. acks \in Nat
    BY <1>1 DEF Machines
  <2>5. o.machine \in Machines /\ o.machine.state = counted.state
                             /\ o.machine.step = counted.step
    <3> HIDE DEF values, acks, o
    <3>1. counted.published + 1 \in Nat
      BY <1>1 DEF Machines
    <3>2. [counted EXCEPT !.published = @ + 1] \in Machines
      BY <1>1, <3>1 DEF Machines
    <3> DEFINE r1 == [counted EXCEPT !.published = @ + 1]
               r2 == [r1 EXCEPT !.values = values]
               r3 == [r2 EXCEPT !.acks_sent = acks]
    <3>3. r2 \in Machines
      BY <2>3, <3>2 DEF Machines
    <3>4. r3 \in Machines
      <4> HIDE DEF r2
      <4> QED
        BY <2>4, <3>3 DEF Machines
    <3>5. o.machine = r3
      BY <2>2
    <3>6. r3.state = counted.state /\ r3.step = counted.step
      BY <1>1 DEF Machines
    <3> QED
      BY <3>4, <3>5, <3>6
  <2>6. o.sends \in Seq(HostFrames) /\ o.ready \in BOOLEAN
    BY <2>2, AckOrNothing
  <2> QED
    BY <1>1, <2>5, <2>6 DEF OutcomeTyped, StepInBounds
<1>4. OutcomeTyped(OnControl(counted, f))
  <2>1. CASE counted.state = "handshake" /\ f.action = Handshake.steps[counted.step + 1].expect
    BY <1>1, <2>1, AdvanceTyped DEF OnControl
  <2>2. CASE ~(counted.state = "handshake" /\ f.action = Handshake.steps[counted.step + 1].expect)
    <3> DEFINE sends == IF counted.state = "ready" /\ Handshake.ack_pings /\ f.action = "PING"
                        THEN << "ACK" >> ELSE << >>
    <3>1. OnControl(counted, f) = Outcome(counted, sends, FALSE)
      BY <2>2 DEF OnControl
    <3>2. sends = << "ACK" >> \/ sends = << >>
      OBVIOUS
    <3> HIDE DEF sends
    <3>3. sends \in Seq(HostFrames)
      BY <3>2, AckOrNothing
    <3>4. OutcomeTyped(Outcome(counted, sends, FALSE))
      BY <1>1, <3>3 DEF OutcomeTyped, Outcome
    <3> QED
      BY <3>1, <3>4
  <2> QED
    BY <2>1, <2>2
<1> QED
  BY <1>1, <1>2, <1>3, <1>4 DEF Receive, counted

\* What a session gets to of a notification's events: all of them, or all but the
\* ACK of a PUBLISH.
LEMMA HandledIsCut ==
    ASSUME NEW f, NEW o \in Handled(f)
    PROVE  /\ o.machine = Receive(m, f).machine /\ o.ready = Receive(m, f).ready
           /\ \/ o = Receive(m, f)
              \/ f.action = "PUBLISH" /\ o.sends = << >>
BY DEF Handled, Outcome

LEMMA HandledTyped ==
    ASSUME m \in Machines, StepInBounds(m), NEW f \in DeviceFrames, NEW o \in Handled(f)
    PROVE  OutcomeTyped(o)
<1>1. OutcomeTyped(Receive(m, f))
  BY ReceiveTyped
<1>2. << >> \in Seq(HostFrames)
  OBVIOUS
<1> QED
  BY <1>1, <1>2, HandledIsCut DEF OutcomeTyped

(***************************************************************************)
(* Type correctness.  The frame the writer holds and the queued ones are    *)
(* places of asked, so that a frame that is written is a frame.             *)
(***************************************************************************)
PlacesOfAsked ==
    /\ \A i \in DOMAIN outq : outq[i] \in 1 .. Len(asked)
    /\ writer.item \in 0 .. Len(asked)
    /\ writer.pc = "lock" => writer.item # 0

TypeInv == TypeOK /\ StepInBounds(m) /\ PlacesOfAsked

\* What Dispatch does to the variables it assigns.
LEMMA DispatchTyped ==
    ASSUME TypeInv, NEW o, OutcomeTyped(o), Dispatch(o)
    PROVE  /\ m' \in Machines
           /\ StepInBounds(m)'
           /\ readyEvt' \in BOOLEAN
           /\ asked' \in Seq(HostFrames)
           /\ outq' \in Seq(Nat \ {0})
           /\ Len(asked') = Len(asked) + Len(o.sends)
           /\ \A i \in 1 .. Len(asked) : asked'[i] = asked[i]
           /\ Len(outq') = Len(outq) + Len(o.sends)
           /\ \A i \in 1 .. Len(outq) : outq'[i] = outq[i]
           /\ \A i \in Len(outq) + 1 .. Len(outq') : outq'[i] = Len(asked) + i - Len(outq)
           /\ \A i \in DOMAIN outq' : outq'[i] \in 1 .. Len(asked')
<1> DEFINE new == [i \in 1 .. Len(o.sends) |-> Len(asked) + i]
<1>1. /\ m \in Machines /\ readyEvt \in BOOLEAN
      /\ asked \in Seq(HostFrames) /\ outq \in Seq(Nat \ {0})
      /\ \A i \in 1 .. Len(outq) : outq[i] \in 1 .. Len(asked)
  BY DEF TypeInv, TypeOK, PlacesOfAsked
<1>2. /\ o.machine \in Machines /\ StepInBounds(o.machine)
      /\ o.sends \in Seq(HostFrames) /\ o.ready \in BOOLEAN
  BY DEF OutcomeTyped
<1>3. /\ m' = o.machine
      /\ asked' = asked \o o.sends
      /\ outq' = outq \o new
      /\ readyEvt' = (readyEvt \/ o.ready)
  BY DEF Dispatch
<1>4. Len(asked) \in Nat /\ Len(o.sends) \in Nat /\ Len(outq) \in Nat
  BY <1>1, <1>2
<1>5. new \in Seq(Nat \ {0}) /\ Len(new) = Len(o.sends)
  BY <1>4
<1>6. /\ asked' \in Seq(HostFrames)
      /\ Len(asked') = Len(asked) + Len(o.sends)
      /\ \A i \in 1 .. Len(asked) : asked'[i] = asked[i]
  BY <1>1, <1>2, <1>3
<1>7. \A i \in 1 .. Len(new) : new[i] = Len(asked) + i
  BY <1>4, <1>5
<1> HIDE DEF new
<1>8. /\ outq' \in Seq(Nat \ {0})
      /\ Len(outq') = Len(outq) + Len(o.sends)
      /\ \A i \in 1 .. Len(outq) : outq'[i] = outq[i]
      /\ \A i \in Len(outq) + 1 .. Len(outq') : outq'[i] = new[i - Len(outq)]
  <2> DEFINE N == Nat \ {0}
  <2>1. outq \in Seq(N) /\ new \in Seq(N)
    BY <1>1, <1>5
  <2> HIDE DEF N
  <2>2. /\ outq \o new \in Seq(N)
        /\ Len(outq \o new) = Len(outq) + Len(new)
        /\ \A i \in 1 .. Len(outq) + Len(new) :
               (outq \o new)[i] = IF i <= Len(outq) THEN outq[i] ELSE new[i - Len(outq)]
    BY <2>1, ConcatProperties
  <2>3. /\ outq' \in Seq(Nat \ {0})
        /\ Len(outq') = Len(outq) + Len(o.sends)
    BY <2>2, <1>3, <1>5 DEF N
  <2>4. \A i \in 1 .. Len(outq) : outq'[i] = outq[i]
    BY <2>2, <1>3, <1>4, <1>5
  <2>5. \A i \in Len(outq) + 1 .. Len(outq') : outq'[i] = new[i - Len(outq)]
    BY <2>2, <2>3, <1>3, <1>4, <1>5
  <2> QED
    BY <2>3, <2>4, <2>5
<1>9. \A i \in Len(outq) + 1 .. Len(outq') : outq'[i] = Len(asked) + i - Len(outq)
  BY <1>4, <1>5, <1>7, <1>8
<1>10. \A i \in DOMAIN outq' : outq'[i] \in 1 .. Len(asked')
  <2> SUFFICES ASSUME NEW i \in 1 .. Len(outq')
               PROVE  outq'[i] \in 1 .. Len(asked')
    BY <1>8
  <2>1. CASE i <= Len(outq)
    <3>1. i \in 1 .. Len(outq)
      BY <2>1, <1>4, <1>8
    <3>2. outq'[i] = outq[i] /\ outq[i] \in 1 .. Len(asked)
      BY <3>1, <1>1, <1>8
    <3> QED
      BY <3>2, <1>4, <1>6
  <2>2. CASE i > Len(outq)
    <3>1. i \in Len(outq) + 1 .. Len(outq')
      BY <2>2, <1>4, <1>8
    <3>2. outq'[i] = Len(asked) + i - Len(outq)
      BY <3>1, <1>9
    <3>3. i \in Int /\ i > Len(outq) /\ i <= Len(outq) + Len(o.sends)
      BY <3>1, <1>4, <1>8
    <3>4. Len(asked) + i - Len(outq) \in 1 .. Len(asked) + Len(o.sends)
      BY <3>3, <1>4
    <3> QED
      BY <3>2, <3>4, <1>6
  <2> QED
    BY <2>1, <2>2, <1>4
<1>11. StepInBounds(m)' /\ m' \in Machines /\ readyEvt' \in BOOLEAN
  BY <1>1, <1>2, <1>3 DEF StepInBounds
<1> QED
  BY <1>6, <1>8, <1>9, <1>10, <1>11

\* A task that leaves the write lock leaves a queue of tasks.
LEMMA LockTyped ==
    ASSUME lockq \in Seq(Actors), NEW a,
           Abandon(a) \/ (lockq # << >> /\ Release)
    PROVE  lockq' \in Seq(Actors)
<1>1. CASE lockq # << >> /\ Release
  BY <1>1 DEF Release
<1>2. CASE Abandon(a)
  <2>1. CASE UNCHANGED lockq
    BY <2>1
  <2>2. ASSUME NEW i \in DOMAIN lockq, lockq' = RemoveAt(lockq, i)
        PROVE  lockq' \in Seq(Actors)
    <3>1. i \in 1 .. Len(lockq)
      OBVIOUS
    <3>2. SubSeq(lockq, 1, i - 1) \in Seq(Actors)
      BY <3>1, SubSeqProperties
    <3>3. SubSeq(lockq, i + 1, Len(lockq)) \in Seq(Actors)
      BY <3>1, SubSeqProperties
    <3> QED
      BY <2>2, <3>2, <3>3, ConcatProperties DEF RemoveAt
  <2> QED
    BY <1>2, <2>1, <2>2 DEF Abandon
<1> QED
  BY <1>1, <1>2

\* A frame that is transmitted is one of the host's frames, with its place.
LEMMA TransmitTyped ==
    ASSUME wire \in Seq([frame : HostFrames, n : Nat]),
           NEW f \in HostFrames, NEW n \in Nat, Transmit(f, n)
    PROVE  wire' \in Seq([frame : HostFrames, n : Nat])
BY DEF Transmit

LEMMA InitTyped == Init => TypeInv
<1> SUFFICES ASSUME Init PROVE TypeInv
  OBVIOUS
<1>1. NewMachine \in Machines /\ NewMachine.state = "idle"
  BY DEF NewMachine, Machines, States
<1>2. TypeOK
  <2>1. call \in [Callers -> ApiFrames \cup {NoCall}]
    BY DEF Init
  <2>2. writer \in [pc : {"none", "get", "lock", "cancelled", "done", "dead"}, item : Nat]
    BY DEF Init
  <2>3. /\ outq \in Seq(Nat \ {0}) /\ lockq \in Seq(Actors) /\ asked \in Seq(HostFrames)
        /\ wire \in Seq([frame : HostFrames, n : Nat])
    BY DEF Init
  <2> QED
    BY <1>1, <2>1, <2>2, <2>3 DEF Init, TypeOK
<1>3. StepInBounds(m) /\ PlacesOfAsked
  BY <1>1 DEF Init, StepInBounds, PlacesOfAsked
<1> QED
  BY <1>2, <1>3 DEF TypeInv

\* Every step keeps the types.
LEMMA NextTyped == TypeInv /\ [Next]_vars => TypeInv'
<1> SUFFICES ASSUME TypeInv, [Next]_vars PROVE TypeInv'
  OBVIOUS
<1> USE DEF sessionVars, taskVars, transportVars, historyVars
<1>a. MachineClose(m) \in Machines /\ StepInBounds(MachineClose(m))
  BY DEF TypeInv, TypeOK, MachineClose, Machines, States, StepInBounds
<1>1. CASE UNCHANGED vars
  BY <1>1 DEF vars, TypeInv, TypeOK, StepInBounds, PlacesOfAsked
<1>2. CASE StartCall
  <2>1. OutcomeTyped(MachineStart(m))
    BY MachineStartTyped DEF TypeInv, TypeOK
  <2>2. Dispatch(MachineStart(m))
    BY <1>2 DEF StartCall
  <2>3. /\ m' \in Machines /\ StepInBounds(m)' /\ readyEvt' \in BOOLEAN
        /\ asked' \in Seq(HostFrames) /\ outq' \in Seq(Nat \ {0})
        /\ Len(asked') = Len(asked) + Len(MachineStart(m).sends)
        /\ \A i \in DOMAIN outq' : outq'[i] \in 1 .. Len(asked')
    BY <2>1, <2>2, DispatchTyped
  <2>4. Len(asked) \in Nat /\ Len(asked') >= Len(asked)
    BY <2>1, <2>3 DEF OutcomeTyped, TypeInv, TypeOK
  <2>5. TypeOK'
    <3>1. CASE link /\ SpawnWriter(readyEvt')
      BY <1>2, <2>3, <3>1 DEF StartCall, SpawnWriter, TypeInv, TypeOK
    <3>2. CASE start' = "connect" /\ UNCHANGED << writer, handle >>
      BY <1>2, <2>3, <3>2 DEF StartCall, TypeInv, TypeOK
    <3> QED
      BY <1>2, <3>1, <3>2 DEF StartCall
  <2>6. PlacesOfAsked'
    BY <1>2, <2>3, <2>4 DEF StartCall, SpawnWriter, TypeInv, PlacesOfAsked
  <2> QED
    BY <2>3, <2>5, <2>6 DEF TypeInv
<1>3. CASE StartRefused
  BY <1>3 DEF StartRefused, TypeInv, TypeOK, StepInBounds, PlacesOfAsked
<1>4. CASE LinkUp
  BY <1>4 DEF LinkUp, TypeInv, TypeOK, StepInBounds, PlacesOfAsked
<1>5. CASE ConnectReturns
  BY <1>5 DEF ConnectReturns, SpawnWriter, TypeInv, TypeOK, StepInBounds, PlacesOfAsked
<1>6. CASE ConnectFails
  BY <1>6, <1>a DEF ConnectFails, TypeInv, TypeOK, StepInBounds, PlacesOfAsked
<1>7. CASE StartReady
  BY <1>7 DEF StartReady, TypeInv, TypeOK, StepInBounds, PlacesOfAsked
<1>8. CASE StartTimesOut
  BY <1>8 DEF StartTimesOut, TypeInv, TypeOK, StepInBounds, PlacesOfAsked
<1>9. ASSUME NEW f \in DeviceFrames, Notify(f) PROVE TypeInv'
  <2>2. PICK o \in Handled(f) : Dispatch(o)
    BY <1>9 DEF Notify
  <2>1. OutcomeTyped(o)
    BY HandledTyped DEF TypeInv, TypeOK
  <2>3. /\ m' \in Machines /\ StepInBounds(m)' /\ readyEvt' \in BOOLEAN
        /\ asked' \in Seq(HostFrames) /\ outq' \in Seq(Nat \ {0})
        /\ Len(asked') = Len(asked) + Len(o.sends)
        /\ \A i \in DOMAIN outq' : outq'[i] \in 1 .. Len(asked')
    BY <2>1, <2>2, DispatchTyped
  <2>4. Len(asked) \in Nat /\ Len(asked') >= Len(asked)
    BY <2>1, <2>3 DEF OutcomeTyped, TypeInv, TypeOK
  <2>5. TypeOK'
    BY <1>9, <2>3 DEF Notify, TypeInv, TypeOK
  <2>6. PlacesOfAsked'
    BY <1>9, <2>3, <2>4 DEF Notify, TypeInv, PlacesOfAsked
  <2> QED
    BY <2>3, <2>5, <2>6 DEF TypeInv
<1>10. CASE LinkDrops
  <2>1. TypeOK'
    BY <1>10 DEF LinkDrops, TypeInv, TypeOK
  <2> QED
    BY <1>10, <2>1 DEF LinkDrops, TypeInv, StepInBounds, PlacesOfAsked
<1>11. CASE WriterGet
  <2>1. lockq' \in Seq(Actors)
    BY <1>11 DEF WriterGet, TypeInv, TypeOK, Actors
  <2>2. /\ Head(outq) \in 1 .. Len(asked) /\ Len(asked) \in Nat
        /\ outq' \in Seq(Nat \ {0})
        /\ \A i \in DOMAIN outq' : outq'[i] \in 1 .. Len(asked)
    BY <1>11 DEF WriterGet, TypeInv, TypeOK, PlacesOfAsked
  <2>3. TypeOK'
    BY <1>11, <2>1, <2>2 DEF WriterGet, TypeInv, TypeOK
  <2> QED
    BY <1>11, <2>2, <2>3 DEF WriterGet, TypeInv, StepInBounds, PlacesOfAsked
<1>12. CASE WriterWrites
  <2>1. lockq' \in Seq(Actors)
    BY <1>12, LockTyped DEF WriterWrites, HoldsLock, TypeInv, TypeOK
  <2>2. asked[writer.item] \in HostFrames /\ writer.item \in Nat
    BY <1>12 DEF WriterWrites, TypeInv, TypeOK, PlacesOfAsked
  <2>3. wire' \in Seq([frame : HostFrames, n : Nat])
    BY <1>12, <2>2, TransmitTyped DEF WriterWrites, TypeInv, TypeOK
  <2>4. TypeOK'
    BY <1>12, <2>1, <2>3 DEF WriterWrites, TypeInv, TypeOK
  <2> QED
    BY <1>12, <2>4 DEF WriterWrites, TypeInv, TypeOK, StepInBounds, PlacesOfAsked
<1>13. CASE WriterFails
  <2>1. lockq' \in Seq(Actors)
    BY <1>13, LockTyped DEF WriterFails, HoldsLock, TypeInv, TypeOK
  <2>2. writer.item \in Nat \ {0} /\ Len(asked) \in Nat
    BY <1>13 DEF WriterFails, TypeInv, TypeOK, PlacesOfAsked
  <2>3. TypeOK'
    <3>1. writer' \in [pc : {"none", "get", "lock", "cancelled", "done", "dead"}, item : Nat]
      BY <1>13 DEF WriterFails
    <3>2. reported' \subseteq Nat \ {0}
      BY <1>13, <2>2 DEF WriterFails, TypeInv, TypeOK
    <3> QED
      BY <1>13, <2>1, <3>1, <3>2 DEF WriterFails, TypeInv, TypeOK
  <2> QED
    BY <1>13, <2>2, <2>3 DEF WriterFails, TypeInv, StepInBounds, PlacesOfAsked
<1>14. CASE WriterStops
  <2>1. lockq' \in Seq(Actors)
    BY <1>14, LockTyped DEF WriterStops, TypeInv, TypeOK
  <2>2. writer.item \in Nat /\ Len(asked) \in Nat
    BY DEF TypeInv, TypeOK
  <2>3. CASE writer.item # 0 /\ Transmit(asked[writer.item], writer.item) /\ UNCHANGED discarded
    <3>1. asked[writer.item] \in HostFrames
      BY <2>3 DEF TypeInv, TypeOK, PlacesOfAsked
    <3>2. wire' \in Seq([frame : HostFrames, n : Nat])
      BY <2>2, <2>3, <3>1, TransmitTyped DEF TypeInv, TypeOK
    <3> QED
      BY <1>14, <2>1, <2>2, <2>3, <3>2
      DEF WriterStops, TypeInv, TypeOK, StepInBounds, PlacesOfAsked
  <2>4. CASE discarded' = discarded \cup ({writer.item} \ {0}) /\ UNCHANGED wire
    <3>1. discarded' \subseteq Nat \ {0}
      BY <2>2, <2>4 DEF TypeInv, TypeOK
    <3>2. TypeOK'
      BY <1>14, <2>1, <2>4, <3>1 DEF WriterStops, TypeInv, TypeOK
    <3> QED
      BY <1>14, <2>2, <3>2 DEF WriterStops, TypeInv, StepInBounds, PlacesOfAsked
  <2> QED
    BY <1>14, <2>3, <2>4 DEF WriterStops
<1>15. CASE CloseCall
  BY <1>15, <1>a DEF CloseCall, TypeInv, TypeOK, StepInBounds, PlacesOfAsked
<1>16. CASE CloseJoins
  BY <1>16 DEF CloseJoins, TypeInv, TypeOK, StepInBounds, PlacesOfAsked
<1>17. CASE CloseRaises
  BY <1>17 DEF CloseRaises, TypeInv, TypeOK, StepInBounds, PlacesOfAsked
<1>18. CASE CloseDisconnects
  BY <1>18 DEF CloseDisconnects, TypeInv, TypeOK, StepInBounds, PlacesOfAsked
<1>19. ASSUME NEW c \in Callers, NEW f \in ApiFrames, ApiCall(c, f) PROVE TypeInv'
  BY <1>19 DEF ApiCall, TypeInv, TypeOK, StepInBounds, PlacesOfAsked, Actors
<1>20. ASSUME NEW c \in Callers, ApiRest(c) PROVE TypeInv'
  <2>1. ApiEnds(c)
    BY <1>20 DEF ApiRest, ApiWrites, ApiFails, ApiCancelled
  <2>2. lockq' \in Seq(Actors)
    BY <1>20, LockTyped
    DEF ApiRest, ApiWrites, ApiFails, ApiCancelled, HoldsLock, TypeInv, TypeOK
  <2>3. call[c] \in HostFrames
    BY <2>1 DEF ApiEnds, TypeInv, TypeOK, ApiFrames, HostFrames, NoCall
  <2>4. wire' \in Seq([frame : HostFrames, n : Nat])
    <3>1. CASE Transmit(call[c], 0)
      BY <2>3, <3>1, TransmitTyped DEF TypeInv, TypeOK
    <3>2. CASE UNCHANGED wire
      BY <3>2 DEF TypeInv, TypeOK
    <3> QED
      BY <1>20, <3>1, <3>2 DEF ApiRest, ApiWrites, ApiFails, ApiCancelled
  <2>5. TypeOK'
    BY <2>1, <2>2, <2>4 DEF ApiEnds, TypeInv, TypeOK
  <2> QED
    BY <2>1, <2>5 DEF ApiEnds, TypeInv, StepInBounds, PlacesOfAsked
<1> QED
  BY <1>1, <1>2, <1>3, <1>4, <1>5, <1>6, <1>7, <1>8, <1>9, <1>10, <1>11, <1>12,
     <1>13, <1>14, <1>15, <1>16, <1>17, <1>18, <1>19, <1>20
  DEF Next, HostNext, StartStep, ConnectEnds, WriterStep, CloseRest

\* Every variable keeps its type, for every configuration: the machine never
\* looks up a handshake step beyond the last, the writer never takes a frame
\* nobody asked for.
THEOREM TypeCorrect == Spec => []TypeOK
<1>1. TypeInv => TypeOK
  BY DEF TypeInv
<1> QED
  BY InitTyped, NextTyped, <1>1, PTL DEF Spec

(***************************************************************************)
(* The order of the machine's frames.  The queue holds the tail of asked,   *)
(* the writer the frame just before it, and everything before that has      *)
(* been settled in exactly one way.                                         *)
(***************************************************************************)
Taken == Len(asked) - Len(outq)
SettledUpTo == IF writer.item = 0 THEN Taken ELSE Taken - 1

OrderInv ==
    /\ Len(outq) <= Len(asked)
    /\ \A i \in 1 .. Len(outq) : outq[i] = Taken + i
    /\ writer.item # 0 => writer.item = Taken /\ writer.pc \in {"lock", "cancelled"}
    /\ start \in {"idle", "connect", "up"} => writer.pc = "none"
    /\ Sent \cup reported \cup discarded = 1 .. SettledUpTo
    /\ Sent \cap reported = {}
    /\ Sent \cap discarded = {}
    /\ reported \cap discarded = {}
    /\ WireInOrder

\* The variables OrderInv reads, start aside.
orderVars == << asked, outq, writer, wire, reported, discarded >>

\* One more frame on the wire: its place joins Sent, an API write has none.
LEMMA SentGrows ==
    ASSUME wire \in Seq([frame : HostFrames, n : Nat]),
           NEW f \in HostFrames, NEW n \in Nat, Transmit(f, n)
    PROVE  Sent' = Sent \cup ({n} \ {0})
<1> DEFINE e == [frame |-> f, n |-> n]
<1>1. wire' = Append(wire, e)
  BY DEF Transmit
<1>2. /\ DOMAIN wire' = DOMAIN wire \cup {Len(wire) + 1}
      /\ \A i \in DOMAIN wire : wire'[i] = wire[i]
      /\ wire'[Len(wire) + 1] = e
  BY <1>1
<1>3. {wire'[i].n : i \in DOMAIN wire'} = {wire[i].n : i \in DOMAIN wire} \cup {n}
  <2> HIDE DEF e
  <2>1. e.n = n
    BY DEF e
  <2> QED
    BY <1>2, <2>1
<1> QED
  BY <1>3 DEF Sent

\* A frame that comes after every machine frame on the wire keeps the order.
LEMMA OrderGrows ==
    ASSUME wire \in Seq([frame : HostFrames, n : Nat]), WireInOrder,
           NEW f \in HostFrames, NEW n \in Nat, Transmit(f, n),
           n = 0 \/ \A k \in Sent : k < n
    PROVE  WireInOrder'
<1> DEFINE e == [frame |-> f, n |-> n]
<1>1. /\ Len(wire) \in Nat
      /\ DOMAIN wire = 1 .. Len(wire)
      /\ DOMAIN wire' = 1 .. Len(wire) + 1
      /\ \A i \in 1 .. Len(wire) : wire'[i] = wire[i]
      /\ wire'[Len(wire) + 1].n = n
  BY DEF Transmit
<1> SUFFICES ASSUME NEW i \in DOMAIN wire', NEW j \in DOMAIN wire',
                    i < j, wire'[i].n # 0, wire'[j].n # 0
             PROVE  wire'[i].n < wire'[j].n
  BY DEF WireInOrder
<1>2. i \in 1 .. Len(wire)
  BY <1>1
<1>3. CASE j \in 1 .. Len(wire)
  BY <1>1, <1>2, <1>3 DEF WireInOrder
<1>4. CASE j = Len(wire) + 1
  <2>1. wire[i].n \in Sent
    BY <1>1, <1>2 DEF Sent
  <2> QED
    BY <1>1, <1>2, <1>4, <2>1
<1> QED
  BY <1>1, <1>3, <1>4

\* Steps that leave the frames alone and do not take start() back.
LEMMA OrderUnchanged ==
    ASSUME OrderInv, UNCHANGED orderVars,
           start' \in {"idle", "connect", "up"} => start \in {"idle", "connect", "up"}
    PROVE  OrderInv'
BY DEF OrderInv, orderVars, Taken, SettledUpTo, Sent, WireInOrder

\* Asking for frames lengthens asked and the queue alike.
LEMMA OrderDispatch ==
    ASSUME TypeInv, OrderInv, NEW o, OutcomeTyped(o), Dispatch(o),
           UNCHANGED << wire, reported, discarded >>,
           writer'.item = writer.item, writer'.pc = writer.pc \/ writer.item = 0,
           start' \in {"idle", "connect", "up"} => writer'.pc = "none"
    PROVE  OrderInv'
<1>1. /\ Len(asked') = Len(asked) + Len(o.sends)
      /\ Len(outq') = Len(outq) + Len(o.sends)
      /\ \A i \in 1 .. Len(outq) : outq'[i] = outq[i]
      /\ \A i \in Len(outq) + 1 .. Len(outq') : outq'[i] = Len(asked) + i - Len(outq)
  BY DispatchTyped
<1>2. Len(asked) \in Nat /\ Len(outq) \in Nat /\ Len(o.sends) \in Nat
  BY DEF OutcomeTyped, TypeInv, TypeOK
<1>3. Taken' = Taken /\ SettledUpTo' = SettledUpTo /\ Taken \in Int
  BY <1>1, <1>2 DEF Taken, SettledUpTo
<1>4. \A i \in 1 .. Len(outq') : outq'[i] = Taken + i
  <2> SUFFICES ASSUME NEW i \in 1 .. Len(outq') PROVE outq'[i] = Taken + i
    OBVIOUS
  <2>1. CASE i \in 1 .. Len(outq)
    BY <1>1, <2>1 DEF OrderInv
  <2>2. CASE i \in Len(outq) + 1 .. Len(outq')
    <3>1. outq'[i] = Len(asked) + i - Len(outq)
      BY <1>1, <2>2
    <3> QED
      BY <3>1, <1>2 DEF Taken
  <2> QED
    BY <1>1, <1>2, <2>1, <2>2
<1>5. Sent' = Sent /\ WireInOrder' = WireInOrder
  BY DEF Sent, WireInOrder
<1> QED
  BY <1>1, <1>2, <1>3, <1>4, <1>5 DEF OrderInv

\* The writer's frame reaches the device: it is the next one to settle.
LEMMA OrderTransmit ==
    ASSUME TypeInv, OrderInv, writer.item # 0,
           Transmit(asked[writer.item], writer.item),
           writer'.item = 0, UNCHANGED << asked, outq, start, reported, discarded >>
    PROVE  OrderInv'
<1>1. /\ writer.item \in Nat /\ writer.item \in 1 .. Len(asked)
      /\ asked[writer.item] \in HostFrames
      /\ wire \in Seq([frame : HostFrames, n : Nat])
      /\ Len(asked) \in Nat /\ Len(outq) \in Nat
  BY DEF TypeInv, TypeOK, PlacesOfAsked
<1>2. Sent' = Sent \cup {writer.item}
  BY <1>1, SentGrows
<1>3. writer.item = Taken /\ SettledUpTo = Taken - 1 /\ SettledUpTo' = Taken
  BY DEF OrderInv, SettledUpTo, Taken
<1>4. \A k \in Sent \cup reported \cup discarded : k < writer.item
  BY <1>1, <1>3 DEF OrderInv
<1>5. WireInOrder'
  BY <1>1, <1>4, OrderGrows DEF OrderInv
<1>6. (Sent \cup reported \cup discarded)' = 1 .. SettledUpTo'
  BY <1>1, <1>2, <1>3 DEF OrderInv
<1>7. Sent' \cap reported' = {} /\ Sent' \cap discarded' = {}
  BY <1>2, <1>4, <1>1 DEF OrderInv
<1>8. Taken' = Taken /\ outq' = outq
  BY DEF Taken
<1> QED
  BY <1>5, <1>6, <1>7, <1>8 DEF OrderInv

\* The writer's frame is given up, in the same place of the order.
LEMMA OrderLoss ==
    ASSUME TypeInv, OrderInv, writer.item # 0, writer'.item = 0,
           UNCHANGED << asked, outq, start, wire >>,
           \/ reported' = reported \cup {writer.item} /\ discarded' = discarded
           \/ discarded' = discarded \cup {writer.item} /\ reported' = reported
    PROVE  OrderInv'
<1>1. /\ writer.item \in 1 .. Len(asked)
      /\ Len(asked) \in Nat /\ Len(outq) \in Nat
  BY DEF TypeInv, TypeOK, PlacesOfAsked
<1>2. Sent' = Sent /\ WireInOrder' = WireInOrder
  BY DEF Sent, WireInOrder
<1>3. writer.item = Taken /\ SettledUpTo = Taken - 1 /\ SettledUpTo' = Taken
  BY DEF OrderInv, SettledUpTo, Taken
<1>4. \A k \in Sent \cup reported \cup discarded : k < writer.item
  BY <1>1, <1>3 DEF OrderInv
<1>5. (Sent \cup reported \cup discarded)' = 1 .. SettledUpTo'
  BY <1>1, <1>2, <1>3 DEF OrderInv
<1>6. /\ Sent' \cap reported' = {} /\ Sent' \cap discarded' = {}
      /\ reported' \cap discarded' = {}
  BY <1>1, <1>2, <1>4 DEF OrderInv
<1>7. Taken' = Taken /\ outq' = outq
  BY DEF Taken
<1> QED
  BY <1>2, <1>5, <1>6, <1>7 DEF OrderInv

\* The order holds initially.
LEMMA InitOrder == Init => OrderInv
<1> SUFFICES ASSUME Init PROVE OrderInv
  OBVIOUS
<1>1. Sent = {} /\ Taken = 0 /\ SettledUpTo = 0
  BY DEF Init, Sent, Taken, SettledUpTo
<1> QED
  BY <1>1 DEF Init, OrderInv, WireInOrder

\* Every step keeps it.
LEMMA NextOrder == TypeInv /\ OrderInv /\ [Next]_vars => OrderInv'
<1> SUFFICES ASSUME TypeInv, OrderInv, [Next]_vars PROVE OrderInv'
  OBVIOUS
<1> USE DEF sessionVars, taskVars, transportVars, historyVars
<1>1. CASE UNCHANGED vars
  BY <1>1, OrderUnchanged DEF vars, orderVars
<1>2. CASE StartCall
  <2>1. OutcomeTyped(MachineStart(m))
    BY MachineStartTyped DEF TypeInv, TypeOK
  <2>2. writer.pc = "none" /\ writer.item = 0
    BY <1>2 DEF StartCall, OrderInv
  <2>3. /\ writer'.item = 0
        /\ start' \in {"idle", "connect", "up"} => writer'.pc = "none"
    BY <1>2, <2>2 DEF StartCall, SpawnWriter
  <2>4. Dispatch(MachineStart(m)) /\ UNCHANGED << wire, reported, discarded >>
    BY <1>2 DEF StartCall
  <2> QED
    BY <2>1, <2>2, <2>3, <2>4, OrderDispatch
<1>3. ASSUME NEW f \in DeviceFrames, Notify(f) PROVE OrderInv'
  <2>4. PICK o \in Handled(f) : Dispatch(o)
    BY <1>3 DEF Notify
  <2>1. OutcomeTyped(o)
    BY HandledTyped DEF TypeInv, TypeOK
  <2>2. Dispatch(o) /\ UNCHANGED << wire, reported, discarded, writer, start >>
    BY <1>3, <2>4 DEF Notify
  <2>3. start' \in {"idle", "connect", "up"} => writer'.pc = "none"
    BY <2>2 DEF OrderInv
  <2> QED
    BY <2>1, <2>2, <2>3, OrderDispatch
<1>4. CASE StartRefused \/ LinkUp \/ ConnectFails \/ StartReady \/ StartTimesOut \/ LinkDrops
  BY <1>4, OrderUnchanged
  DEF orderVars, StartRefused, LinkUp, ConnectFails, ConnectPending, StartReady,
      StartTimesOut, LinkDrops
<1>5. CASE ConnectReturns
  <2>1. /\ writer.item = 0 /\ writer'.item = 0
        /\ start' \notin {"idle", "connect", "up"}
        /\ UNCHANGED << asked, outq, wire, reported, discarded >>
    BY <1>5 DEF ConnectReturns, SpawnWriter, OrderInv
  <2> QED
    BY <2>1 DEF OrderInv, Taken, SettledUpTo, Sent, WireInOrder
<1>6. CASE WriterGet
  <2>1. /\ outq # << >> /\ outq \in Seq(Nat \ {0})
        /\ Len(asked) \in Nat /\ Len(outq) \in Nat
        /\ writer.pc = "get" /\ writer'.pc = "lock" /\ writer'.item = Head(outq)
        /\ outq' = Tail(outq)
        /\ UNCHANGED << asked, wire, reported, discarded, start >>
    BY <1>6 DEF WriterGet, TypeInv, TypeOK
  <2>2. writer.item = 0
    BY <2>1 DEF OrderInv
  <2>3. /\ Head(outq) = outq[1] /\ Len(outq) >= 1
        /\ Len(outq') = Len(outq) - 1
        /\ \A i \in 1 .. Len(outq') : outq'[i] = outq[i + 1]
    BY <2>1
  <2>4. Taken' = Taken + 1 /\ Head(outq) = Taken + 1 /\ Taken \in Nat
    BY <2>1, <2>3 DEF OrderInv, Taken
  <2>5. SettledUpTo' = SettledUpTo /\ writer'.item = Taken'
    BY <2>1, <2>2, <2>4 DEF SettledUpTo
  <2>6. \A i \in 1 .. Len(outq') : outq'[i] = Taken' + i
    <3> SUFFICES ASSUME NEW i \in 1 .. Len(outq') PROVE outq'[i] = Taken' + i
      OBVIOUS
    <3>1. i + 1 \in 1 .. Len(outq)
      BY <2>1, <2>3
    <3>2. outq[i + 1] = Taken + (i + 1)
      BY <3>1 DEF OrderInv
    <3> QED
      BY <2>3, <2>4, <3>2
  <2>7. Sent' = Sent /\ WireInOrder' = WireInOrder
    BY <2>1 DEF Sent, WireInOrder
  <2>8. start \notin {"idle", "connect", "up"} /\ Len(outq') <= Len(asked')
    BY <2>1, <2>3 DEF OrderInv
  <2> QED
    BY <2>1, <2>5, <2>6, <2>7, <2>8 DEF OrderInv
<1>7. CASE WriterWrites
  <2>1. writer.item # 0
    BY <1>7 DEF WriterWrites, TypeInv, PlacesOfAsked
  <2> QED
    BY <1>7, <2>1, OrderTransmit DEF WriterWrites
<1>8. CASE WriterFails
  <2>1. writer.item # 0 /\ writer'.item = 0
    BY <1>8 DEF WriterFails, TypeInv, PlacesOfAsked
  <2> QED
    BY <1>8, <2>1, OrderLoss DEF WriterFails
<1>9. CASE WriterStops
  <2>1. /\ writer'.item = 0 /\ writer'.pc = "done" /\ writer.pc = "cancelled"
        /\ UNCHANGED << asked, outq, start, reported >>
    BY <1>9 DEF WriterStops
  <2>2. CASE writer.item # 0 /\ Transmit(asked[writer.item], writer.item) /\ UNCHANGED discarded
    BY <2>1, <2>2, OrderTransmit
  <2>3. CASE discarded' = discarded \cup ({writer.item} \ {0}) /\ UNCHANGED wire
    <3>1. CASE writer.item # 0
      BY <2>1, <2>3, <3>1, OrderLoss
    <3>2. CASE writer.item = 0
      <4>1. discarded' = discarded /\ wire' = wire
        BY <2>3, <3>2
      <4> QED
        BY <2>1, <4>1, <3>2 DEF OrderInv, Taken, SettledUpTo, Sent, WireInOrder
    <3> QED
      BY <3>1, <3>2
  <2> QED
    BY <1>9, <2>2, <2>3 DEF WriterStops
<1>10. CASE CloseCall
  <2>1. /\ writer'.item = writer.item
        /\ writer.pc = "none" => writer'.pc = "none"
        /\ writer.pc \in {"lock", "cancelled"} => writer'.pc \in {"lock", "cancelled"}
        /\ UNCHANGED << asked, outq, wire, reported, discarded, start >>
    BY <1>10 DEF CloseCall, TypeInv, TypeOK
  <2> QED
    BY <2>1 DEF OrderInv, Taken, SettledUpTo, Sent, WireInOrder
<1>11. CASE CloseRest
  BY <1>11, OrderUnchanged
  DEF orderVars, CloseRest, CloseJoins, CloseRaises, CloseDisconnects
<1>12. ASSUME NEW c \in Callers, NEW f \in ApiFrames, ApiCall(c, f) PROVE OrderInv'
  BY <1>12, OrderUnchanged DEF orderVars, ApiCall
<1>13. ASSUME NEW c \in Callers, ApiRest(c) PROVE OrderInv'
  <2>1. ApiEnds(c)
    BY <1>13 DEF ApiRest, ApiWrites, ApiFails, ApiCancelled
  <2>2. UNCHANGED << asked, outq, writer, reported, discarded, start >>
    BY <2>1 DEF ApiEnds
  <2>3. CASE Transmit(call[c], 0)
    <3>1. call[c] \in HostFrames /\ wire \in Seq([frame : HostFrames, n : Nat])
      BY <2>1 DEF ApiEnds, TypeInv, TypeOK, ApiFrames, HostFrames, NoCall
    <3>2. Sent' = Sent
      BY <2>3, <3>1, SentGrows
    <3>3. WireInOrder'
      BY <2>3, <3>1, OrderGrows DEF OrderInv
    <3> QED
      BY <2>2, <3>2, <3>3 DEF OrderInv, Taken, SettledUpTo
  <2>4. CASE UNCHANGED wire
    BY <2>2, <2>4, OrderUnchanged DEF orderVars
  <2> QED
    BY <1>13, <2>3, <2>4 DEF ApiRest, ApiWrites, ApiFails, ApiCancelled
<1> QED
  BY <1>1, <1>2, <1>3, <1>4, <1>5, <1>6, <1>7, <1>8, <1>9, <1>10, <1>11, <1>12, <1>13
  DEF Next, HostNext, StartStep, ConnectEnds, WriterStep

\* Together they are the inductive invariant.
LEMMA Inductive == Spec => [](TypeInv /\ OrderInv)
BY InitTyped, NextTyped, InitOrder, NextOrder, PTL DEF Spec

\* The machine's frames reach the device in the order it asked for them, each
\* at most once, however start(), the writer, close() and the API callers
\* interleave and whatever fails.
THEOREM MachineFramesInOrder == Spec => []WireInOrder
<1>1. OrderInv => WireInOrder
  BY DEF OrderInv
<1> QED
  BY Inductive, <1>1, PTL

\* Every frame the machine asked for is in exactly one place: sent, reported
\* as lost, cut off by close(), in the writer's hands or queued.
THEOREM NothingIsLost == Spec => []NoSilentLoss
<1>1. TypeInv /\ OrderInv => NoSilentLoss
  <2> SUFFICES ASSUME TypeInv, OrderInv PROVE NoSilentLoss
    OBVIOUS
  <2>1. /\ Len(asked) \in Nat /\ Len(outq) \in Nat /\ Taken \in Nat
        /\ DOMAIN outq = 1 .. Len(outq)
        /\ writer.item \in 0 .. Len(asked)
    BY DEF TypeInv, TypeOK, PlacesOfAsked, OrderInv, Taken
  <2>2. Queued = Taken + 1 .. Len(asked)
    <3>1. \A i \in 1 .. Len(outq) : outq[i] = Taken + i
      BY DEF OrderInv
    <3>2. Queued \subseteq Taken + 1 .. Len(asked)
      BY <2>1, <3>1 DEF Queued, Taken
    <3>3. ASSUME NEW k \in Taken + 1 .. Len(asked) PROVE k \in Queued
      <4>1. k - Taken \in 1 .. Len(outq)
        BY <2>1 DEF Taken
      <4>2. outq[k - Taken] = k
        BY <2>1, <3>1, <4>1
      <4> QED
        BY <2>1, <4>1, <4>2 DEF Queued
    <3> QED
      BY <3>2, <3>3
  <2>3. InFlight = SettledUpTo + 1 .. Taken
    BY <2>1 DEF InFlight, SettledUpTo, OrderInv
  <2>4. SettledUpTo <= Taken /\ SettledUpTo \in Int /\ Taken <= Len(asked)
    BY <2>1 DEF SettledUpTo, Taken
  <2>5. SettledUpTo >= 0
    BY <2>1 DEF SettledUpTo, OrderInv
  <2>6. Sent \cup reported \cup discarded = 1 .. SettledUpTo
    BY DEF OrderInv
  <2>7. 1 .. Len(asked) = (1 .. SettledUpTo) \cup InFlight \cup Queued
    BY <2>1, <2>2, <2>3, <2>4, <2>5
  <2>8. /\ (1 .. SettledUpTo) \cap (InFlight \cup Queued) = {}
        /\ InFlight \cap Queued = {}
    BY <2>1, <2>2, <2>3, <2>4
  <2> QED
    BY <2>6, <2>7, <2>8 DEF NoSilentLoss, OrderInv
<1> QED
  BY Inductive, <1>1, PTL

\* Both together: nothing is lost unseen and nothing overtakes.
THEOREM EveryFrameAccounted == Spec => []FramesAccounted
<1>1. WireInOrder /\ NoSilentLoss => FramesAccounted
  BY DEF FramesAccounted
<1> QED
  BY MachineFramesInOrder, NothingIsLost, <1>1, PTL

\* The frame in the writer's hands is the oldest one that is not settled.
LEMMA ItemIsNext ==
    ASSUME TypeInv, OrderInv, writer.item # 0
    PROVE  /\ writer.item \in 1 .. Len(asked)
           /\ writer.item \notin Outbox!Settled
           /\ \A k \in 1 .. writer.item - 1 : k \in Outbox!Settled
<1>1. writer.item \in 1 .. Len(asked) /\ Len(asked) \in Nat
  BY DEF TypeInv, TypeOK, PlacesOfAsked
<1>2. Outbox!Settled = 1 .. writer.item - 1
  BY DEF Outbox!Settled, OrderInv, SettledUpTo, Taken
<1> QED
  BY <1>1, <1>2

\* The session implements the outbox: asking maps to asking, a write and a
\* loss map to settling the oldest frame, everything else to a stutter.
THEOREM SessionImplementsOutbox == Spec => ImplementsOutbox
<1>1. Init => Outbox!Init
  BY DEF Init, Outbox!Init, Sent
<1>2. TypeInv /\ OrderInv /\ [Next]_vars => [Outbox!Next]_(Outbox!vars)
  <2> SUFFICES ASSUME TypeInv, OrderInv, [Next]_vars
               PROVE  [Outbox!Next]_(Outbox!vars)
    OBVIOUS
  <2> USE DEF sessionVars, taskVars, transportVars, historyVars
  <2>a. ASSUME UNCHANGED << asked, wire, reported, discarded >>
        PROVE  UNCHANGED Outbox!vars
    BY <2>a DEF Outbox!vars, Sent
  <2>b. ASSUME NEW o, OutcomeTyped(o), Dispatch(o),
               UNCHANGED << wire, reported, discarded >>
        PROVE  Outbox!Next
    <3>1. /\ Len(asked') = Len(asked) + Len(o.sends)
          /\ \A i \in 1 .. Len(asked) : asked'[i] = asked[i]
      BY <2>b, DispatchTyped
    <3>2. Len(asked) \in Nat /\ Len(o.sends) \in Nat
      BY <2>b DEF OutcomeTyped, TypeInv, TypeOK
    <3>3. Len(asked') >= Len(asked)
      BY <3>1, <3>2
    <3>4. Sent' = Sent
      BY <2>b DEF Sent
    <3> QED
      BY <2>b, <3>1, <3>3, <3>4 DEF Outbox!Next, Outbox!Ask
  <2>c. ASSUME writer.item # 0, Transmit(asked[writer.item], writer.item),
               UNCHANGED << asked, reported, discarded >>
        PROVE  Outbox!Next
    <3>1. asked[writer.item] \in HostFrames /\ writer.item \in Nat
      BY <2>c DEF TypeInv, TypeOK, PlacesOfAsked
    <3>2. Sent' = Sent \cup {writer.item}
      BY <2>c, <3>1, SentGrows DEF TypeInv, TypeOK
    <3> QED
      BY <2>c, <3>2, ItemIsNext DEF Outbox!Next, Outbox!Settle
  <2>d. ASSUME writer.item # 0, UNCHANGED << asked, wire >>,
               \/ reported' = reported \cup {writer.item} /\ discarded' = discarded
               \/ discarded' = discarded \cup {writer.item} /\ reported' = reported
        PROVE  Outbox!Next
    <3>1. Sent' = Sent
      BY <2>d DEF Sent
    <3>2. (reported \cup discarded)' = (reported \cup discarded) \cup {writer.item}
      BY <2>d
    <3> QED
      BY <2>d, <3>1, <3>2, ItemIsNext DEF Outbox!Next, Outbox!Settle
  <2>1. CASE UNCHANGED vars
    BY <2>1, <2>a DEF vars
  <2>2. CASE StartCall
    <3>1. OutcomeTyped(MachineStart(m))
      BY MachineStartTyped DEF TypeInv, TypeOK
    <3>2. Dispatch(MachineStart(m)) /\ UNCHANGED << wire, reported, discarded >>
      BY <2>2 DEF StartCall
    <3> QED
      BY <2>b, <3>1, <3>2
  <2>3. ASSUME NEW f \in DeviceFrames, Notify(f) PROVE Outbox!Next
    <3>3. PICK o \in Handled(f) : Dispatch(o)
      BY <2>3 DEF Notify
    <3>1. OutcomeTyped(o)
      BY HandledTyped DEF TypeInv, TypeOK
    <3>2. Dispatch(o) /\ UNCHANGED << wire, reported, discarded >>
      BY <2>3, <3>3 DEF Notify
    <3> QED
      BY <2>b, <3>1, <3>2
  <2>4. CASE StartRefused \/ ConnectEnds \/ StartReady \/ StartTimesOut \/ LinkDrops
    <3>1. UNCHANGED << asked, wire, reported, discarded >>
      BY <2>4
      DEF StartRefused, ConnectEnds, LinkUp, ConnectReturns, ConnectFails, StartReady,
          StartTimesOut, LinkDrops
    <3> QED
      BY <3>1, <2>a
  <2>5. CASE WriterGet \/ CloseCall \/ CloseRest
    <3>1. UNCHANGED << asked, wire, reported, discarded >>
      BY <2>5 DEF WriterGet, CloseCall, CloseRest, CloseJoins, CloseRaises, CloseDisconnects
    <3> QED
      BY <3>1, <2>a
  <2>6. CASE WriterWrites
    BY <2>6, <2>c DEF WriterWrites, TypeInv, PlacesOfAsked
  <2>7. CASE WriterFails
    BY <2>7, <2>d DEF WriterFails, TypeInv, PlacesOfAsked
  <2>8. CASE WriterStops
    <3>1. UNCHANGED << asked, reported >>
      BY <2>8 DEF WriterStops
    <3>2. CASE writer.item # 0 /\ Transmit(asked[writer.item], writer.item) /\ UNCHANGED discarded
      BY <3>1, <3>2, <2>c
    <3>3. CASE discarded' = discarded \cup ({writer.item} \ {0}) /\ UNCHANGED wire
      <4>1. CASE writer.item # 0
        BY <3>1, <3>3, <4>1, <2>d
      <4>2. CASE writer.item = 0
        BY <3>1, <3>3, <4>2, <2>a
      <4> QED
        BY <4>1, <4>2
    <3> QED
      BY <2>8, <3>2, <3>3 DEF WriterStops
  <2>9. ASSUME NEW c \in Callers, NEW f \in ApiFrames, ApiCall(c, f)
        PROVE  UNCHANGED Outbox!vars
    BY <2>9, <2>a DEF ApiCall
  <2>10. ASSUME NEW c \in Callers, ApiRest(c) PROVE UNCHANGED Outbox!vars
    <3>1. ApiEnds(c)
      BY <2>10 DEF ApiRest, ApiWrites, ApiFails, ApiCancelled
    <3>2. UNCHANGED << asked, reported, discarded >>
      BY <3>1 DEF ApiEnds
    <3>3. CASE Transmit(call[c], 0)
      <4>1. call[c] \in HostFrames /\ wire \in Seq([frame : HostFrames, n : Nat])
        BY <3>1 DEF ApiEnds, TypeInv, TypeOK, ApiFrames, HostFrames, NoCall
      <4>2. Sent' = Sent
        BY <3>3, <4>1, SentGrows
      <4> QED
        BY <3>2, <4>2 DEF Outbox!vars
    <3>4. CASE UNCHANGED wire
      BY <3>2, <3>4, <2>a
    <3> QED
      BY <2>10, <3>3, <3>4 DEF ApiRest, ApiWrites, ApiFails, ApiCancelled
  <2> QED
    BY <2>1, <2>2, <2>3, <2>4, <2>5, <2>6, <2>7, <2>8, <2>9, <2>10
    DEF Next, HostNext, StartStep, WriterStep
<1> QED
  BY Inductive, <1>1, <1>2, PTL DEF Spec, Outbox!Spec, ImplementsOutbox

(***************************************************************************)
(* close().  When it is not called while start() awaits connect(), no part  *)
(* of the session outlives it.                                              *)
(***************************************************************************)
CleanInv ==
    /\ close # "idle" => closed
    /\ closed => start \notin {"connect", "up"}
    /\ writer.pc \in {"get", "lock"} => handle
    /\ handle => writer.pc \in {"get", "lock", "dead"}
    /\ handle => close = "idle"
    /\ writer.pc = "cancelled" => close = "join"
    /\ close = "join" => writer.pc \in {"cancelled", "done", "dead"}
    /\ close \in {"disconnect", "done"} => ~armed
    /\ close = "done" => ~link
    /\ closed => close # "idle"

\* Every step keeps it, when close() does not race connect().
LEMMA NextClean ==
    ASSUME ~CloseDuringStart
    PROVE  TypeInv /\ CleanInv /\ [Next]_vars => CleanInv'
<1> SUFFICES ASSUME TypeInv, CleanInv, [Next]_vars PROVE CleanInv'
  OBVIOUS
<1> USE DEF sessionVars, taskVars, transportVars, historyVars, CleanInv
<1>1. CASE UNCHANGED vars
  BY <1>1 DEF vars
<1>2. CASE StartCall
  <2>1. ~closed' /\ close = "idle" /\ close' = "idle"
    BY <1>2 DEF StartCall
  <2> QED
    BY <1>2, <2>1 DEF StartCall, SpawnWriter
<1>3. CASE StartRefused \/ StartReady \/ StartTimesOut
  <2>1. CASE StartRefused
    <3>1. closed => armed' = armed
      BY <2>1 DEF StartRefused, TypeInv, TypeOK
    <3>2. UNCHANGED << writer, closed, handle, close, link >> /\ start' = "error"
      BY <2>1 DEF StartRefused
    <3> QED
      BY <3>1, <3>2
  <2>2. CASE StartReady \/ StartTimesOut
    BY <2>2 DEF StartReady, StartTimesOut
  <2> QED
    BY <1>3, <2>1, <2>2
<1>4. CASE LinkUp \/ ConnectReturns \/ ConnectFails
  BY <1>4 DEF LinkUp, ConnectReturns, ConnectFails, ConnectPending, SpawnWriter
<1>5. ASSUME NEW f \in DeviceFrames, Notify(f) PROVE CleanInv'
  BY <1>5 DEF Notify
<1>6. CASE LinkDrops
  BY <1>6 DEF LinkDrops
<1>7. CASE WriterGet
  BY <1>7 DEF WriterGet
<1>8. CASE WriterWrites
  BY <1>8 DEF WriterWrites
<1>9. CASE WriterFails
  BY <1>9 DEF WriterFails
<1>10. CASE WriterStops
  BY <1>10 DEF WriterStops
<1>11. CASE CloseCall
  <2>1. start \notin {"connect", "up"}
    BY <1>11 DEF CloseCall, ConnectPending
  <2>2. CASE handle
    BY <1>11, <2>1, <2>2 DEF CloseCall, TypeInv, TypeOK
  <2>3. CASE ~handle
    BY <1>11, <2>1, <2>3 DEF CloseCall
  <2> QED
    BY <2>2, <2>3
<1>12. CASE CloseJoins
  BY <1>12 DEF CloseJoins
<1>13. CASE CloseRaises
  BY <1>13 DEF CloseRaises
<1>14. CASE CloseDisconnects
  BY <1>14 DEF CloseDisconnects
<1>15. ASSUME NEW c \in Callers, NEW f \in ApiFrames, ApiCall(c, f) PROVE CleanInv'
  BY <1>15 DEF ApiCall
<1>16. ASSUME NEW c \in Callers, ApiRest(c) PROVE CleanInv'
  BY <1>16 DEF ApiRest, ApiWrites, ApiFails, ApiCancelled, ApiEnds
<1> QED
  BY <1>1, <1>2, <1>3, <1>4, <1>5, <1>6, <1>7, <1>8, <1>9, <1>10, <1>11, <1>12,
     <1>13, <1>14, <1>15, <1>16
  DEF Next, HostNext, StartStep, ConnectEnds, WriterStep, CloseRest

LEMMA CleanInductive ==
    ASSUME ~CloseDuringStart
    PROVE  Spec => [](TypeInv /\ CleanInv)
<1>1. Init => CleanInv
  BY DEF Init, CleanInv
<1> QED
  BY <1>1, InitTyped, NextTyped, NextClean, PTL DEF Spec

\* After close() there is no writer task, no callback and no link left,
\* provided that close() was not called while start() awaited connect(); the
\* run session_race shows that the proviso is needed.
THEOREM CloseCleansUp ==
    ASSUME ~CloseDuringStart
    PROVE  Spec => []ClosedIsClean
<1>1. TypeInv /\ CleanInv => ClosedIsClean
  BY DEF TypeInv, TypeOK, CleanInv, ClosedIsClean
<1> QED
  BY <1>1, CleanInductive, PTL

\* Under the same proviso nothing reaches the device once close() has
\* returned, not even from a caller that passed the ready check before.
THEOREM NothingAfterClose ==
    ASSUME ~CloseDuringStart
    PROVE  Spec => QuietAfterClose
<1>1. TypeInv /\ CleanInv /\ [Next]_vars => [close = "done" => wire' = wire]_vars
  <2> SUFFICES ASSUME CleanInv, [Next]_vars, close = "done"
               PROVE  wire' = wire
    OBVIOUS
  <2>1. ~link
    BY DEF CleanInv
  <2> QED
    BY <2>1
    DEF Next, HostNext, StartStep, ConnectEnds, WriterStep, CloseRest, ApiRest, StartCall,
        StartRefused, LinkUp, ConnectReturns, ConnectFails, StartReady, StartTimesOut,
        Notify, LinkDrops, WriterGet, WriterWrites, WriterFails, WriterStops, CloseCall,
        CloseJoins, CloseRaises, CloseDisconnects, ApiCall, ApiWrites, ApiFails,
        ApiCancelled, ApiEnds, Transmit, vars, sessionVars, taskVars, transportVars,
        historyVars
<1> QED
  BY <1>1, CleanInductive, PTL DEF Spec, QuietAfterClose

(***************************************************************************)
(* Closed for good.                                                        *)
(***************************************************************************)

\* A closed session has a closed machine; the converse fails, connect() may.
MachineClosed == closed => m.state = "closed"

\* What a closed machine makes of a frame.
LEMMA ClosedRejects ==
    ASSUME m \in Machines, m.state = "closed", NEW f, NEW o \in Handled(f), Dispatch(o),
           readyEvt \in BOOLEAN, asked \in Seq(HostFrames)
    PROVE  m'.state = "closed" /\ readyEvt' = readyEvt /\ asked' = asked
<1>1. Receive(m, f) = Reject([m EXCEPT !.received = @ + 1])
  BY DEF Receive
<1>2. /\ Receive(m, f).sends = << >> /\ Receive(m, f).ready = FALSE
      /\ Receive(m, f).machine.state = "closed"
  <2> DEFINE counted == [m EXCEPT !.received = @ + 1]
             rejected == [counted EXCEPT !.unknown = @ + 1]
  <2>1. Receive(m, f) = [machine |-> rejected, sends |-> << >>, ready |-> FALSE]
    BY <1>1 DEF Reject, Outcome
  <2>2. counted.state = "closed" /\ counted \in Machines
    BY DEF Machines
  <2>3. rejected.state = "closed"
    BY <2>2 DEF Machines
  <2> HIDE DEF rejected
  <2> QED
    BY <2>1, <2>3
<1>a. o.sends = << >> /\ o.ready = FALSE /\ o.machine.state = "closed"
  BY <1>2, HandledIsCut
<1>3. asked \o << >> = asked
  BY ConcatEmptySeq
<1>4. asked' = asked
  BY <1>a, <1>3 DEF Dispatch
<1>5. readyEvt' = (readyEvt \/ o.ready)
  BY DEF Dispatch
<1>6. readyEvt' = readyEvt
  BY <1>a, <1>5
<1>7. m'.state = "closed"
  BY <1>a DEF Dispatch
<1> QED
  BY <1>4, <1>6, <1>7

\* Once closed, a step leaves the machine closed, READY as it was, and asks for nothing.
LEMMA ClosedStep ==
    ASSUME TypeInv, MachineClosed, [Next]_vars
    PROVE  /\ MachineClosed'
           /\ closed => closed' /\ readyEvt' = readyEvt /\ asked' = asked
<1> USE DEF sessionVars, taskVars, transportVars, historyVars
<1>1. ASSUME NEW f \in DeviceFrames, Notify(f)
      PROVE  /\ MachineClosed'
             /\ closed => closed' /\ readyEvt' = readyEvt /\ asked' = asked
  <2>1. PICK o \in Handled(f) : Dispatch(o)
    BY <1>1 DEF Notify
  <2> QED
    BY <1>1, <2>1, ClosedRejects DEF Notify, MachineClosed, TypeInv, TypeOK
<1>2. CASE StartCall
  BY <1>2 DEF StartCall, MachineClosed
<1>3. CASE CloseCall
  BY <1>3 DEF CloseCall, MachineClosed, MachineClose, TypeInv, TypeOK, Machines
<1>4. CASE ConnectFails
  BY <1>4 DEF ConnectFails, MachineClosed, MachineClose, TypeInv, TypeOK, Machines
<1>5. CASE UNCHANGED << m, closed, readyEvt, asked >>
  BY <1>5 DEF MachineClosed
<1> QED
  BY <1>1, <1>2, <1>3, <1>4, <1>5
  DEF Next, HostNext, StartStep, ConnectEnds, WriterStep, CloseRest, ApiRest, StartRefused,
      LinkUp, ConnectReturns, StartReady, StartTimesOut, LinkDrops, WriterGet, WriterWrites,
      WriterFails, WriterStops, CloseJoins, CloseRaises, CloseDisconnects, ApiCall, ApiWrites,
      ApiFails, ApiCancelled, ApiEnds, vars

\* A closed session never becomes READY and never asks for another frame, whatever
\* the device still sends and wherever start() was: close() is final.
THEOREM ClosedIsFinal == Spec => ClosedForGood
<1>1. Init => MachineClosed
  BY DEF Init, MachineClosed
<1>2. TypeInv /\ MachineClosed /\ [Next]_vars => MachineClosed'
  BY ClosedStep
<1>3. TypeInv /\ MachineClosed /\ [Next]_vars =>
          [closed => closed' /\ readyEvt' = readyEvt /\ asked' = asked]_vars
  BY ClosedStep
<1> QED
  BY <1>1, <1>2, <1>3, InitTyped, NextTyped, PTL DEF Spec, ClosedForGood
=============================================================================
