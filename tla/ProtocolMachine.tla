-------------------------- MODULE ProtocolMachine --------------------------
(***************************************************************************)
(* The sans-I/O state machine of one device connection, pyddm/session.py    *)
(* class ProtocolMachine: operators from a machine record and an input to   *)
(* the next record and the frames the machine wants written.  It has no     *)
(* VARIABLES of its own: Session.tla owns the record, as the class Session  *)
(* does.                                                                    *)
(*                                                                          *)
(* A frame the host sends is named by its action.  A frame the device sends *)
(* is a record: a PUBLISH has a topic and a value, the others an action     *)
(* only, and "GARBLED" stands for every payload Frame.decode refuses.  A    *)
(* value is a member of a small set; decoding it with the parameter tables  *)
(* never changes which events are emitted, only their content.              *)
(***************************************************************************)
EXTENDS Naturals, Sequences

CONSTANTS
    Protocol,   \* "ddm1" (CFX3 coolers) or "ddm2" (everything newer)
    Handshake,  \* the HandshakeConfig in use, one of the four below
    Topics,     \* the topics the device publishes
    Values,     \* the values of a topic
    NoValue     \* "no update received for this topic yet"

States == {"idle", "handshake", "ready", "closed"}

\* DDM2 has no PING: the byte is not an action there, Frame.decode refuses it.
ControlActions ==
    {"ACK", "NAK", "NOP", "HELLO"} \cup (IF Protocol = "ddm1" THEN {"PING"} ELSE {})

HostFrames == {"PING", "HELLO", "ACK", "SUBSCRIBE", "WRITE"}

\* A step of the handshake that answers nothing sends NoFrame.
NoFrame == "none"

Control(a) == [action |-> a]
Publish(t, v) == [action |-> "PUBLISH", topic |-> t, value |-> v]

DeviceFrames ==
    {Control(a) : a \in ControlActions \cup {"SUBSCRIBE", "GARBLED"}}
        \cup {Publish(t, v) : t \in Topics, v \in Values}

-----------------------------------------------------------------------------
(* The handshake configurations.                                           *)

HelloSteps == << [expect |-> "ACK", send |-> "HELLO"],
                 [expect |-> "ACK", send |-> NoFrame] >>

DDM1_HANDSHAKE ==
    [steps |-> HelloSteps, initial |-> << >>,
     ack_publishes |-> TRUE, ack_pings |-> TRUE]

DDM1_HANDSHAKE_WITH_PING == [DDM1_HANDSHAKE EXCEPT !.initial = << "PING" >>]

DDM2_HANDSHAKE_NONE ==
    [steps |-> << >>, initial |-> << >>,
     ack_publishes |-> FALSE, ack_pings |-> FALSE]

DDM2_HANDSHAKE_LIKE_DDM1 == [DDM1_HANDSHAKE EXCEPT !.ack_pings = FALSE]

ASSUME ProtocolAssumption == Protocol \in {"ddm1", "ddm2"}

HandshakeSteps == [expect : ControlActions, send : HostFrames \cup {NoFrame}]

ASSUME HandshakeAssumption ==
    /\ Handshake.steps \in Seq(HandshakeSteps)
    /\ Handshake.initial \in Seq(HostFrames)
    /\ Handshake.ack_publishes \in BOOLEAN
    /\ Handshake.ack_pings \in BOOLEAN

ASSUME NoValueAssumption == NoValue \notin Values

-----------------------------------------------------------------------------
(* The machine record and what its methods return.                         *)

Machines ==
    [state : States, step : Nat, values : [Topics -> Values \cup {NoValue}],
     received : Nat, published : Nat, unknown : Nat, acks_sent : Nat]

NewMachine ==
    [state |-> "idle", step |-> 0, values |-> [t \in Topics |-> NoValue],
     received |-> 0, published |-> 0, unknown |-> 0, acks_sent |-> 0]

\* The Send and Ready events a call returns, beside the machine it leaves.
Outcome(mc, frames, becameReady) ==
    [machine |-> mc, sends |-> frames, ready |-> becameReady]

OptionalFrame(f) == IF f = NoFrame THEN << >> ELSE << f >>

\* start(): only legal in state "idle" (the caller's guard).
MachineStart(mc) ==
    LET noSteps == Handshake.steps = << >>
    IN  Outcome([mc EXCEPT !.step = 0,
                           !.state = IF noSteps THEN "ready" ELSE "handshake"],
                Handshake.initial, noSteps)

MachineClose(mc) == [mc EXCEPT !.state = "closed"]

Reject(mc) == Outcome([mc EXCEPT !.unknown = @ + 1], << >>, FALSE)

OnPublish(mc, f) ==
    LET ackIt == Handshake.ack_publishes
    IN  Outcome([mc EXCEPT !.published = @ + 1,
                           !.values[f.topic] = f.value,
                           !.acks_sent = IF ackIt THEN @ + 1 ELSE @],
                IF ackIt THEN << "ACK" >> ELSE << >>, FALSE)

\* Mutant: the handshake is taken to be complete one step early.
AdvanceHandshakeEarly(mc) ==
    LET done == mc.step + 2 >= Len(Handshake.steps)
    IN  Outcome([mc EXCEPT !.step = @ + 1,
                           !.state = IF done THEN "ready" ELSE @],
                OptionalFrame(Handshake.steps[mc.step + 1].send), done)

\* The expected frame of the current step: answer it and go to the next one.
AdvanceHandshake(mc) ==
    LET done == mc.step + 1 >= Len(Handshake.steps)
    IN  Outcome([mc EXCEPT !.step = @ + 1,
                           !.state = IF done THEN "ready" ELSE @],
                OptionalFrame(Handshake.steps[mc.step + 1].send), done)

\* Mutant: PINGs are not answered, as before 2026-09-20.
OnControlNoPingAck(mc, f) ==
    IF mc.state = "handshake" /\ f.action = Handshake.steps[mc.step + 1].expect
    THEN AdvanceHandshake(mc)
    ELSE Outcome(mc, << >>, FALSE)

\* Mutant: every control frame is answered, ACKs too.
OnControlAckAll(mc, f) ==
    IF mc.state = "handshake" /\ f.action = Handshake.steps[mc.step + 1].expect
    THEN AdvanceHandshake(mc)
    ELSE Outcome(mc, IF mc.state = "ready" THEN << "ACK" >> ELSE << >>, FALSE)

\* A control frame that is not expected is surfaced; only while READY is a
\* device PING answered.
OnControl(mc, f) ==
    IF mc.state = "handshake" /\ f.action = Handshake.steps[mc.step + 1].expect
    THEN AdvanceHandshake(mc)
    ELSE Outcome(mc,
                 IF mc.state = "ready" /\ Handshake.ack_pings /\ f.action = "PING"
                 THEN << "ACK" >> ELSE << >>, FALSE)

\* Mutant: only "idle" is refused, a closed machine goes on.
ReceiveWhenClosed(mc, f) ==
    LET counted == [mc EXCEPT !.received = @ + 1]
    IN  IF mc.state = "idle" \/ f.action \in {"SUBSCRIBE", "GARBLED"}
        THEN Reject(counted)
        ELSE IF f.action = "PUBLISH"
        THEN OnPublish(counted, f)
        ELSE OnControl(counted, f)

Receive(mc, f) ==
    LET counted == [mc EXCEPT !.received = @ + 1]
    IN  IF mc.state \in {"idle", "closed"} \/ f.action \in {"SUBSCRIBE", "GARBLED"}
        THEN Reject(counted)
        ELSE IF f.action = "PUBLISH"
        THEN OnPublish(counted, f)
        ELSE OnControl(counted, f)
=============================================================================
