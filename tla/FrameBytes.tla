----------------------------- MODULE FrameBytes -----------------------------
(***************************************************************************)
(* pyddm/frame.py: frames and their bytes.  A topic that is None is the     *)
(* empty sequence.                                                          *)
(***************************************************************************)
EXTENDS Naturals, Sequences

TOPIC_LENGTH == 4

\* PUBLISH and SUBSCRIBE; PUBLISH, SET and SUBSCRIBE.
DataActions(protocol) == IF protocol = "ddm1" THEN {0, 1} ELSE {16, 17, 18}

\* PING, HELLO, ACK, NAK, NOP; HELLO, ACK, NAK, NOP.
ControlActions(protocol) == IF protocol = "ddm1" THEN {2, 3, 4, 5, 6} ELSE {3, 4, 5, 6}

\* What the constructor accepts; anything else is a FrameError.
IsFrame(f) ==
    /\ f.action \in 0 .. 255
    /\ IF f.topic = << >> THEN f.value = << >> ELSE Len(f.topic) = TOPIC_LENGTH

FrameEncode(f) == << f.action >> \o f.topic \o f.value

\* Mutant: what follows a control action is ignored.
FrameDecodeLax(data, protocol) ==
    LET frame == [action |-> data[1],
                  topic  |-> IF data[1] \in DataActions(protocol)
                             THEN SubSeq(data, 2, 1 + TOPIC_LENGTH) ELSE << >>,
                  value  |-> IF data[1] \in DataActions(protocol)
                             THEN SubSeq(data, 2 + TOPIC_LENGTH, Len(data)) ELSE << >>]
    IN  IF /\ Len(data) > 0
           /\ \/ data[1] \in DataActions(protocol) /\ Len(data) >= 1 + TOPIC_LENGTH
              \/ data[1] \in ControlActions(protocol)
        THEN [ok |-> TRUE, out |-> frame] ELSE [ok |-> FALSE]

\* Frame.decode.  FRAGMENT is an action of neither set.
FrameDecode(data, protocol) ==
    LET frame == [action |-> data[1],
                  topic  |-> IF data[1] \in DataActions(protocol)
                             THEN SubSeq(data, 2, 1 + TOPIC_LENGTH) ELSE << >>,
                  value  |-> IF data[1] \in DataActions(protocol)
                             THEN SubSeq(data, 2 + TOPIC_LENGTH, Len(data)) ELSE << >>]
    IN  IF /\ Len(data) > 0
           /\ \/ data[1] \in DataActions(protocol) /\ Len(data) >= 1 + TOPIC_LENGTH
              \/ data[1] \in ControlActions(protocol) /\ Len(data) = 1
        THEN [ok |-> TRUE, out |-> frame] ELSE [ok |-> FALSE]
=============================================================================
