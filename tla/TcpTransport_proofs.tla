------------------------ MODULE TcpTransport_proofs ------------------------
(***************************************************************************)
(* Proofs about TcpTransport: whatever connect(), the disconnect() calls,   *)
(* their cancellation, the read loop and the peer do, and for any number    *)
(* of links and callers, no socket is left open without an owner, and the   *)
(* transport keeps the contract of Transport.                               *)
(*                                                                          *)
(* The induction goes through Inv.  Its core is LoopOwns: a read loop that  *)
(* nobody cancelled is the one of _writer and _reader_task.  So the finally *)
(* clause of a loop, which closes whatever _writer is then, cannot hit a    *)
(* later link; CancelledAlone is the other half: while a cancelled loop has *)
(* not ended there is no writer it could close.                             *)
(***************************************************************************)
EXTENDS TcpTransport, TLAPS

\* A loop that runs is that of _writer and _reader_task.
LoopOwns == \A k \in Links : loop[k] = "reading" => writer = k /\ task = k

\* No writer beside a loop that was cancelled.
CancelledAlone == \A k \in Links : loop[k] = "cancelled" => writer = None

\* _reader_task is never a task that was cancelled.
TaskKnown == task # None => loop[task] \in {"reading", "over"}

\* While connect() opens a link, the one before is ending.
OpeningAlone ==
    opening => opened < MaxLinks /\ (writer # None => peer[writer] = "reset")

\* What a disconnect() has taken over is no longer read.
HeldApart ==
    \A d \in Closers : closer[d] # Idle =>
        loop[closer[d].writer] \in {"cancelled", "over"}

\* Links that have not been opened are untouched.
Fresh ==
    \A k \in Links : k > opened =>
        loop[k] = "none" /\ sock[k] = "none" /\ told[k] = 0

\* A drop is told by a loop that ends.
ToldIsOver == \A k \in Links : loop[k] # "over" => told[k] = 0

\* A loop delivers lines it took.
LastTaken == \A k \in Links : last[k] <= taken[k]

Inv ==
    /\ TypeOK
    /\ LoopOwns
    /\ ConnectedMeansRead
    /\ CancelledAlone
    /\ TaskKnown
    /\ OpeningAlone
    /\ HeldApart
    /\ Fresh
    /\ ToldIsOver
    /\ LastTaken
    /\ NoOrphanSocket
    /\ NoticeMeansDrop
-----------------------------------------------------------------------------

\* Nothing is open, read or told at the start.
LEMMA InvInit == Init => Inv
<1> SUFFICES ASSUME Init PROVE Inv
    OBVIOUS
<1>1. TypeOK
  <2>1. << >> \in Seq(Lines)
      OBVIOUS
  <2>2. opened \in 0 .. MaxLinks
      BY TcpAssumption DEF Init
  <2> QED
      BY <2>1, <2>2 DEF Init, TypeOK, None, Idle
<1>2. LoopOwns /\ ConnectedMeansRead /\ CancelledAlone /\ TaskKnown /\ OpeningAlone /\
     HeldApart /\ Fresh /\ ToldIsOver /\ LastTaken /\ NoOrphanSocket /\ NoticeMeansDrop
    BY TcpAssumption DEF Init, LoopOwns, Links, None, Idle, ConnectedMeansRead,
        CancelledAlone, TaskKnown, OpeningAlone, HeldApart, Fresh, ToldIsOver,
        LastTaken, NoOrphanSocket, NoticeMeansDrop
<1> QED
    BY <1>1, <1>2 DEF Inv

\* connect() (tcp.py:54) begins: only when the writer, if any, was reset.
LEMMA ConnectCallKeepsInv == ASSUME Inv, ConnectCall PROVE Inv'
<1> USE TcpAssumption DEF Links, None, Idle, link, history
<1>1. TypeOK'
    BY DEF Inv, TypeOK, ConnectCall, Connected
<1>2. OpeningAlone'
    BY DEF Inv, OpeningAlone, ConnectedMeansRead, ConnectCall, Connected
<1>3. LoopOwns' /\ ConnectedMeansRead' /\ CancelledAlone' /\ TaskKnown' /\
     HeldApart' /\ Fresh' /\ ToldIsOver' /\ LastTaken' /\ NoOrphanSocket' /\
     NoticeMeansDrop'
    BY DEF Inv, LoopOwns, ConnectCall, Connected, ConnectedMeansRead, CancelledAlone,
        TaskKnown, HeldApart, Fresh, ToldIsOver, LastTaken, NoOrphanSocket,
        NoticeMeansDrop
<1> QED
    BY <1>1, <1>2, <1>3 DEF Inv

\* open_connection() returns (tcp.py:55-60): the loops of earlier links have
\* ended, so the new link is the only one that is read.
LEMMA OpenedKeepsInv == ASSUME Inv, Opened PROVE Inv'
<1> USE TcpAssumption DEF Links, None, Idle, link, history
<1>1. TypeOK'
  <2>1. opened' \in 0 .. MaxLinks /\ writer' \in Links
      BY DEF Inv, TypeOK, OpeningAlone, Opened
  <2> QED
      BY <2>1 DEF Inv, TypeOK, Opened, Ending
<1>2. LoopOwns'
    BY DEF Inv, LoopOwns, OpeningAlone, Opened, Ending
<1>3. ConnectedMeansRead'
    BY DEF Inv, ConnectedMeansRead, TypeOK, OpeningAlone, Opened, Ending
<1>4. TaskKnown'
    BY DEF Inv, TaskKnown, TypeOK, OpeningAlone, Opened, Ending
<1>5. HeldApart'
    BY DEF Inv, HeldApart, TypeOK, Fresh, OpeningAlone, Opened, Ending
<1>6. Fresh'
    BY DEF Inv, Fresh, TypeOK, Opened, Ending
<1>7. ToldIsOver'
    BY DEF Inv, ToldIsOver, TypeOK, Fresh, Opened, Ending
<1>8. NoOrphanSocket'
  <2>1. writer = None
      BY DEF Inv, TypeOK, ConnectedMeansRead, OpeningAlone, Opened, Ending
  <2> QED
      BY <2>1 DEF Inv, NoOrphanSocket, TypeOK, Opened, Ending
<1>9. NoticeMeansDrop'
    BY DEF Inv, NoticeMeansDrop, TypeOK, Fresh, Opened, Ending
<1>10. CancelledAlone' /\ OpeningAlone' /\ LastTaken'
    BY DEF Inv, CancelledAlone, Opened, Ending, OpeningAlone, LastTaken
<1> QED
    BY <1>1, <1>2, <1>3, <1>4, <1>5, <1>6, <1>7, <1>8, <1>9, <1>10 DEF Inv

\* connect() raises (tcp.py:56) and changes no field.
LEMMA ConnectFailsKeepsInv == ASSUME Inv, ConnectFails PROVE Inv'
<1> USE TcpAssumption DEF Links, None, Idle, link, history
<1>1. TypeOK'
    BY DEF Inv, TypeOK, ConnectFails
<1>2. LoopOwns' /\ ConnectedMeansRead' /\ CancelledAlone' /\ TaskKnown' /\
     OpeningAlone' /\ HeldApart' /\ Fresh' /\ ToldIsOver' /\ LastTaken' /\
     NoOrphanSocket' /\ NoticeMeansDrop'
    BY DEF Inv, LoopOwns, ConnectFails, ConnectedMeansRead, CancelledAlone, TaskKnown,
        OpeningAlone, HeldApart, Fresh, ToldIsOver, LastTaken, NoOrphanSocket,
        NoticeMeansDrop
<1> QED
    BY <1>1, <1>2 DEF Inv

\* write() (tcp.py:75) touches nothing but the stream.
LEMMA WriteKeepsInv == ASSUME Inv, Write PROVE Inv'
<1> USE TcpAssumption DEF Links, None, Idle, link, history
<1>1. TypeOK'
  <2>1. writer \in Links /\ wrote[writer] + 1 \in Nat
      BY DEF Inv, TypeOK, Write, Connected
  <2> QED
      BY <2>1 DEF Inv, TypeOK, Write, Connected
<1>2. LoopOwns' /\ ConnectedMeansRead' /\ CancelledAlone' /\ TaskKnown' /\
     OpeningAlone' /\ HeldApart' /\ Fresh' /\ ToldIsOver' /\ LastTaken' /\
     NoOrphanSocket' /\ NoticeMeansDrop'
    BY DEF Inv, LoopOwns, Write, Connected, ConnectedMeansRead, CancelledAlone,
        TaskKnown, OpeningAlone, HeldApart, Fresh, ToldIsOver, LastTaken,
        NoOrphanSocket, NoticeMeansDrop
<1> QED
    BY <1>1, <1>2 DEF Inv

\* _read_loop() takes a line (tcp.py:88-96) and touches no field.
LEMMA ReadsKeepsInv == ASSUME NEW k \in Links, Inv, Reads(k) PROVE Inv'
<1> USE TcpAssumption DEF Links, None, Idle, link, history
<1>1. TypeOK'
  <2>1. taken[k] + 1 \in Nat
      BY DEF Inv, TypeOK
  <2> QED
      BY <2>1 DEF Inv, TypeOK, Reads
<1>2. LastTaken'
    BY DEF Inv, LastTaken, TypeOK, Reads
<1>3. LoopOwns' /\ ConnectedMeansRead' /\ CancelledAlone' /\ TaskKnown' /\
     OpeningAlone' /\ HeldApart' /\ Fresh' /\ ToldIsOver' /\ NoOrphanSocket' /\
     NoticeMeansDrop'
    BY DEF Inv, LoopOwns, Reads, ConnectedMeansRead, CancelledAlone, TaskKnown,
        OpeningAlone, HeldApart, Fresh, ToldIsOver, NoOrphanSocket, NoticeMeansDrop
<1> QED
    BY <1>1, <1>2, <1>3 DEF Inv

\* A loop ends by itself (tcp.py:97-103): by LoopOwns the writer it closes is
\* its own.
LEMMA LoopDropsKeepsInv == ASSUME NEW k \in Links, Inv, LoopDrops(k) PROVE Inv'
<1> USE TcpAssumption DEF Links, None, Idle, link, history
<1>1. TypeOK'
  <2>1. writer \in Links => told[writer] + 1 \in Nat
      BY DEF Inv, TypeOK
  <2> QED
      BY <2>1 DEF Inv, TypeOK, LoopDrops, Finally, ReadRaises
<1>2. LoopOwns'
    BY DEF Inv, LoopOwns, TypeOK, LoopDrops, Finally, ReadRaises
<1>3. Fresh'
    BY DEF Inv, Fresh, TypeOK, ConnectedMeansRead, LoopDrops, Finally, ReadRaises
<1>4. ToldIsOver'
    BY DEF Inv, ToldIsOver, TypeOK, LoopOwns, LoopDrops, Finally, ReadRaises
<1>5. NoOrphanSocket'
    BY DEF Inv, NoOrphanSocket, TypeOK, LoopDrops, Finally, ReadRaises
<1>6. NoticeMeansDrop'
  <2>1. writer = k
      BY DEF Inv, LoopOwns, LoopDrops
  <2>2. peer[k] # "up" \/ \E i \in DOMAIN sent[k] : sent[k][i] = "overlong"
      BY DEF Inv, TypeOK, LoopDrops, ReadRaises
  <2> QED
      BY <2>1, <2>2, ZenonT(40) DEF Inv, NoticeMeansDrop, TypeOK, LoopDrops, Finally, ReadRaises
<1>7. ConnectedMeansRead' /\ CancelledAlone' /\ TaskKnown' /\ OpeningAlone' /\
     HeldApart' /\ LastTaken'
    BY DEF Inv, ConnectedMeansRead, LoopDrops, Finally, ReadRaises, CancelledAlone,
        TaskKnown, OpeningAlone, HeldApart, LastTaken
<1> QED
    BY <1>1, <1>2, <1>3, <1>4, <1>5, <1>6, <1>7 DEF Inv

\* A cancelled loop ends (tcp.py:99-103): by CancelledAlone there is no writer
\* it could close.
LEMMA LoopCancelledKeepsInv == ASSUME NEW k \in Links, Inv, LoopCancelled(k) PROVE Inv'
<1> USE TcpAssumption DEF Links, None, Idle, link, history
<1>1. TypeOK'
  <2>1. writer = None
      BY DEF Inv, CancelledAlone, LoopCancelled
  <2> QED
      BY <2>1 DEF Inv, TypeOK, LoopCancelled, Finally
<1>2. LoopOwns'
  <2>1. writer = None
      BY DEF Inv, CancelledAlone, LoopCancelled
  <2> QED
      BY <2>1 DEF Inv, LoopOwns, TypeOK, LoopCancelled, Finally
<1>3. Fresh'
    BY DEF Inv, Fresh, CancelledAlone, LoopCancelled, Finally
<1>4. ToldIsOver'
    BY DEF Inv, ToldIsOver, CancelledAlone, LoopCancelled, Finally
<1>5. NoOrphanSocket'
    BY DEF Inv, NoOrphanSocket, TypeOK, LoopCancelled, Finally
<1>6. NoticeMeansDrop'
    BY DEF Inv, NoticeMeansDrop, CancelledAlone, LoopCancelled, Finally
<1>7. ConnectedMeansRead' /\ CancelledAlone' /\ TaskKnown' /\ OpeningAlone' /\
     HeldApart' /\ LastTaken'
    BY DEF Inv, ConnectedMeansRead, LoopCancelled, Finally, CancelledAlone, TaskKnown,
        OpeningAlone, HeldApart, LastTaken
<1> QED
    BY <1>1, <1>2, <1>3, <1>4, <1>5, <1>6, <1>7 DEF Inv

\* The peer sends a line.
LEMMA PeerSendsKeepsInv == ASSUME NEW k \in Links, Inv, PeerSends(k) PROVE Inv'
<1> USE TcpAssumption DEF Links, None, Idle, link, history
<1>1. TypeOK'
  <2>1. \A line \in Lines : Append(sent[k], line) \in Seq(Lines)
      BY DEF Inv, TypeOK
  <2> QED
      BY <2>1, ZenonT(40) DEF Inv, TypeOK, PeerSends
<1>2. NoticeMeansDrop'
  <2>1. ASSUME told[k] > 0
       PROVE  \E i \in DOMAIN sent'[k] : sent'[k][i] = "overlong"
    <3>1. PICK i \in DOMAIN sent[k] : sent[k][i] = "overlong"
        BY <2>1 DEF Inv, NoticeMeansDrop, PeerSends
    <3>2. PICK line \in Lines : sent'[k] = Append(sent[k], line)
        BY DEF Inv, TypeOK, PeerSends
    <3>3. sent[k] \in Seq(Lines)
        BY DEF Inv, TypeOK
    <3> QED
        BY <3>1, <3>2, <3>3
  <2> QED
      BY <2>1, SMTT(30) DEF Inv, NoticeMeansDrop, TypeOK, PeerSends
<1>3. LoopOwns' /\ ConnectedMeansRead' /\ CancelledAlone' /\ TaskKnown' /\
     OpeningAlone' /\ HeldApart' /\ Fresh' /\ ToldIsOver' /\ LastTaken' /\
     NoOrphanSocket'
    BY DEF Inv, LoopOwns, PeerSends, ConnectedMeansRead, CancelledAlone, TaskKnown,
        OpeningAlone, HeldApart, Fresh, ToldIsOver, LastTaken, NoOrphanSocket
<1> QED
    BY <1>1, <1>2, <1>3 DEF Inv

\* The peer closes or resets the connection.
LEMMA PeerLeavesKeepsInv == ASSUME NEW k \in Links, Inv, PeerLeaves(k) PROVE Inv'
<1> USE TcpAssumption DEF Links, None, Idle, link, history
<1>1. TypeOK'
    BY DEF Inv, TypeOK, PeerLeaves
<1>2. LoopOwns' /\ ConnectedMeansRead' /\ CancelledAlone' /\ TaskKnown' /\
     OpeningAlone' /\ HeldApart' /\ Fresh' /\ ToldIsOver' /\ LastTaken' /\
     NoOrphanSocket' /\ NoticeMeansDrop'
    BY DEF Inv, LoopOwns, PeerLeaves, ConnectedMeansRead, CancelledAlone, TaskKnown,
        OpeningAlone, HeldApart, Fresh, ToldIsOver, LastTaken, NoOrphanSocket,
        NoticeMeansDrop
<1> QED
    BY <1>1, <1>2 DEF Inv

\* disconnect() takes the fields over and cancels the loop (tcp.py:62-69):
\* what was in _writer is now in its hands.
LEMMA DisconnectCallKeepsInv == ASSUME NEW d \in Closers, Inv, DisconnectCall(d) PROVE Inv'
<1> USE TcpAssumption DEF Links, None, Idle, link, history
<1>1. TypeOK'
    BY DEF Inv, TypeOK, LoopOwns, DisconnectCall
<1>2. LoopOwns'
    BY DEF Inv, LoopOwns, TypeOK, DisconnectCall
<1>3. HeldApart'
    BY DEF Inv, HeldApart, TypeOK, LoopOwns, DisconnectCall
<1>4. NoOrphanSocket'
  <2>1. closer'[d].writer = writer /\ closer[d].writer = None
      BY DEF Inv, TypeOK, DisconnectCall
  <2>2. \A e \in Closers \ {d} : closer'[e] = closer[e]
      BY DEF Inv, TypeOK, DisconnectCall
  <2>3. \A k \in Links : k # None /\ sock'[k] = sock[k]
      BY DEF DisconnectCall
  <2> QED
      BY <2>1, <2>2, <2>3 DEF Inv, NoOrphanSocket
<1>5. CancelledAlone' /\ ToldIsOver'
    BY DEF Inv, DisconnectCall, CancelledAlone, ToldIsOver
<1>6. ConnectedMeansRead' /\ TaskKnown' /\ OpeningAlone' /\ Fresh' /\ LastTaken' /\
     NoticeMeansDrop'
    BY DEF Inv, ConnectedMeansRead, DisconnectCall, TaskKnown,
        OpeningAlone, Fresh, LastTaken, NoticeMeansDrop
<1> QED
    BY <1>1, <1>2, <1>3, <1>4, <1>5, <1>6 DEF Inv

\* disconnect() with no loop to await (tcp.py:62-73).
LEMMA DisconnectNothingKeepsInv == ASSUME NEW d \in Closers, Inv, DisconnectNothing(d) PROVE Inv'
<1> USE TcpAssumption DEF Links, None, Idle, link, history
<1>1. TypeOK'
    BY DEF Inv, TypeOK, DisconnectNothing, CloseSocket
<1>2. Fresh'
    BY DEF Inv, Fresh, ConnectedMeansRead, DisconnectNothing, CloseSocket
<1>3. NoOrphanSocket'
    BY DEF Inv, NoOrphanSocket, TypeOK, DisconnectNothing, CloseSocket
<1>4. LoopOwns' /\ ConnectedMeansRead' /\ CancelledAlone' /\ TaskKnown' /\
     OpeningAlone' /\ HeldApart' /\ ToldIsOver' /\ LastTaken' /\ NoticeMeansDrop'
    BY DEF Inv, LoopOwns, DisconnectNothing, CloseSocket, ConnectedMeansRead,
        CancelledAlone, TaskKnown, OpeningAlone, HeldApart, ToldIsOver, LastTaken,
        NoticeMeansDrop
<1> QED
    BY <1>1, <1>2, <1>3, <1>4 DEF Inv

\* disconnect() comes back, joined or cancelled (tcp.py:69-73): by HeldApart
\* what it closes is nobody's writer.
LEMMA DisconnectEndsKeepsInv == ASSUME NEW d \in Closers, Inv, DisconnectEnds(d) PROVE Inv'
<1> USE TcpAssumption DEF Links, None, Idle, link, history
<1>1. TypeOK'
    BY DEF Inv, TypeOK, DisconnectEnds, CloseSocket
<1>2. ConnectedMeansRead'
    BY DEF Inv, ConnectedMeansRead, HeldApart, DisconnectEnds, CloseSocket
<1>3. Fresh'
    BY DEF Inv, Fresh, HeldApart, DisconnectEnds, CloseSocket
<1>4. NoOrphanSocket'
    BY DEF Inv, NoOrphanSocket, TypeOK, DisconnectEnds, CloseSocket
<1>5. LoopOwns' /\ CancelledAlone' /\ TaskKnown' /\ OpeningAlone' /\ HeldApart' /\
     ToldIsOver' /\ LastTaken' /\ NoticeMeansDrop'
    BY DEF Inv, LoopOwns, DisconnectEnds, CloseSocket, CancelledAlone, TaskKnown,
        OpeningAlone, HeldApart, ToldIsOver, LastTaken, NoticeMeansDrop
<1> QED
    BY <1>1, <1>2, <1>3, <1>4, <1>5 DEF Inv
-----------------------------------------------------------------------------
(* The theorems.                                                           *)

\* Every step keeps the invariant.
LEMMA InvStep == Inv /\ [Next]_vars => Inv'
<1> SUFFICES ASSUME Inv, [Next]_vars PROVE Inv'
    OBVIOUS
<1>1. CASE ConnectCall
    BY <1>1, ConnectCallKeepsInv
<1>2. CASE Opened
    BY <1>2, OpenedKeepsInv
<1>3. CASE ConnectFails
    BY <1>3, ConnectFailsKeepsInv
<1>4. CASE Write
    BY <1>4, WriteKeepsInv
<1>5. ASSUME NEW k \in Links, LoopStep(k) PROVE Inv'
    BY <1>5, ReadsKeepsInv, LoopDropsKeepsInv, LoopCancelledKeepsInv DEF LoopStep
<1>6. ASSUME NEW k \in Links, PeerSends(k) \/ PeerLeaves(k) PROVE Inv'
    BY <1>6, PeerSendsKeepsInv, PeerLeavesKeepsInv
<1>7. ASSUME NEW d \in Closers,
             DisconnectCall(d) \/ DisconnectNothing(d) \/ DisconnectEnds(d)
      PROVE  Inv'
    BY <1>7, DisconnectCallKeepsInv, DisconnectNothingKeepsInv, DisconnectEndsKeepsInv
<1>8. CASE UNCHANGED vars
  <2> USE <1>8 DEF vars, link, history
  <2>1. TypeOK' /\ LoopOwns' /\ ConnectedMeansRead' /\ CancelledAlone' /\ TaskKnown'
      BY DEF Inv, TypeOK, LoopOwns, ConnectedMeansRead, CancelledAlone, TaskKnown
  <2>2. OpeningAlone' /\ HeldApart' /\ Fresh' /\ ToldIsOver' /\ LastTaken'
      BY DEF Inv, OpeningAlone, HeldApart, Fresh, ToldIsOver, LastTaken
  <2>3. NoOrphanSocket' /\ NoticeMeansDrop'
      BY DEF Inv, NoOrphanSocket, NoticeMeansDrop
  <2> QED
      BY <2>1, <2>2, <2>3 DEF Inv
<1> QED
    BY <1>1, <1>2, <1>3, <1>4, <1>5, <1>6, <1>7, <1>8 DEF Next

\* The invariant holds in every reachable state.
THEOREM Inductive == Spec => []Inv
    BY InvInit, InvStep, PTL DEF Spec

\* Type correctness.
THEOREM TypeCorrect == Spec => []TypeOK
<1>1. Inv => TypeOK
    BY DEF Inv
<1> QED
    BY <1>1, Inductive, PTL

\* No interleaving of connect(), disconnect(), its cancellation and the read
\* loop leaves a socket open that nobody holds (tcp.py:54-103).
THEOREM SocketsOwned == Spec => []NoOrphanSocket
<1>1. Inv => NoOrphanSocket
    BY DEF Inv
<1> QED
    BY <1>1, Inductive, PTL

\* The disconnect callback is called for drops only (tcp.py:100-103).
THEOREM NoticesAreDrops == Spec => []NoticeMeansDrop
<1>1. Inv => NoticeMeansDrop
    BY DEF Inv
<1> QED
    BY <1>1, Inductive, PTL

\* A transport that calls itself connected is being read (tcp.py:50-60).
THEOREM ConnectedIsRead == Spec => []ConnectedMeansRead
<1>1. Inv => ConnectedMeansRead
    BY DEF Inv
<1> QED
    BY <1>1, Inductive, PTL

\* The initial states are those of the contract.
LEMMA ContractInit == Init => Contract!Init
    BY DEF Init, None, Contract!Init

\* Every step is one of the contract, or changes nothing the contract names.
LEMMA ContractStep == Inv /\ [Next]_vars => [Contract!Next]_Contract!vars
<1> SUFFICES ASSUME Inv, [Next]_vars, ~UNCHANGED Contract!vars PROVE Contract!Next
    OBVIOUS
<1> USE DEF Contract!Next, Contract!vars, None, link, history
<1>1. CASE ConnectCall \/ ConnectFails \/ UNCHANGED vars
    BY <1>1 DEF ConnectCall, ConnectFails, vars
<1>2. CASE Opened
  <2>1. writer = None
      BY <1>2 DEF Inv, TypeOK, ConnectedMeansRead, OpeningAlone, Opened, Ending, Links, None
  <2>2. opened + 1 \in Links
      BY <1>2, TcpAssumption DEF Inv, TypeOK, OpeningAlone, Opened, Links
  <2> QED
      BY <1>2, <2>1, <2>2 DEF Opened, Contract!Connect
<1>3. CASE Write
    BY <1>3 DEF Write, Connected, Contract!Write
<1>4. ASSUME NEW k \in Links, Reads(k) PROVE Contract!Next
  <2>1. writer = k /\ last' \in [Links -> Nat]
      BY <1>4 DEF Inv, TypeOK, LoopOwns, Reads
  <2>2. last' = [last EXCEPT ![k] = taken[k] + 1] /\ last[k] <= taken[k]
      BY <1>4 DEF Inv, LastTaken, Reads
  <2>3. k # 0 /\ taken[k] \in Nat /\ last \in [Links -> Nat]
      BY TcpAssumption DEF Inv, TypeOK, Links
  <2> QED
      BY <1>4, <2>1, <2>2, <2>3 DEF Reads, Contract!Deliver
<1>5. ASSUME NEW k \in Links, LoopDrops(k) PROVE Contract!Next
  <2>1. writer = k /\ told[k] = 0 /\ k # 0
      BY <1>5, TcpAssumption DEF Inv, LoopOwns, ToldIsOver, LoopDrops, Links
  <2>2. told' = [told EXCEPT ![k] = 1]
      BY <1>5, <2>1 DEF Inv, TypeOK, LoopDrops, Finally
  <2> QED
      BY <1>5, <2>1, <2>2 DEF LoopDrops, Finally, Contract!Drop
<1>6. ASSUME NEW k \in Links, LoopCancelled(k) PROVE Contract!Next
    BY <1>6 DEF Inv, CancelledAlone, LoopCancelled, Finally
<1>7. ASSUME NEW k \in Links, PeerSends(k) \/ PeerLeaves(k) PROVE Contract!Next
    BY <1>7 DEF PeerSends, PeerLeaves
<1>8. ASSUME NEW d \in Closers, DisconnectCall(d) PROVE Contract!Next
  <2>1. writer = task /\ task # 0
      BY <1>8 DEF Inv, TypeOK, LoopOwns, DisconnectCall
  <2> QED
      BY <1>8, <2>1 DEF DisconnectCall, Contract!Disconnect
<1>9. ASSUME NEW d \in Closers, DisconnectNothing(d) PROVE Contract!Next
  <2>1. writer # None => task = writer /\ loop[writer] = "reading"
      BY DEF Inv, ConnectedMeansRead
  <2> QED
      BY <1>9, <2>1 DEF DisconnectNothing
<1>10. ASSUME NEW d \in Closers, DisconnectEnds(d) PROVE Contract!Next
    BY <1>10 DEF DisconnectEnds
<1> QED
    BY <1>1, <1>2, <1>3, <1>4, <1>5, <1>6, <1>7, <1>8, <1>9, <1>10 DEF Next, LoopStep

\* The TCP transport implements the contract of Transport (base.py:17-59): one
\* link at a time, drops told once, frames in order and only from the link
\* that is owned.
THEOREM TcpImplementsTransport == Spec => ImplementsTransport
    BY ContractInit, ContractStep, Inductive, PTL
        DEF Spec, ImplementsTransport, Contract!Spec
=============================================================================
