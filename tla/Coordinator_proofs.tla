------------------------- MODULE Coordinator_proofs -------------------------
(***************************************************************************)
(* Proofs about Coordinator, for any number of parameters, writers, faults  *)
(* and changes, both protocols.                                             *)
(*                                                                          *)
(* Types first (TypeInv).  Then who may touch a connection (OwnerInv): the  *)
(* heart is that self._session is None while the refresh closes or opens a  *)
(* link, because _async_connect clears it before its first await and nobody *)
(* else sets it.  From there: one closer for each session, only the current *)
(* one speaks, a connected device is subscribed, no link without an owner   *)
(* but the stray ones, and what async_shutdown leaves behind.               *)
(***************************************************************************)
EXTENDS Coordinator, SequenceTheorems, TLAPS

Updates == [param : Params, version : 1 .. (MaxChanges + 1)]
Connections ==
    [link : {"none", "up", "down"}, notifying : BOOLEAN,
     machine : {"new", "handshake", "ready", "closed"}, readyEvt : BOOLEAN,
     subs : SUBSET Params, air : Seq(Updates), revived : BOOLEAN, late : BOOLEAN]

\* The places of the refresh at which it has a connection of its own.
Holding == {"closing", "opened", "reopening", "enabling", "starting", "subscribing", "failing"}

Refreshes ==
    {r \in [pc : {"idle", "closing", "establish", "opened", "reopening",
                  "enabling", "starting", "subscribing", "failing"},
            conn : Conns \cup {NoConn}, at : 0 .. Topics] :
        /\ r.pc \in Holding => r.conn \in Conns
        /\ r.pc = "subscribing" => r.at \in Params}
Unloads ==
    {u \in [pc : {"no", "closing", "done"}, conn : Conns \cup {NoConn}] :
        u.pc = "closing" => u.conn \in Conns}
Writes ==
    {w \in [pc : {"idle", "put", "read"}, conn : Conns \cup {NoConn}, param : 0 .. Topics] :
        w.pc # "idle" => w.conn \in Conns /\ w.param \in Params}

TypeInv ==
    /\ conn \in [Conns -> Connections]
    /\ current \in Conns \cup {NoConn}
    /\ refresh \in Refreshes
    /\ cleanups \subseteq Conns /\ ended \subseteq Conns
    /\ requested \in BOOLEAN /\ success \in BOOLEAN
    /\ unload \in Unloads
    /\ data \in [Params -> 0 .. (MaxChanges + 1)]
    /\ dev \in [Params -> 1 .. (MaxChanges + 1)]
    /\ write \in [Writers -> Writes]
    /\ faults \in 0 .. MaxFaults /\ changes \in 0 .. MaxChanges
-----------------------------------------------------------------------------
(* Types.                                                                  *)

\* Another value in the air is a value more.
LEMMA AirTyped ==
    ASSUME NEW air \in Seq(Updates), NEW k \in Params, NEW v \in 1 .. (MaxChanges + 1)
    PROVE  Append(air, [param |-> k, version |-> v]) \in Seq(Updates)
<1>1. [param |-> k, version |-> v] \in Updates
    BY DEF Updates
<1> QED
    BY <1>1, AppendProperties

\* A value received is one value less in the air.
LEMMA TailTyped ==
    ASSUME NEW air \in Seq(Updates), air # << >>
    PROVE  Tail(air) \in Seq(Updates) /\ Head(air) \in Updates
    BY HeadTailProperties

\* TypeInv is TypeOK and more.
LEMMA TypeInvImplies == TypeInv => TypeOK
<1> SUFFICES ASSUME TypeInv PROVE TypeOK
    OBVIOUS
<1>1. /\ Refreshes \subseteq [pc : {"idle", "closing", "establish", "opened", "reopening",
                          "enabling", "starting", "subscribing", "failing"},
                    conn : Conns \cup {NoConn}, at : 0 .. Topics]
      /\ Unloads \subseteq [pc : {"no", "closing", "done"}, conn : Conns \cup {NoConn}]
      /\ Writes \subseteq [pc : {"idle", "put", "read"}, conn : Conns \cup {NoConn},
                           param : 0 .. Topics]
    BY DEF Refreshes, Unloads, Writes
<1>2. write \in [Writers -> [pc : {"idle", "put", "read"}, conn : Conns \cup {NoConn},
                             param : 0 .. Topics]]
    BY <1>1 DEF TypeInv
<1>3. conn \in [Conns ->
           [link : {"none", "up", "down"}, notifying : BOOLEAN,
            machine : {"new", "handshake", "ready", "closed"}, readyEvt : BOOLEAN,
            subs : SUBSET Params, revived : BOOLEAN, late : BOOLEAN,
            air : Seq([param : Params, version : 1 .. (MaxChanges + 1)])]]
    BY DEF TypeInv, Connections, Updates
<1>4. refresh \in [pc : {"idle", "closing", "establish", "opened", "reopening",
                          "enabling", "starting", "subscribing", "failing"},
                    conn : Conns \cup {NoConn}, at : 0 .. Topics]
      /\ unload \in [pc : {"no", "closing", "done"}, conn : Conns \cup {NoConn}]
    BY <1>1 DEF TypeInv
<1> QED
    BY <1>2, <1>3, <1>4 DEF TypeInv, TypeOK

\* At the start.
LEMMA TypeInit == Init => TypeInv
<1> SUFFICES ASSUME Init PROVE TypeInv
    OBVIOUS
<1>1. Topics \in Nat /\ MaxFaults \in Nat /\ MaxChanges \in Nat /\ 1 \in Conns /\ Topics # 0
    BY CoordinatorAssumption DEF Conns
<1>2. [k \in Params |-> [param |-> k, version |-> dev[k]]] \in Seq(Updates)
  <2>1. \A k \in Params : [param |-> k, version |-> dev[k]] \in Updates
      BY <1>1 DEF Init, Updates
  <2> QED
      BY <2>1, <1>1, IsASeq DEF Params
<1>3. << >> \in Seq(Updates)
    OBVIOUS
<1>4. conn \in [Conns -> Connections]
  <2>1. Unused \in Connections
      BY <1>3 DEF Unused, Connections
  <2>2. [link |-> "up", notifying |-> TRUE, machine |-> "ready", readyEvt |-> TRUE,
         subs |-> Params, revived |-> FALSE, late |-> FALSE,
         air |-> [k \in Params |-> [param |-> k, version |-> dev[k]]]] \in Connections
      BY <1>2 DEF Connections
  <2> QED
      BY <2>1, <2>2 DEF Init
<1>5. Idle \in Refreshes /\ NoWrite \in Writes /\ [pc |-> "no", conn |-> NoConn] \in Unloads
    BY <1>1 DEF Idle, NoWrite, Refreshes, Writes, Unloads, Holding
<1>6. data \in [Params -> 0 .. (MaxChanges + 1)] /\ dev \in [Params -> 1 .. (MaxChanges + 1)]
    BY <1>1 DEF Init, Unknown
<1>7. write \in [Writers -> Writes]
    BY <1>5 DEF Init
<1>8. /\ current \in Conns /\ refresh \in Refreshes /\ unload \in Unloads
      /\ cleanups \subseteq Conns /\ ended \subseteq Conns
      /\ requested \in BOOLEAN /\ success \in BOOLEAN
    BY <1>1, <1>5 DEF Init
<1>9. faults \in 0 .. MaxFaults /\ changes \in 0 .. MaxChanges
    BY <1>1 DEF Init
<1> QED
    BY <1>4, <1>6, <1>7, <1>8, <1>9 DEF TypeInv

\* What the steps that close a session do to the connections.
LEMMA TakeTyped ==
    ASSUME TypeInv, TakeSession
    PROVE  conn' \in [Conns -> Connections] /\ current' = NoConn
<1>1. CASE current = NoConn
    BY <1>1 DEF TypeInv, TakeSession
<1>2. CASE current # NoConn
  <2>1. current \in Conns /\ conn[current] \in Connections
      BY <1>2 DEF TypeInv
  <2>2. [conn[current] EXCEPT !.machine = "closed"] \in Connections
      BY <2>1 DEF Connections
  <2> QED
      BY <1>2, <2>1, <2>2 DEF TypeInv, TakeSession
<1> QED
    BY <1>1, <1>2

\* So does the end of the close.
LEMMA ClosedTyped ==
    ASSUME TypeInv, NEW c \in Conns, SessionClosed(c)
    PROVE  conn' \in [Conns -> Connections] /\ ended' \subseteq Conns
<1>1. << >> \in Seq(Updates)
    OBVIOUS
<1>2. \A l \in {"none", "up", "down"} :
        [conn[c] EXCEPT !.notifying = FALSE, !.air = << >>, !.link = l] \in Connections
    BY <1>1 DEF TypeInv, Connections
<1>3. conn[c].link \in {"none", "up", "down"}
    BY DEF TypeInv, Connections
<1> QED
    BY <1>2, <1>3 DEF TypeInv, SessionClosed

\* A fault is within its bound.
LEMMA FaultTyped ==
    ASSUME TypeInv, NEW forced, Fault(forced)
    PROVE  faults' \in 0 .. MaxFaults
    BY CoordinatorAssumption DEF TypeInv, Fault

\* Where a refresh can be sent.
LEMMA AdvanceTyped ==
    /\ Idle \in Refreshes
    /\ \A pc \in {"establish"} : [pc |-> pc, conn |-> NoConn, at |-> 0] \in Refreshes
    /\ \A pc \in Holding \ {"subscribing"}, c \in Conns :
           [pc |-> pc, conn |-> c, at |-> 0] \in Refreshes
    /\ \A c \in Conns, k \in Params : [pc |-> "subscribing", conn |-> c, at |-> k] \in Refreshes
<1>1. 0 \in 0 .. Topics /\ Params \subseteq 0 .. Topics
    BY CoordinatorAssumption DEF Params
<1> QED
    BY <1>1 DEF Refreshes, Holding, Idle

\* Where a scan leaves the refresh.
LEMMA ScanTyped ==
    ASSUME TypeInv, Scan
    PROVE  refresh' \in Refreshes /\ success' \in BOOLEAN /\ faults' \in 0 .. MaxFaults
<1>1. CASE Advance("establish", NoConn) /\ UNCHANGED << success, faults >>
    BY <1>1, AdvanceTyped DEF Advance, TypeInv
<1>2. CASE UpdateFailed /\ Fault(FALSE)
    BY <1>2, AdvanceTyped, FaultTyped DEF UpdateFailed
<1> QED
    BY <1>1, <1>2 DEF Scan

\* The refresh begins: it ends at once, closes the old session or scans.
LEMMA RefreshStartTyped == ASSUME TypeInv, RefreshStart PROVE TypeInv'
<1> USE DEF device
<1>1. CASE Connected
    BY <1>1 DEF RefreshStart, TypeInv
<1>2. CASE ~Connected /\ current = NoConn
  <2>1. TakeSession /\ Scan
      BY <1>2 DEF RefreshStart
  <2> QED
      BY <2>1, TakeTyped, ScanTyped DEF RefreshStart, TypeInv
<1>3. CASE ~Connected /\ current # NoConn
  <2>1. TakeSession /\ current \in Conns
      BY <1>3 DEF RefreshStart, TypeInv
  <2>2. refresh' \in Refreshes
      BY <1>3, <2>1, AdvanceTyped DEF RefreshStart, Advance, Holding
  <2> QED
      BY <1>3, <2>1, <2>2, TakeTyped DEF RefreshStart, TypeInv
<1> QED
    BY <1>1, <1>2, <1>3

\* A step that closes a session is one of a task that has one.
LEMMA HoldingTyped ==
    ASSUME TypeInv
    PROVE  /\ refresh.pc \in Holding => refresh.conn \in Conns
           /\ unload.pc = "closing" => unload.conn \in Conns
           /\ \A w \in Writers : write[w].pc # "idle" =>
                  write[w].conn \in Conns /\ write[w].param \in Params
    BY DEF TypeInv, Refreshes, Unloads, Writes

\* The old session is closed.
LEMMA RefreshClosesTyped == ASSUME TypeInv, RefreshCloses PROVE TypeInv'
<1>1. refresh.conn \in Conns /\ SessionClosed(refresh.conn) /\ Scan
    BY HoldingTyped DEF RefreshCloses, Holding
<1> QED
    BY <1>1, ClosedTyped, ScanTyped DEF RefreshCloses, TypeInv, device

\* A link is established, or not.
LEMMA EstablishTyped == ASSUME TypeInv, Established \/ EstablishFails PROVE TypeInv'
<1> USE DEF device
<1>1. CASE Established
  <2>1. PICK c \in Conns : conn' = [conn EXCEPT ![c].link = "up"] /\ Advance("opened", c)
      BY <1>1 DEF Established
  <2>2. [conn[c] EXCEPT !.link = "up"] \in Connections
      BY DEF TypeInv, Connections
  <2>3. conn' \in [Conns -> Connections]
      BY <2>1, <2>2 DEF TypeInv
  <2>4. refresh' \in Refreshes
      BY <2>1, AdvanceTyped DEF Advance, Holding
  <2> QED
      BY <1>1, <2>3, <2>4 DEF Established, TypeInv
<1>2. CASE EstablishFails
  <2>1. faults' \in 0 .. MaxFaults /\ refresh' \in Refreshes /\ success' \in BOOLEAN
      BY <1>2, FaultTyped, AdvanceTyped DEF EstablishFails, UpdateFailed
  <2> QED
      BY <1>2, <2>1 DEF EstablishFails, TypeInv
<1> QED
    BY <1>1, <1>2

\* The session is set up, step by step.
LEMMA SetupTyped ==
    ASSUME TypeInv, OpenSession \/ Reopened \/ Enabled \/ Started
    PROVE  TypeInv'
<1> USE DEF device
<1> DEFINE c == refresh.conn
<1>1. c \in Conns /\ conn[c] \in Connections
    BY HoldingTyped DEF TypeInv, Holding, OpenSession, Reopened, Enabled, Started
<1>2. CASE OpenSession
  <2>1. \A mc \in {"handshake", "ready"}, b \in BOOLEAN, l \in BOOLEAN :
            [conn[c] EXCEPT !.machine = mc, !.readyEvt = b, !.late = l] \in Connections
      BY <1>1 DEF Connections
  <2>2. conn' \in [Conns -> Connections]
      BY <1>1, <1>2, <2>1 DEF OpenSession, TypeInv
  <2>3. refresh' \in Refreshes
      BY <1>1, <1>2, AdvanceTyped DEF OpenSession, Advance, Holding
  <2> QED
      BY <1>1, <1>2, <2>2, <2>3 DEF OpenSession, TypeInv
<1>3. CASE Reopened
  <2>1. [conn[c] EXCEPT !.link = "up", !.revived = TRUE] \in Connections
      BY <1>1 DEF Connections
  <2>2. conn' \in [Conns -> Connections]
      BY <1>1, <1>3, <2>1 DEF Reopened, TypeInv
  <2>3. refresh' \in Refreshes
      BY <1>1, <1>3, AdvanceTyped DEF Reopened, Advance, Holding
  <2> QED
      BY <1>3, <2>2, <2>3 DEF Reopened, TypeInv
<1>4. CASE Enabled
  <2>1. [conn[c] EXCEPT !.notifying = TRUE] \in Connections
      BY <1>1 DEF Connections
  <2>2. conn' \in [Conns -> Connections]
      BY <1>1, <1>4, <2>1 DEF Enabled, TypeInv
  <2>3. refresh' \in Refreshes
      BY <1>1, <1>4, AdvanceTyped DEF Enabled, Advance, Holding
  <2> QED
      BY <1>4, <2>2, <2>3 DEF Enabled, TypeInv
<1>5. CASE Started
  <2>1. refresh' = [pc |-> "subscribing", conn |-> c, at |-> 1]
      BY <1>5 DEF Started, TypeInv, Refreshes
  <2>2. 1 \in Params
      BY CoordinatorAssumption DEF Params
  <2>3. refresh' \in Refreshes
      BY <1>1, <2>1, <2>2, AdvanceTyped
  <2> QED
      BY <1>5, <2>3 DEF Started, TypeInv
<1> QED
    BY <1>2, <1>3, <1>4, <1>5

\* A parameter is subscribed: the device answers.
LEMMA SubscribesTyped ==
    ASSUME TypeInv, NEW c \in Conns, NEW k \in Params, Subscribes(c, k)
    PROVE  conn' \in [Conns -> Connections]
<1>1. conn[c] \in Connections /\ dev[k] \in 1 .. (MaxChanges + 1)
    BY DEF TypeInv
<1>2. Append(conn[c].air, [param |-> k, version |-> dev[k]]) \in Seq(Updates)
    BY <1>1, AirTyped DEF Connections
<1>3. [conn[c] EXCEPT !.subs = @ \cup {k},
                      !.air = Append(@, [param |-> k, version |-> dev[k]])] \in Connections
    BY <1>1, <1>2 DEF Connections
<1> QED
    BY <1>3 DEF TypeInv, Subscribes

\* The setup ends, well or not.
LEMMA SetupEndTyped ==
    ASSUME TypeInv, Subscribe \/ SetupFails \/ SetupFailed
    PROVE  TypeInv'
<1> USE DEF device
<1>1. CASE Subscribe
  <2>1. refresh.conn \in Conns /\ refresh.at \in Params
      BY <1>1 DEF Subscribe, TypeInv, Refreshes, Holding
  <2>2. conn' \in [Conns -> Connections]
      BY <1>1, <2>1, SubscribesTyped DEF Subscribe
  <2>3. CASE refresh.at = Topics
      BY <1>1, <2>2, <2>3, AdvanceTyped DEF Subscribe, TypeInv
  <2>4. CASE refresh.at # Topics
    <3>1. refresh.at + 1 \in Params
        BY <2>1, <2>4, CoordinatorAssumption DEF Params
    <3>2. refresh' = [pc |-> "subscribing", conn |-> refresh.conn, at |-> refresh.at + 1]
        BY <1>1, <2>4 DEF Subscribe, TypeInv, Refreshes
    <3>3. refresh' \in Refreshes
        BY <2>1, <3>1, <3>2, AdvanceTyped
    <3> QED
        BY <1>1, <2>2, <2>4, <3>3 DEF Subscribe, TypeInv
  <2> QED
      BY <2>3, <2>4
<1>2. CASE SetupFails
  <2>1. conn' \in [Conns -> Connections] /\ current' = NoConn
      BY <1>2, TakeTyped DEF SetupFails
  <2>2. faults' \in 0 .. MaxFaults
      BY <1>2, FaultTyped DEF SetupFails, SetupError
  <2>3. refresh' \in Refreshes /\ success' \in BOOLEAN
    <3>1. CASE current = NoConn
        BY <1>2, <3>1, AdvanceTyped DEF SetupFails, UpdateFailed
    <3>2. CASE current # NoConn
        BY <1>2, <3>2, AdvanceTyped DEF SetupFails, Advance, TypeInv, Holding
    <3> QED
        BY <3>1, <3>2
  <2> QED
      BY <1>2, <2>1, <2>2, <2>3 DEF SetupFails, TypeInv
<1>3. CASE SetupFailed
  <2>1. refresh.conn \in Conns /\ SessionClosed(refresh.conn) /\ UpdateFailed
      BY <1>3, HoldingTyped DEF SetupFailed, Holding
  <2> QED
      BY <1>3, <2>1, ClosedTyped, AdvanceTyped DEF SetupFailed, UpdateFailed, TypeInv
<1> QED
    BY <1>1, <1>2, <1>3

\* What happens to the link, and the tasks it starts.
LEMMA LinkTyped ==
    ASSUME TypeInv, NEW c \in Conns,
           HandshakeEnds(c) \/ LinkDrops(c) \/ HandleDisconnect(c) \/ CleanupEnds(c)
    PROVE  TypeInv'
<1> USE DEF device, tasks
<1>1. conn[c] \in Connections /\ << >> \in Seq(Updates)
    BY DEF TypeInv
<1>2. CASE HandshakeEnds(c)
  <2>1. [conn[c] EXCEPT !.machine = "ready", !.readyEvt = TRUE] \in Connections
      BY <1>1 DEF Connections
  <2>2. conn' \in [Conns -> Connections]
      BY <1>2, <2>1 DEF HandshakeEnds, TypeInv
  <2> QED
      BY <1>2, <2>2 DEF HandshakeEnds, TypeInv
<1>3. CASE LinkDrops(c)
  <2>1. [conn[c] EXCEPT !.link = "down", !.subs = {}, !.air = << >>] \in Connections
      BY <1>1 DEF Connections
  <2>2. conn' \in [Conns -> Connections]
      BY <1>3, <2>1 DEF LinkDrops, TypeInv
  <2>3. faults' \in 0 .. MaxFaults
      BY <1>3, FaultTyped DEF LinkDrops
  <2> QED
      BY <1>3, <2>2, <2>3 DEF LinkDrops, TypeInv
<1>4. CASE HandleDisconnect(c)
  <2>1. [conn[c] EXCEPT !.machine = "closed", !.notifying = FALSE] \in Connections
      BY <1>1 DEF Connections
  <2>2. conn' \in [Conns -> Connections]
      BY <1>4, <2>1 DEF HandleDisconnect, TypeInv
  <2> QED
      BY <1>4, <2>2 DEF HandleDisconnect, TypeInv
<1>5. CASE CleanupEnds(c)
    BY <1>5, ClosedTyped DEF CleanupEnds, TypeInv
<1> QED
    BY <1>2, <1>3, <1>4, <1>5

\* A value arrives.
LEMMA DeliverTyped == ASSUME TypeInv, NEW c \in Conns, Deliver(c) PROVE TypeInv'
<1>1. conn[c].air \in Seq(Updates) /\ conn[c].air # << >>
    BY DEF TypeInv, Connections, Deliver
<1>2. Tail(conn[c].air) \in Seq(Updates) /\ Head(conn[c].air) \in Updates
    BY <1>1, TailTyped
<1>3. [conn[c] EXCEPT !.air = Tail(@)] \in Connections
    BY <1>2 DEF TypeInv, Connections
<1>4. conn' \in [Conns -> Connections]
    BY <1>3 DEF TypeInv, Deliver
<1>5. /\ data' \in [Params -> 0 .. (MaxChanges + 1)]
      /\ success' \in BOOLEAN /\ requested' \in BOOLEAN
  <2>1. CASE Speaking(c)
    <3>1. Head(conn[c].air).version \in 0 .. (MaxChanges + 1)
        BY <1>2, CoordinatorAssumption DEF Updates
    <3> QED
        BY <2>1, <3>1 DEF Deliver, TypeInv
  <2>2. CASE ~Speaking(c)
      BY <2>2 DEF Deliver, TypeInv
  <2> QED
      BY <2>1, <2>2
<1> QED
    BY <1>4, <1>5 DEF Deliver, TypeInv, tasks, device

\* A parameter changes.
LEMMA ChangeTyped ==
    ASSUME TypeInv, NEW k \in Params, NEW echoed, Change(k, echoed)
    PROVE  /\ conn' \in [Conns -> Connections]
           /\ dev' \in [Params -> 1 .. (MaxChanges + 1)]
           /\ changes' \in 0 .. MaxChanges
<1>1. changes + 2 \in 1 .. (MaxChanges + 1) /\ changes + 1 \in 0 .. MaxChanges
    BY CoordinatorAssumption DEF TypeInv, Change
<1>2. \A c \in Conns :
        [conn[c] EXCEPT !.air = Append(@, [param |-> k, version |-> changes + 2])]
            \in Connections
  <2> TAKE c \in Conns
  <2>1. conn[c] \in Connections
      BY DEF TypeInv
  <2>2. Append(conn[c].air, [param |-> k, version |-> changes + 2]) \in Seq(Updates)
      BY <1>1, <2>1, AirTyped DEF Connections
  <2> QED
      BY <2>1, <2>2 DEF Connections
<1>3. conn' \in [Conns -> Connections]
    BY <1>2 DEF TypeInv, Change
<1> QED
    BY <1>1, <1>3 DEF TypeInv, Change

\* A write goes through its steps.
LEMMA WriteTyped ==
    ASSUME TypeInv, NEW w \in Writers, NEW k \in Params,
           WriteStep(w) \/ WriteCall(w, k)
    PROVE  TypeInv'
<1> USE DEF device
<1>1. NoWrite \in Writes
    BY CoordinatorAssumption DEF NoWrite, Writes
<1>2. CASE WriteCall(w, k)
  <2>1. current \in Conns
      BY <1>2 DEF WriteCall, Connected, TypeInv
  <2>2. [pc |-> "put", conn |-> current, param |-> k] \in Writes
      BY <2>1, CoordinatorAssumption DEF Writes, Params
  <2>3. write' \in [Writers -> Writes]
      BY <1>2, <2>2 DEF WriteCall, TypeInv
  <2> QED
      BY <1>2, <2>3 DEF WriteCall, TypeInv
<1>3. CASE Put(w)
  <2>1. write[w].param \in Params
      BY <1>3, HoldingTyped DEF Put
  <2>2. [write[w] EXCEPT !.pc = "read"] \in Writes
      BY <1>3 DEF Put, TypeInv, Writes
  <2>3. write' \in [Writers -> Writes]
      BY <1>1, <1>3, <2>2 DEF Put, TypeInv
  <2>4. Change(write[w].param, Protocol = "ddm2")
      BY <1>3 DEF Put
  <2> QED
      BY <1>3, <2>1, <2>3, <2>4, ChangeTyped DEF Put, TypeInv
<1>4. CASE ReadBack(w)
  <2>1. write[w].conn \in Conns /\ write[w].param \in Params
      BY <1>4, HoldingTyped DEF ReadBack
  <2>2. write' \in [Writers -> Writes]
      BY <1>1, <1>4 DEF ReadBack, TypeInv
  <2> QED
      BY <1>4, <2>1, <2>2, SubscribesTyped DEF ReadBack, TypeInv
<1>5. CASE WriteFails(w)
  <2>1. write' \in [Writers -> Writes]
      BY <1>1, <1>5 DEF WriteFails, TypeInv
  <2>2. faults' \in 0 .. MaxFaults
      BY <1>5, FaultTyped DEF WriteFails
  <2> QED
      BY <1>5, <2>1, <2>2 DEF WriteFails, TypeInv
<1> QED
    BY <1>2, <1>3, <1>4, <1>5 DEF WriteStep

\* async_shutdown begins and ends.
LEMMA UnloadTyped == ASSUME TypeInv, UnloadStart \/ UnloadEnds PROVE TypeInv'
<1> USE DEF device
<1>1. \A c \in Conns : [pc |-> "closing", conn |-> c] \in Unloads
    BY DEF Unloads
<1>2. [pc |-> "done", conn |-> NoConn] \in Unloads
    BY DEF Unloads
<1>3. CASE UnloadStart
  <2>1. unload' \in Unloads /\ requested' \in BOOLEAN
      BY <1>1, <1>2, <1>3 DEF UnloadStart, TypeInv
  <2> QED
      BY <1>3, <2>1, TakeTyped DEF UnloadStart, TypeInv
<1>4. CASE UnloadEnds
    BY <1>2, <1>4, ClosedTyped, HoldingTyped DEF UnloadEnds, TypeInv
<1> QED
    BY <1>3, <1>4

\* Every step keeps the types.
LEMMA TypeStep == TypeInv /\ [Next]_vars => TypeInv'
<1> SUFFICES ASSUME TypeInv, [Next]_vars PROVE TypeInv'
    OBVIOUS
<1>1. CASE RefreshStep
    BY <1>1, RefreshClosesTyped, EstablishTyped, SetupTyped, SetupEndTyped DEF RefreshStep
<1>2. CASE Advertised
    BY <1>2 DEF Advertised, TypeInv, tasks, device
<1>3. ASSUME NEW k \in Params, DeviceChanges(k) PROVE TypeInv'
  <2>1. Change(k, TRUE)
      BY <1>3 DEF DeviceChanges
  <2> QED
      BY <1>3, <2>1, ChangeTyped DEF DeviceChanges, TypeInv, tasks
<1>4. ASSUME NEW w \in Writers, WriteStep(w) PROVE TypeInv'
  <2>1. 1 \in Params
      BY CoordinatorAssumption DEF Params
  <2> QED
      BY <1>4, <2>1, WriteTyped
<1>5. CASE UNCHANGED vars
    BY <1>5 DEF vars, tasks, device, TypeInv
<1> QED
    BY <1>1, <1>2, <1>3, <1>4, <1>5, RefreshStartTyped, UnloadTyped, LinkTyped, DeliverTyped,
       WriteTyped DEF Next

\* Every variable of the coordinator keeps its type.
THEOREM TypeCorrect == Spec => []TypeOK
<1>1. Spec => []TypeInv
    BY TypeInit, TypeStep, PTL DEF Spec
<1> QED
    BY <1>1, TypeInvImplies, PTL
-----------------------------------------------------------------------------
(* Owners.                                                                 *)

\* self._session is None while the refresh closes or opens a link, and when it
\* is set up: nobody but the refresh sets it.
RefreshAlone ==
    /\ refresh.pc \in {"closing", "establish", "opened", "failing"} => current = NoConn
    /\ refresh.pc \in {"reopening", "enabling", "starting", "subscribing"} =>
           current \in {NoConn, refresh.conn}

\* A link that has just been opened is nobody else's.
OpensItsOwn ==
    refresh.pc = "opened" => refresh.conn \notin UnloadCloser \cup cleanups

\* A connection that was never made has no owner.
UnusedIsFree ==
    \A c \in Conns : conn[c].link = "none" =>
        /\ c # current
        /\ c \notin UnloadCloser \cup cleanups
        /\ refresh.pc \in Holding => c # refresh.conn

OneSpeaks == \A c \in Conns : Speaking(c) => c = current

\* The current link has every subscription, or those of the setup so far.
Subscribed ==
    current # NoConn /\ Up(current) =>
        /\ refresh.pc = "idle" => Params \subseteq conn[current].subs
        /\ refresh.pc = "subscribing" => 1 .. (refresh.at - 1) \subseteq conn[current].subs

OwnerInv ==
    /\ RefreshAlone
    /\ SessionClosedOnce
    /\ OpensItsOwn
    /\ UnusedIsFree
    /\ OneSpeaks
    /\ Subscribed

\* Most steps: no link comes up or is made, a subscription ends only with its
\* link, no session starts to speak, the past of a connection stays.
Calm(c) ==
    /\ conn'[c].link = "none" => conn[c].link = "none"
    /\ Up(c)' => Up(c) /\ conn[c].subs \subseteq conn'[c].subs
    /\ Speaking(c)' => Speaking(c)
    /\ conn'[c].revived = conn[c].revived /\ conn'[c].late = conn[c].late

\* At the start.
LEMMA OwnerInit == Init => OwnerInv
<1> SUFFICES ASSUME Init PROVE OwnerInv
    OBVIOUS
<1>1. /\ refresh.pc = "idle" /\ current = 1 /\ cleanups = {} /\ unload.pc = "no"
      /\ 1 \in Conns /\ NoConn = 0
    BY CoordinatorAssumption DEF Init, Idle, NoConn, Conns
<1>2. conn[1].link = "up" /\ conn[1].subs = Params
    BY <1>1 DEF Init
<1>3. \A c \in Conns : c # 1 => conn[c].machine = "new"
    BY DEF Init, Unused
<1> QED
    BY <1>1, <1>2, <1>3 DEF OwnerInv, RefreshAlone, SessionClosedOnce, OpensItsOwn,
       UnusedIsFree, OneSpeaks, Speaking, Subscribed, RefreshCloser, UnloadCloser, Holding

\* A calm step that gives nobody a connection.
LEMMA CalmKeeps ==
    ASSUME TypeInv, TypeInv', OwnerInv, \A c \in Conns : Calm(c),
           UNCHANGED << current, refresh >>, UnloadCloser' \subseteq UnloadCloser,
           cleanups' \subseteq cleanups
    PROVE  OwnerInv'
<1>1. (RefreshAlone /\ SessionClosedOnce /\ OpensItsOwn)'
    BY DEF OwnerInv, RefreshAlone, SessionClosedOnce, OpensItsOwn, RefreshCloser
<1>2. UnusedIsFree'
    BY DEF OwnerInv, UnusedIsFree, Calm
<1>3. OneSpeaks'
    BY DEF OwnerInv, OneSpeaks, Calm
<1>4. Subscribed'
    BY DEF TypeInv, OwnerInv, Subscribed, Calm
<1> QED
    BY <1>1, <1>2, <1>3, <1>4 DEF OwnerInv

\* Taking the session for closing is calm and leaves none that speaks.
LEMMA TakeCalm ==
    ASSUME TypeInv, OwnerInv, TakeSession
    PROVE  \A c \in Conns : Calm(c) /\ ~Speaking(c)'
<1> SUFFICES ASSUME NEW c \in Conns PROVE Calm(c) /\ ~Speaking(c)'
    OBVIOUS
<1>1. conn[c] \in Connections
    BY DEF TypeInv
<1>2. CASE current = NoConn
  <2>1. c # current
      BY <1>2 DEF Conns, NoConn
  <2> QED
      BY <1>2, <2>1 DEF TakeSession, Calm, OwnerInv, OneSpeaks, Speaking, Up
<1>3. CASE current # NoConn
  <2>1. conn' = [conn EXCEPT ![current].machine = "closed"]
      BY <1>3 DEF TakeSession
  <2>2. CASE c = current
    <3>1. conn'[c] = [conn[c] EXCEPT !.machine = "closed"]
        BY <2>1, <2>2 DEF TypeInv
    <3> QED
        BY <1>1, <3>1 DEF Calm, Speaking, Up, Connections
  <2>3. CASE c # current
    <3>1. conn'[c] = conn[c]
        BY <2>1, <2>3 DEF TypeInv
    <3> QED
        BY <2>3, <3>1 DEF Calm, OwnerInv, OneSpeaks, Speaking, Up
  <2> QED
      BY <2>2, <2>3
<1> QED
    BY <1>2, <1>3

\* So is the end of a close.
LEMMA ClosedCalm ==
    ASSUME TypeInv, NEW d \in Conns, SessionClosed(d)
    PROVE  \A c \in Conns : Calm(c) /\ (c = d => ~Up(c)')
<1> SUFFICES ASSUME NEW c \in Conns PROVE Calm(c) /\ (c = d => ~Up(c)')
    OBVIOUS
<1>1. conn[c] \in Connections
    BY DEF TypeInv
<1>2. CASE c = d
  <2>1. conn'[c] = [conn[c] EXCEPT !.notifying = FALSE, !.air = << >>,
                                   !.link = IF Up(c) THEN "down" ELSE @]
      BY <1>2 DEF SessionClosed, TypeInv
  <2> QED
      BY <1>1, <2>1 DEF Calm, Speaking, Up, Connections
<1>3. CASE c # d
  <2>1. conn'[c] = conn[c]
      BY <1>3 DEF SessionClosed, TypeInv
  <2> QED
      BY <1>3, <2>1 DEF Calm, Speaking, Up
<1> QED
    BY <1>2, <1>3

\* A scan ends the refresh or sends it on to connect.
LEMMA ScanGoes == ASSUME Scan PROVE refresh'.pc \in {"idle", "establish"}
<1>1. CASE Advance("establish", NoConn)
    BY <1>1 DEF Advance
<1>2. CASE UpdateFailed
    BY <1>2 DEF UpdateFailed, Idle
<1> QED
    BY <1>1, <1>2 DEF Scan

\* With no current session the refresh may go where it closes nothing.
LEMMA FreedKeeps ==
    ASSUME TypeInv, TypeInv', OwnerInv, \A c \in Conns : Calm(c) /\ ~Speaking(c)',
           current' = NoConn, UNCHANGED << cleanups, unload >>,
           refresh'.pc \in {"idle", "establish"}
    PROVE  OwnerInv'
<1>1. NoConn \notin Conns
    BY DEF NoConn, Conns
<1>2. (RefreshAlone /\ OpensItsOwn /\ Subscribed)'
    BY DEF RefreshAlone, OpensItsOwn, Subscribed
<1>3. SessionClosedOnce'
    BY <1>1, HoldingTyped DEF TypeInv, OwnerInv, SessionClosedOnce, RefreshCloser, UnloadCloser
<1>4. UnusedIsFree'
    BY <1>1 DEF OwnerInv, UnusedIsFree, UnloadCloser, Calm, Holding
<1>5. OneSpeaks'
    BY DEF OneSpeaks
<1> QED
    BY <1>2, <1>3, <1>4, <1>5 DEF OwnerInv

\* The refresh takes the current session and closes it.
LEMMA TakenKeeps ==
    ASSUME TypeInv, TypeInv', OwnerInv, TakeSession, current # NoConn,
           UNCHANGED << cleanups, unload >>,
           refresh'.pc \in {"closing", "failing"}, refresh'.conn = current
    PROVE  OwnerInv'
<1>1. NoConn \notin Conns /\ current \in Conns /\ current' = NoConn
    BY DEF NoConn, Conns, TypeInv, TakeSession
<1>2. \A c \in Conns : Calm(c) /\ ~Speaking(c)'
    BY TakeCalm
<1>3. (RefreshAlone /\ OpensItsOwn /\ Subscribed)'
    BY <1>1 DEF RefreshAlone, OpensItsOwn, Subscribed
<1>4. SessionClosedOnce'
    BY <1>1, HoldingTyped DEF TypeInv, OwnerInv, SessionClosedOnce, RefreshCloser, UnloadCloser
<1>5. UnusedIsFree'
    BY <1>1, <1>2 DEF OwnerInv, UnusedIsFree, UnloadCloser, Calm
<1>6. OneSpeaks'
    BY <1>2 DEF OneSpeaks
<1> QED
    BY <1>3, <1>4, <1>5, <1>6 DEF OwnerInv

\* While nobody has a current session a calm step lets none speak.
LEMMA AloneSilent ==
    ASSUME OwnerInv, current = NoConn, \A c \in Conns : Calm(c)
    PROVE  \A c \in Conns : ~Speaking(c)'
    BY DEF OwnerInv, OneSpeaks, Calm, NoConn, Conns

\* A step that leaves the connections is calm.
LEMMA SameCalm == ASSUME UNCHANGED conn PROVE \A c \in Conns : Calm(c)
    BY DEF Calm, Up, Speaking

\* The refresh begins.
LEMMA RefreshStartOwns == ASSUME TypeInv, TypeInv', OwnerInv, RefreshStart PROVE OwnerInv'
<1>1. CASE Connected
  <2>1. UNCHANGED << conn, current, refresh, cleanups, unload >>
      BY <1>1 DEF RefreshStart
  <2> QED
      BY <2>1, SameCalm, CalmKeeps DEF UnloadCloser
<1>2. CASE ~Connected /\ current = NoConn
  <2>1. TakeSession /\ Scan /\ UNCHANGED << cleanups, unload >>
      BY <1>2 DEF RefreshStart
  <2>2. current' = NoConn
      BY <2>1 DEF TakeSession
  <2> QED
      BY <2>1, <2>2, TakeCalm, ScanGoes, FreedKeeps
<1>3. CASE ~Connected /\ current # NoConn
  <2>1. TakeSession /\ UNCHANGED << cleanups, unload >> /\ Advance("closing", current)
      BY <1>3 DEF RefreshStart
  <2>2. refresh'.pc = "closing" /\ refresh'.conn = current
      BY <2>1 DEF Advance
  <2> QED
      BY <1>3, <2>1, <2>2, TakenKeeps
<1> QED
    BY <1>1, <1>2, <1>3

\* The refresh closes, fails to connect, or has failed: nobody has a session.
LEMMA RefreshEndsOwns ==
    ASSUME TypeInv, TypeInv', OwnerInv, RefreshCloses \/ EstablishFails \/ SetupFailed
    PROVE  OwnerInv'
<1>1. /\ refresh.pc \in {"closing", "establish", "failing"}
      /\ UNCHANGED << current, cleanups, unload >>
    BY DEF RefreshCloses, EstablishFails, SetupFailed
<1>2. current = NoConn
    BY <1>1 DEF OwnerInv, RefreshAlone
<1>3. refresh'.pc \in {"idle", "establish"}
  <2>1. CASE RefreshCloses
      BY <2>1, ScanGoes DEF RefreshCloses
  <2>2. CASE UpdateFailed
      BY <2>2 DEF UpdateFailed, Idle
  <2> QED
      BY <2>1, <2>2 DEF EstablishFails, SetupFailed
<1>4. \A c \in Conns : Calm(c)
  <2>1. CASE EstablishFails
      BY <2>1, SameCalm DEF EstablishFails
  <2>2. CASE RefreshCloses \/ SetupFailed
      BY <2>2, HoldingTyped, ClosedCalm DEF RefreshCloses, SetupFailed, Holding
  <2> QED
      BY <2>1, <2>2
<1> QED
    BY <1>1, <1>2, <1>3, <1>4, AloneSilent, FreedKeeps

\* A new link is one that was never made, so that nobody owns it.
LEMMA EstablishedOwns == ASSUME TypeInv, TypeInv', OwnerInv, Established PROVE OwnerInv'
<1>1. PICK d \in Conns : /\ conn[d] = Unused
                         /\ conn' = [conn EXCEPT ![d].link = "up"]
                         /\ Advance("opened", d)
    BY DEF Established
<1>2. /\ refresh.pc = "establish" /\ current = NoConn
      /\ refresh'.pc = "opened" /\ refresh'.conn = d
      /\ UNCHANGED << current, cleanups, unload >>
    BY <1>1 DEF Established, Advance, OwnerInv, RefreshAlone
<1>3. NoConn \notin Conns
    BY DEF NoConn, Conns
<1>4. conn[d].link = "none" /\ conn'[d].link = "up" /\ conn'[d].machine = "new"
    BY <1>1 DEF TypeInv, Unused
<1>5. \A c \in Conns \ {d} : conn'[c] = conn[c]
    BY <1>1 DEF TypeInv
<1>6. d \notin UnloadCloser \cup cleanups
    BY <1>4 DEF OwnerInv, UnusedIsFree
<1>7. (RefreshAlone /\ OpensItsOwn /\ Subscribed)'
    BY <1>2, <1>6 DEF RefreshAlone, OpensItsOwn, Subscribed, UnloadCloser
<1>8. SessionClosedOnce'
    BY <1>2, <1>3, HoldingTyped DEF TypeInv, OwnerInv, SessionClosedOnce, RefreshCloser, UnloadCloser
<1>9. UnusedIsFree'
    BY <1>2, <1>4, <1>5 DEF OwnerInv, UnusedIsFree, UnloadCloser
<1>10. OneSpeaks'
    BY <1>2, <1>4, <1>5 DEF OwnerInv, OneSpeaks, Speaking
<1> QED
    BY <1>7, <1>8, <1>9, <1>10 DEF OwnerInv

\* The session that starts to speak becomes the current one.
LEMMA OpenSessionOwns == ASSUME TypeInv, TypeInv', OwnerInv, OpenSession PROVE OwnerInv'
<1> DEFINE d == refresh.conn
<1>1. /\ d \in Conns /\ refresh.pc = "opened" /\ current = NoConn /\ current' = d
      /\ refresh'.pc \in {"enabling", "reopening"} /\ refresh'.conn = d
      /\ UNCHANGED << cleanups, unload >>
    BY HoldingTyped DEF OpenSession, Advance, Holding, OwnerInv, RefreshAlone
<1>2. NoConn \notin Conns
    BY DEF NoConn, Conns
<1>3. conn'[d].link = conn[d].link
    BY <1>1 DEF OpenSession, TypeInv, Connections
<1>4. \A c \in Conns \ {d} : conn'[c] = conn[c]
    BY <1>1 DEF OpenSession, TypeInv
<1>5. (RefreshAlone /\ OpensItsOwn /\ Subscribed)'
    BY <1>1 DEF RefreshAlone, OpensItsOwn, Subscribed
<1>6. SessionClosedOnce'
    BY <1>1, <1>2 DEF OwnerInv, OpensItsOwn, SessionClosedOnce, RefreshCloser, UnloadCloser
<1>7. UnusedIsFree'
    BY <1>1, <1>3, <1>4 DEF OwnerInv, UnusedIsFree, UnloadCloser, Holding
<1>8. OneSpeaks'
    BY <1>1, <1>2, <1>4 DEF OwnerInv, OneSpeaks, Speaking
<1> QED
    BY <1>5, <1>6, <1>7, <1>8 DEF OwnerInv

\* A setup that goes on, with the subscriptions so far.
LEMMA SetupGoesOn ==
    ASSUME TypeInv, TypeInv', OwnerInv, Subscribed',
           UNCHANGED << current, cleanups, unload >>,
           refresh.pc \in {"reopening", "enabling", "starting", "subscribing"},
           refresh'.pc \in {"enabling", "starting", "subscribing"},
           refresh'.conn = refresh.conn,
           \A c \in Conns : /\ conn'[c].link = "none" => conn[c].link = "none"
                            /\ Speaking(c)' => Speaking(c)
    PROVE  OwnerInv'
<1>1. (RefreshAlone /\ OpensItsOwn)'
    BY DEF OwnerInv, RefreshAlone, OpensItsOwn
<1>2. SessionClosedOnce'
    BY DEF OwnerInv, SessionClosedOnce, RefreshCloser, UnloadCloser
<1>3. UnusedIsFree'
    BY DEF OwnerInv, UnusedIsFree, UnloadCloser, Holding
<1>4. OneSpeaks'
    BY DEF OwnerInv, OneSpeaks
<1> QED
    BY <1>1, <1>2, <1>3, <1>4 DEF OwnerInv

\* The link is up again, notifies, the handshake is over.
LEMMA SetupOwns ==
    ASSUME TypeInv, TypeInv', OwnerInv, Reopened \/ Enabled \/ Started
    PROVE  OwnerInv'
<1>1. /\ refresh.conn \in Conns /\ conn[refresh.conn] \in Connections
      /\ UNCHANGED << current, cleanups, unload >>
    BY HoldingTyped DEF Reopened, Enabled, Started, Holding, TypeInv
<1>2. /\ refresh.pc \in {"reopening", "enabling", "starting", "subscribing"}
      /\ refresh'.pc \in {"enabling", "starting", "subscribing"}
      /\ refresh'.conn = refresh.conn
      /\ refresh'.pc = "subscribing" => refresh'.at = 1
  <2>1. CASE Started
    <3>1. refresh' = [pc |-> "subscribing", conn |-> refresh.conn, at |-> 1]
        BY <2>1 DEF Started, TypeInv, Refreshes
    <3> QED
        BY <2>1, <3>1 DEF Started
  <2>2. CASE Reopened \/ Enabled
      BY <2>2 DEF Reopened, Enabled, Advance
  <2> QED
      BY <2>1, <2>2
<1>3. \A c \in Conns : /\ conn'[c].link = "none" => conn[c].link = "none"
                       /\ Speaking(c)' => Speaking(c)
  <2>1. CASE Started
      BY <2>1 DEF Started, Speaking
  <2>2. CASE Reopened
      BY <1>1, <2>2 DEF Reopened, Speaking, TypeInv, Connections
  <2>3. CASE Enabled
      BY <1>1, <2>3 DEF Enabled, Speaking, TypeInv, Connections
  <2> QED
      BY <2>1, <2>2, <2>3
<1>4. Subscribed'
  <2>1. 1 .. (1 - 1) = {}
      OBVIOUS
  <2> QED
      BY <1>2, <2>1 DEF Subscribed
<1> QED
    BY <1>1, <1>2, <1>3, <1>4, SetupGoesOn

\* One parameter after the other is subscribed; then the refresh is over.
LEMMA SubscribeOwns == ASSUME TypeInv, TypeInv', OwnerInv, Subscribe PROVE OwnerInv'
<1> DEFINE d == refresh.conn
<1>1. /\ refresh.pc = "subscribing" /\ d \in Conns /\ refresh.at \in Params
      /\ UNCHANGED << current, cleanups, unload >>
      /\ Subscribes(d, refresh.at)
    BY DEF Subscribe, TypeInv, Refreshes, Holding
<1>2. current \in {NoConn, d}
    BY <1>1 DEF OwnerInv, RefreshAlone
<1>3. /\ conn'[d].link = conn[d].link /\ conn'[d].machine = conn[d].machine
      /\ conn'[d].subs = conn[d].subs \cup {refresh.at}
  <2>1. conn[d] \in Connections /\ conn'[d] = [conn[d] EXCEPT !.subs = @ \cup {refresh.at},
               !.air = Append(@, [param |-> refresh.at, version |-> dev[refresh.at]])]
      BY <1>1 DEF Subscribes, TypeInv
  <2> QED
      BY <2>1 DEF Connections
<1>4. \A c \in Conns \ {d} : conn'[c] = conn[c]
    BY <1>1 DEF Subscribes, TypeInv
<1>5. current # NoConn /\ Up(current)' => 1 .. refresh.at \subseteq conn'[current].subs
  <2>1. SUFFICES ASSUME current = d, conn'[d].link = "up"
                 PROVE  1 .. refresh.at \subseteq conn'[d].subs
      BY <1>1, <1>2 DEF Up
  <2>2. Up(d) /\ current # NoConn
      BY <1>1, <1>3, <2>1 DEF Up, NoConn, Conns
  <2>3. 1 .. (refresh.at - 1) \subseteq conn[d].subs
      BY <1>1, <2>1, <2>2 DEF OwnerInv, Subscribed
  <2>4. 1 .. refresh.at \subseteq (1 .. (refresh.at - 1)) \cup {refresh.at}
      BY <1>1 DEF Params
  <2> QED
      BY <1>3, <2>3, <2>4
<1>6. \A c \in Conns : /\ conn'[c].link = "none" => conn[c].link = "none"
                       /\ Speaking(c)' => Speaking(c)
    BY <1>3, <1>4 DEF Speaking
<1>7. CASE refresh.at = Topics
  <2>1. refresh'.pc = "idle"
      BY <1>7 DEF Subscribe, Idle
  <2>2. Subscribed'
      BY <1>1, <1>5, <1>7, <2>1 DEF Subscribed, Params
  <2>3. (RefreshAlone /\ OpensItsOwn)'
      BY <2>1 DEF RefreshAlone, OpensItsOwn
  <2>4. SessionClosedOnce'
      BY <1>1, <2>1 DEF OwnerInv, SessionClosedOnce, RefreshCloser, UnloadCloser
  <2>5. UnusedIsFree'
      BY <1>1, <1>6, <2>1 DEF OwnerInv, UnusedIsFree, UnloadCloser, Holding
  <2>6. OneSpeaks'
      BY <1>1, <1>6 DEF OwnerInv, OneSpeaks
  <2> QED
      BY <2>2, <2>3, <2>4, <2>5, <2>6 DEF OwnerInv
<1>8. CASE refresh.at # Topics
  <2>1. refresh' = [refresh EXCEPT !.at = @ + 1]
      BY <1>8 DEF Subscribe
  <2>2. refresh'.pc = "subscribing" /\ refresh'.conn = d /\ refresh'.at = refresh.at + 1
      BY <1>1, <2>1 DEF TypeInv, Refreshes
  <2>3. (refresh.at + 1) - 1 = refresh.at
      BY <1>1 DEF Params
  <2>4. Subscribed'
      BY <1>1, <1>5, <2>2, <2>3 DEF Subscribed
  <2> QED
      BY <1>1, <1>6, <2>2, <2>4, SetupGoesOn
<1> QED
    BY <1>7, <1>8

\* The setup failed: the current session is closed by the refresh.
LEMMA SetupFailsOwns == ASSUME TypeInv, TypeInv', OwnerInv, SetupFails PROVE OwnerInv'
<1>1. TakeSession /\ current' = NoConn /\ UNCHANGED << cleanups, unload >>
    BY DEF SetupFails, TakeSession
<1>2. CASE current = NoConn
  <2>1. refresh'.pc = "idle"
      BY <1>2 DEF SetupFails, UpdateFailed, Idle
  <2> QED
      BY <1>1, <2>1, TakeCalm, FreedKeeps
<1>3. CASE current # NoConn
  <2>1. refresh'.pc = "failing" /\ refresh'.conn = current
      BY <1>3 DEF SetupFails, Advance
  <2> QED
      BY <1>1, <1>3, <2>1, TakenKeeps
<1> QED
    BY <1>2, <1>3

\* What the link does by itself, and what is pushed over it, is calm.
LEMMA LinkOwns ==
    ASSUME TypeInv, TypeInv', OwnerInv, NEW c \in Conns,
           HandshakeEnds(c) \/ LinkDrops(c) \/ Deliver(c) \/ CleanupEnds(c)
    PROVE  OwnerInv'
<1>1. /\ UNCHANGED << current, refresh >> /\ UnloadCloser' \subseteq UnloadCloser
      /\ cleanups' \subseteq cleanups
    BY DEF HandshakeEnds, LinkDrops, Deliver, CleanupEnds, tasks, UnloadCloser
<1>2. \A d \in Conns : Calm(d)
  <2>1. CASE CleanupEnds(c)
      BY <2>1, ClosedCalm DEF CleanupEnds
  <2>2. CASE HandshakeEnds(c)
      BY <2>2 DEF HandshakeEnds, Calm, Up, Speaking, TypeInv, Connections
  <2>3. CASE LinkDrops(c)
      BY <2>3 DEF LinkDrops, Calm, Up, Speaking, TypeInv, Connections
  <2>4. CASE Deliver(c)
      BY <2>4 DEF Deliver, Calm, Up, Speaking, TypeInv, Connections
  <2> QED
      BY <2>1, <2>2, <2>3, <2>4
<1> QED
    BY <1>1, <1>2, CalmKeeps

\* The session of a link that ended goes from the current one to a clean-up.
LEMMA HandleDisconnectOwns ==
    ASSUME TypeInv, TypeInv', OwnerInv, NEW c \in Conns, HandleDisconnect(c)
    PROVE  OwnerInv'
<1>1. CASE c = current /\ unload.pc = "no"
  <2>1. /\ current' = NoConn /\ cleanups' = cleanups \cup {c}
        /\ UNCHANGED << refresh, unload >>
        /\ conn' = [conn EXCEPT ![c].machine = "closed", ![c].notifying = FALSE]
      BY <1>1 DEF HandleDisconnect
  <2>2. /\ conn'[c].machine = "closed" /\ conn'[c].link = conn[c].link
        /\ \A d \in Conns \ {c} : conn'[d] = conn[d]
      BY <2>1 DEF TypeInv, Connections
  <2>3. NoConn \notin Conns /\ NoConn # current
      BY <1>1 DEF NoConn, Conns
  <2>4. (RefreshAlone /\ Subscribed)'
      BY <2>1 DEF OwnerInv, RefreshAlone, Subscribed
  <2>5. (SessionClosedOnce /\ OpensItsOwn)'
    <3>1. UnloadCloser' = {} /\ RefreshCloser' = RefreshCloser /\ RefreshCloser \subseteq Conns
        BY <1>1, <2>1, HoldingTyped DEF UnloadCloser, RefreshCloser, Holding
    <3>2. SessionClosedOnce'
        BY <1>1, <2>1, <2>3, <3>1 DEF TypeInv, OwnerInv, SessionClosedOnce
    <3>3. OpensItsOwn'
        BY <1>1, <2>1, <2>3, <3>1 DEF OwnerInv, OpensItsOwn, RefreshAlone
    <3> QED
        BY <3>2, <3>3
  <2>6. UnusedIsFree'
      BY <1>1, <2>1, <2>2, <2>3 DEF OwnerInv, UnusedIsFree, UnloadCloser
  <2>7. OneSpeaks'
      BY <1>1, <2>1, <2>2 DEF OwnerInv, OneSpeaks, Speaking
  <2> QED
      BY <2>4, <2>5, <2>6, <2>7 DEF OwnerInv
<1>2. CASE ~(c = current /\ unload.pc = "no")
  <2>1. UNCHANGED << conn, current, refresh, cleanups, unload >>
      BY <1>2 DEF HandleDisconnect
  <2> QED
      BY <2>1, SameCalm, CalmKeeps DEF UnloadCloser
<1> QED
    BY <1>1, <1>2

\* A change of the device's parameters and a write are calm.
LEMMA ChangeCalm ==
    ASSUME TypeInv, NEW k \in Params, NEW echoed, Change(k, echoed)
    PROVE  \A c \in Conns : Calm(c)
<1> SUFFICES ASSUME NEW c \in Conns PROVE Calm(c)
    OBVIOUS
<1>1. conn[c] \in Connections
    BY DEF TypeInv
<1>2. \/ conn'[c] = conn[c]
      \/ conn'[c] = [conn[c] EXCEPT !.air =
                        Append(@, [param |-> k, version |-> changes + 2])]
    BY DEF Change
<1> QED
    BY <1>1, <1>2 DEF Calm, Up, Speaking, Connections

\* So is a subscription.
LEMMA SubscribesCalm ==
    ASSUME TypeInv, NEW d \in Conns, NEW k \in Params, Subscribes(d, k)
    PROVE  \A c \in Conns : Calm(c)
<1> SUFFICES ASSUME NEW c \in Conns PROVE Calm(c)
    OBVIOUS
<1>1. conn[c] \in Connections
    BY DEF TypeInv
<1>2. CASE c = d
  <2>1. conn'[c] = [conn[c] EXCEPT !.subs = @ \cup {k},
                        !.air = Append(@, [param |-> k, version |-> dev[k]])]
      BY <1>2 DEF Subscribes, TypeInv
  <2> QED
      BY <1>1, <2>1 DEF Calm, Up, Speaking, Connections
<1>3. CASE c # d
    BY <1>3 DEF Subscribes, TypeInv, Calm, Up, Speaking
<1> QED
    BY <1>2, <1>3

\* A write, whatever becomes of it.
LEMMA WriteOwns ==
    ASSUME TypeInv, TypeInv', OwnerInv, NEW w \in Writers, NEW k \in Params,
           WriteStep(w) \/ WriteCall(w, k)
    PROVE  OwnerInv'
<1>1. /\ UNCHANGED << current, refresh, cleanups, unload >>
      /\ UnloadCloser' \subseteq UnloadCloser
    BY DEF WriteStep, Put, ReadBack, WriteFails, WriteCall, UnloadCloser
<1>2. \A c \in Conns : Calm(c)
  <2>1. CASE Put(w)
      BY <2>1, HoldingTyped, ChangeCalm DEF Put
  <2>2. CASE ReadBack(w)
      BY <2>2, HoldingTyped, SubscribesCalm DEF ReadBack
  <2>3. CASE UNCHANGED conn
      BY <2>3, SameCalm
  <2> QED
      BY <2>1, <2>2, <2>3 DEF WriteStep, WriteFails, WriteCall
<1> QED
    BY <1>1, <1>2, CalmKeeps

\* async_shutdown takes the current session, and ends.
LEMMA UnloadOwns ==
    ASSUME TypeInv, TypeInv', OwnerInv, UnloadStart \/ UnloadEnds
    PROVE  OwnerInv'
<1>1. CASE UnloadStart /\ current = NoConn
  <2>1. UNCHANGED << conn, current, refresh, cleanups >> /\ UnloadCloser' = {}
      BY <1>1 DEF UnloadStart, TakeSession, UnloadCloser
  <2> QED
      BY <2>1, SameCalm, CalmKeeps
<1>2. CASE UnloadStart /\ current # NoConn
  <2>1. /\ current \in Conns /\ current' = NoConn /\ NoConn \notin Conns
        /\ UNCHANGED << refresh, cleanups >> /\ TakeSession
        /\ UnloadCloser = {} /\ UnloadCloser' = {current}
      BY <1>2 DEF UnloadStart, TakeSession, UnloadCloser, TypeInv, NoConn, Conns
  <2>2. \A c \in Conns : Calm(c) /\ ~Speaking(c)'
      BY <2>1, TakeCalm
  <2>3. (RefreshAlone /\ Subscribed)'
      BY <2>1 DEF OwnerInv, RefreshAlone, Subscribed
  <2>4. RefreshCloser' = RefreshCloser /\ RefreshCloser \subseteq Conns
      BY <2>1, HoldingTyped DEF RefreshCloser, Holding
  <2>5. SessionClosedOnce'
      BY <2>1, <2>4 DEF TypeInv, OwnerInv, SessionClosedOnce
  <2>6. OpensItsOwn'
      BY <1>2, <2>1 DEF OwnerInv, OpensItsOwn, RefreshAlone
  <2>7. UnusedIsFree'
      BY <2>1, <2>2 DEF OwnerInv, UnusedIsFree, Calm
  <2>8. OneSpeaks'
      BY <2>2 DEF OneSpeaks
  <2> QED
      BY <2>3, <2>5, <2>6, <2>7, <2>8 DEF OwnerInv
<1>3. CASE UnloadEnds
  <2>1. /\ UNCHANGED << current, refresh, cleanups >> /\ UnloadCloser' = {}
        /\ \A c \in Conns : Calm(c)
      BY <1>3, HoldingTyped, ClosedCalm DEF UnloadEnds, UnloadCloser
  <2> QED
      BY <2>1, CalmKeeps
<1> QED
    BY <1>1, <1>2, <1>3

\* Every step keeps the owners apart.
LEMMA OwnerStep == TypeInv /\ OwnerInv /\ [Next]_vars => OwnerInv'
<1> SUFFICES ASSUME TypeInv, OwnerInv, [Next]_vars PROVE OwnerInv'
    OBVIOUS
<1>1. TypeInv'
    BY TypeStep
<1>2. CASE RefreshStep
    BY <1>1, <1>2, RefreshEndsOwns, EstablishedOwns, OpenSessionOwns, SetupOwns, SubscribeOwns,
       SetupFailsOwns DEF RefreshStep
<1>3. CASE Advertised \/ UNCHANGED vars
  <2>1. UNCHANGED << conn, current, refresh, cleanups, unload >>
      BY <1>3 DEF Advertised, vars, tasks
  <2> QED
      BY <1>1, <2>1, SameCalm, CalmKeeps DEF UnloadCloser
<1>4. ASSUME NEW k \in Params, DeviceChanges(k) PROVE OwnerInv'
  <2>1. Change(k, TRUE) /\ UNCHANGED << current, refresh, cleanups, unload >>
      BY <1>4 DEF DeviceChanges, tasks
  <2> QED
      BY <1>1, <2>1, ChangeCalm, CalmKeeps DEF UnloadCloser
<1>5. ASSUME NEW w \in Writers, WriteStep(w) PROVE OwnerInv'
  <2>1. 1 \in Params
      BY CoordinatorAssumption DEF Params
  <2> QED
      BY <1>1, <1>5, <2>1, WriteOwns
<1> QED
    BY <1>1, <1>2, <1>3, <1>4, <1>5, RefreshStartOwns, UnloadOwns, LinkOwns,
       HandleDisconnectOwns, WriteOwns DEF Next

\* The inductive invariant.
LEMMA Owners == Spec => [](TypeInv /\ OwnerInv)
    BY TypeInit, TypeStep, OwnerInit, OwnerStep, PTL DEF Spec

\* A session is closed by the refresh, by a clean-up or by async_shutdown, by
\* one of them only, however they interleave.
THEOREM OneCloser == Spec => []SessionClosedOnce
<1>1. OwnerInv => SessionClosedOnce
    BY DEF OwnerInv
<1> QED
    BY <1>1, Owners, PTL

\* After a refresh a device that counts as connected has every subscription.
THEOREM ConnectedIsSubscribed == Spec => []ConnectedMeansSubscribed
<1>1. TypeInv /\ OwnerInv => ConnectedMeansSubscribed
  <2> SUFFICES ASSUME TypeInv, OwnerInv, refresh.pc = "idle", Connected
               PROVE  conn[current].subs = Params
      BY DEF ConnectedMeansSubscribed
  <2>1. current \in Conns /\ current # NoConn /\ Up(current)
      BY DEF Connected, Usable, TypeInv
  <2> QED
      BY <2>1 DEF OwnerInv, Subscribed, TypeInv, Connections
<1> QED
    BY <1>1, Owners, PTL

\* An entity's value changes only by what the current session hears.
THEOREM OnlyTheCurrentSpeaks == Spec => OnlyCurrentSpeaks
<1>1. TypeInv /\ OwnerInv /\ [Next]_vars =>
          [\A k \in Params : data'[k] # data[k] => current # NoConn /\ Hears(current, k)]_vars
  <2> SUFFICES ASSUME TypeInv, OwnerInv, Next, NEW k \in Params, data'[k] # data[k]
               PROVE  current # NoConn /\ Hears(current, k)
      OBVIOUS
  <2>1. PICK c \in Conns : Deliver(c)
      BY DEF Next, RefreshStart, RefreshStep, Advertised, UnloadStart, UnloadEnds, HandshakeEnds,
         LinkDrops, HandleDisconnect, CleanupEnds, DeviceChanges, WriteStep, WriteCall,
         RefreshCloses, Established, EstablishFails, OpenSession, Reopened, Enabled, Started,
         Subscribe, SetupFails, SetupFailed, Put, ReadBack, WriteFails
  <2>2. Speaking(c)
      BY <2>1 DEF Deliver
  <2>3. c = current /\ current # NoConn
      BY <2>2 DEF OwnerInv, OneSpeaks, NoConn, Conns
  <2>4. /\ conn[c].air # << >> /\ conn'[c].air = Tail(conn[c].air)
        /\ data' = [data EXCEPT ![Head(conn[c].air).param] = Head(conn[c].air).version]
      BY <2>1, <2>2 DEF Deliver, TypeInv
  <2>5. Head(conn[c].air).param = k /\ data'[k] = Head(conn[c].air).version
      BY <2>4 DEF TypeInv
  <2> QED
      BY <2>3, <2>4, <2>5 DEF Hears
<1> QED
    BY <1>1, Owners, PTL DEF Spec, OnlyCurrentSpeaks
-----------------------------------------------------------------------------
(* No link without an owner, but the stray ones.                           *)

\* A step that takes nobody's connection away, but of links that are down.
LEMMA OwnedStays ==
    ASSUME NoOrphanLink, \A c \in Conns : Calm(c),
           \A c \in Conns : Up(c) /\ c = current => c = current' \/ c \in
               (RefreshCloser \cup UnloadCloser \cup cleanups)',
           \A c \in Conns : Up(c) /\ refresh.pc = "opened" /\ c = refresh.conn =>
               ~Up(c)' \/ c = current' \/ (refresh'.pc = "opened" /\ c = refresh'.conn),
           \A c \in Conns : c \in RefreshCloser \cup UnloadCloser \cup cleanups =>
               ~Up(c)' \/ c \in (RefreshCloser \cup UnloadCloser \cup cleanups)'
    PROVE  NoOrphanLink'
    BY DEF NoOrphanLink, Stray, Calm

\* The refresh hands every link on.
LEMMA RefreshHandsOn ==
    ASSUME TypeInv, OwnerInv, NoOrphanLink, RefreshStart \/ RefreshStep
    PROVE  NoOrphanLink'
<1>1. NoConn \notin Conns
    BY DEF NoConn, Conns
<1>2. ASSUME TakeSession, refresh.pc \notin {"opened", "closing", "failing"},
             UNCHANGED << cleanups, unload >>,
             current # NoConn => refresh'.pc \in {"closing", "failing"} /\ refresh'.conn = current
      PROVE  NoOrphanLink'
  <2>1. \A c \in Conns : Calm(c)
      BY <1>2, TakeCalm
  <2>2. RefreshCloser = {} /\ (current # NoConn => current \in RefreshCloser')
      BY <1>2 DEF RefreshCloser
  <2> QED
      BY <1>1, <1>2, <2>1, <2>2, OwnedStays DEF UnloadCloser
<1>3. CASE RefreshStart
  <2>1. CASE Connected
    <3>1. UNCHANGED << conn, current, refresh, cleanups, unload >>
        BY <1>3, <2>1 DEF RefreshStart
    <3> QED
        BY <3>1 DEF NoOrphanLink, Stray, Speaking, Up, RefreshCloser, UnloadCloser
  <2>2. CASE ~Connected
      BY <1>2, <1>3, <2>2 DEF RefreshStart, Advance
  <2> QED
      BY <2>1, <2>2
<1>4. CASE SetupFails
  <2>1. refresh.pc \notin {"opened", "closing", "failing"}
      BY <1>4 DEF SetupFails, SetupError
  <2> QED
      BY <1>2, <1>4, <2>1 DEF SetupFails, Advance
<1>5. CASE RefreshCloses \/ SetupFailed
  <2>1. \A c \in Conns : Calm(c) /\ (c = refresh.conn => ~Up(c)')
      BY <1>5, HoldingTyped, ClosedCalm DEF RefreshCloses, SetupFailed, Holding
  <2>2. /\ UNCHANGED << current, cleanups, unload >> /\ refresh.pc # "opened"
        /\ RefreshCloser = {refresh.conn}
      BY <1>5 DEF RefreshCloses, SetupFailed, RefreshCloser
  <2> QED
      BY <2>1, <2>2, OwnedStays DEF UnloadCloser
<1>6. CASE EstablishFails
  <2>1. /\ UNCHANGED << conn, current, cleanups, unload >> /\ refresh.pc = "establish"
      BY <1>6 DEF EstablishFails
  <2> QED
      BY <2>1 DEF NoOrphanLink, Stray, Speaking, Up, RefreshCloser, UnloadCloser
<1>7. CASE Established
  <2>1. PICK d \in Conns : conn' = [conn EXCEPT ![d].link = "up"] /\ Advance("opened", d)
      BY <1>7 DEF Established
  <2>2. \A c \in Conns : ~Up(c)
      BY <1>7 DEF Established
  <2>3. \A c \in Conns \ {d} : ~Up(c)'
      BY <2>1, <2>2 DEF TypeInv, Up
  <2> QED
      BY <2>1, <2>3 DEF NoOrphanLink, Advance
<1>8. CASE OpenSession
  <2>1. /\ UNCHANGED << cleanups, unload >> /\ current' = refresh.conn /\ refresh.pc = "opened"
        /\ current = NoConn /\ RefreshCloser = {}
      BY <1>8 DEF OpenSession, OwnerInv, RefreshAlone, RefreshCloser
  <2>2. \A c \in Conns : Up(c)' => Up(c)
      BY <1>8 DEF OpenSession, TypeInv, Connections, Up
  <2>3. \A c \in Conns : c # refresh.conn /\ Stray(c) => Stray(c)'
      BY <1>8 DEF OpenSession, TypeInv, Stray, Speaking
  <2> QED
      BY <1>1, <2>1, <2>2, <2>3 DEF NoOrphanLink, UnloadCloser
<1>9. CASE Reopened
  <2>1. /\ UNCHANGED << current, cleanups, unload >> /\ refresh.conn \in Conns
        /\ current \in {NoConn, refresh.conn}
        /\ conn' = [conn EXCEPT ![refresh.conn].link = "up", ![refresh.conn].revived = TRUE]
        /\ \A c \in Conns : ~Up(c)
      BY <1>9, HoldingTyped DEF Reopened, Holding, OwnerInv, RefreshAlone
  <2>2. PICK d \in Conns : d = refresh.conn
      BY <2>1
  <2>3. \A c \in Conns : Up(c)' => c = d
      BY <2>1, <2>2 DEF TypeInv, Connections, Up
  <2>4. conn'[d].revived /\ conn'[d].machine = conn[d].machine
      BY <2>1, <2>2 DEF TypeInv, Connections
  <2>5. d # current => ~Speaking(d)
      BY DEF OwnerInv, OneSpeaks
  <2>6. d = current' \/ Stray(d)'
      BY <2>1, <2>4, <2>5 DEF Stray, Speaking
  <2> QED
      BY <2>3, <2>6 DEF NoOrphanLink
<1>10. CASE Enabled \/ Started \/ Subscribe
  <2>1. /\ UNCHANGED << current, cleanups, unload >>
        /\ refresh.pc \notin {"opened", "closing", "failing"}
      BY <1>10 DEF Enabled, Started, Subscribe
  <2>2. \A c \in Conns : Up(c)' => Up(c)
    <3>1. CASE Enabled
        BY <3>1 DEF Enabled, TypeInv, Connections, Up
    <3>2. CASE Started
        BY <3>2 DEF Started, Up
    <3>3. CASE Subscribe
      <4>1. refresh.conn \in Conns /\ refresh.at \in Params /\ Subscribes(refresh.conn, refresh.at)
          BY <3>3 DEF Subscribe, TypeInv, Refreshes, Holding
      <4> QED
          BY <4>1, SubscribesCalm DEF Calm
    <3> QED
        BY <1>10, <3>1, <3>2, <3>3
  <2>3. RefreshCloser = {}
      BY <2>1 DEF RefreshCloser
  <2>4. \A c \in Conns : Stray(c) => Stray(c)'
    <3>1. CASE Enabled
        BY <3>1 DEF Enabled, TypeInv, Connections, Stray, Speaking
    <3>2. CASE Started
        BY <3>2 DEF Started, Stray, Speaking
    <3>3. CASE Subscribe
      <4>1. refresh.conn \in Conns /\ refresh.at \in Params /\ Subscribes(refresh.conn, refresh.at)
          BY <3>3 DEF Subscribe, TypeInv, Refreshes, Holding
      <4> QED
          BY <4>1, SubscribesCalm DEF Calm, Stray
    <3> QED
        BY <1>10, <3>1, <3>2, <3>3
  <2> QED
      BY <2>1, <2>2, <2>3, <2>4 DEF NoOrphanLink, UnloadCloser
<1> QED
    BY <1>3, <1>4, <1>5, <1>6, <1>7, <1>8, <1>9, <1>10 DEF RefreshStep

\* So do the other steps.
LEMMA OrphanStep == TypeInv /\ OwnerInv /\ NoOrphanLink /\ [Next]_vars => NoOrphanLink'
<1> SUFFICES ASSUME TypeInv, OwnerInv, NoOrphanLink, [Next]_vars PROVE NoOrphanLink'
    OBVIOUS
<1>1. ASSUME \A c \in Conns : Calm(c), UNCHANGED << current, refresh, cleanups, unload >>
      PROVE  NoOrphanLink'
    BY <1>1, OwnedStays DEF RefreshCloser, UnloadCloser
<1>2. CASE RefreshStart \/ RefreshStep
    BY <1>2, RefreshHandsOn
<1>3. CASE Advertised \/ UNCHANGED vars
    BY <1>1, <1>3, SameCalm DEF Advertised, vars, tasks
<1>4. CASE UnloadStart
  <2>1. \A c \in Conns : Calm(c)
      BY <1>4, TakeCalm DEF UnloadStart
  <2>2. /\ UNCHANGED << refresh, cleanups >> /\ UnloadCloser = {}
        /\ current # NoConn => UnloadCloser' = {current}
      BY <1>4 DEF UnloadStart, UnloadCloser
  <2>3. current \in Conns => current # NoConn
      BY DEF NoConn, Conns
  <2> QED
      BY <2>1, <2>2, <2>3, OwnedStays DEF RefreshCloser
<1>5. CASE UnloadEnds
  <2>1. /\ \A c \in Conns : Calm(c) /\ (c = unload.conn => ~Up(c)')
        /\ UNCHANGED << current, refresh, cleanups >> /\ UnloadCloser = {unload.conn}
      BY <1>5, HoldingTyped, ClosedCalm DEF UnloadEnds, UnloadCloser
  <2> QED
      BY <2>1, OwnedStays DEF RefreshCloser
<1>6. ASSUME NEW c \in Conns, HandshakeEnds(c) \/ LinkDrops(c) \/ Deliver(c)
      PROVE  NoOrphanLink'
  <2>1. \A d \in Conns : Calm(d)
    <3>1. CASE HandshakeEnds(c)
        BY <3>1 DEF HandshakeEnds, Calm, Up, Speaking, TypeInv, Connections
    <3>2. CASE LinkDrops(c)
        BY <3>2 DEF LinkDrops, Calm, Up, Speaking, TypeInv, Connections
    <3>3. CASE Deliver(c)
        BY <3>3 DEF Deliver, Calm, Up, Speaking, TypeInv, Connections
    <3> QED
        BY <1>6, <3>1, <3>2, <3>3
  <2> QED
      BY <1>1, <1>6, <2>1 DEF HandshakeEnds, LinkDrops, Deliver, tasks
<1>7. ASSUME NEW c \in Conns, HandleDisconnect(c) PROVE NoOrphanLink'
  <2>1. \A d \in Conns : Up(d)' => Up(d)
    <3>1. CASE UNCHANGED conn
        BY <3>1 DEF Up
    <3>2. CASE conn' = [conn EXCEPT ![c].machine = "closed", ![c].notifying = FALSE]
        BY <3>2 DEF TypeInv, Connections, Up
    <3> QED
        BY <1>7, <3>1, <3>2 DEF HandleDisconnect
  <2>2. UNCHANGED << refresh, unload >> /\ cleanups \subseteq cleanups'
        /\ (current' = current \/ current \in cleanups')
      BY <1>7 DEF HandleDisconnect
  <2>3. \A d \in Conns : Stray(d) => Stray(d)'
    <3>1. CASE UNCHANGED conn
        BY <3>1 DEF Stray, Speaking
    <3>2. CASE conn' = [conn EXCEPT ![c].machine = "closed", ![c].notifying = FALSE]
        BY <3>2 DEF TypeInv, Connections, Stray, Speaking
    <3> QED
        BY <1>7, <3>1, <3>2 DEF HandleDisconnect
  <2> QED
      BY <2>1, <2>2, <2>3 DEF NoOrphanLink, RefreshCloser, UnloadCloser
<1>8. ASSUME NEW c \in Conns, CleanupEnds(c) PROVE NoOrphanLink'
  <2>1. /\ \A d \in Conns : Calm(d) /\ (d = c => ~Up(d)')
        /\ UNCHANGED << current, refresh, unload >> /\ cleanups' = cleanups \ {c}
      BY <1>8, ClosedCalm DEF CleanupEnds
  <2> QED
      BY <2>1, OwnedStays DEF RefreshCloser, UnloadCloser
<1>9. ASSUME NEW k \in Params, DeviceChanges(k) PROVE NoOrphanLink'
    BY <1>1, <1>9, ChangeCalm DEF DeviceChanges, tasks
<1>10. ASSUME NEW w \in Writers, WriteStep(w) \/ \E k \in Params : WriteCall(w, k)
       PROVE  NoOrphanLink'
  <2>1. CASE Put(w)
      BY <1>1, <2>1, HoldingTyped, ChangeCalm DEF Put
  <2>2. CASE ReadBack(w)
      BY <1>1, <2>2, HoldingTyped, SubscribesCalm DEF ReadBack
  <2>3. CASE WriteFails(w) \/ \E k \in Params : WriteCall(w, k)
      BY <1>1, <2>3, SameCalm DEF WriteFails, WriteCall
  <2> QED
      BY <1>10, <2>1, <2>2, <2>3 DEF WriteStep
<1> QED
    BY <1>2, <1>3, <1>4, <1>5, <1>6, <1>7, <1>8, <1>9, <1>10 DEF Next

\* A link is never open with nobody to close it, but that of a client which
\* BleTransport.connect() brings back for a session that has been given up.
THEOREM NoLinkIsOrphaned == Spec => []NoOrphanLink
<1>1. Init => NoOrphanLink
    BY DEF Init, NoOrphanLink, Up, Unused
<1> QED
    BY <1>1, Owners, OrphanStep, PTL DEF Spec

-----------------------------------------------------------------------------
(* The end.                                                                *)

\* Once async_shutdown has been called a session is current only if it was
\* opened after that.
LateInv == unload.pc # "no" /\ current # NoConn => conn[current].late

\* Every step keeps LateInv.
LEMMA LateStep == TypeInv /\ TypeInv' /\ OwnerInv /\ LateInv /\ [Next]_vars => LateInv'
<1> SUFFICES ASSUME TypeInv, TypeInv', OwnerInv, LateInv, [Next]_vars PROVE LateInv'
    OBVIOUS
<1>1. ASSUME \A c \in Conns : conn'[c].late = conn[c].late, unload.pc = "no" => unload'.pc = "no",
             current' \in {current, NoConn}
      PROVE  LateInv'
    BY <1>1 DEF LateInv, TypeInv
<1>2. ASSUME \A c \in Conns : Calm(c), unload.pc = "no" => unload'.pc = "no",
             current' \in {current, NoConn}
      PROVE  LateInv'
    BY <1>1, <1>2 DEF Calm
<1>3. CASE UnloadStart
    BY <1>3 DEF UnloadStart, TakeSession, LateInv
<1>4. CASE OpenSession
  <2>1. refresh.conn \in Conns /\ current' = refresh.conn /\ unload' = unload
      BY <1>4, HoldingTyped DEF OpenSession, Holding
  <2>2. conn'[refresh.conn].late = (unload.pc # "no")
      BY <1>4, <2>1 DEF OpenSession, TypeInv, Connections
  <2> QED
      BY <2>1, <2>2 DEF LateInv
<1>5. CASE RefreshStart
  <2>1. UNCHANGED conn \/ \A c \in Conns : Calm(c)
      BY <1>5, TakeCalm DEF RefreshStart
  <2>2. current' \in {current, NoConn} /\ unload' = unload
      BY <1>5 DEF RefreshStart, TakeSession
  <2> QED
      BY <1>1, <2>1, <2>2 DEF Calm
<1>6. CASE RefreshCloses \/ SetupFailed
    BY <1>2, <1>6, HoldingTyped, ClosedCalm DEF RefreshCloses, SetupFailed, Holding
<1>7. CASE SetupFails
    BY <1>2, <1>7, TakeCalm DEF SetupFails, TakeSession
<1>8. CASE Established \/ Reopened \/ Enabled
  <2>1. /\ current' = current /\ unload' = unload
        /\ \A c \in Conns : conn'[c].late = conn[c].late
    <3>1. CASE Established
      <4>1. PICK d \in Conns : conn' = [conn EXCEPT ![d].link = "up"]
          BY <3>1 DEF Established
      <4>2. \A c \in Conns : conn'[c].late = conn[c].late
          BY <4>1 DEF TypeInv, Connections
      <4> QED
          BY <3>1, <4>2 DEF Established
    <3>2. CASE Reopened \/ Enabled
      <4>1. refresh.conn \in Conns
          BY <3>2, HoldingTyped DEF Reopened, Enabled, Holding
      <4>2. \A c \in Conns : conn'[c].late = conn[c].late
        <5>1. CASE conn' = [conn EXCEPT ![refresh.conn].link = "up",
                                        ![refresh.conn].revived = TRUE]
            BY <4>1, <5>1 DEF TypeInv, Connections
        <5>2. CASE conn' = [conn EXCEPT ![refresh.conn].notifying = TRUE]
            BY <4>1, <5>2 DEF TypeInv, Connections
        <5> QED
            BY <3>2, <5>1, <5>2 DEF Reopened, Enabled
      <4> QED
          BY <3>2, <4>2 DEF Reopened, Enabled
    <3> QED
        BY <1>8, <3>1, <3>2
  <2> QED
      BY <1>1, <2>1
<1>9. CASE Subscribe
  <2>1. refresh.conn \in Conns /\ refresh.at \in Params /\ Subscribes(refresh.conn, refresh.at)
      BY <1>9 DEF Subscribe, TypeInv, Refreshes, Holding
  <2> QED
      BY <1>2, <1>9, <2>1, SubscribesCalm DEF Subscribe
<1>10. CASE EstablishFails \/ Started \/ Advertised \/ UNCHANGED vars
    BY <1>1, <1>10 DEF EstablishFails, Started, Advertised, vars, tasks
<1>11. CASE UnloadEnds
    BY <1>2, <1>11, HoldingTyped, ClosedCalm DEF UnloadEnds
<1>12. ASSUME NEW c \in Conns,
              HandshakeEnds(c) \/ LinkDrops(c) \/ Deliver(c) \/ HandleDisconnect(c)
       PROVE  LateInv'
  <2>1. current' \in {current, NoConn} /\ unload' = unload
      BY <1>12 DEF HandshakeEnds, LinkDrops, Deliver, HandleDisconnect, tasks
  <2>2. \A d \in Conns : conn'[d].late = conn[d].late
    <3>1. CASE HandshakeEnds(c)
        BY <3>1 DEF HandshakeEnds, TypeInv, Connections
    <3>2. CASE LinkDrops(c)
        BY <3>2 DEF LinkDrops, TypeInv, Connections
    <3>3. CASE Deliver(c)
        BY <3>3 DEF Deliver, TypeInv, Connections
    <3>4. CASE HandleDisconnect(c)
      <4>1. CASE conn' = conn
          BY <4>1
      <4>2. CASE conn' = [conn EXCEPT ![c].machine = "closed", ![c].notifying = FALSE]
          BY <4>2 DEF TypeInv, Connections
      <4> QED
          BY <3>4, <4>1, <4>2 DEF HandleDisconnect
    <3> QED
        BY <1>12, <3>1, <3>2, <3>3, <3>4
  <2> QED
      BY <1>1, <2>1, <2>2
<1>13. ASSUME NEW c \in Conns, CleanupEnds(c) PROVE LateInv'
    BY <1>2, <1>13, ClosedCalm DEF CleanupEnds
<1>14. ASSUME NEW k \in Params, DeviceChanges(k) PROVE LateInv'
    BY <1>2, <1>14, ChangeCalm DEF DeviceChanges, tasks
<1>15. ASSUME NEW w \in Writers, WriteStep(w) \/ \E k \in Params : WriteCall(w, k)
       PROVE  LateInv'
  <2>1. CASE Put(w)
      BY <1>2, <2>1, HoldingTyped, ChangeCalm DEF Put
  <2>2. CASE ReadBack(w)
      BY <1>2, <2>2, HoldingTyped, SubscribesCalm DEF ReadBack
  <2>3. CASE WriteFails(w) \/ \E k \in Params : WriteCall(w, k)
      BY <1>1, <2>3 DEF WriteFails, WriteCall
  <2> QED
      BY <1>15, <2>1, <2>2, <2>3 DEF WriteStep
<1> QED
    BY <1>3, <1>4, <1>5, <1>6, <1>7, <1>8, <1>9, <1>10, <1>11, <1>12, <1>13, <1>14, <1>15
       DEF Next, RefreshStep

\* async_shutdown, whenever it is called, ends every session and link there was
\* or was being set up; a session is left only if it was opened after it.
THEOREM ShutdownIsFinal == Spec => []ShutdownEndsWhatWas
<1>1. Init => LateInv
    BY DEF Init, LateInv
<1>2. Spec => []LateInv
    BY <1>1, Owners, LateStep, PTL DEF Spec
<1>3. NoOrphanLink /\ LateInv => ShutdownEndsWhatWas
    BY DEF NoOrphanLink, LateInv, ShutdownEndsWhatWas, RefreshCloser, UnloadCloser, NoConn, Conns
<1> QED
    BY <1>2, <1>3, NoLinkIsOrphaned, PTL
=============================================================================
