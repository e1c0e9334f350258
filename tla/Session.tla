------------------------------ MODULE Session ------------------------------
(***************************************************************************)
(* pyddm/session.py class Session: the asyncio driver around one            *)
(* ProtocolMachine and one transport.  The coroutines that share it are     *)
(* processes here: start(), the writer task, close() and the callers of     *)
(* subscribe / write / write_raw / ping.  Code between two awaits is one    *)
(* action.                                                                  *)
(*                                                                          *)
(* The device and the radio are the environment: the device may send any    *)
(* frame at any time the link is up, the link may drop at any time and a    *)
(* write may fail at any time.                                              *)
(***************************************************************************)
EXTENDS ProtocolMachine, FiniteSets, SequencesExt

CONSTANTS
    Callers,            \* tasks that use the session's API
    Writer,             \* the writer task, as a holder of the write lock
    MaxRx,              \* bound: notifications the machine receives
    MaxCalls,           \* bound: API writes that pass the ready check
    CloseDuringStart,   \* may close() be called while start() awaits connect()?
    BadErrorListener    \* may the on_error callback raise?

ASSUME SessionAssumption ==
    /\ Writer \notin Callers
    /\ MaxRx \in Nat
    /\ MaxCalls \in Nat
    /\ CloseDuringStart \in BOOLEAN
    /\ BadErrorListener \in BOOLEAN

VARIABLES
    m,          \* self.machine
    readyEvt,   \* self._ready is set
    closed,     \* self._closed
    outq,       \* self._outgoing: queued machine frames, by their place in asked
    writer,     \* the writer task: where it is and the frame it took
    handle,     \* self._writer_task is not None
    lockq,      \* self._write_lock: the holder and, behind it, the waiters
    start,      \* where start() is, or how it ended
    close,      \* where close() is, or how it ended
    call,       \* what each API caller is waiting to write
    armed,      \* the transport's notify callback is set
    link,       \* the transport's link to the device is up
    issued,     \* API writes that passed the ready check so far
    asked,      \* history: every frame the machine asked to have written
    wire,       \* history: every frame that reached the device, in order
    reported,   \* history: machine frames lost to a TransportError and reported
    discarded   \* history: the machine frame close() cut off, if any

sessionVars == << readyEvt, closed, outq, writer, handle, lockq >>
taskVars == << start, close, call, issued >>
transportVars == << armed, link, wire >>
historyVars == << asked, reported, discarded >>
vars == << m, sessionVars, taskVars, transportVars, historyVars >>

Actors == Callers \cup {Writer}
ApiFrames == {"SUBSCRIBE", "WRITE"} \cup (IF Protocol = "ddm1" THEN {"PING"} ELSE {})

NoCall == "none"

Init ==
    /\ m = NewMachine
    /\ readyEvt = FALSE
    /\ closed = FALSE
    /\ outq = << >>
    /\ writer = [pc |-> "none", item |-> 0]
    /\ handle = FALSE
    /\ lockq = << >>
    /\ start = "idle"
    /\ close = "idle"
    /\ call = [c \in Callers |-> NoCall]
    /\ armed = FALSE
    /\ link \in BOOLEAN     \* a transport may be handed over connected
    /\ issued = 0
    /\ asked = << >>
    /\ wire = << >>
    /\ reported = {}
    /\ discarded = {}

-----------------------------------------------------------------------------
(* What several methods do.                                                *)

\* _dispatch of the events of one machine call: queue the frames, in order,
\* and set the ready event.
Dispatch(o) ==
    /\ m' = o.machine
    /\ asked' = asked \o o.sends
    /\ outq' = outq \o [i \in 1 .. Len(o.sends) |-> Len(asked) + i]
    /\ readyEvt' = (readyEvt \/ o.ready)

\* The frame reaches the device; n is its place in asked, 0 for an API write.
Transmit(f, n) ==
    /\ link
    /\ wire' = Append(wire, [frame |-> f, n |-> n])

HoldsLock(a) == lockq # << >> /\ Head(lockq) = a
Release == lockq' = Tail(lockq)

\* A cancelled task leaves the lock, whether it holds it, waits or neither.
Abandon(a) ==
    IF \E i \in DOMAIN lockq : lockq[i] = a
    THEN \E i \in DOMAIN lockq : lockq[i] = a /\ lockq' = RemoveAt(lockq, i)
    ELSE UNCHANGED lockq

-----------------------------------------------------------------------------
(* start().                                                                *)

StartRunning == start \in {"connect", "up", "wait"}
ConnectPending == start \in {"connect", "up"}

\* The writer task is created, then wait_ready returns at once or waits.
SpawnWriter(ready) ==
    /\ writer' = [pc |-> "get", item |-> 0]
    /\ handle' = TRUE
    /\ start' = IF ready THEN "ok" ELSE "wait"

\* The machine is armed before the transport connects.
StartCall ==
    /\ start = "idle"
    /\ ~closed
    /\ armed' = TRUE
    /\ Dispatch(MachineStart(m))
    /\ IF link
       THEN SpawnWriter(readyEvt')
       ELSE start' = "connect" /\ UNCHANGED << writer, handle >>
    /\ UNCHANGED << closed, lockq, close, call, issued, link, wire, reported, discarded >>

\* A closed session, or a machine that is no longer idle, refuses to start:
\* the second check comes after the callback was registered.
StartRefused ==
    /\ \/ start = "idle" /\ closed
       \/ start \in {"timeout", "error"}
    /\ armed' = (armed \/ ~closed)
    /\ start' = "error"
    /\ UNCHANGED << m, sessionVars, close, call, issued, link, wire, historyVars >>

\* The transport has a link and delivers notifications; connect() is still
\* to return.
LinkUp ==
    /\ start = "connect"
    /\ link' = TRUE
    /\ start' = "up"
    /\ UNCHANGED << m, sessionVars, close, call, issued, armed, wire, historyVars >>

ConnectReturns ==
    /\ start = "up"
    /\ SpawnWriter(readyEvt)
    /\ UNCHANGED << m, readyEvt, closed, outq, lockq, close, call, issued,
                    transportVars, historyVars >>

\* connect() raises; a link that was up may stay up.
ConnectFails ==
    /\ ConnectPending
    /\ armed' = FALSE
    /\ m' = MachineClose(m)
    /\ start' = "error"
    /\ UNCHANGED << sessionVars, close, call, issued, link, wire, historyVars >>

StartReady ==
    /\ start = "wait"
    /\ readyEvt
    /\ start' = "ok"
    /\ UNCHANGED << m, sessionVars, close, call, issued, transportVars, historyVars >>

\* asyncio.timeout may win even when the event is set in the same iteration.
StartTimesOut ==
    /\ start = "wait"
    /\ start' = "timeout"
    /\ UNCHANGED << m, sessionVars, close, call, issued, transportVars, historyVars >>

-----------------------------------------------------------------------------
(* The environment: notifications and a link that drops.                   *)

\* What _dispatch gets to of a notification's events: an update listener that
\* raises, and an error listener that raises when told so, end it before the ACK.
Handled(f) ==
    LET o == Receive(m, f)
    IN  {o} \cup (IF BadErrorListener /\ f.action = "PUBLISH"
                  THEN {Outcome(o.machine, << >>, o.ready)} ELSE {})

\* Session._handle_notify; a transport whose callback is gone drops the frame.
Notify(f) ==
    /\ link
    /\ armed
    /\ m.received < MaxRx
    /\ \E o \in Handled(f) : Dispatch(o)
    /\ UNCHANGED << closed, writer, handle, lockq, taskVars, transportVars,
                    reported, discarded >>

LinkDrops ==
    /\ link
    /\ link' = FALSE
    /\ UNCHANGED << m, sessionVars, taskVars, armed, wire, historyVars >>

-----------------------------------------------------------------------------
(* The writer task.                                                        *)

\* Mutant: the queue gives the newest frame first.
WriterGetNewest ==
    /\ writer.pc = "get"
    /\ outq # << >>
    /\ writer' = [pc |-> "lock", item |-> outq[Len(outq)]]
    /\ outq' = SubSeq(outq, 1, Len(outq) - 1)
    /\ lockq' = Append(lockq, Writer)
    /\ UNCHANGED << m, readyEvt, closed, handle, taskVars, transportVars, historyVars >>

WriterGet ==
    /\ writer.pc = "get"
    /\ outq # << >>
    /\ writer' = [pc |-> "lock", item |-> Head(outq)]
    /\ outq' = Tail(outq)
    /\ lockq' = Append(lockq, Writer)
    /\ UNCHANGED << m, readyEvt, closed, handle, taskVars, transportVars, historyVars >>

WriterWrites ==
    /\ writer.pc = "lock"
    /\ HoldsLock(Writer)
    /\ Transmit(asked[writer.item], writer.item)
    /\ Release
    /\ writer' = [pc |-> "get", item |-> 0]
    /\ UNCHANGED << m, readyEvt, closed, outq, handle, taskVars, armed, link, historyVars >>

\* Mutant: a frame that failed is forgotten without a report.
WriterFailsSilently ==
    /\ writer.pc = "lock"
    /\ HoldsLock(Writer)
    /\ Release
    /\ writer' = [pc |-> "get", item |-> 0]
    /\ UNCHANGED << m, readyEvt, closed, outq, handle, taskVars, transportVars, historyVars >>

\* A TransportError: the frame is reported and not retried.  An error
\* listener that raises ends the task.
WriterFails ==
    /\ writer.pc = "lock"
    /\ HoldsLock(Writer)
    /\ Release
    /\ reported' = reported \cup {writer.item}
    /\ \E pc \in {"get"} \cup (IF BadErrorListener THEN {"dead"} ELSE {}) :
           writer' = [pc |-> pc, item |-> 0]
    /\ UNCHANGED << m, readyEvt, closed, outq, handle, taskVars, transportVars,
                    asked, discarded >>

\* Mutant: the loop swallows its cancellation and goes on.
WriterStopsSwallowed ==
    /\ writer.pc = "cancelled"
    /\ writer' = [pc |-> "get", item |-> 0]
    /\ Abandon(Writer)
    /\ discarded' = discarded \cup ({writer.item} \ {0})
    /\ UNCHANGED << m, readyEvt, closed, outq, handle, taskVars, transportVars,
                    asked, reported >>

\* The task sees its cancellation.  A write that was under way may have
\* reached the device.
WriterStops ==
    /\ writer.pc = "cancelled"
    /\ writer' = [pc |-> "done", item |-> 0]
    /\ Abandon(Writer)
    /\ \/ /\ writer.item # 0
          /\ HoldsLock(Writer)
          /\ Transmit(asked[writer.item], writer.item)
          /\ UNCHANGED discarded
       \/ /\ discarded' = discarded \cup ({writer.item} \ {0})
          /\ UNCHANGED wire
    /\ UNCHANGED << m, readyEvt, closed, outq, handle, taskVars, armed, link,
                    asked, reported >>

-----------------------------------------------------------------------------
(* close().                                                                *)

CloseCall ==
    /\ close \in {"idle", "done", "failed"}
    /\ ConnectPending => CloseDuringStart
    /\ closed' = TRUE
    /\ m' = MachineClose(m)
    /\ handle' = FALSE
    /\ IF handle
       THEN /\ writer' = IF writer.pc \in {"get", "lock"}
                         THEN [writer EXCEPT !.pc = "cancelled"] ELSE writer
            /\ close' = "join"
            /\ UNCHANGED armed
       ELSE /\ armed' = FALSE
            /\ close' = "disconnect"
            /\ UNCHANGED writer
    /\ UNCHANGED << readyEvt, outq, lockq, start, call, issued, link, wire, historyVars >>

\* Mutant: the notify callback stays registered.
CloseJoinsAttached ==
    /\ close = "join"
    /\ writer.pc = "done"
    /\ close' = "disconnect"
    /\ UNCHANGED << m, sessionVars, start, call, issued, transportVars, historyVars >>

CloseJoins ==
    /\ close = "join"
    /\ writer.pc = "done"
    /\ armed' = FALSE
    /\ close' = "disconnect"
    /\ UNCHANGED << m, sessionVars, start, call, issued, link, wire, historyVars >>

\* Awaiting a task that died of an exception raises it again.
CloseRaises ==
    /\ close = "join"
    /\ writer.pc = "dead"
    /\ close' = "failed"
    /\ UNCHANGED << m, sessionVars, start, call, issued, transportVars, historyVars >>

\* Mutant: close() returns without the transport having disconnected.
CloseDisconnectsNot ==
    /\ close = "disconnect"
    /\ close' = "done"
    /\ UNCHANGED << m, sessionVars, start, call, issued, transportVars, historyVars >>

CloseDisconnects ==
    /\ close = "disconnect"
    /\ link' = FALSE
    /\ close' = "done"
    /\ UNCHANGED << m, sessionVars, start, call, issued, armed, wire, historyVars >>

-----------------------------------------------------------------------------
(* The API: the ready check comes before the wait for the write lock.      *)

\* _require_ready for subscribe and the writes; ping only needs an open session.
Allowed(f) == ~closed /\ (f # "PING" => m.state = "ready")

ApiCall(c, f) ==
    /\ call[c] = NoCall
    /\ Allowed(f)
    /\ issued < MaxCalls
    /\ issued' = issued + 1
    /\ call' = [call EXCEPT ![c] = f]
    /\ lockq' = Append(lockq, c)
    /\ UNCHANGED << m, readyEvt, closed, outq, writer, handle, start, close,
                    transportVars, historyVars >>

ApiEnds(c) ==
    /\ call[c] # NoCall
    /\ call' = [call EXCEPT ![c] = NoCall]
    /\ UNCHANGED << m, readyEvt, closed, outq, writer, handle, start, close, issued,
                    armed, link, historyVars >>

ApiWrites(c) ==
    /\ HoldsLock(c)
    /\ Transmit(call[c], 0)
    /\ Release
    /\ ApiEnds(c)

\* Mutant: the lock stays held when the write raises.
ApiFailsHolding(c) ==
    /\ HoldsLock(c)
    /\ UNCHANGED << lockq, wire >>
    /\ ApiEnds(c)

\* A TransportError, raised to the caller.
ApiFails(c) ==
    /\ HoldsLock(c)
    /\ Release
    /\ UNCHANGED wire
    /\ ApiEnds(c)

\* The caller's task is cancelled while it waits for the lock or writes.
ApiCancelled(c) ==
    /\ Abandon(c)
    /\ \/ HoldsLock(c) /\ Transmit(call[c], 0)
       \/ UNCHANGED wire
    /\ ApiEnds(c)

-----------------------------------------------------------------------------
ConnectEnds == LinkUp \/ ConnectReturns \/ ConnectFails
StartStep == StartCall \/ StartRefused \/ ConnectEnds \/ StartReady \/ StartTimesOut
WriterStep == WriterGet \/ WriterWrites \/ WriterFails \/ WriterStops
CloseRest == CloseJoins \/ CloseRaises \/ CloseDisconnects
ApiRest(c) == ApiWrites(c) \/ ApiFails(c) \/ ApiCancelled(c)

HostNext ==
    \/ StartStep
    \/ WriterStep
    \/ CloseCall
    \/ CloseRest
    \/ \E c \in Callers : ApiRest(c) \/ \E f \in ApiFrames : ApiCall(c, f)

Next ==
    \/ HostNext
    \/ LinkDrops
    \/ \E f \in DeviceFrames : Notify(f)

Spec == Init /\ [][Next]_vars

\* asyncio runs every task that can run; a transport call returns or raises;
\* the timer of start() fires.  Nothing makes a caller call, a link drop or a
\* device speak.
Fairness ==
    /\ WF_vars(ConnectEnds)
    /\ WF_vars(StartReady \/ StartTimesOut)
    /\ WF_vars(WriterStep)
    /\ WF_vars(CloseRest)
    /\ \A c \in Callers : WF_vars(ApiRest(c))

FairSpec == Spec /\ Fairness

-----------------------------------------------------------------------------
(* Properties.                                                             *)

\* Every variable has its type.
TypeOK ==
    /\ m \in Machines
    /\ readyEvt \in BOOLEAN /\ closed \in BOOLEAN /\ handle \in BOOLEAN
    /\ outq \in Seq(Nat \ {0})
    /\ writer \in [pc : {"none", "get", "lock", "cancelled", "done", "dead"}, item : Nat]
    /\ lockq \in Seq(Actors)
    /\ start \in {"idle", "connect", "up", "wait", "ok", "timeout", "error"}
    /\ close \in {"idle", "join", "disconnect", "done", "failed"}
    /\ call \in [Callers -> ApiFrames \cup {NoCall}]
    /\ armed \in BOOLEAN /\ link \in BOOLEAN
    /\ issued \in Nat
    /\ asked \in Seq(HostFrames)
    /\ wire \in Seq([frame : HostFrames, n : Nat])
    /\ reported \subseteq Nat \ {0}
    /\ discarded \subseteq Nat \ {0}

\* The machine frames on the wire, as places in asked.
Sent == {wire[i].n : i \in DOMAIN wire} \ {0}
Queued == {outq[i] : i \in DOMAIN outq}
InFlight == {writer.item} \ {0}

\* The frames of the machine (HELLO, the ACKs) reach the device in the order
\* the machine asked for them, each at most once, whatever API writes and
\* failures come between: "a slow transport can never reorder the handshake"
\* (the docstring of class Session).
WireInOrder ==
    \A i, j \in DOMAIN wire :
        i < j /\ wire[i].n # 0 /\ wire[j].n # 0 => wire[i].n < wire[j].n

\* No frame of the machine vanishes silently: each one is in exactly one of
\* five places - on the wire, reported to on_error, cut off by close(), in
\* the hands of the writer, or still queued.
NoSilentLoss ==
    /\ 1 .. Len(asked) = Sent \cup reported \cup discarded \cup InFlight \cup Queued
    /\ Sent \cap (reported \cup discarded \cup InFlight \cup Queued) = {}
    /\ reported \cap (discarded \cup InFlight \cup Queued) = {}
    /\ discarded \cap (InFlight \cup Queued) = {}
    /\ InFlight \cap Queued = {}

\* Together: whatever writes fail and whoever is cancelled, the frames of the machine are
\* all accounted for, and what arrives arrives in order.
FramesAccounted == WireInOrder /\ NoSilentLoss

\* The write lock is never left behind by a task that is gone: its holder and
\* its waiters are exactly the tasks inside _write.
LockAccounted ==
    /\ \A i, j \in DOMAIN lockq : lockq[i] = lockq[j] => i = j
    /\ {lockq[i] : i \in DOMAIN lockq} =
           {c \in Callers : call[c] # NoCall} \cup (IF writer.item # 0 THEN {Writer} ELSE {})

\* After close() has returned, and once start() is not awaiting connect(),
\* nothing is left over: no writer task, no callback, no link ("Stop the
\* writer, detach from the transport and disconnect it", the docstring of
\* close()).
ClosedIsClean ==
    close = "done" /\ ~ConnectPending =>
        /\ writer.pc \in {"none", "done", "dead"}
        /\ ~armed
        /\ ~link

\* When both calls have returned the transport is disconnected ("disconnect
\* it", the docstring of close()), also if close() was called while start()
\* awaited connect(): start() resumes on a closed session then.
NoLinkAfterClose == close = "done" /\ start \in {"ok", "timeout"} => ~link

\* close() does not give up before it has disconnected.
CloseDoesNotFail == close # "failed"

\* Once close() has returned nothing more reaches the device, not even from a
\* task that passed the ready check earlier and was waiting for the write lock.
QuietAfterClose == [][close = "done" => wire' = wire]_vars

\* A closed session stays closed: a notification that arrives while close()
\* still awaits the writer neither makes it ready nor queues another frame.
ClosedForGood ==
    [][closed => closed' /\ readyEvt' = readyEvt /\ asked' = asked]_vars

\* The queue, the writer and the failures together implement the outbox the
\* machine relies on.
Outbox == INSTANCE OrderedOutbox
    WITH sent <- Sent, lost <- reported \cup discarded

ImplementsOutbox == Outbox!Spec

\* start() and close() come to an end, whatever the device does.
StartTerminates == StartRunning ~> ~StartRunning
CloseTerminates == close \in {"join", "disconnect"} ~> close \in {"done", "failed"}

\* Neither call hangs, alone or when one interrupts the other.
CallsReturn == StartTerminates /\ CloseTerminates

\* A frame the writer has or will get reaches the device or is reported, as
\* long as the writer runs: the lock is never lost, and the loop survives a
\* failed write.
FramesSettle ==
    \A n \in 1 .. (MaxRx + Len(Handshake.initial)) :
        n \in Queued \cup InFlight /\ writer.pc \in {"get", "lock"} ~>
            n \in Sent \cup reported \/ writer.pc \in {"cancelled", "done", "dead"}
=============================================================================
