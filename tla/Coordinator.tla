---------------------------- MODULE Coordinator ----------------------------
(***************************************************************************)
(* custom_components/dometic_ddm/coordinator.py: the owner of the one BLE   *)
(* link and session to a device.  Four kinds of task share self._session:   *)
(* the refresh that connects, the task that cleans up after a disconnect,   *)
(* async_shutdown, and the writes of the entities.  Code between two awaits *)
(* is one action.                                                           *)
(*                                                                          *)
(* A session is what Session.tla says it is, reduced to what its owner sees *)
(* of it.  Home Assistant, bleak and the device are the environment: HA     *)
(* runs one refresh at a time and again every minute, bleak reports a link  *)
(* that ended some time after it did, a device takes one central at a time. *)
(***************************************************************************)
EXTENDS Naturals, Sequences, FiniteSets

CONSTANTS
    Protocol,       \* "ddm1" (CFX3) or "ddm2" (FreshJet)
    Topics,         \* how many parameters are subscribed
    Writers,        \* tasks that call async_write
    MaxFaults,      \* bound: drops, failed attempts and lost answers
    MaxChanges,     \* bound: times a parameter of the device changes
    FlakyWrites     \* can a write of async_write fail while the link stays up?

ASSUME CoordinatorAssumption ==
    /\ Protocol \in {"ddm1", "ddm2"}
    /\ Topics \in Nat \ {0}
    /\ MaxFaults \in Nat /\ MaxChanges \in Nat
    /\ FlakyWrites \in BOOLEAN

VARIABLES
    conn,       \* every connection made so far: link, transport and session
    current,    \* self._session and self._client
    refresh,    \* the refresh: where it is, in _async_connect mostly
    cleanups,   \* connections _async_after_disconnect is closing
    ended,      \* links that ended and are still to be handled
    requested,  \* a refresh is due before the next watchdog tick
    unload,     \* where async_shutdown is
    success,    \* last_update_success
    data,       \* self.data: the version known of each parameter
    dev,        \* the device's parameters
    write,      \* where each async_write is
    faults,     \* faults so far
    changes     \* changes of the device's parameters so far

tasks == << refresh, cleanups, unload, write >>
device == << dev, changes >>
vars == << conn, current, tasks, ended, requested, success, data, device, faults >>

Conns == 1 .. (MaxFaults + 1)
NoConn == 0
Params == 1 .. Topics
Unknown == 0                    \* version of a value never received

\* Of a connection's past: was its client brought back after a drop, was its
\* session opened after async_shutdown was called?
Unused == [link |-> "none", notifying |-> FALSE, machine |-> "new",
           readyEvt |-> FALSE, subs |-> {}, air |-> << >>,
           revived |-> FALSE, late |-> FALSE]
Idle == [pc |-> "idle", conn |-> NoConn, at |-> 0]
NoWrite == [pc |-> "idle", conn |-> NoConn, param |-> 0]

\* The entry has just been set up: the first refresh connected and subscribed.
\* (When it fails HA throws this coordinator away.)
Init ==
    /\ dev = [k \in Params |-> 1]
    /\ conn = [c \in Conns |->
                 IF c # 1 THEN Unused
                 ELSE [link |-> "up", notifying |-> TRUE, machine |-> "ready",
                       readyEvt |-> TRUE, subs |-> Params, revived |-> FALSE, late |-> FALSE,
                       air |-> [k \in Params |-> [param |-> k, version |-> dev[k]]]]]
    /\ current = 1
    /\ refresh = Idle
    /\ cleanups = {}
    /\ ended = {}
    /\ requested = FALSE
    /\ unload = [pc |-> "no", conn |-> NoConn]
    /\ success = TRUE
    /\ data = [k \in Params |-> Unknown]
    /\ write = [w \in Writers |-> NoWrite]
    /\ faults = 0
    /\ changes = 0

Up(c) == conn[c].link = "up"
Usable(c) == Up(c) /\ conn[c].machine = "ready"
Speaking(c) == conn[c].machine \in {"handshake", "ready"}

\* DometicDdmCoordinator.connected; BleTransport.connected needs both the
\* client's link and notifications.
Connected == current # NoConn /\ Usable(current) /\ conn[current].notifying

\* DometicDdmEntity.available.
Available == success /\ Connected

\* Something goes wrong: within the bound, or for free when it must.
Fault(forced) ==
    IF forced THEN UNCHANGED faults ELSE faults < MaxFaults /\ faults' = faults + 1

-----------------------------------------------------------------------------
(* Closing a session, in two steps around the await of session.close().    *)

\* Mutant: the machine of a session being closed is left running.
TakeSessionOpen == current' = NoConn /\ UNCHANGED conn

\* self._session and self._client are cleared before anything is awaited and
\* close() ends the machine at once.
TakeSession ==
    /\ current' = NoConn
    /\ conn' = IF current = NoConn THEN conn
               ELSE [conn EXCEPT ![current].machine = "closed"]

\* Mutant: the transport is not disconnected.
SessionClosedLinked(c) ==
    /\ conn' = [conn EXCEPT ![c].notifying = FALSE]
    /\ UNCHANGED ended

\* close() returns.  bleak reports the end of a link we closed, too.
SessionClosed(c) ==
    /\ conn' = [conn EXCEPT ![c].notifying = FALSE, ![c].air = << >>,
                            ![c].link = IF Up(c) THEN "down" ELSE @]
    /\ ended' = IF Up(c) THEN ended \cup {c} ELSE ended

-----------------------------------------------------------------------------
(* The refresh: _async_update_data and _async_connect.                     *)

Advance(pc, c) == refresh' = [pc |-> pc, conn |-> c, at |-> 0]
UpdateFailed == refresh' = Idle /\ success' = FALSE

\* The device is in range of an adapter, or not.
Scan ==
    \/ Advance("establish", NoConn) /\ UNCHANGED << success, faults >>
    \/ UpdateFailed /\ Fault(FALSE)

\* The watchdog's tick or a requested refresh.  HA stops both when
\* async_shutdown is over; the watchdog earlier, with the entities.
RefreshStart ==
    /\ refresh.pc = "idle"
    /\ unload.pc = "no" \/ (unload.pc = "closing" /\ requested)
    /\ requested' = FALSE
    /\ IF Connected
       THEN success' = TRUE /\ UNCHANGED << conn, current, refresh, faults >>
       ELSE /\ TakeSession
            /\ IF current = NoConn THEN Scan
               ELSE Advance("closing", current) /\ UNCHANGED << success, faults >>
    /\ UNCHANGED << cleanups, unload, write, ended, data, device >>

RefreshCloses ==
    /\ refresh.pc = "closing"
    /\ SessionClosed(refresh.conn)
    /\ Scan
    /\ UNCHANGED << current, cleanups, unload, write, requested, data, device >>

\* establish_connection: the device takes one central at a time.
Established ==
    /\ refresh.pc = "establish"
    /\ \A c \in Conns : ~Up(c)
    /\ LET fresh == {c \in Conns : conn[c] = Unused}
       IN  \E c \in fresh :
               /\ \A d \in fresh : c <= d
               /\ conn' = [conn EXCEPT ![c].link = "up"]
               /\ Advance("opened", c)
    /\ UNCHANGED << current, cleanups, unload, write, ended, requested, success, data,
                    device, faults >>

EstablishFails ==
    /\ refresh.pc = "establish"
    /\ Fault(\E c \in Conns : Up(c))
    /\ UpdateFailed
    /\ UNCHANGED << conn, current, cleanups, unload, write, ended, requested, data, device >>

\* The client and a new session become the current ones and the session is
\* started; without a handshake its machine is ready at once.
OpenSession ==
    /\ refresh.pc = "opened"
    /\ current' = refresh.conn
    /\ conn' = [conn EXCEPT ![refresh.conn].machine =
                                IF Protocol = "ddm1" THEN "handshake" ELSE "ready",
                            ![refresh.conn].readyEvt = (Protocol = "ddm2"),
                            ![refresh.conn].late = (unload.pc # "no")]
    /\ Advance(IF Up(refresh.conn) THEN "enabling" ELSE "reopening", refresh.conn)
    /\ UNCHANGED << cleanups, unload, write, ended, requested, success, data, device, faults >>

\* BleTransport.connect() connects a client whose link is already gone again,
\* also when its session has been closed meanwhile.
Reopened ==
    /\ refresh.pc = "reopening"
    /\ \A c \in Conns : ~Up(c)
    /\ conn' = [conn EXCEPT ![refresh.conn].link = "up", ![refresh.conn].revived = TRUE]
    /\ Advance("enabling", refresh.conn)
    /\ UNCHANGED << current, cleanups, unload, write, ended, requested, success, data,
                    device, faults >>

\* start_notify returns; start() creates the writer and waits for READY.
Enabled ==
    /\ refresh.pc = "enabling"
    /\ Up(refresh.conn)
    /\ conn' = [conn EXCEPT ![refresh.conn].notifying = TRUE]
    /\ Advance("starting", refresh.conn)
    /\ UNCHANGED << current, cleanups, unload, write, ended, requested, success, data,
                    device, faults >>

\* The device's answers complete the handshake of an open session.
HandshakeEnds(c) ==
    /\ Up(c)
    /\ conn[c].notifying
    /\ conn[c].machine = "handshake"
    /\ conn' = [conn EXCEPT ![c].machine = "ready", ![c].readyEvt = TRUE]
    /\ UNCHANGED << current, tasks, ended, requested, success, data, device, faults >>

Started ==
    /\ refresh.pc = "starting"
    /\ conn[refresh.conn].readyEvt
    /\ refresh' = [refresh EXCEPT !.pc = "subscribing", !.at = 1]
    /\ UNCHANGED << conn, current, cleanups, unload, write, ended, requested, success,
                    data, device, faults >>

\* The device gets a SUBSCRIBE and answers with the value it has.
Subscribes(c, k) ==
    conn' = [conn EXCEPT ![c].subs = @ \cup {k},
                         ![c].air = Append(@, [param |-> k, version |-> dev[k]])]

Subscribe ==
    /\ refresh.pc = "subscribing"
    /\ Usable(refresh.conn)
    /\ Subscribes(refresh.conn, refresh.at)
    /\ IF refresh.at = Topics
       THEN refresh' = Idle /\ success' = TRUE
       ELSE refresh' = [refresh EXCEPT !.at = @ + 1] /\ UNCHANGED success
    /\ UNCHANGED << current, cleanups, unload, write, ended, requested, data, device, faults >>

\* What ends a setup early: a TransportError while the link is opened, the
\* handshake's timeout, a subscription the session or the transport refuses.
SetupError ==
    LET c == refresh.conn IN
    \/ refresh.pc \in {"reopening", "enabling"} /\ Fault(~Up(c))
    \/ refresh.pc = "starting" /\ Fault(~Up(c) \/ conn[c].machine = "closed")
    \/ refresh.pc = "subscribing" /\ Fault(~Usable(c))

\* Mutant: a setup that failed keeps its session.
SetupFailsKeeping ==
    /\ SetupError
    /\ UpdateFailed
    /\ UNCHANGED << conn, current, cleanups, unload, write, ended, requested, data, device >>

\* The setup failed: the current session, if there still is one, is closed.
\* start() itself has ended the machine when the transport raised.
SetupFails ==
    /\ SetupError
    /\ TakeSession
    /\ IF current = NoConn THEN UpdateFailed
       ELSE Advance("failing", current) /\ UNCHANGED success
    /\ UNCHANGED << cleanups, unload, write, ended, requested, data, device >>

SetupFailed ==
    /\ refresh.pc = "failing"
    /\ SessionClosed(refresh.conn)
    /\ UpdateFailed
    /\ UNCHANGED << current, cleanups, unload, write, requested, data, device, faults >>

-----------------------------------------------------------------------------
(* The link: drops, and what is pushed over it.                            *)

LinkDrops(c) ==
    /\ Up(c)
    /\ Fault(FALSE)
    /\ conn' = [conn EXCEPT ![c].link = "down", ![c].subs = {}, ![c].air = << >>]
    /\ ended' = ended \cup {c}
    /\ UNCHANGED << current, tasks, requested, success, data, device >>

\* Mutant: the session is closed but stays the current one.
HandleDisconnectKeeping(c) ==
    /\ c \in ended
    /\ ended' = ended \ {c}
    /\ IF c = current /\ unload.pc = "no"
       THEN /\ conn' = [conn EXCEPT ![c].machine = "closed", ![c].notifying = FALSE]
            /\ cleanups' = cleanups \cup {c}
       ELSE UNCHANGED << conn, cleanups >>
    /\ UNCHANGED << current, refresh, unload, write, requested, success, data, device, faults >>

\* _handle_disconnect, and _async_after_disconnect up to its first await.
HandleDisconnect(c) ==
    /\ c \in ended
    /\ ended' = ended \ {c}
    /\ IF c = current /\ unload.pc = "no"
       THEN /\ current' = NoConn
            /\ conn' = [conn EXCEPT ![c].machine = "closed", ![c].notifying = FALSE]
            /\ cleanups' = cleanups \cup {c}
       ELSE UNCHANGED << conn, current, cleanups >>
    /\ UNCHANGED << refresh, unload, write, requested, success, data, device, faults >>

\* HA drops a request made while a refresh is running.
CleanupEnds(c) ==
    /\ c \in cleanups
    /\ SessionClosed(c)
    /\ cleanups' = cleanups \ {c}
    /\ success' = FALSE
    /\ requested' = (requested \/ (refresh.pc = "idle" /\ unload.pc # "done"))
    /\ UNCHANGED << current, refresh, unload, write, data, device, faults >>

\* _async_on_advertisement.
Advertised ==
    /\ unload.pc = "no"
    /\ ~Connected
    /\ refresh.pc = "idle"
    /\ requested' = TRUE
    /\ UNCHANGED << conn, current, tasks, ended, success, data, device, faults >>

\* _on_update; a session that is closed ignores what still arrives.
Deliver(c) ==
    /\ conn[c].air # << >>
    /\ conn' = [conn EXCEPT ![c].air = Tail(@)]
    /\ IF Speaking(c)
       THEN LET u == Head(conn[c].air)
            IN  /\ data' = [data EXCEPT ![u.param] = u.version]
                /\ success' = TRUE
                /\ requested' = FALSE
       ELSE UNCHANGED << data, success, requested >>
    /\ UNCHANGED << current, tasks, ended, device, faults >>

\* The device's parameter changes; echoed is whether it publishes that.
Change(k, echoed) ==
    /\ changes < MaxChanges
    /\ changes' = changes + 1
    /\ dev' = [dev EXCEPT ![k] = changes + 2]
    /\ conn' = [c \in Conns |->
                   IF echoed /\ Up(c) /\ k \in conn[c].subs
                   THEN [conn[c] EXCEPT !.air =
                            Append(@, [param |-> k, version |-> changes + 2])]
                   ELSE conn[c]]

DeviceChanges(k) ==
    /\ Change(k, TRUE)
    /\ UNCHANGED << current, tasks, ended, requested, success, data, faults >>

-----------------------------------------------------------------------------
(* async_write, on the session it found.                                   *)

WriteCall(w, k) ==
    /\ write[w].pc = "idle"
    /\ Connected
    /\ changes < MaxChanges
    /\ write' = [write EXCEPT ![w] = [pc |-> "put", conn |-> current, param |-> k]]
    /\ UNCHANGED << conn, current, refresh, cleanups, unload, ended, requested, success,
                    data, device, faults >>

\* Mutant: a CFX3 is expected to publish what was written to it.
PutEchoed(w) ==
    /\ write[w].pc = "put"
    /\ Up(write[w].conn)
    /\ Change(write[w].param, Protocol = "ddm2")
    /\ write' = [write EXCEPT ![w] = NoWrite]
    /\ UNCHANGED << current, refresh, cleanups, unload, ended, requested, success, data, faults >>

\* A FreshJet echoes the new value; a CFX3 is asked for it.
Put(w) ==
    /\ write[w].pc = "put"
    /\ Up(write[w].conn)
    /\ Change(write[w].param, Protocol = "ddm2")
    /\ write' = [write EXCEPT ![w] = IF Protocol = "ddm1" THEN [@ EXCEPT !.pc = "read"]
                                     ELSE NoWrite]
    /\ UNCHANGED << current, refresh, cleanups, unload, ended, requested, success, data, faults >>

ReadBack(w) ==
    /\ write[w].pc = "read"
    /\ Usable(write[w].conn)
    /\ Subscribes(write[w].conn, write[w].param)
    /\ write' = [write EXCEPT ![w] = NoWrite]
    /\ UNCHANGED << current, refresh, cleanups, unload, ended, requested, success, data,
                    device, faults >>

\* HomeAssistantError: the write was refused, or its session is gone.
WriteFails(w) ==
    /\ write[w].pc # "idle"
    /\ ~Usable(write[w].conn) \/ FlakyWrites
    /\ Fault(~Usable(write[w].conn))
    /\ write' = [write EXCEPT ![w] = NoWrite]
    /\ UNCHANGED << conn, current, refresh, cleanups, unload, ended, requested, success,
                    data, device >>

-----------------------------------------------------------------------------
(* async_shutdown.                                                         *)

\* Mutant: the session is not closed.
UnloadStartOnly ==
    /\ unload.pc = "no"
    /\ unload' = [pc |-> "done", conn |-> NoConn]
    /\ requested' = FALSE
    /\ UNCHANGED << conn, current, refresh, cleanups, write, ended, success, data, device,
                    faults >>

UnloadStart ==
    /\ unload.pc = "no"
    /\ TakeSession
    /\ unload' = IF current = NoConn THEN [pc |-> "done", conn |-> NoConn]
                 ELSE [pc |-> "closing", conn |-> current]
    /\ requested' = (requested /\ current # NoConn)
    /\ UNCHANGED << refresh, cleanups, write, ended, success, data, device, faults >>

UnloadEnds ==
    /\ unload.pc = "closing"
    /\ SessionClosed(unload.conn)
    /\ unload' = [pc |-> "done", conn |-> NoConn]
    /\ requested' = FALSE
    /\ UNCHANGED << current, refresh, cleanups, write, success, data, device, faults >>

-----------------------------------------------------------------------------
RefreshStep ==
    \/ RefreshCloses \/ Established \/ EstablishFails \/ OpenSession \/ Reopened
    \/ Enabled \/ Started \/ Subscribe \/ SetupFails \/ SetupFailed

WriteStep(w) == Put(w) \/ ReadBack(w) \/ WriteFails(w)

Next ==
    \/ RefreshStart
    \/ RefreshStep
    \/ Advertised
    \/ UnloadStart
    \/ UnloadEnds
    \/ \E c \in Conns :
           \/ HandshakeEnds(c)
           \/ LinkDrops(c)
           \/ HandleDisconnect(c)
           \/ CleanupEnds(c)
           \/ Deliver(c)
    \/ \E k \in Params : DeviceChanges(k)
    \/ \E w \in Writers : WriteStep(w) \/ \E k \in Params : WriteCall(w, k)

Spec == Init /\ [][Next]_vars

\* The watchdog ticks, every awaited call returns or raises, the loop handles
\* what bleak reports, and the device answers while it can.
Fairness ==
    /\ WF_vars(RefreshStart)
    /\ WF_vars(RefreshStep)
    /\ WF_vars(UnloadEnds)
    /\ \A c \in Conns :
           /\ WF_vars(HandshakeEnds(c))
           /\ WF_vars(HandleDisconnect(c))
           /\ WF_vars(CleanupEnds(c))
           /\ WF_vars(Deliver(c))
    /\ \A w \in Writers : WF_vars(WriteStep(w))

FairSpec == Spec /\ Fairness

-----------------------------------------------------------------------------
(* Properties.                                                             *)

\* Every variable has its type.
TypeOK ==
    /\ conn \in [Conns ->
           [link : {"none", "up", "down"}, notifying : BOOLEAN,
            machine : {"new", "handshake", "ready", "closed"}, readyEvt : BOOLEAN,
            subs : SUBSET Params, revived : BOOLEAN, late : BOOLEAN,
            air : Seq([param : Params, version : 1 .. (MaxChanges + 1)])]]
    /\ current \in Conns \cup {NoConn}
    /\ refresh \in [pc : {"idle", "closing", "establish", "opened", "reopening",
                          "enabling", "starting", "subscribing", "failing"},
                    conn : Conns \cup {NoConn}, at : 0 .. Topics]
    /\ cleanups \subseteq Conns /\ ended \subseteq Conns
    /\ requested \in BOOLEAN /\ success \in BOOLEAN
    /\ unload \in [pc : {"no", "closing", "done"}, conn : Conns \cup {NoConn}]
    /\ data \in [Params -> 0 .. (MaxChanges + 1)]
    /\ dev \in [Params -> 1 .. (MaxChanges + 1)]
    /\ write \in [Writers -> [pc : {"idle", "put", "read"}, conn : Conns \cup {NoConn},
                              param : 0 .. Topics]]
    /\ faults \in 0 .. MaxFaults /\ changes \in 0 .. MaxChanges

\* The connections some task is in the middle of closing.
RefreshCloser == IF refresh.pc \in {"closing", "failing"} THEN {refresh.conn} ELSE {}
UnloadCloser == IF unload.pc = "closing" THEN {unload.conn} ELSE {}

\* A client brought back although its session had been given up: nobody will
\* ever close this link.
Stray(c) == conn[c].revived /\ ~Speaking(c)

\* A link is never left open with nobody to close it: it belongs to the
\* current session, to the setup that has just opened it, or to a task that
\* is closing it ("owns the BLE connection", the docstring of the module).
\* The one exception is the client of a session closed before start() came to
\* open its link, which BleTransport.connect() connects again.
NoOrphanLink ==
    \A c \in Conns : Up(c) =>
        \/ c = current
        \/ refresh.pc = "opened" /\ c = refresh.conn
        \/ c \in RefreshCloser \cup UnloadCloser \cup cleanups
        \/ Stray(c)

\* However the refresh, a disconnect and a shutdown interleave, a session is
\* closed by one of them only, and never while it is the current one.
SessionClosedOnce ==
    /\ RefreshCloser \cap UnloadCloser = {}
    /\ cleanups \cap (RefreshCloser \cup UnloadCloser) = {}
    /\ current \notin RefreshCloser \cup UnloadCloser \cup cleanups

\* Between refreshes a device that counts as connected is subscribed to every
\* parameter; otherwise entities would be available and never updated.
ConnectedMeansSubscribed ==
    refresh.pc = "idle" /\ Connected => conn[current].subs = Params

\* The next value in the air of connection c is heard now, and it is one of k.
Hears(c, k) ==
    /\ conn[c].air # << >>
    /\ Head(conn[c].air).param = k
    /\ data'[k] = Head(conn[c].air).version
    /\ conn'[c].air = Tail(conn[c].air)

\* Only what the current session hears changes the entities' values; what a
\* session that is being closed still receives over its open link does not.
OnlyCurrentSpeaks ==
    [][\A k \in Params : data'[k] # data[k] => current # NoConn /\ Hears(current, k)]_vars

\* Once async_shutdown and the tasks it met have ended there is no link and no
\* session ("Disconnect and stop", the docstring of async_shutdown).
ShutdownDisconnects ==
    unload.pc = "done" /\ refresh.pc = "idle" /\ cleanups = {} =>
        current = NoConn /\ \A c \in Conns : ~Up(c)

\* What async_shutdown does end, whenever it is called: every session and every
\* link there was and every one that was being set up.  What it leaves is a
\* session that a refresh it met opened after it, or a stray link.
ShutdownEndsWhatWas ==
    unload.pc = "done" /\ refresh.pc = "idle" /\ cleanups = {} =>
        /\ current # NoConn => conn[current].late
        /\ \A c \in Conns : Up(c) => conn[c].late \/ Stray(c)

\* A refresh never hangs: HA runs one at a time, so one that hung would be the
\* end of every reconnect.
RefreshEnds == refresh.pc # "idle" ~> refresh.pc = "idle"

\* After any finite run of drops, failed attempts and writes, and without help,
\* the entities become available and stay so, showing what the device has, if
\* they are not unloaded and no stray link keeps the device busy.
Recovers ==
    \/ <>[](Available /\ data = dev)
    \/ <>(unload.pc # "no")
    \/ <>(\E c \in Conns : Up(c) /\ Stray(c))
=============================================================================
