----------------------------- MODULE AcConsole -----------------------------
(***************************************************************************)
(* tools/ac_console/server.py: one Console, one shared device connection,   *)
(* any number of browser tabs.  Every command of a tab runs as a task of    *)
(* its own, so a connect, a disconnect and a write may be under way at      *)
(* once; the tasks of a tab are cancelled when its websocket closes.  Code  *)
(* between two awaits is one action.                                        *)
(*                                                                          *)
(* A session is reduced to what the console sees of it.  bleak and the      *)
(* devices are the environment: bleak reports the end of a link on its own  *)
(* time, and links to two devices may be up at once.                        *)
(***************************************************************************)
EXTENDS Naturals, FiniteSets

CONSTANTS
    Tabs,           \* browser tabs, each with one command under way
    MaxConns,       \* bound: connections made
    Protocols       \* the protocols a connect may ask for

ASSUME ConsoleAssumption == MaxConns \in Nat

VARIABLES
    conn,           \* every connection made so far: link and session
    session,        \* Console.session
    connecting,     \* Console._connecting
    protocol,       \* ConsoleState.protocol
    client,         \* Console.bleak_client
    values,         \* the connections whose updates Console.values holds
    task,           \* where the command of each tab is, and its connection
    losses,         \* the ended links on_link_lost() is still to be called for
    shown,          \* the connected flag the last push_state sent
    untold,         \* history: was a command cut off before it told the tabs?
    struck,         \* history: has on_link_lost() marked the session by mistake?
    adrift          \* history: the links whose holder was cut off, could not bond,
                    \* or opened them again for a session closed meanwhile

current == << protocol, client, values >>
told == << shown, untold >>
lost == << losses, struck >>
vars == << conn, session, connecting, current, task, lost, told, adrift >>

Conns == 1 .. MaxConns
NoConn == 0
NoProtocol == "none"
\* notifying is the transport's flag; enabled, whether the device does notify.
Unused == [link |-> "none", notifying |-> FALSE, enabled |-> FALSE, machine |-> "new",
           protocol |-> NoProtocol]
NoTask == [pc |-> "idle", conn |-> NoConn, bond |-> FALSE, protocol |-> NoProtocol]

\* Where a connect can be: closing the old session, opening the link, bonding;
\* in start() opening the link again, enabling notifications, waiting for READY;
\* closing the session because start() raised.
StartPcs == {"reopen", "start", "wait"}
ConnectPcs == {"close_old", "open_link", "bond", "start_failed"} \cup StartPcs
ClosingPcs == {"close_old", "start_failed", "disconnect"}

Init ==
    /\ conn = [c \in Conns |-> Unused]
    /\ session = NoConn
    /\ connecting = FALSE
    /\ protocol = NoProtocol
    /\ client = NoConn
    /\ values = {}
    /\ task = [t \in Tabs |-> NoTask]
    /\ losses = {} /\ struck = FALSE /\ adrift = {}
    /\ shown = FALSE /\ untold = FALSE

Up(c) == conn[c].link = "up"
Goto(t, pc, c) == task' = [task EXCEPT ![t] = [@ EXCEPT !.pc = pc, !.conn = c]]
Ends(t) == task' = [task EXCEPT ![t] = NoTask]

\* Console.state_message.
PushState ==
    /\ shown' = (session' # NoConn /\ conn'[session'].link = "up" /\ conn'[session'].notifying)
    /\ untold' = FALSE

\* A command raises: it is logged and every tab is told the state.
Raises(t) == Ends(t) /\ PushState

-----------------------------------------------------------------------------
(* disconnect(), around the await of session.close().                      *)

\* Mutant: the session is cleared only after it was closed.
TakeSessionKeeping ==
    /\ UNCHANGED session
    /\ struck' = FALSE
    /\ client' = NoConn
    /\ conn' = IF session = NoConn THEN conn
               ELSE [conn EXCEPT ![session].machine = "closed"]

TakeSession ==
    /\ session' = NoConn
    /\ struck' = FALSE
    /\ client' = NoConn
    /\ conn' = IF session = NoConn THEN conn
               ELSE [conn EXCEPT ![session].machine = "closed"]

\* A link ends; bleak has on_link_lost() called by call_soon_threadsafe().
LinkEnds(c) ==
    /\ conn' = [conn EXCEPT ![c].link = "down", ![c].notifying = FALSE, ![c].enabled = FALSE]
    /\ losses' = losses \cup {c}
    /\ adrift' = adrift \ {c}

SessionClosed(c) ==
    IF Up(c) THEN LinkEnds(c)
    ELSE /\ conn' = [conn EXCEPT ![c].notifying = FALSE]
         /\ UNCHANGED << losses, adrift >>

\* disconnect(), of a command or because one raised what it does not expect.
Disconnects(t) ==
    /\ TakeSession
    /\ IF session = NoConn
       THEN PushState /\ Ends(t)
       ELSE Goto(t, "disconnect", session) /\ UNCHANGED told
    /\ UNCHANGED << protocol, values, losses, adrift >>

DisconnectCmd(t) == task[t].pc = "idle" /\ Disconnects(t) /\ UNCHANGED connecting

\* Mutant: the link is left to itself.
DisconnectedLinked(t) ==
    /\ task[t].pc = "disconnect"
    /\ Ends(t)
    /\ UNCHANGED << conn, session, connecting, current, lost, told, adrift >>

Disconnected(t) ==
    /\ task[t].pc = "disconnect"
    /\ SessionClosed(task[t].conn)
    /\ Ends(t)
    /\ UNCHANGED << session, connecting, current, struck >>
    /\ PushState

-----------------------------------------------------------------------------
(* connect() and _connect(): one at a time.                                *)

\* Mutant: the protocol of the last device stays.
StartOverStale(p) == values' = {} /\ UNCHANGED protocol

\* The state and the values are those of the new device from here on.
StartOver(p) == protocol' = p /\ values' = {}

ConnectCmd(t, bond, p) ==
    /\ task[t].pc = "idle"
    /\ ~connecting
    /\ connecting' = TRUE
    /\ TakeSession
    /\ task' = [task EXCEPT ![t] =
           [pc |-> IF session = NoConn THEN "open_link" ELSE "close_old",
            conn |-> session, bond |-> bond, protocol |-> p]]
    /\ IF session = NoConn THEN StartOver(p) /\ PushState
       ELSE UNCHANGED << protocol, values, told >>
    /\ UNCHANGED << losses, adrift >>

OldClosed(t) ==
    /\ task[t].pc = "close_old"
    /\ SessionClosed(task[t].conn)
    /\ StartOver(task[t].protocol)
    /\ Goto(t, "open_link", NoConn)
    /\ UNCHANGED << session, connecting, client, struck >>
    /\ PushState

\* The console takes the connection and starts a session on it, at the await pc.
NewSession(t, c, pc, link) ==
    /\ session' = c
    /\ conn' = [conn EXCEPT ![c] = [Unused EXCEPT !.link = link, !.machine = "open",
                                                   !.protocol = task[t].protocol]]
    /\ task' = [task EXCEPT ![t] = [@ EXCEPT !.pc = pc, !.conn = c, !.bond = FALSE]]

\* client.connect() returns; without bonding first nothing is awaited before
\* the session starts.  Connections are numbered in their order.
LinkOpened(t) ==
    /\ task[t].pc = "open_link"
    /\ \E c \in {d \in Conns : conn[d] = Unused /\ \A e \in Conns : e < d => conn[e] # Unused} :
           /\ client' = c
           /\ IF task[t].bond
              THEN /\ conn' = [conn EXCEPT ![c].link = "up"]
                   /\ Goto(t, "bond", c)
                   /\ UNCHANGED session
              ELSE NewSession(t, c, "start", "up")
    /\ UNCHANGED << connecting, protocol, values, lost, told, adrift >>

\* connect() is over, with or without an error.
ConnectOver(t) == connecting' = FALSE /\ Ends(t)

LinkFails(t) ==
    /\ task[t].pc = "open_link"
    /\ ConnectOver(t)
    /\ TakeSession
    /\ UNCHANGED << protocol, values, losses, adrift >>
    /\ PushState

\* pair() returned; if the link is gone the transport connects the client again.
Bonded(t) ==
    /\ task[t].pc = "bond"
    /\ IF Up(task[t].conn) THEN NewSession(t, task[t].conn, "start", "up")
                           ELSE NewSession(t, task[t].conn, "reopen", "down")
    /\ UNCHANGED << connecting, current, lost, told, adrift >>

\* A TransportError: it is logged and the command is over; nobody closes the link.
BondFails(t) ==
    /\ task[t].pc = "bond"
    /\ ConnectOver(t)
    /\ adrift' = IF Up(task[t].conn) THEN adrift \cup {task[t].conn} ELSE adrift
    /\ UNCHANGED << conn, session, current, lost >>
    /\ PushState

\* client.connect() of the transport returns.  A tab that disconnected meanwhile
\* found no link to close: the session is closed and the link is nobody's.
Reopened(t) ==
    /\ task[t].pc = "reopen"
    /\ conn' = [conn EXCEPT ![task[t].conn].link = "up"]
    /\ adrift' = IF conn[task[t].conn].machine = "closed" THEN adrift \cup {task[t].conn}
                 ELSE adrift
    /\ Goto(t, "start", task[t].conn)
    /\ UNCHANGED << session, connecting, current, lost, told >>

\* start_notify() returns, and start() waits for READY.
Notifying(t) ==
    /\ task[t].pc = "start"
    /\ Up(task[t].conn)
    /\ conn' = [conn EXCEPT ![task[t].conn].notifying = TRUE, ![task[t].conn].enabled = TRUE]
    /\ Goto(t, "wait", task[t].conn)
    /\ UNCHANGED << session, connecting, current, lost, told, adrift >>

\* Mutant: the timeout leaves the session in a state nothing else knows.
StartEndsTimedOut(t) ==
    /\ task[t].pc = "wait"
    /\ conn' = [conn EXCEPT ![task[t].conn].machine = IF @ = "open" THEN "timed_out" ELSE @]
    /\ ConnectOver(t)
    /\ UNCHANGED << session, current, lost, adrift >>
    /\ PushState

\* The session is READY, or 15 s have passed: it is kept either way.
StartEnds(t) ==
    /\ task[t].pc = "wait"
    /\ ConnectOver(t)
    /\ UNCHANGED << conn, session, current, lost, adrift >>
    /\ PushState

\* Mutant: the flag is reset where the connect succeeds, not in a finally.
StartFailsConnecting(t) ==
    /\ task[t].pc \in {"reopen", "start"}
    /\ TakeSession
    /\ IF session = NoConn THEN Ends(t) ELSE Goto(t, "start_failed", session)
    /\ UNCHANGED << connecting, protocol, values, losses, told, adrift >>

\* start() raises: whatever session there is now is closed.
StartFails(t) ==
    /\ task[t].pc \in {"reopen", "start"}
    /\ TakeSession
    /\ IF session = NoConn
       THEN ConnectOver(t) /\ PushState
       ELSE Goto(t, "start_failed", session) /\ UNCHANGED << connecting, told >>
    /\ UNCHANGED << protocol, values, losses, adrift >>

FailedClosed(t) ==
    /\ task[t].pc = "start_failed"
    /\ SessionClosed(task[t].conn)
    /\ ConnectOver(t)
    /\ UNCHANGED << session, current, struck >>
    /\ PushState

-----------------------------------------------------------------------------
(* What the session calls: READY, also after start() gave up waiting for it  *)
(* and, without a handshake, before there is a link; and the updates, whose  *)
(* values are kept for tabs to come.                                         *)

OnReady(c) ==
    /\ conn[c].machine = "open"
    /\ Up(c) \/ \E t \in Tabs : task[t].pc = "reopen" /\ task[t].conn = c
    /\ conn' = [conn EXCEPT ![c].machine = "ready"]
    /\ UNCHANGED << session, connecting, current, task, lost, adrift >>
    /\ PushState

OnUpdate(c) ==
    /\ Up(c) /\ conn[c].machine \in {"open", "ready"}
    /\ values' = values \cup {c}
    /\ UNCHANGED << conn, session, connecting, protocol, client, task, lost,
                    told, adrift >>

-----------------------------------------------------------------------------
(* Commands that await the session or bleak, and change nothing themselves. *)

Awaits(t, pc, c) ==
    /\ task[t].pc = "idle"
    /\ Goto(t, pc, c)
    /\ UNCHANGED << conn, session, connecting, current, lost, told, adrift >>

\* The command ends and the tabs are not told: nothing they show has changed.
Returns(t) == Ends(t) /\ UNCHANGED << conn, session, connecting, current, lost, told, adrift >>

Fails(t) == UNCHANGED << conn, session, connecting, current, lost, adrift >> /\ Raises(t)

\* The permission to write itself decides nothing here: a write that has none is
\* refused, and a PING needs none.
EnableWrites ==
    /\ UNCHANGED << conn, session, connecting, current, task, lost, adrift >>
    /\ PushState

Ready == session # NoConn /\ conn[session].machine = "ready"

\* write() and raw(): the session is checked, then the permission, then the
\* frame waits its turn on the session found.
WriteCmd(t) == Ready /\ Awaits(t, "write", session)

\* A PING may go before the session is READY.
PingCmd(t) ==
    /\ session # NoConn
    /\ conn[session].machine # "closed"
    /\ Awaits(t, "write", session)

Written(t) == task[t].pc = "write" /\ Up(task[t].conn) /\ Returns(t)

WriteFails(t) == task[t].pc = "write" /\ Fails(t)

\* subscribe() keeps the session it found while it sends its topics one by
\* one; the topics are those of the console's protocol of the moment.
SubscribeCmd(t) == Ready /\ Awaits(t, "subscribe", session)

Subscribed(t) == task[t].pc = "subscribe" /\ conn[task[t].conn].machine = "ready" /\ Returns(t)

SubscribeFails(t) == task[t].pc = "subscribe" /\ Fails(t)

\* pair(): on the client there is, or else by BlueZ, which opens a link itself.
PairCmd(t) ==
    \/ client # NoConn /\ Awaits(t, "pair", client)
    \/ client = NoConn /\ protocol # NoProtocol /\ Awaits(t, "pair_bluez", NoConn)

Paired(t) ==
    /\ \/ task[t].pc = "pair" /\ Up(task[t].conn)
       \/ task[t].pc = "pair_bluez"
    /\ Returns(t)

\* Refused, timed out after 60 s, or no object of the device.
PairRaises(t) == task[t].pc \in {"pair", "pair_bluez"} /\ Fails(t)

ScanCmd(t) == Awaits(t, "scan", NoConn)

Scanned(t) == task[t].pc = "scan" /\ Returns(t)

\* bleak raises its own error, which handle() answers with a disconnect.
ScanRaises(t) == task[t].pc = "scan" /\ Disconnects(t) /\ UNCHANGED connecting

\* A second connect, a write without a session that is READY or without
\* permission, and so on: the command raises before it awaits anything.
Refused(t) == task[t].pc = "idle" /\ Fails(t)

-----------------------------------------------------------------------------
(* The environment.                                                        *)

LinkLost(c) ==
    /\ Up(c)
    /\ LinkEnds(c)
    /\ UNCHANGED << session, connecting, current, task, struck, told >>

\* The session there is now is marked, whichever link it was that ended.
MarkSession ==
    IF session = NoConn THEN UNCHANGED << conn, struck >>
    ELSE /\ conn' = [conn EXCEPT ![session].notifying = FALSE]
         /\ struck' = (struck \/ conn[session].enabled)

\* Mutant: nobody is told.
OnLinkLostQuietly(c) ==
    /\ c \in losses
    /\ losses' = losses \ {c}
    /\ MarkSession
    /\ UNCHANGED << session, connecting, current, task, told, adrift >>

OnLinkLost(c) ==
    /\ c \in losses
    /\ losses' = losses \ {c}
    /\ MarkSession
    /\ UNCHANGED << session, connecting, current, task, adrift >>
    /\ PushState

\* The websocket closes and its task is cancelled where it awaits: a connect
\* resets the flag, nothing closes what was being bonded, started or closed, and
\* nobody is told.  bleak itself cleans up after a cancelled client.connect(),
\* and a link that was being closed may end yet or not.
TabCloses(t) ==
    /\ task[t].pc # "idle"
    /\ Ends(t)
    /\ connecting' = (connecting /\ task[t].pc \notin ConnectPcs)
    /\ adrift' = IF task[t].pc \in {"bond"} \cup ClosingPcs /\ Up(task[t].conn)
                 THEN adrift \cup {task[t].conn} ELSE adrift
    /\ untold' = (untold \/ task[t].pc \in {"wait"} \cup ClosingPcs)
    /\ UNCHANGED << conn, session, current, lost, shown >>

-----------------------------------------------------------------------------
TaskStep(t) ==
    \/ Disconnected(t) \/ OldClosed(t) \/ LinkOpened(t) \/ LinkFails(t) \/ Bonded(t)
    \/ BondFails(t) \/ Reopened(t) \/ Notifying(t) \/ StartEnds(t) \/ StartFails(t)
    \/ FailedClosed(t) \/ Written(t)
    \/ WriteFails(t) \/ Subscribed(t) \/ SubscribeFails(t) \/ Paired(t) \/ PairRaises(t)
    \/ Scanned(t) \/ ScanRaises(t)

Command(t) ==
    \/ DisconnectCmd(t)
    \/ \E bond \in BOOLEAN, p \in Protocols : ConnectCmd(t, bond, p)
    \/ WriteCmd(t) \/ PingCmd(t) \/ SubscribeCmd(t) \/ PairCmd(t) \/ ScanCmd(t)
    \/ Refused(t)

Next ==
    \/ \E t \in Tabs : TaskStep(t) \/ Command(t) \/ TabCloses(t)
    \/ EnableWrites
    \/ \E c \in Conns : OnReady(c) \/ OnUpdate(c) \/ LinkLost(c) \/ OnLinkLost(c)

Spec == Init /\ [][Next]_vars

\* Every awaited call returns or raises.
FairSpec == Spec /\ \A t \in Tabs : WF_vars(TaskStep(t))
-----------------------------------------------------------------------------
(* Properties.                                                             *)

\* Every variable has its type.
TypeOK ==
    /\ conn \in [Conns -> [link : {"none", "up", "down"}, notifying : BOOLEAN, enabled : BOOLEAN,
                          machine : {"new", "open", "ready", "closed"},
                          protocol : Protocols \cup {NoProtocol}]]
    /\ session \in Conns \cup {NoConn}
    /\ connecting \in BOOLEAN /\ shown \in BOOLEAN
    /\ task \in [Tabs -> [pc : ConnectPcs \cup {"idle", "disconnect", "write", "subscribe",
                                              "pair", "pair_bluez", "scan"},
                          conn : Conns \cup {NoConn}, bond : BOOLEAN,
                          protocol : Protocols \cup {NoProtocol}]]
    /\ protocol \in Protocols \cup {NoProtocol}
    /\ client \in Conns \cup {NoConn}
    /\ values \subseteq Conns
    /\ losses \subseteq Conns /\ adrift \subseteq Conns
    /\ untold \in BOOLEAN /\ struck \in BOOLEAN

Connecting == {t \in Tabs : task[t].pc \in ConnectPcs}
Closing == {t \in Tabs : task[t].pc \in ClosingPcs}

\* The flag says exactly whether a connect is in progress, whatever way the
\* last one ended: it neither lets a second one in nor locks everybody out.
OneConnectAtATime ==
    /\ connecting = (Connecting # {})
    /\ Cardinality(Connecting) <= 1

\* Two tabs that disconnect or connect at once never close the same session,
\* and the current one is not being closed.
SessionClosedOnce ==
    /\ \A t, u \in Closing : t # u => task[t].conn # task[u].conn
    /\ \A t \in Closing : task[t].conn # session

\* A connect that fails closes "the session": its own or none, never one that
\* another tab opened in the meantime.
ConnectOwnsSession ==
    \A t \in Tabs : task[t].pc \in StartPcs => session \in {task[t].conn, NoConn}

\* Each connection has one tab that opens it and one that closes it, the same or another.
OneOwner == OneConnectAtATime /\ SessionClosedOnce /\ ConnectOwnsSession

\* A link belongs to the session, to the connect that is bonding on it or to
\* the command that is closing it ("One shared device connection", the
\* docstring of Console), however the commands of the tabs interleave.  The
\* exceptions are three: the tab closed while its command bonded on the link or
\* closed it, bonding raised, or the transport opened it again for a session
\* another tab had closed.
NoOrphanLink ==
    \A c \in Conns : Up(c) /\ c \notin adrift =>
        \/ c = session
        \/ \E t \in Tabs : task[t].conn = c /\ task[t].pc \in {"bond"} \cup ClosingPcs

\* A session that still takes frames has the protocol the console looks topics
\* up in: a subscribe going on while another tab connects to a device of the
\* other protocol never sends it a topic of the wrong table.
SpeaksProtocol ==
    \A c \in Conns : conn[c].machine \in {"open", "ready"} => conn[c].protocol = protocol

\* The values a new tab is given are those of one connection, the current one
\* if there is a session.
ValuesOfOneDevice ==
    /\ Cardinality(values) <= 1
    /\ session # NoConn => values \subseteq {session}

\* pair() never asks the client of a connection that was closed: the client
\* belongs to the session or to a connect that bonds or could not.
ClientIsCurrent ==
    client # NoConn => client = session \/ conn[client].machine = "new"

\* What the tabs share is about one device, the current one: the table topics are looked
\* up in, the values, and the client that bonds.
OneDevice == SpeaksProtocol /\ ValuesOfOneDevice /\ ClientIsCurrent

\* When no command is under way and no ended link is still to be told of, every
\* tab shows whether the link is up and the device notifies: no way a command
\* ends or a link is lost forgets to tell, but that of a tab that closed while
\* its command waited for READY or closed a session, until something else tells.
\* A link that ends after the next session began to notify marks that session
\* as not connected (server.py:518), which the tabs then show.
ShownIsTrue ==
    (\A t \in Tabs : task[t].pc = "idle") /\ losses = {} /\ ~untold =>
        LET connected == session # NoConn /\ Up(session) /\ conn[session].enabled
        IN  /\ shown => connected
            /\ connected /\ ~struck => shown

\* A connect ends, so that another one may begin.
ConnectEnds == connecting ~> ~connecting
=============================================================================
