-------------------------- MODULE AcConsole_proofs --------------------------
(***************************************************************************)
(* Proofs about AcConsole, for any set of tabs and protocols and any number *)
(* of connections.                                                          *)
(*                                                                          *)
(* Types first (TypeOK).  Then who may touch a session (OwnerInv): while a  *)
(* connect closes the old session, opens a link or bonds there is no        *)
(* session, because the flag keeps other connects out and a disconnect only *)
(* takes one away.  DeviceInv builds on it, and so do the last two: whose   *)
(* the links are, and what the tabs show (ShownInv), with the two flags of  *)
(* a connection (FlagInv).                                                  *)
(***************************************************************************)
EXTENDS AcConsole, FiniteSetTheorems, TLAPS

Connections == [link : {"none", "up", "down"}, notifying : BOOLEAN, enabled : BOOLEAN,
                machine : {"new", "open", "ready", "closed"},
                protocol : Protocols \cup {NoProtocol}]
Tasks == [pc : ConnectPcs \cup {"idle", "disconnect", "write", "subscribe",
                                "pair", "pair_bluez", "scan"},
          conn : Conns \cup {NoConn}, bond : BOOLEAN,
          protocol : Protocols \cup {NoProtocol}]

\* What a task holds: before a connect has its session there is none, what is
\* being closed no longer talks.
Holds(t) ==
    /\ task[t].pc \in ConnectPcs => connecting
    /\ task[t].pc \in {"close_old", "open_link", "bond"} => session = NoConn
    /\ task[t].pc \in ClosingPcs => task[t].conn \in Conns /\ conn[task[t].conn].machine = "closed"
    /\ task[t].pc = "bond" => task[t].conn \in Conns /\ conn[task[t].conn].machine = "new"
    /\ task[t].pc \in StartPcs =>
           /\ task[t].conn \in Conns /\ conn[task[t].conn].machine # "new"
           /\ session \in {task[t].conn, NoConn}

\* Two tasks neither both connect nor close the same session.
Apart(t, u) ==
    /\ task[t].pc \in ConnectPcs /\ task[u].pc \in ConnectPcs => t = u
    /\ task[t].pc \in ClosingPcs /\ task[u].pc \in ClosingPcs /\ task[t].conn = task[u].conn
           => t = u

\* The session is the one connection that is neither new nor closed.
OwnerInv ==
    /\ connecting => \E t \in Tabs : task[t].pc \in ConnectPcs
    /\ \A t \in Tabs : Holds(t)
    /\ \A t, u \in Tabs : Apart(t, u)
    /\ \A c \in Conns : conn[c].machine \in {"open", "ready"} <=> c = session

\* A connect that has started over has the console for itself until it has a session.
DeviceInv ==
    /\ \A t \in Tabs : task[t].pc \in {"open_link", "bond"} =>
           protocol = task[t].protocol /\ values = {}
    /\ session # NoConn => conn[session].protocol = protocol /\ values \subseteq {session}
    /\ \E c \in Conns \cup {NoConn} : values \subseteq {c}
    /\ ClientIsCurrent

\* The transport's flag is set only while the device notifies; only an end of another
\* link clears it of a session that does, and a session being started does not yet.
FlagInv ==
    /\ \A c \in Conns : conn[c].notifying => conn[c].enabled
    /\ session # NoConn /\ conn[session].enabled => conn[session].notifying \/ struck
    /\ \A t \in Tabs : task[t].pc \in {"reopen", "start"} => ~conn[task[t].conn].enabled

\* Only these commands have something left to tell the tabs.
Telling == ClosingPcs \cup {"wait"}
Connected == session # NoConn /\ conn[session].link = "up" /\ conn[session].notifying
ShownInv ==
    (\A t \in Tabs : task[t].pc \notin Telling) /\ losses = {} /\ ~untold => shown = Connected
-----------------------------------------------------------------------------
(* Types.                                                                  *)

LEMMA ConnsAreNotNone == NoConn \notin Conns /\ Conns \subseteq Nat
  BY ConsoleAssumption DEF NoConn, Conns

\* A task sent on keeps its type.
LEMMA GotoTyped ==
    ASSUME task \in [Tabs -> Tasks], NEW t \in Tabs, NEW c \in Conns \cup {NoConn},
           NEW pc \in ConnectPcs \cup {"idle", "disconnect", "write", "subscribe",
                                      "pair", "pair_bluez", "scan"},
           Goto(t, pc, c)
    PROVE  task' \in [Tabs -> Tasks]
  BY DEF Goto, Tasks

LEMMA EndsTyped ==
    ASSUME task \in [Tabs -> Tasks], NEW t \in Tabs, Ends(t)
    PROVE  task' \in [Tabs -> Tasks]
  BY DEF Ends, Tasks, NoTask

\* Taking the session away only closes its machine.
LEMMA TakeSessionTyped ==
    ASSUME conn \in [Conns -> Connections], session \in Conns \cup {NoConn}, TakeSession
    PROVE  /\ conn' \in [Conns -> Connections]
           /\ session' = NoConn /\ client' = NoConn /\ struck' = FALSE
           /\ \A c \in Conns :
                  /\ conn'[c].machine = IF c = session THEN "closed" ELSE conn[c].machine
                  /\ conn'[c].link = conn[c].link
                  /\ conn'[c].notifying = conn[c].notifying
                  /\ conn'[c].enabled = conn[c].enabled
                  /\ conn'[c].protocol = conn[c].protocol
  BY ConnsAreNotNone DEF TakeSession, Connections

\* The end of a link leaves machines, protocols and the other links alone.
LEMMA LinkEndsTyped ==
    ASSUME conn \in [Conns -> Connections], NEW c \in Conns, LinkEnds(c)
    PROVE  /\ conn' \in [Conns -> Connections]
           /\ conn'[c].link = "down" /\ ~conn'[c].notifying /\ ~conn'[c].enabled
           /\ \A d \in Conns : /\ conn'[d].machine = conn[d].machine
                               /\ conn'[d].protocol = conn[d].protocol
                               /\ d # c => conn'[d] = conn[d]
           /\ losses' = losses \cup {c} /\ adrift' = adrift \ {c}
  BY DEF LinkEnds, Connections

LEMMA SessionClosedTyped ==
    ASSUME conn \in [Conns -> Connections], NEW c \in Conns, SessionClosed(c)
    PROVE  /\ conn' \in [Conns -> Connections]
           /\ conn'[c].link # "up" /\ ~conn'[c].notifying
           /\ conn'[c].enabled => conn[c].enabled
           /\ \A d \in Conns : /\ conn'[d].machine = conn[d].machine
                               /\ conn'[d].protocol = conn[d].protocol
                               /\ d # c => conn'[d] = conn[d]
           /\ losses' \in {losses, losses \cup {c}} /\ adrift' \in {adrift, adrift \ {c}}
<1>1. CASE Up(c)
  BY <1>1, LinkEndsTyped DEF SessionClosed
<1>2. CASE ~Up(c)
  <2>1. /\ conn' = [conn EXCEPT ![c] = [@ EXCEPT !.notifying = FALSE]]
        /\ losses' = losses /\ adrift' = adrift
    BY <1>2 DEF SessionClosed
  <2>2. conn[c].link # "up"
    BY <1>2 DEF Up
  <2> QED
    BY <2>1, <2>2 DEF Connections
<1> QED
  BY <1>1, <1>2

LEMMA NotifyTyped ==
    ASSUME conn \in [Conns -> Connections], NEW c \in Conns,
           conn' = [conn EXCEPT ![c].notifying = TRUE, ![c].enabled = TRUE]
    PROVE  conn' \in [Conns -> Connections]
  BY DEF Connections

\* Marking the session touches the transport's flag and nothing else.
LEMMA MarkSessionTyped ==
    ASSUME conn \in [Conns -> Connections], session \in Conns \cup {NoConn}, struck \in BOOLEAN,
           MarkSession
    PROVE  /\ conn' \in [Conns -> Connections] /\ struck' \in BOOLEAN
           /\ session # NoConn /\ conn[session].enabled => struck'
           /\ \A c \in Conns : /\ conn'[c].machine = conn[c].machine
                               /\ conn'[c].protocol = conn[c].protocol
                               /\ conn'[c].link = conn[c].link
                               /\ conn'[c].enabled = conn[c].enabled
                               /\ conn'[c].notifying => conn[c].notifying
<1>1. CASE session = NoConn
  BY <1>1 DEF MarkSession
<1>2. CASE session # NoConn
  <2>1. /\ conn' = [conn EXCEPT ![session] = [@ EXCEPT !.notifying = FALSE]]
        /\ struck' = (struck \/ conn[session].enabled) /\ session \in Conns
    BY <1>2 DEF MarkSession
  <2> QED
    BY <2>1 DEF Connections
<1> QED
  BY <1>1, <1>2

LEMMA PushStateTyped == PushState => shown' \in BOOLEAN /\ untold' \in BOOLEAN
  BY DEF PushState

LEMMA InitTyped == Init => TypeOK
<1> SUFFICES ASSUME Init PROVE TypeOK
  OBVIOUS
<1>1. Unused \in Connections /\ NoTask \in Tasks
  BY DEF Unused, NoTask, Connections, Tasks
<1>2. conn \in [Conns -> Connections] /\ task \in [Tabs -> Tasks]
  BY <1>1 DEF Init
<1> QED
  BY <1>2 DEF Init, TypeOK, Connections, Tasks

\* A task's steps keep the types.
LEMMA TaskStepTyped ==
    ASSUME TypeOK, OwnerInv, NEW t \in Tabs, TaskStep(t)
    PROVE  TypeOK'
<1> USE DEF TypeOK, lost, told
<1>t. task \in [Tabs -> Tasks] /\ conn \in [Conns -> Connections] /\ task[t] \in Tasks
  BY DEF Tasks, Connections
<1>i. TypeOK' <=> /\ conn' \in [Conns -> Connections] /\ task' \in [Tabs -> Tasks]
                  /\ session' \in Conns \cup {NoConn} /\ client' \in Conns \cup {NoConn}
                  /\ connecting' \in BOOLEAN /\ shown' \in BOOLEAN
                  /\ protocol' \in Protocols \cup {NoProtocol} /\ values' \subseteq Conns
                  /\ losses' \subseteq Conns /\ adrift' \subseteq Conns
                  /\ untold' \in BOOLEAN /\ struck' \in BOOLEAN
  BY DEF Tasks, Connections
<1>e. Ends(t) => task' \in [Tabs -> Tasks]
  BY <1>t, EndsTyped
<1>g. ASSUME NEW c \in Conns \cup {NoConn},
             NEW pc \in ConnectPcs \cup {"idle", "disconnect", "write", "subscribe",
                                        "pair", "pair_bluez", "scan"},
             Goto(t, pc, c)
      PROVE  task' \in [Tabs -> Tasks]
  BY <1>t, <1>g, GotoTyped
<1>k. TakeSession => /\ conn' \in [Conns -> Connections] /\ session' = NoConn
                     /\ client' = NoConn /\ struck' \in BOOLEAN
  BY <1>t, TakeSessionTyped
<1>c. task[t].pc \in ClosingPcs /\ SessionClosed(task[t].conn) =>
          /\ conn' \in [Conns -> Connections]
          /\ losses' \subseteq Conns /\ adrift' \subseteq Conns
  BY <1>t, SessionClosedTyped DEF OwnerInv, Holds
<1>n. ASSUME NEW c \in Conns, NEW pc \in {"start", "reopen"}, NEW link \in {"up", "down"},
             NewSession(t, c, pc, link)
      PROVE  /\ conn' \in [Conns -> Connections] /\ task' \in [Tabs -> Tasks] /\ session' = c
  <2>1. task[t].protocol \in Protocols \cup {NoProtocol}
    BY <1>t DEF Tasks
  <2>2. task' \in [Tabs -> Tasks]
    BY <1>n, <1>t DEF NewSession, ConnectPcs, StartPcs, Tasks
  <2> QED
    BY <1>n, <1>t, <2>1, <2>2 DEF NewSession, Connections, Unused
<1>u. /\ UNCHANGED << conn, session, connecting, current, lost, adrift >> /\ Ends(t)
      /\ shown' \in BOOLEAN /\ untold' \in BOOLEAN
      => TypeOK'
  BY <1>i, <1>t, <1>e DEF current
<1>1. CASE Disconnected(t)
  BY <1>1, <1>i, <1>e, <1>c, PushStateTyped DEF Disconnected, ClosingPcs, current
<1>2. CASE OldClosed(t)
  <2>1. task[t].protocol \in Protocols \cup {NoProtocol}
    BY <1>t DEF Tasks
  <2> QED
    BY <1>2, <2>1, <1>i, <1>g, <1>c, PushStateTyped DEF OldClosed, ClosingPcs, ConnectPcs, StartPcs, StartOver
<1>3. CASE LinkOpened(t)
  <2>1. PICK c \in Conns :
           /\ client' = c
           /\ IF task[t].bond
              THEN /\ conn' = [conn EXCEPT ![c].link = "up"] /\ Goto(t, "bond", c)
                   /\ UNCHANGED session
              ELSE NewSession(t, c, "start", "up")
    BY <1>3 DEF LinkOpened
  <2>2. conn' \in [Conns -> Connections] /\ task' \in [Tabs -> Tasks]
            /\ session' \in Conns \cup {NoConn}
    <3>1. CASE task[t].bond
      BY <2>1, <3>1, <1>t, <1>g DEF Connections, ConnectPcs, StartPcs
    <3>2. CASE ~task[t].bond
      BY <2>1, <3>2, <1>n
    <3> QED
      BY <3>1, <3>2
  <2> QED
    BY <1>3, <2>1, <2>2, <1>i DEF LinkOpened
<1>4. CASE LinkFails(t)
  BY <1>4, <1>i, <1>e, <1>k, PushStateTyped DEF LinkFails, ConnectOver
<1>5. CASE Bonded(t)
  <2>1. task[t].conn \in Conns
    BY <1>5 DEF Bonded, OwnerInv, Holds
  <2>2. PICK pc \in {"start", "reopen"}, link \in {"up", "down"} :
            NewSession(t, task[t].conn, pc, link)
    BY <1>5 DEF Bonded
  <2> QED
    BY <1>5, <2>1, <2>2, <1>i, <1>n DEF Bonded, current
<1>6. CASE BondFails(t)
  <2>1. task[t].conn \in Conns
    BY <1>6 DEF BondFails, OwnerInv, Holds
  <2> QED
    BY <1>6, <2>1, <1>i, <1>e, <1>t, PushStateTyped DEF BondFails, ConnectOver, current
<1>7. CASE StartEnds(t)
  BY <1>7, <1>i, <1>t, <1>e, PushStateTyped DEF StartEnds, ConnectOver, current
<1>8. CASE StartFails(t)
  <2>1. task' \in [Tabs -> Tasks]
    BY <1>8, <1>e, <1>g DEF StartFails, ConnectOver, ConnectPcs, StartPcs
  <2>2. /\ conn' \in [Conns -> Connections] /\ session' = NoConn /\ client' = NoConn
        /\ struck' \in BOOLEAN
    BY <1>8, <1>k DEF StartFails
  <2> QED
    BY <1>8, <2>1, <2>2, <1>i, PushStateTyped DEF StartFails, ConnectOver
<1>9. CASE FailedClosed(t)
  BY <1>9, <1>i, <1>e, <1>c, PushStateTyped DEF FailedClosed, ConnectOver, ClosingPcs, current
<1>10. CASE Written(t) \/ Subscribed(t) \/ Paired(t) \/ Scanned(t)
  BY <1>10, <1>u DEF Written, Subscribed, Paired, Scanned, Returns
<1>11. CASE WriteFails(t) \/ SubscribeFails(t) \/ PairRaises(t)
  BY <1>11, <1>u, PushStateTyped DEF WriteFails, SubscribeFails, PairRaises, Fails, Raises
<1>12. CASE ScanRaises(t)
  <2>1. Disconnects(t) /\ UNCHANGED connecting
    BY <1>12 DEF ScanRaises
  <2>2. task' \in [Tabs -> Tasks]
    BY <2>1, <1>e, <1>g DEF Disconnects
  <2>3. /\ conn' \in [Conns -> Connections] /\ session' = NoConn /\ client' = NoConn
        /\ struck' \in BOOLEAN
    BY <2>1, <1>k DEF Disconnects
  <2> QED
    BY <2>1, <2>2, <2>3, <1>i, PushStateTyped DEF Disconnects
<1>13. CASE Reopened(t)
  <2>1. task[t].conn \in Conns
    BY <1>13 DEF Reopened, OwnerInv, Holds, StartPcs
  <2>2. conn' \in [Conns -> Connections] /\ task' \in [Tabs -> Tasks]
    BY <1>13, <2>1, <1>t, <1>g DEF Reopened, Connections, ConnectPcs, StartPcs
  <2> QED
    BY <1>13, <2>1, <2>2, <1>i DEF Reopened, current
<1>14. CASE Notifying(t)
  <2>1. task[t].conn \in Conns
    BY <1>14 DEF Notifying, OwnerInv, Holds, StartPcs
  <2>3. conn' \in [Conns -> Connections]
    BY <1>14, <1>t, <2>1, NotifyTyped DEF Notifying
  <2>4. Goto(t, "wait", task[t].conn)
    BY <1>14 DEF Notifying
  <2>5. task' \in [Tabs -> Tasks]
    BY <2>1, <2>4, <1>g DEF ConnectPcs, StartPcs
  <2> QED
    BY <1>14, <2>3, <2>5, <1>i DEF Notifying, current
<1> QED
  BY <1>1, <1>2, <1>3, <1>4, <1>5, <1>6, <1>7, <1>8, <1>9, <1>10, <1>11, <1>12, <1>13, <1>14
     DEF TaskStep

\* So do the commands, the end of a tab and what the session and the device do.
LEMMA OtherStepTyped ==
    ASSUME TypeOK, OwnerInv,
           \/ \E t \in Tabs : Command(t) \/ TabCloses(t)
           \/ EnableWrites
           \/ \E c \in Conns : OnReady(c) \/ OnUpdate(c) \/ LinkLost(c) \/ OnLinkLost(c)
    PROVE  TypeOK'
<1> USE DEF TypeOK, lost, told
<1>t. task \in [Tabs -> Tasks] /\ conn \in [Conns -> Connections]
  BY DEF Tasks, Connections
<1>i. TypeOK' <=> /\ conn' \in [Conns -> Connections] /\ task' \in [Tabs -> Tasks]
                  /\ session' \in Conns \cup {NoConn} /\ client' \in Conns \cup {NoConn}
                  /\ connecting' \in BOOLEAN /\ shown' \in BOOLEAN
                  /\ protocol' \in Protocols \cup {NoProtocol} /\ values' \subseteq Conns
                  /\ losses' \subseteq Conns /\ adrift' \subseteq Conns
                  /\ untold' \in BOOLEAN /\ struck' \in BOOLEAN
  BY DEF Tasks, Connections
<1>k. TakeSession => /\ conn' \in [Conns -> Connections] /\ session' = NoConn
                     /\ client' = NoConn /\ struck' \in BOOLEAN
  BY <1>t, TakeSessionTyped
<1>1. ASSUME NEW t \in Tabs, DisconnectCmd(t)
      PROVE  TypeOK'
  <2>1. Disconnects(t) /\ UNCHANGED connecting
    BY <1>1 DEF DisconnectCmd
  <2>2. task' \in [Tabs -> Tasks]
    BY <2>1, <1>t, EndsTyped, GotoTyped DEF Disconnects
  <2>3. /\ conn' \in [Conns -> Connections] /\ session' = NoConn /\ client' = NoConn
        /\ struck' \in BOOLEAN
    BY <2>1, <1>k DEF Disconnects
  <2> QED
    BY <2>1, <2>2, <2>3, <1>i, PushStateTyped DEF Disconnects
<1>2. ASSUME NEW t \in Tabs, NEW bond \in BOOLEAN, NEW p \in Protocols, ConnectCmd(t, bond, p)
      PROVE  TypeOK'
  <2>1. task' \in [Tabs -> Tasks]
    BY <1>2, <1>t DEF ConnectCmd, Tasks, ConnectPcs, StartPcs
  <2>2. /\ conn' \in [Conns -> Connections] /\ session' = NoConn /\ client' = NoConn
        /\ struck' \in BOOLEAN
    BY <1>2, <1>k DEF ConnectCmd
  <2> QED
    BY <1>2, <2>1, <2>2, <1>i, PushStateTyped DEF ConnectCmd, StartOver
<1>3. ASSUME NEW t \in Tabs, WriteCmd(t) \/ PingCmd(t) \/ SubscribeCmd(t) \/ PairCmd(t) \/ ScanCmd(t)
      PROVE  TypeOK'
  <2>1. PICK pc \in {"write", "subscribe", "pair", "pair_bluez", "scan"},
             c \in Conns \cup {NoConn} : Awaits(t, pc, c)
    BY <1>3 DEF WriteCmd, PingCmd, SubscribeCmd, PairCmd, ScanCmd
  <2>2. task' \in [Tabs -> Tasks]
    BY <2>1, <1>t, GotoTyped DEF Awaits
  <2> QED
    BY <2>1, <2>2, <1>i, <1>t DEF Awaits, current
<1>4. ASSUME NEW t \in Tabs, Refused(t)
      PROVE  TypeOK'
  BY <1>4, <1>i, <1>t, EndsTyped, PushStateTyped DEF Refused, Fails, Raises, current
<1>5. ASSUME NEW t \in Tabs, TabCloses(t)
      PROVE  TypeOK'
  <2>1. task[t].conn \in Conns \cup {NoConn}
    BY <1>t DEF Tasks
  <2>2. Up(task[t].conn) /\ task[t].pc \in {"bond"} \cup ClosingPcs => task[t].conn \in Conns
    BY DEF OwnerInv, Holds
  <2> QED
    BY <1>5, <2>1, <2>2, <1>i, <1>t, EndsTyped DEF TabCloses, current
<1>6. ASSUME EnableWrites
      PROVE  TypeOK'
  BY <1>6, <1>i, <1>t, PushStateTyped DEF EnableWrites, current
<1>7. ASSUME NEW c \in Conns, OnReady(c)
      PROVE  TypeOK'
  <2>1. conn' \in [Conns -> Connections]
    BY <1>7, <1>t DEF OnReady, Connections
  <2> QED
    BY <1>7, <2>1, <1>i, <1>t, PushStateTyped DEF OnReady, current
<1>8. ASSUME NEW c \in Conns, OnUpdate(c)
      PROVE  TypeOK'
  BY <1>8, <1>i, <1>t DEF OnUpdate
<1>9. ASSUME NEW c \in Conns, LinkLost(c)
      PROVE  TypeOK'
  BY <1>9, <1>i, <1>t, LinkEndsTyped, PushStateTyped DEF LinkLost, current
<1>10. ASSUME NEW c \in Conns, OnLinkLost(c)
      PROVE  TypeOK'
  <2>1. conn' \in [Conns -> Connections] /\ struck' \in BOOLEAN
    BY <1>10, <1>t, MarkSessionTyped DEF OnLinkLost
  <2> QED
    BY <1>10, <2>1, <1>i, <1>t, PushStateTyped DEF OnLinkLost, current
<1> QED
  BY <1>1, <1>2, <1>3, <1>4, <1>5, <1>6, <1>7, <1>8, <1>9, <1>10 DEF Command

LEMMA NextTyped == TypeOK /\ OwnerInv /\ [Next]_vars => TypeOK'
<1>1. CASE UNCHANGED vars
  BY <1>1 DEF vars, current, lost, told, TypeOK
<1> QED
  BY <1>1, TaskStepTyped, OtherStepTyped DEF Next
-----------------------------------------------------------------------------
(* Who opens and who closes.                                               *)

LEMMA InitOwner == Init => OwnerInv
<1> SUFFICES ASSUME Init PROVE OwnerInv
  OBVIOUS
<1>1. \A t \in Tabs : task[t].pc = "idle"
  BY DEF Init, NoTask
<1>2. \A c \in Conns : conn[c].machine = "new" /\ c # session
  BY ConnsAreNotNone DEF Init, Unused
<1> QED
  BY <1>1, <1>2 DEF Init, OwnerInv, Holds, Apart, ConnectPcs, StartPcs, ClosingPcs

\* A task that goes on or ends leaves the others where they are.
LEMMA TaskMoved ==
    ASSUME task \in [Tabs -> Tasks], NEW t \in Tabs
    PROVE  /\ Ends(t) => /\ task'[t].pc = "idle"
                         /\ \A u \in Tabs \ {t} : task'[u] = task[u]
           /\ \A pc, c : Goto(t, pc, c) =>
                  /\ task'[t].pc = pc /\ task'[t].conn = c
                  /\ task'[t].protocol = task[t].protocol
                  /\ \A u \in Tabs \ {t} : task'[u] = task[u]
<1>1. Ends(t) => task'[t].pc = "idle" /\ \A u \in Tabs \ {t} : task'[u] = task[u]
  BY DEF Ends, NoTask
<1>2. ASSUME NEW pc, NEW c, Goto(t, pc, c)
      PROVE  /\ task'[t].pc = pc /\ task'[t].conn = c
             /\ task'[t].protocol = task[t].protocol
             /\ \A u \in Tabs \ {t} : task'[u] = task[u]
  BY <1>2 DEF Goto, Tasks
<1> QED
  BY <1>1, <1>2

\* A command that ends, and with it the connect if it was one, takes nothing away.
LEMMA OwnerEnds ==
    ASSUME OwnerInv, NEW t \in Tabs, session' = session,
           \A c \in Conns : conn'[c].machine = conn[c].machine,
           task'[t].pc = "idle", \A u \in Tabs \ {t} : task'[u] = task[u],
           connecting' <=> connecting /\ task[t].pc \notin ConnectPcs
    PROVE  OwnerInv'
<1>1. (connecting => \E u \in Tabs : task[u].pc \in ConnectPcs)'
  BY DEF OwnerInv, ConnectPcs, StartPcs
<1>2. ASSUME NEW u \in Tabs
      PROVE  Holds(u)'
  <2>1. CASE u = t
    BY <2>1 DEF Holds, ConnectPcs, StartPcs, ClosingPcs
  <2>2. CASE u # t
    BY <2>2 DEF OwnerInv, Holds, Apart, ConnectPcs, StartPcs, ClosingPcs
  <2> QED
    BY <2>1, <2>2
<1>3. ASSUME NEW u \in Tabs, NEW v \in Tabs
      PROVE  Apart(u, v)'
  BY DEF OwnerInv, Apart, ConnectPcs, StartPcs, ClosingPcs
<1>4. (\A c \in Conns : conn[c].machine \in {"open", "ready"} <=> c = session)'
  BY DEF OwnerInv
<1> QED
  BY <1>1, <1>2, <1>3, <1>4 DEF OwnerInv

\* A command that takes the session, if there is one, is the only one to close it.
LEMMA OwnerTakes ==
    ASSUME OwnerInv, TypeOK, NEW t \in Tabs, TakeSession,
           \A u \in Tabs \ {t} : task'[u] = task[u],
           task'[t].pc \in ConnectPcs \cup {"idle", "disconnect"}, task'[t].pc \notin {"bond"} \cup StartPcs,
           session = NoConn => task'[t].pc \notin ClosingPcs,
           session # NoConn => task'[t].pc \in ClosingPcs /\ task'[t].conn = session,
           task'[t].pc \in ConnectPcs => connecting' /\ (connecting => task[t].pc \in ConnectPcs),
           task'[t].pc \notin ConnectPcs =>
               (connecting' <=> connecting /\ task[t].pc \notin ConnectPcs)
    PROVE  OwnerInv'
<1> USE ConnsAreNotNone
<1>1. /\ session' = NoConn
      /\ \A c \in Conns : conn'[c].machine = IF c = session THEN "closed" ELSE conn[c].machine
  BY TakeSessionTyped DEF TypeOK, Connections
<1>2. (connecting => \E u \in Tabs : task[u].pc \in ConnectPcs)'
  BY DEF OwnerInv
<1>3. ASSUME NEW u \in Tabs
      PROVE  Holds(u)'
  <2>1. CASE u = t
    BY <2>1, <1>1 DEF TypeOK, Holds, ConnectPcs, StartPcs, ClosingPcs
  <2>2. CASE u # t
    <3>1. task'[u] = task[u] /\ Holds(u) /\ Apart(u, t)
      BY <2>2 DEF OwnerInv
    <3>2. task[u].pc \in ConnectPcs => connecting'
      BY <2>2, <3>1 DEF Holds, Apart
    <3>3. task[u].pc \in ClosingPcs =>
              task[u].conn \in Conns /\ conn'[task[u].conn].machine = "closed"
      BY <3>1, <1>1 DEF Holds
    <3>4. task[u].pc = "bond" =>
              task[u].conn \in Conns /\ conn'[task[u].conn].machine = "new"
      BY <3>1, <1>1 DEF Holds
    <3>5. task[u].pc \in StartPcs =>
              task[u].conn \in Conns /\ conn'[task[u].conn].machine # "new"
      BY <3>1, <1>1 DEF Holds
    <3> QED
      BY <3>1, <3>2, <3>3, <3>4, <3>5, <1>1 DEF Holds
  <2> QED
    BY <2>1, <2>2
<1>4. ASSUME NEW u \in Tabs
      PROVE  Apart(u, t)' /\ Apart(t, u)'
  BY DEF OwnerInv, Holds, Apart, ConnectPcs, StartPcs, ClosingPcs
<1>5. ASSUME NEW u \in Tabs \ {t}, NEW v \in Tabs \ {t}
      PROVE  Apart(u, v)'
  BY DEF OwnerInv, Apart, ConnectPcs, StartPcs, ClosingPcs
<1>6. (\A c \in Conns : conn[c].machine \in {"open", "ready"} <=> c = session)'
  BY <1>1 DEF OwnerInv
<1> QED
  BY <1>2, <1>3, <1>4, <1>5, <1>6 DEF OwnerInv

\* The steps of a connect and of a disconnect.
LEMMA TaskStepOwner ==
    ASSUME TypeOK, TypeOK', OwnerInv, NEW t \in Tabs, TaskStep(t)
    PROVE  OwnerInv'
<1> USE ConnsAreNotNone DEF ConnectPcs, StartPcs, ClosingPcs
<1>t. task \in [Tabs -> Tasks] /\ conn \in [Conns -> Connections] /\ session \in Conns \cup {NoConn}
  BY DEF TypeOK, Tasks, Connections
<1>m. /\ Ends(t) => task'[t].pc = "idle" /\ \A u \in Tabs \ {t} : task'[u] = task[u]
      /\ \A pc, c : Goto(t, pc, c) =>
             /\ task'[t].pc = pc /\ task'[t].conn = c
             /\ \A u \in Tabs \ {t} : task'[u] = task[u]
  BY <1>t, TaskMoved
<1>k. TakeSession => /\ session' = NoConn
                     /\ \A c \in Conns : conn'[c].machine =
                            IF c = session THEN "closed" ELSE conn[c].machine
  BY <1>t, TakeSessionTyped
<1>c. task[t].pc \in ClosingPcs /\ SessionClosed(task[t].conn) =>
          \A c \in Conns : conn'[c].machine = conn[c].machine
  BY <1>t, SessionClosedTyped DEF OwnerInv, Holds
<1>n. ASSUME NEW c \in Conns, NEW pc \in {"start", "reopen"}, NEW link,
             NewSession(t, c, pc, link)
      PROVE  /\ session' = c /\ conn'[c].machine = "open"
             /\ \A d \in Conns \ {c} : conn'[d] = conn[d]
             /\ task'[t].pc \in {"start", "reopen"} /\ task'[t].conn = c
             /\ \A u \in Tabs \ {t} : task'[u] = task[u]
  BY <1>n, <1>t DEF NewSession, Tasks, Unused
<1>o. ASSUME NEW c \in Conns, NEW pc \in {"start", "reopen"}, NEW link,
             NewSession(t, c, pc, link), conn[c].machine = "new",
             task[t].pc \in {"open_link", "bond"}, UNCHANGED connecting
      PROVE  OwnerInv'
  <2>1. session = NoConn
    BY <1>o DEF OwnerInv, Holds
  <2>2. ASSUME NEW u \in Tabs
        PROVE  Holds(u)'
    <3>1. CASE u = t
      BY <3>1, <1>o, <1>n, <2>1 DEF OwnerInv, Holds
    <3>2. CASE u # t
      <4>1. task'[u] = task[u] /\ Holds(u) /\ task[u].pc \notin ConnectPcs
        BY <3>2, <1>o, <1>n DEF OwnerInv, Apart
      <4>2. task[u].pc \in ClosingPcs =>
                task[u].conn \in Conns /\ conn'[task[u].conn].machine = "closed"
        BY <4>1, <1>o, <1>n DEF Holds
      <4> QED
        BY <4>1, <4>2 DEF Holds
    <3> QED
      BY <3>1, <3>2
  <2>3. ASSUME NEW u \in Tabs, NEW v \in Tabs
        PROVE  Apart(u, v)'
    BY <1>o, <1>n DEF OwnerInv, Apart
  <2>4. (connecting => \E u \in Tabs : task[u].pc \in ConnectPcs)'
    BY <1>o, <1>n
  <2>5. (\A d \in Conns : conn[d].machine \in {"open", "ready"} <=> d = session)'
    BY <1>o, <1>n, <2>1 DEF OwnerInv
  <2> QED
    BY <2>2, <2>3, <2>4, <2>5 DEF OwnerInv
<1>1. CASE Disconnected(t)
  BY <1>1, <1>m, <1>c, OwnerEnds DEF Disconnected
<1>2. CASE OldClosed(t)
  <2>1. /\ task[t].pc = "close_old" /\ UNCHANGED << session, connecting >>
        /\ task'[t].pc = "open_link" /\ \A u \in Tabs \ {t} : task'[u] = task[u]
        /\ \A c \in Conns : conn'[c].machine = conn[c].machine
    BY <1>2, <1>m, <1>c DEF OldClosed
  <2>2. ASSUME NEW u \in Tabs
        PROVE  Holds(u)'
    <3>1. CASE u = t
      BY <3>1, <2>1 DEF OwnerInv, Holds
    <3>2. CASE u # t
      <4>1. task'[u] = task[u] /\ Holds(u) /\ task[u].pc \notin ConnectPcs
        BY <3>2, <2>1 DEF OwnerInv, Apart
      <4>2. task[u].pc \in ClosingPcs =>
                task[u].conn \in Conns /\ conn'[task[u].conn].machine = "closed"
        BY <4>1, <2>1 DEF Holds
      <4> QED
        BY <4>1, <4>2 DEF Holds
    <3> QED
      BY <3>1, <3>2
  <2>3. ASSUME NEW u \in Tabs, NEW v \in Tabs
        PROVE  Apart(u, v)'
    BY <2>1 DEF OwnerInv, Apart
  <2>4. (connecting => \E u \in Tabs : task[u].pc \in ConnectPcs)'
    BY <2>1
  <2>5. (\A c \in Conns : conn[c].machine \in {"open", "ready"} <=> c = session)'
    BY <2>1 DEF OwnerInv
  <2> QED
    BY <2>2, <2>3, <2>4, <2>5 DEF OwnerInv
<1>3. CASE LinkOpened(t)
  <2>1. PICK c \in Conns :
           /\ conn[c] = Unused
           /\ IF task[t].bond
              THEN /\ conn' = [conn EXCEPT ![c].link = "up"] /\ Goto(t, "bond", c)
                   /\ UNCHANGED session
              ELSE NewSession(t, c, "start", "up")
    BY <1>3 DEF LinkOpened
  <2>2. conn[c].machine = "new" /\ task[t].pc = "open_link" /\ UNCHANGED connecting
    BY <1>3, <2>1 DEF LinkOpened, Unused
  <2>3. CASE task[t].bond
    <3>1. \A d \in Conns : conn'[d].machine = conn[d].machine
      BY <2>1, <2>3, <1>t DEF Connections
    <3> QED
      BY <2>1, <2>2, <2>3, <3>1, <1>m DEF OwnerInv, Holds, Apart
  <2>4. CASE ~task[t].bond
    BY <2>1, <2>2, <2>4, <1>o
  <2> QED
    BY <2>3, <2>4
<1>4. CASE LinkFails(t)
  <2>1. session = NoConn
    BY <1>4 DEF LinkFails, OwnerInv, Holds
  <2> QED
    BY <1>4, <2>1, <1>m, OwnerTakes DEF LinkFails, ConnectOver
<1>5. CASE Bonded(t)
  <2>1. /\ task[t].pc = "bond" /\ UNCHANGED connecting
        /\ task[t].conn \in Conns /\ conn[task[t].conn].machine = "new"
    BY <1>5 DEF Bonded, OwnerInv, Holds
  <2>2. PICK pc \in {"start", "reopen"}, link \in {"up", "down"} :
            NewSession(t, task[t].conn, pc, link)
    BY <1>5 DEF Bonded
  <2> QED
    BY <2>1, <2>2, <1>o
<1>6. CASE BondFails(t)
  BY <1>6, <1>m, OwnerEnds DEF BondFails, ConnectOver
<1>7. CASE StartEnds(t)
  BY <1>7, <1>m, OwnerEnds DEF StartEnds, ConnectOver
<1>8. CASE StartFails(t)
  <2>1. task[t].pc \in StartPcs /\ TakeSession /\ connecting
    BY <1>8 DEF StartFails, OwnerInv, Holds
  <2> QED
    <3>1. CASE session = NoConn
      BY <1>8, <2>1, <3>1, <1>m, OwnerTakes DEF StartFails, ConnectOver
    <3>2. CASE session # NoConn
      BY <1>8, <2>1, <3>2, <1>m, OwnerTakes DEF StartFails
    <3> QED
      BY <3>1, <3>2
<1>9. CASE FailedClosed(t)
  BY <1>9, <1>m, <1>c, OwnerEnds DEF FailedClosed, ConnectOver
<1>10. CASE Written(t) \/ Subscribed(t) \/ Paired(t) \/ Scanned(t)
  BY <1>10, <1>m, OwnerEnds DEF Written, Subscribed, Paired, Scanned, Returns
<1>11. CASE WriteFails(t) \/ SubscribeFails(t) \/ PairRaises(t)
  BY <1>11, <1>m, OwnerEnds DEF WriteFails, SubscribeFails, PairRaises, Fails, Raises
<1>12. CASE ScanRaises(t)
  BY <1>12, <1>m, OwnerTakes DEF ScanRaises, Disconnects
<1>13. CASE Reopened(t) \/ Notifying(t)
  <2>1. /\ task[t].pc \in StartPcs /\ UNCHANGED << session, connecting >>
        /\ task'[t].pc \in StartPcs /\ task'[t].conn = task[t].conn
        /\ \A u \in Tabs \ {t} : task'[u] = task[u]
        /\ \A c \in Conns : conn'[c].machine = conn[c].machine
    BY <1>13, <1>t, <1>m DEF Reopened, Notifying, Connections
  <2>2. ASSUME NEW u \in Tabs
        PROVE  Holds(u)'
    <3>1. CASE u = t
      BY <2>1, <3>1 DEF OwnerInv, Holds, StartPcs
    <3>2. CASE u # t
      <4>1. task'[u] = task[u] /\ Holds(u)
        BY <2>1, <3>2 DEF OwnerInv
      <4> QED
        BY <2>1, <4>1 DEF Holds
    <3> QED
      BY <3>1, <3>2
  <2>3. ASSUME NEW u \in Tabs, NEW v \in Tabs
        PROVE  Apart(u, v)'
    BY <2>1 DEF OwnerInv, Apart, StartPcs
  <2>4. (connecting => \E u \in Tabs : task[u].pc \in ConnectPcs)'
    BY <2>1
  <2>5. (\A c \in Conns : conn[c].machine \in {"open", "ready"} <=> c = session)'
    BY <2>1 DEF OwnerInv
  <2> QED
    BY <2>2, <2>3, <2>4, <2>5 DEF OwnerInv
<1> QED
  BY <1>1, <1>2, <1>3, <1>4, <1>5, <1>6, <1>7, <1>8, <1>9, <1>10, <1>11, <1>12, <1>13 DEF TaskStep

LEMMA OtherStepOwner ==
    ASSUME TypeOK, OwnerInv,
           \/ \E t \in Tabs : Command(t) \/ TabCloses(t)
           \/ EnableWrites
           \/ \E c \in Conns : OnReady(c) \/ OnUpdate(c) \/ LinkLost(c) \/ OnLinkLost(c)
    PROVE  OwnerInv'
<1> USE ConnsAreNotNone
<1>t. task \in [Tabs -> Tasks] /\ conn \in [Conns -> Connections] /\ session \in Conns \cup {NoConn}
  BY DEF TypeOK, Tasks, Connections
<1>m. ASSUME NEW t \in Tabs
      PROVE  /\ Ends(t) => task'[t].pc = "idle" /\ \A u \in Tabs \ {t} : task'[u] = task[u]
             /\ \A pc, c : Goto(t, pc, c) =>
                    /\ task'[t].pc = pc /\ task'[t].conn = c
                    /\ \A u \in Tabs \ {t} : task'[u] = task[u]
  BY <1>t, TaskMoved
<1>1. ASSUME NEW t \in Tabs, DisconnectCmd(t)
      PROVE  OwnerInv'
  BY <1>1, <1>m, OwnerTakes DEF DisconnectCmd, Disconnects, ConnectPcs, StartPcs, ClosingPcs
<1>2. ASSUME NEW t \in Tabs, NEW bond \in BOOLEAN, NEW p \in Protocols, ConnectCmd(t, bond, p)
      PROVE  OwnerInv'
  <2>1. /\ TakeSession /\ connecting' /\ ~connecting
        /\ task'[t].pc = (IF session = NoConn THEN "open_link" ELSE "close_old")
        /\ task'[t].conn = session
        /\ \A u \in Tabs \ {t} : task'[u] = task[u]
    BY <1>2, <1>t DEF ConnectCmd, Tasks
  <2> QED
    BY <2>1, OwnerTakes DEF ConnectPcs, StartPcs, ClosingPcs
<1>3. ASSUME NEW t \in Tabs, WriteCmd(t) \/ PingCmd(t) \/ SubscribeCmd(t) \/ PairCmd(t) \/ ScanCmd(t)
      PROVE  OwnerInv'
  <2>1. PICK pc \in {"write", "subscribe", "pair", "pair_bluez", "scan"},
             c \in Conns \cup {NoConn} : Awaits(t, pc, c)
    BY <1>3, <1>t DEF TypeOK, WriteCmd, PingCmd, SubscribeCmd, PairCmd, ScanCmd
  <2>2. /\ task[t].pc = "idle" /\ UNCHANGED << conn, session, connecting >>
        /\ task'[t].pc \notin ConnectPcs \cup ClosingPcs \cup {"bond"} \cup StartPcs
        /\ \A u \in Tabs \ {t} : task'[u] = task[u]
    BY <2>1, <1>m DEF Awaits, ConnectPcs, StartPcs, ClosingPcs
  <2>3. ASSUME NEW u \in Tabs
        PROVE  Holds(u)'
    <3>1. CASE u = t
      BY <3>1, <2>2 DEF Holds, ConnectPcs, StartPcs
    <3>2. CASE u # t
      BY <3>2, <2>2 DEF OwnerInv, Holds
    <3> QED
      BY <3>1, <3>2
  <2>4. ASSUME NEW u \in Tabs, NEW v \in Tabs
        PROVE  Apart(u, v)'
    BY <2>2 DEF OwnerInv, Apart
  <2>5. (connecting => \E u \in Tabs : task[u].pc \in ConnectPcs)'
    BY <2>2 DEF OwnerInv, ConnectPcs, StartPcs
  <2> QED
    BY <2>2, <2>3, <2>4, <2>5 DEF OwnerInv
<1>4. ASSUME NEW t \in Tabs, Refused(t)
      PROVE  OwnerInv'
  BY <1>4, <1>m, OwnerEnds DEF Refused, Fails, Raises, ConnectPcs, StartPcs
<1>5. ASSUME NEW t \in Tabs, TabCloses(t)
      PROVE  OwnerInv'
  BY <1>5, <1>m, OwnerEnds DEF TabCloses
<1>6. ASSUME UNCHANGED << session, connecting, task >>,
             \A c \in Conns : \/ conn'[c].machine = conn[c].machine
                              \/ {conn'[c].machine, conn[c].machine} \subseteq {"open", "ready"}
      PROVE  OwnerInv'
  <2>1. ASSUME NEW u \in Tabs
        PROVE  Holds(u)'
    BY <1>6 DEF OwnerInv, Holds
  <2> QED
    BY <1>6, <2>1 DEF OwnerInv, Apart
<1>7. ASSUME EnableWrites
      PROVE  OwnerInv'
  BY <1>7, <1>6 DEF EnableWrites
<1>8. ASSUME NEW c \in Conns, OnReady(c)
      PROVE  OwnerInv'
  BY <1>8, <1>6, <1>t DEF OnReady, Connections
<1>9. ASSUME NEW c \in Conns, OnUpdate(c)
      PROVE  OwnerInv'
  BY <1>9, <1>6 DEF OnUpdate
<1>10. ASSUME NEW c \in Conns, LinkLost(c)
      PROVE  OwnerInv'
  BY <1>10, <1>6, <1>t, LinkEndsTyped DEF LinkLost
<1>11. ASSUME NEW c \in Conns, OnLinkLost(c)
      PROVE  OwnerInv'
  BY <1>11, <1>6, <1>t, MarkSessionTyped DEF OnLinkLost, TypeOK
<1> QED
  BY <1>1, <1>2, <1>3, <1>4, <1>5, <1>7, <1>8, <1>9, <1>10, <1>11 DEF Command

LEMMA NextOwner == TypeOK /\ OwnerInv /\ [Next]_vars => OwnerInv'
<1>1. CASE UNCHANGED vars
  BY <1>1 DEF vars, OwnerInv, Holds, Apart
<1> QED
  BY <1>1, NextTyped, TaskStepOwner, OtherStepOwner DEF Next

LEMMA OwnerInductive == Spec => [](TypeOK /\ OwnerInv)
  BY InitTyped, InitOwner, NextTyped, NextOwner, PTL DEF Spec

\* Every variable has its type, for every set of tabs.
THEOREM TypeCorrect == Spec => []TypeOK
  BY OwnerInductive, PTL

LEMMA OwnerIsEnough == TypeOK /\ OwnerInv => OneOwner
<1> SUFFICES ASSUME TypeOK, OwnerInv PROVE OneOwner
  OBVIOUS
<1>1. connecting = (Connecting # {})
  BY DEF TypeOK, OwnerInv, Holds, Connecting
<1>2. Cardinality(Connecting) <= 1
  <2>1. CASE Connecting = {}
    BY <2>1, FS_EmptySet
  <2>2. CASE Connecting # {}
    <3>1. PICK t : t \in Connecting
      BY <2>2
    <3>2. Connecting = {t}
      BY <3>1 DEF Connecting, OwnerInv, Apart
    <3> QED
      BY <3>2, FS_Singleton
  <2> QED
    BY <2>1, <2>2
<1>3. SessionClosedOnce
  BY ConnsAreNotNone DEF SessionClosedOnce, Closing, OwnerInv, Holds, Apart
<1>4. ConnectOwnsSession
  BY DEF ConnectOwnsSession, OwnerInv, Holds
<1> QED
  BY <1>1, <1>2, <1>3, <1>4 DEF OneOwner, OneConnectAtATime

\* One tab connects at a time, and the flag says so; each session has one closer, and a
\* connect that fails closes its own: wherever a tab closes, whatever bonding does.
THEOREM OneTabOwns == Spec => []OneOwner
  BY OwnerInductive, OwnerIsEnough, PTL

-----------------------------------------------------------------------------
(* What the tabs share is about one device.                                *)

LEMMA InitDevice == Init => DeviceInv
  BY DEF Init, NoTask, DeviceInv, ClientIsCurrent

\* Nothing but a step to "open_link" or "bond", or an update, disturbs DeviceInv: taking
\* the session away takes the client too, and leaves the rest.
LEMMA DeviceKept ==
    ASSUME TypeOK, DeviceInv, UNCHANGED << protocol, values >>,
           \A u \in Tabs : task'[u] = task[u] \/ task'[u].pc \notin {"open_link", "bond"},
           \A c \in Conns : conn'[c].protocol = conn[c].protocol,
           \/ session' = NoConn /\ client' = NoConn
           \/ /\ UNCHANGED << session, client >>
              /\ \A c \in Conns : conn[c].machine = "new" => conn'[c].machine = "new"
    PROVE  DeviceInv'
<1>1. (\A t \in Tabs : task[t].pc \in {"open_link", "bond"} =>
           protocol = task[t].protocol /\ values = {})'
  BY DEF DeviceInv
<1>2. (session # NoConn => conn[session].protocol = protocol /\ values \subseteq {session})'
  BY DEF DeviceInv, TypeOK
<1>3. ClientIsCurrent'
  BY DEF DeviceInv, ClientIsCurrent, TypeOK
<1> QED
  BY <1>1, <1>2, <1>3 DEF DeviceInv

LEMMA TaskStepDevice ==
    ASSUME TypeOK, OwnerInv, DeviceInv, NEW t \in Tabs, TaskStep(t)
    PROVE  DeviceInv'
<1> USE ConnsAreNotNone DEF current
<1>t. /\ task \in [Tabs -> Tasks] /\ conn \in [Conns -> Connections]
      /\ session \in Conns \cup {NoConn} /\ client \in Conns \cup {NoConn}
  BY DEF TypeOK, Tasks, Connections
<1>m. /\ Ends(t) => task'[t].pc = "idle" /\ \A u \in Tabs \ {t} : task'[u] = task[u]
      /\ \A pc, c : Goto(t, pc, c) =>
             /\ task'[t].pc = pc /\ task'[t].conn = c
             /\ task'[t].protocol = task[t].protocol
             /\ \A u \in Tabs \ {t} : task'[u] = task[u]
  BY <1>t, TaskMoved
<1>k. TakeSession => /\ session' = NoConn /\ client' = NoConn
                     /\ \A c \in Conns : conn'[c].protocol = conn[c].protocol
  BY <1>t, TakeSessionTyped
<1>c. task[t].pc \in ClosingPcs /\ SessionClosed(task[t].conn) =>
          \A c \in Conns : /\ conn'[c].machine = conn[c].machine
                          /\ conn'[c].protocol = conn[c].protocol
  BY <1>t, SessionClosedTyped DEF OwnerInv, Holds
<1>x. task[t].pc \in ConnectPcs =>
          \A u \in Tabs \ {t} : task[u].pc \notin ConnectPcs
  BY DEF OwnerInv, Apart
<1>n. ASSUME NEW c \in Conns, NEW pc \in {"start", "reopen"}, NEW link,
             NewSession(t, c, pc, link), task[t].pc \in {"open_link", "bond"},
             UNCHANGED << protocol, values >>, client' = c \/ UNCHANGED client
      PROVE  DeviceInv'
  <2>1. /\ session' = c /\ conn'[c].protocol = task[t].protocol
        /\ \A d \in Conns \ {c} : conn'[d] = conn[d]
        /\ task'[t].pc \notin {"open_link", "bond"} /\ \A u \in Tabs \ {t} : task'[u] = task[u]
    BY <1>n, <1>t DEF NewSession, Tasks, Unused
  <2>2. protocol = task[t].protocol /\ values = {} /\ session = NoConn
    BY <1>n DEF DeviceInv, OwnerInv, Holds
  <2>3. (\A u \in Tabs : task[u].pc \in {"open_link", "bond"} =>
             protocol = task[u].protocol /\ values = {})'
    BY <1>n, <2>1 DEF DeviceInv
  <2>4. ClientIsCurrent'
    BY <1>n, <1>t, <2>1, <2>2 DEF DeviceInv, ClientIsCurrent
  <2> QED
    BY <1>n, <2>1, <2>2, <2>3, <2>4 DEF DeviceInv
<1>1. CASE Disconnected(t)
  BY <1>1, <1>m, <1>c, DeviceKept DEF Disconnected, ClosingPcs
<1>2. CASE OldClosed(t)
  <2>1. /\ task'[t].pc = "open_link" /\ task'[t].protocol = task[t].protocol
        /\ \A u \in Tabs \ {t} : task'[u] = task[u] /\ task[u].pc \notin ConnectPcs
        /\ protocol' = task[t].protocol /\ values' = {}
    BY <1>2, <1>m, <1>x DEF OldClosed, StartOver, ConnectPcs, StartPcs
  <2>2. (\A u \in Tabs : task[u].pc \in {"open_link", "bond"} =>
             protocol = task[u].protocol /\ values = {})'
    BY <2>1 DEF ConnectPcs, StartPcs
  <2>3. session = NoConn /\ session' = NoConn
    BY <1>2 DEF OldClosed, OwnerInv, Holds
  <2>4. ClientIsCurrent'
    BY <1>2, <1>t, <1>c DEF OldClosed, DeviceInv, ClientIsCurrent, ClosingPcs
  <2> QED
    BY <2>1, <2>2, <2>3, <2>4 DEF DeviceInv
<1>3. CASE LinkOpened(t)
  <2>1. PICK c \in Conns :
           /\ conn[c] = Unused /\ client' = c
           /\ IF task[t].bond
              THEN /\ conn' = [conn EXCEPT ![c].link = "up"] /\ Goto(t, "bond", c)
                   /\ UNCHANGED session
              ELSE NewSession(t, c, "start", "up")
    BY <1>3 DEF LinkOpened
  <2>2. task[t].pc = "open_link" /\ UNCHANGED << protocol, values >>
    BY <1>3 DEF LinkOpened
  <2>3. CASE task[t].bond
    <3>1. /\ \A d \in Conns : conn'[d].machine = conn[d].machine
          /\ conn[c].machine = "new"
      BY <2>1, <2>3, <1>t DEF Connections, Unused
    <3>2. (\A u \in Tabs : task[u].pc \in {"open_link", "bond"} =>
               protocol = task[u].protocol /\ values = {})'
      BY <2>1, <2>2, <2>3, <1>m DEF DeviceInv
    <3>3. session = NoConn /\ session' = NoConn
      BY <2>1, <2>2, <2>3 DEF OwnerInv, Holds
    <3>4. ClientIsCurrent'
      BY <2>1, <3>1 DEF ClientIsCurrent
    <3> QED
      BY <2>2, <3>2, <3>3, <3>4 DEF DeviceInv
  <2>4. CASE ~task[t].bond
    BY <2>1, <2>2, <2>4, <1>n
  <2> QED
    BY <2>3, <2>4
<1>4. CASE LinkFails(t)
  BY <1>4, <1>m, <1>k, DeviceKept DEF LinkFails, ConnectOver
<1>5. CASE Bonded(t)
  <2>1. task[t].conn \in Conns
    BY <1>5 DEF Bonded, OwnerInv, Holds
  <2>2. PICK pc \in {"start", "reopen"}, link \in {"up", "down"} :
            NewSession(t, task[t].conn, pc, link)
    BY <1>5 DEF Bonded
  <2> QED
    BY <1>5, <2>1, <2>2, <1>n DEF Bonded
<1>6. CASE BondFails(t)
  BY <1>6, <1>m, DeviceKept DEF BondFails, ConnectOver
<1>7. CASE StartEnds(t)
  BY <1>7, <1>m, DeviceKept DEF StartEnds, ConnectOver
<1>8. CASE StartFails(t)
  BY <1>8, <1>m, <1>k, DeviceKept DEF StartFails, ConnectOver
<1>9. CASE FailedClosed(t)
  BY <1>9, <1>m, <1>c, DeviceKept DEF FailedClosed, ConnectOver, ClosingPcs
<1>10. CASE Written(t) \/ Subscribed(t) \/ Paired(t) \/ Scanned(t)
  BY <1>10, <1>m, DeviceKept DEF Written, Subscribed, Paired, Scanned, Returns
<1>11. CASE WriteFails(t) \/ SubscribeFails(t) \/ PairRaises(t)
  BY <1>11, <1>m, DeviceKept DEF WriteFails, SubscribeFails, PairRaises, Fails, Raises
<1>12. CASE ScanRaises(t)
  BY <1>12, <1>m, <1>k, DeviceKept DEF ScanRaises, Disconnects
<1>13. CASE Reopened(t) \/ Notifying(t)
  <2>1. /\ \A c \in Conns : /\ conn'[c].machine = conn[c].machine
                            /\ conn'[c].protocol = conn[c].protocol
        /\ task'[t].pc \notin {"open_link", "bond"}
        /\ \A u \in Tabs \ {t} : task'[u] = task[u]
    BY <1>13, <1>t, <1>m DEF Reopened, Notifying, Connections
  <2> QED
    BY <1>13, <2>1, DeviceKept DEF Reopened, Notifying
<1> QED
  BY <1>1, <1>2, <1>3, <1>4, <1>5, <1>6, <1>7, <1>8, <1>9, <1>10, <1>11, <1>12, <1>13 DEF TaskStep

LEMMA OtherStepDevice ==
    ASSUME TypeOK, OwnerInv, DeviceInv,
           \/ \E t \in Tabs : Command(t) \/ TabCloses(t)
           \/ EnableWrites
           \/ \E c \in Conns : OnReady(c) \/ OnUpdate(c) \/ LinkLost(c) \/ OnLinkLost(c)
    PROVE  DeviceInv'
<1> USE ConnsAreNotNone DEF current
<1>t. /\ task \in [Tabs -> Tasks] /\ conn \in [Conns -> Connections]
      /\ session \in Conns \cup {NoConn} /\ client \in Conns \cup {NoConn}
  BY DEF TypeOK, Tasks, Connections
<1>m. ASSUME NEW t \in Tabs
      PROVE  /\ Ends(t) => task'[t].pc = "idle" /\ \A u \in Tabs \ {t} : task'[u] = task[u]
             /\ \A pc, c : Goto(t, pc, c) =>
                    task'[t].pc = pc /\ \A u \in Tabs \ {t} : task'[u] = task[u]
  BY <1>t, TaskMoved
<1>k. TakeSession => /\ session' = NoConn /\ client' = NoConn
                     /\ \A c \in Conns : conn'[c].protocol = conn[c].protocol
  BY <1>t, TakeSessionTyped
<1>1. ASSUME NEW t \in Tabs, DisconnectCmd(t)
      PROVE  DeviceInv'
  BY <1>1, <1>m, <1>k, DeviceKept DEF DisconnectCmd, Disconnects
<1>2. ASSUME NEW t \in Tabs, NEW bond \in BOOLEAN, NEW p \in Protocols, ConnectCmd(t, bond, p)
      PROVE  DeviceInv'
  <2>1. /\ task'[t].pc = (IF session = NoConn THEN "open_link" ELSE "close_old")
        /\ task'[t].protocol = p
        /\ \A u \in Tabs \ {t} : task'[u] = task[u]
    BY <1>2, <1>t DEF ConnectCmd, Tasks
  <2>2. /\ session' = NoConn /\ client' = NoConn
        /\ \A c \in Conns : conn'[c].protocol = conn[c].protocol
    BY <1>2, <1>k DEF ConnectCmd
  <2>3. CASE session = NoConn
    <3>1. protocol' = p /\ values' = {}
      BY <1>2, <2>3 DEF ConnectCmd, StartOver
    <3>2. \A u \in Tabs \ {t} : task[u].pc \notin ConnectPcs
      BY <1>2 DEF ConnectCmd, OwnerInv, Holds
    <3>3. (\A u \in Tabs : task[u].pc \in {"open_link", "bond"} =>
               protocol = task[u].protocol /\ values = {})'
      BY <2>1, <3>1, <3>2 DEF ConnectPcs, StartPcs
    <3> QED
      BY <2>2, <3>1, <3>3 DEF DeviceInv, ClientIsCurrent
  <2>4. CASE session # NoConn
    BY <1>2, <2>1, <2>2, <2>4, DeviceKept DEF ConnectCmd
  <2> QED
    BY <2>3, <2>4
<1>3. ASSUME NEW t \in Tabs, WriteCmd(t) \/ PingCmd(t) \/ SubscribeCmd(t) \/ PairCmd(t) \/ ScanCmd(t)
      PROVE  DeviceInv'
  <2>1. PICK pc \in {"write", "subscribe", "pair", "pair_bluez", "scan"},
             c \in Conns \cup {NoConn} : Awaits(t, pc, c)
    BY <1>3, <1>t DEF WriteCmd, PingCmd, SubscribeCmd, PairCmd, ScanCmd
  <2> QED
    BY <2>1, <1>m, DeviceKept DEF Awaits
<1>4. ASSUME NEW t \in Tabs, Refused(t)
      PROVE  DeviceInv'
  BY <1>4, <1>m, DeviceKept DEF Refused, Fails, Raises
<1>5. ASSUME NEW t \in Tabs, TabCloses(t)
      PROVE  DeviceInv'
  BY <1>5, <1>m, DeviceKept DEF TabCloses
<1>6. ASSUME EnableWrites
      PROVE  DeviceInv'
  BY <1>6, DeviceKept DEF EnableWrites
<1>7. ASSUME NEW c \in Conns, OnReady(c)
      PROVE  DeviceInv'
  <2>1. \A d \in Conns : /\ conn[d].machine = "new" => conn'[d].machine = "new"
                        /\ conn'[d].protocol = conn[d].protocol
    BY <1>7, <1>t DEF OnReady, Connections
  <2> QED
    BY <1>7, <2>1, DeviceKept DEF OnReady
<1>8. ASSUME NEW c \in Conns, OnUpdate(c)
      PROVE  DeviceInv'
  <2>1. c = session
    BY <1>8 DEF OnUpdate, OwnerInv
  <2>2. \A t \in Tabs : task[t].pc \notin {"open_link", "bond"}
    BY <2>1 DEF OwnerInv, Holds
  <2>3. values' \subseteq {session}
    BY <1>8, <2>1 DEF OnUpdate, DeviceInv
  <2> QED
    BY <1>8, <2>1, <2>2, <2>3 DEF OnUpdate, DeviceInv, ClientIsCurrent
<1>9. ASSUME NEW c \in Conns, LinkLost(c)
      PROVE  DeviceInv'
  BY <1>9, <1>t, LinkEndsTyped, DeviceKept DEF LinkLost
<1>10. ASSUME NEW c \in Conns, OnLinkLost(c)
      PROVE  DeviceInv'
  <2>1. \A d \in Conns : /\ conn'[d].machine = conn[d].machine
                        /\ conn'[d].protocol = conn[d].protocol
    BY <1>10, <1>t, MarkSessionTyped DEF OnLinkLost, TypeOK
  <2> QED
    BY <1>10, <2>1, DeviceKept DEF OnLinkLost
<1> QED
  BY <1>1, <1>2, <1>3, <1>4, <1>5, <1>6, <1>7, <1>8, <1>9, <1>10 DEF Command

LEMMA NextDevice == TypeOK /\ OwnerInv /\ DeviceInv /\ [Next]_vars => DeviceInv'
<1>1. CASE UNCHANGED vars
  BY <1>1 DEF vars, current, DeviceInv, ClientIsCurrent
<1> QED
  BY <1>1, TaskStepDevice, OtherStepDevice DEF Next

LEMMA DeviceIsEnough == TypeOK /\ OwnerInv /\ DeviceInv => OneDevice
<1> SUFFICES ASSUME TypeOK, OwnerInv, DeviceInv PROVE OneDevice
  OBVIOUS
<1>1. SpeaksProtocol
  BY ConnsAreNotNone DEF SpeaksProtocol, OwnerInv, DeviceInv
<1>2. Cardinality(values) <= 1
  <2>1. PICK c : values = {} \/ values = {c}
    BY DEF DeviceInv
  <2>2. CASE values = {}
    BY <2>2, FS_EmptySet
  <2>3. CASE values = {c}
    BY <2>3, FS_Singleton
  <2> QED
    BY <2>1, <2>2, <2>3
<1>3. ValuesOfOneDevice /\ ClientIsCurrent
  BY <1>2 DEF ValuesOfOneDevice, DeviceInv
<1> QED
  BY <1>1, <1>3 DEF OneDevice

\* The topic table, the values a new tab is given and the client that bonds are those of
\* one device, the current one, whichever tab connects, disconnects or closes when.
THEOREM OneDeviceShared == Spec => []OneDevice
<1>1. TypeOK /\ OwnerInv /\ DeviceInv /\ [Next]_vars => (TypeOK /\ OwnerInv /\ DeviceInv)'
  BY NextTyped, NextOwner, NextDevice
<1> QED
  BY <1>1, InitTyped, InitOwner, InitDevice, DeviceIsEnough, PTL DEF Spec

-----------------------------------------------------------------------------
(* Every link has an owner, or is set adrift by name.                      *)

\* A task may let go of a link that is down or set adrift.
LEMMA LinkKept ==
    ASSUME NoOrphanLink, UNCHANGED session,
           \A c \in Conns : conn'[c].link = "up" /\ c \notin adrift' => Up(c) /\ c \notin adrift,
           \A u \in Tabs : \/ task'[u] = task[u]
                           \/ task[u].pc \notin {"bond"} \cup ClosingPcs
                           \/ conn'[task[u].conn].link # "up"
                           \/ task[u].conn \in adrift'
    PROVE  NoOrphanLink'
<1> SUFFICES ASSUME NEW c \in Conns, conn'[c].link = "up", c \notin adrift', c # session
             PROVE  \E u \in Tabs : task'[u].conn = c /\ task'[u].pc \in {"bond"} \cup ClosingPcs
  BY DEF NoOrphanLink, Up
<1>1. PICK u \in Tabs : task[u].conn = c /\ task[u].pc \in {"bond"} \cup ClosingPcs
  BY DEF NoOrphanLink
<1> QED
  BY <1>1

\* The session's link goes with it to the command that closes it.
LEMMA LinkTaken ==
    ASSUME TypeOK, NoOrphanLink, NEW t \in Tabs, TakeSession, UNCHANGED adrift,
           task[t].pc \notin {"bond"} \cup ClosingPcs,
           session # NoConn => task'[t].conn = session /\ task'[t].pc \in ClosingPcs,
           \A u \in Tabs \ {t} : task'[u] = task[u]
    PROVE  NoOrphanLink'
<1> SUFFICES ASSUME NEW c \in Conns, conn'[c].link = "up", c \notin adrift
             PROVE  \E u \in Tabs : task'[u].conn = c /\ task'[u].pc \in {"bond"} \cup ClosingPcs
  BY DEF NoOrphanLink, Up
<1>1. Up(c)
  BY TakeSessionTyped DEF TypeOK, Connections, Up
<1>2. CASE c = session
  BY <1>2, ConnsAreNotNone
<1>3. CASE c # session
  <2>1. PICK u \in Tabs : task[u].conn = c /\ task[u].pc \in {"bond"} \cup ClosingPcs
    BY <1>1, <1>3 DEF NoOrphanLink
  <2> QED
    BY <2>1
<1> QED
  BY <1>2, <1>3

LEMMA TaskStepLink ==
    ASSUME TypeOK, OwnerInv, NoOrphanLink, NEW t \in Tabs, TaskStep(t)
    PROVE  NoOrphanLink'
<1> USE DEF Up
<1>t. task \in [Tabs -> Tasks] /\ conn \in [Conns -> Connections]
  BY DEF TypeOK, Tasks, Connections
<1>m. /\ Ends(t) => \A u \in Tabs \ {t} : task'[u] = task[u]
      /\ \A pc, c : Goto(t, pc, c) =>
             /\ task'[t].pc = pc /\ task'[t].conn = c
             /\ \A u \in Tabs \ {t} : task'[u] = task[u]
  BY <1>t, TaskMoved
<1>c. task[t].pc \in ClosingPcs /\ SessionClosed(task[t].conn) =>
          /\ conn'[task[t].conn].link # "up"
          /\ \A c \in Conns : conn'[c].link = "up" /\ c \notin adrift' => Up(c) /\ c \notin adrift
  BY <1>t, SessionClosedTyped DEF OwnerInv, Holds
<1>n. ASSUME NEW c \in Conns, NEW pc \in {"start", "reopen"}, NEW link,
             NewSession(t, c, pc, link), session = NoConn, UNCHANGED adrift,
             task[t].pc \notin ClosingPcs, task[t].pc = "bond" => task[t].conn = c
      PROVE  NoOrphanLink'
  <2>1. /\ session' = c /\ \A d \in Conns \ {c} : conn'[d] = conn[d]
        /\ \A u \in Tabs \ {t} : task'[u] = task[u]
    BY <1>n, <1>t DEF NewSession
  <2>2. ASSUME NEW d \in Conns, conn'[d].link = "up", d \notin adrift, d # c
        PROVE  \E u \in Tabs : task'[u].conn = d /\ task'[u].pc \in {"bond"} \cup ClosingPcs
    <3>1. PICK u \in Tabs : task[u].conn = d /\ task[u].pc \in {"bond"} \cup ClosingPcs
      BY <1>n, <2>1, <2>2, ConnsAreNotNone DEF NoOrphanLink
    <3> QED
      BY <1>n, <2>1, <2>2, <3>1
  <2> QED
    BY <1>n, <2>1, <2>2 DEF NoOrphanLink
<1>1. CASE Disconnected(t)
  BY <1>1, <1>m, <1>c, LinkKept DEF Disconnected, ClosingPcs
<1>2. CASE OldClosed(t)
  BY <1>2, <1>m, <1>c, LinkKept DEF OldClosed, ClosingPcs
<1>3. CASE LinkOpened(t)
  <2>1. PICK c \in Conns :
           IF task[t].bond
           THEN /\ conn' = [conn EXCEPT ![c].link = "up"] /\ Goto(t, "bond", c)
                /\ UNCHANGED session
           ELSE NewSession(t, c, "start", "up")
    BY <1>3 DEF LinkOpened
  <2>2. task[t].pc = "open_link" /\ session = NoConn /\ UNCHANGED adrift
    BY <1>3 DEF LinkOpened, OwnerInv, Holds
  <2>3. CASE task[t].bond
    <3>1. \A d \in Conns \ {c} : conn'[d].link = conn[d].link
      BY <2>1, <2>3, <1>t
    <3>2. /\ task'[t].conn = c /\ task'[t].pc = "bond"
          /\ \A u \in Tabs \ {t} : task'[u] = task[u]
      BY <2>1, <2>3, <1>m
    <3>3. ASSUME NEW d \in Conns, conn'[d].link = "up", d \notin adrift, d # c
          PROVE  \E u \in Tabs : task'[u].conn = d /\ task'[u].pc \in {"bond"} \cup ClosingPcs
      <4>1. PICK u \in Tabs : task[u].conn = d /\ task[u].pc \in {"bond"} \cup ClosingPcs
        BY <2>2, <3>1, <3>3, ConnsAreNotNone DEF NoOrphanLink
      <4> QED
        BY <2>2, <3>2, <4>1 DEF ClosingPcs
    <3> QED
      BY <2>2, <3>2, <3>3 DEF NoOrphanLink
  <2>4. CASE ~task[t].bond
    BY <2>1, <2>2, <2>4, <1>n DEF ClosingPcs
  <2> QED
    BY <2>3, <2>4
<1>4. CASE LinkFails(t)
  <2>1. session = NoConn
    BY <1>4 DEF LinkFails, OwnerInv, Holds
  <2> QED
    BY <1>4, <2>1, <1>m, LinkTaken DEF LinkFails, ConnectOver, ClosingPcs
<1>5. CASE Bonded(t)
  <2>1. task[t].conn \in Conns /\ session = NoConn
    BY <1>5 DEF Bonded, OwnerInv, Holds
  <2>2. PICK pc \in {"start", "reopen"}, link \in {"up", "down"} :
            NewSession(t, task[t].conn, pc, link)
    BY <1>5 DEF Bonded
  <2> QED
    BY <1>5, <2>1, <2>2, <1>n DEF Bonded, ClosingPcs
<1>6. CASE BondFails(t)
  BY <1>6, <1>m, LinkKept DEF BondFails, ConnectOver
<1>7. CASE StartEnds(t)
  BY <1>7, <1>m, LinkKept DEF StartEnds, ConnectOver, ClosingPcs
<1>8. CASE StartFails(t)
  <2>1. CASE session = NoConn
    BY <1>8, <2>1, <1>m, LinkTaken DEF StartFails, ConnectOver, ClosingPcs
  <2>2. CASE session # NoConn
    BY <1>8, <2>2, <1>m, LinkTaken DEF StartFails, ClosingPcs
  <2> QED
    BY <2>1, <2>2
<1>9. CASE FailedClosed(t)
  BY <1>9, <1>m, <1>c, LinkKept DEF FailedClosed, ConnectOver, ClosingPcs
<1>10. CASE Written(t) \/ Subscribed(t) \/ Paired(t) \/ Scanned(t)
  BY <1>10, <1>m, LinkKept DEF Written, Subscribed, Paired, Scanned, Returns, ClosingPcs
<1>11. CASE WriteFails(t) \/ SubscribeFails(t) \/ PairRaises(t)
  BY <1>11, <1>m, LinkKept DEF WriteFails, SubscribeFails, PairRaises, Fails, Raises, ClosingPcs
<1>12. CASE ScanRaises(t)
  BY <1>12, <1>m, LinkTaken DEF ScanRaises, Disconnects, ClosingPcs
<1>13. CASE Reopened(t)
  <2>1. /\ task[t].conn \in Conns /\ conn[task[t].conn].machine # "new"
        /\ \A c \in Conns \ {task[t].conn} : conn'[c].link = conn[c].link
        /\ \A u \in Tabs \ {t} : task'[u] = task[u]
    BY <1>13, <1>t, <1>m DEF Reopened, OwnerInv, Holds, StartPcs
  <2>2. task[t].conn = session \/ task[t].conn \in adrift'
    BY <1>13, <1>t, <2>1 DEF Reopened, OwnerInv, Connections
  <2>3. session' = session /\ adrift \subseteq adrift' /\ task[t].pc = "reopen"
    BY <1>13 DEF Reopened
  <2> SUFFICES ASSUME NEW c \in Conns, conn'[c].link = "up", c \notin adrift', c # session
               PROVE  \E u \in Tabs : task'[u].conn = c
                                      /\ task'[u].pc \in {"bond"} \cup ClosingPcs
    BY <2>3 DEF NoOrphanLink
  <2>4. PICK u \in Tabs : task[u].conn = c /\ task[u].pc \in {"bond"} \cup ClosingPcs
    BY <2>1, <2>2, <2>3 DEF NoOrphanLink
  <2> QED
    BY <2>1, <2>3, <2>4 DEF ClosingPcs
<1>14. CASE Notifying(t)
  <2>1. \A c \in Conns : conn'[c].link = conn[c].link
    BY <1>14, <1>t DEF Notifying, Connections
  <2> QED
    BY <1>14, <2>1, <1>m, LinkKept DEF Notifying, ClosingPcs
<1> QED
  BY <1>1, <1>2, <1>3, <1>4, <1>5, <1>6, <1>7, <1>8, <1>9, <1>10, <1>11, <1>12, <1>13, <1>14
     DEF TaskStep

LEMMA OtherStepLink ==
    ASSUME TypeOK, OwnerInv, NoOrphanLink,
           \/ \E t \in Tabs : Command(t) \/ TabCloses(t)
           \/ EnableWrites
           \/ \E c \in Conns : OnReady(c) \/ OnUpdate(c) \/ LinkLost(c) \/ OnLinkLost(c)
    PROVE  NoOrphanLink'
<1> USE DEF Up
<1>t. task \in [Tabs -> Tasks] /\ conn \in [Conns -> Connections]
  BY DEF TypeOK, Tasks, Connections
<1>m. ASSUME NEW t \in Tabs
      PROVE  /\ Ends(t) => \A u \in Tabs \ {t} : task'[u] = task[u]
             /\ \A pc, c : Goto(t, pc, c) =>
                    /\ task'[t].pc = pc /\ task'[t].conn = c
                    /\ \A u \in Tabs \ {t} : task'[u] = task[u]
  BY <1>t, TaskMoved
<1>1. ASSUME NEW t \in Tabs, DisconnectCmd(t)
      PROVE  NoOrphanLink'
  BY <1>1, <1>m, LinkTaken DEF DisconnectCmd, Disconnects, ClosingPcs
<1>2. ASSUME NEW t \in Tabs, NEW bond \in BOOLEAN, NEW p \in Protocols, ConnectCmd(t, bond, p)
      PROVE  NoOrphanLink'
  <2>1. /\ task'[t].pc = (IF session = NoConn THEN "open_link" ELSE "close_old")
        /\ task'[t].conn = session
        /\ \A u \in Tabs \ {t} : task'[u] = task[u]
    BY <1>2, <1>t DEF ConnectCmd, Tasks
  <2> QED
    BY <1>2, <2>1, LinkTaken DEF ConnectCmd, ClosingPcs
<1>3. ASSUME NEW t \in Tabs, WriteCmd(t) \/ PingCmd(t) \/ SubscribeCmd(t) \/ PairCmd(t) \/ ScanCmd(t)
      PROVE  NoOrphanLink'
  <2>1. PICK pc, c : Awaits(t, pc, c)
    BY <1>3 DEF WriteCmd, PingCmd, SubscribeCmd, PairCmd, ScanCmd
  <2> QED
    BY <2>1, <1>m, LinkKept DEF Awaits, ClosingPcs
<1>4. ASSUME NEW t \in Tabs, Refused(t)
      PROVE  NoOrphanLink'
  BY <1>4, <1>m, LinkKept DEF Refused, Fails, Raises, ClosingPcs
<1>5. ASSUME NEW t \in Tabs, TabCloses(t)
      PROVE  NoOrphanLink'
  <2>1. /\ UNCHANGED << conn, session >> /\ \A u \in Tabs \ {t} : task'[u] = task[u]
        /\ adrift \subseteq adrift'
        /\ Up(task[t].conn) /\ task[t].pc \in {"bond"} \cup ClosingPcs => task[t].conn \in adrift'
    BY <1>5, <1>m DEF TabCloses
  <2> QED
    BY <2>1, LinkKept
<1>6. ASSUME EnableWrites
      PROVE  NoOrphanLink'
  BY <1>6, LinkKept DEF EnableWrites
<1>7. ASSUME NEW c \in Conns, OnReady(c)
      PROVE  NoOrphanLink'
  <2>1. \A d \in Conns : conn'[d].link = conn[d].link
    BY <1>7, <1>t DEF OnReady, Connections
  <2> QED
    BY <1>7, <2>1, LinkKept DEF OnReady
<1>8. ASSUME NEW c \in Conns, OnUpdate(c)
      PROVE  NoOrphanLink'
  BY <1>8, LinkKept DEF OnUpdate
<1>9. ASSUME NEW c \in Conns, LinkLost(c)
      PROVE  NoOrphanLink'
  BY <1>9, <1>t, LinkEndsTyped, LinkKept DEF LinkLost
<1>10. ASSUME NEW c \in Conns, OnLinkLost(c)
      PROVE  NoOrphanLink'
  <2>1. \A d \in Conns : conn'[d].link = conn[d].link
    BY <1>10, <1>t, MarkSessionTyped DEF OnLinkLost, TypeOK
  <2> QED
    BY <1>10, <2>1, LinkKept DEF OnLinkLost
<1> QED
  BY <1>1, <1>2, <1>3, <1>4, <1>5, <1>6, <1>7, <1>8, <1>9, <1>10 DEF Command

\* No link is left open without a session or a command that closes or bonds it, but those
\* set adrift: their tab closed while bonding on them or closing them, bonding raised, or
\* they were opened again for a session closed meanwhile.
THEOREM NoLinkIsOrphaned == Spec => []NoOrphanLink
<1>1. Init => NoOrphanLink
  BY DEF Init, NoOrphanLink, Up, Unused
<1>2. TypeOK /\ OwnerInv /\ NoOrphanLink /\ [Next]_vars => NoOrphanLink'
  <2>1. CASE UNCHANGED vars
    BY <2>1 DEF vars, NoOrphanLink, Up
  <2> QED
    BY <2>1, TaskStepLink, OtherStepLink DEF Next
<1> QED
  BY <1>1, <1>2, OwnerInductive, PTL DEF Spec
-----------------------------------------------------------------------------
(* The two flags of a connection.                                          *)

\* A step that changes no flag, but those of a closed session or of a new one.
LEMMA FlagsKept ==
    ASSUME FlagInv, TypeOK,
           \A c \in Conns : /\ conn'[c].notifying => conn'[c].enabled
                            /\ conn'[c].enabled => conn[c].enabled,
           \/ session' = NoConn
           \/ /\ session' = session /\ (struck => struck')
              /\ session # NoConn /\ conn[session].notifying =>
                     conn'[session].notifying \/ ~conn'[session].enabled \/ struck',
           \A u \in Tabs : task'[u].pc \in {"reopen", "start"} =>
               /\ task'[u].conn \in Conns
               /\ ~conn[task'[u].conn].enabled
    PROVE  FlagInv'
<1>1. (\A c \in Conns : conn[c].notifying => conn[c].enabled)'
  OBVIOUS
<1>2. (session # NoConn /\ conn[session].enabled => conn[session].notifying \/ struck)'
  BY DEF FlagInv, TypeOK
<1>3. (\A u \in Tabs : task[u].pc \in {"reopen", "start"} => ~conn[task[u].conn].enabled)'
  OBVIOUS
<1> QED
  BY <1>1, <1>2, <1>3 DEF FlagInv

LEMMA TaskStepFlags ==
    ASSUME TypeOK, OwnerInv, FlagInv, NEW t \in Tabs, TaskStep(t)
    PROVE  FlagInv'
<1> USE DEF current, lost, told
<1>t. /\ task \in [Tabs -> Tasks] /\ conn \in [Conns -> Connections]
      /\ session \in Conns \cup {NoConn}
  BY DEF TypeOK, Tasks, Connections
<1>m. /\ Ends(t) => task'[t].pc = "idle" /\ \A u \in Tabs \ {t} : task'[u] = task[u]
      /\ \A pc, c : Goto(t, pc, c) =>
             /\ task'[t].pc = pc /\ task'[t].conn = c
             /\ \A u \in Tabs \ {t} : task'[u] = task[u]
  BY <1>t, TaskMoved
<1>u. ASSUME NEW u \in Tabs, task[u].pc \in {"reopen", "start"}
      PROVE  task[u].conn \in Conns /\ ~conn[task[u].conn].enabled
  BY <1>u DEF FlagInv, OwnerInv, Holds, StartPcs
<1>f. \A c \in Conns : conn[c].notifying => conn[c].enabled
  BY DEF FlagInv
<1>x. task[t].pc \in ConnectPcs =>
          \A u \in Tabs \ {t} : task[u].pc \notin ConnectPcs
  BY DEF OwnerInv, Apart
<1>k. TakeSession => /\ session' = NoConn
                     /\ \A c \in Conns : /\ conn'[c].notifying = conn[c].notifying
                                         /\ conn'[c].enabled = conn[c].enabled
  BY <1>t, TakeSessionTyped
<1>c. task[t].pc \in ClosingPcs /\ SessionClosed(task[t].conn) =>
          /\ task[t].conn # session
          /\ \A c \in Conns : /\ conn'[c].notifying => conn'[c].enabled
                              /\ conn'[c].enabled => conn[c].enabled
                              /\ c # task[t].conn => conn'[c] = conn[c]
  <2> SUFFICES ASSUME task[t].pc \in ClosingPcs, SessionClosed(task[t].conn)
               PROVE  /\ task[t].conn # session
                      /\ \A c \in Conns : /\ conn'[c].notifying => conn'[c].enabled
                                          /\ conn'[c].enabled => conn[c].enabled
                                          /\ c # task[t].conn => conn'[c] = conn[c]
    OBVIOUS
  <2>1. task[t].conn \in Conns /\ conn[task[t].conn].machine = "closed"
    BY DEF OwnerInv, Holds
  <2>2. task[t].conn # session
    BY <2>1 DEF OwnerInv
  <2>3. /\ ~conn'[task[t].conn].notifying
        /\ conn'[task[t].conn].enabled => conn[task[t].conn].enabled
        /\ \A c \in Conns : c # task[t].conn => conn'[c] = conn[c]
    BY <1>t, <2>1, SessionClosedTyped
  <2> QED
    BY <1>f, <2>2, <2>3
<1>n. ASSUME NEW c \in Conns, NEW pc \in {"start", "reopen"}, NEW link,
             NewSession(t, c, pc, link), task[t].pc \in {"open_link", "bond"}
      PROVE  FlagInv'
  <2>1. /\ session' = c /\ ~conn'[c].notifying /\ ~conn'[c].enabled
        /\ \A d \in Conns \ {c} : conn'[d] = conn[d]
        /\ task'[t].conn = c /\ \A u \in Tabs \ {t} : task'[u] = task[u]
    BY <1>n, <1>t DEF NewSession, Tasks, Unused
  <2>2. (\A d \in Conns : conn[d].notifying => conn[d].enabled)'
    BY <2>1, <1>f
  <2>3. (\A u \in Tabs : task[u].pc \in {"reopen", "start"} => ~conn[task[u].conn].enabled)'
    BY <1>n, <2>1, <1>x DEF ConnectPcs, StartPcs
  <2> QED
    BY <2>1, <2>2, <2>3 DEF FlagInv
<1>e. ASSUME UNCHANGED << conn, session, struck >>,
             task'[t].pc \notin {"reopen", "start"}, \A u \in Tabs \ {t} : task'[u] = task[u]
      PROVE  FlagInv'
  BY <1>e, <1>u, <1>f, FlagsKept
<1>1. CASE Disconnected(t) \/ OldClosed(t) \/ FailedClosed(t)
  <2>1. /\ task[t].pc \in ClosingPcs /\ SessionClosed(task[t].conn)
        /\ UNCHANGED << session, struck >>
        /\ task'[t].pc \notin {"reopen", "start"} /\ \A u \in Tabs \ {t} : task'[u] = task[u]
    BY <1>1, <1>m DEF Disconnected, OldClosed, FailedClosed, ConnectOver, ClosingPcs
  <2> QED
    BY <2>1, <1>c, <1>t, <1>u, FlagsKept
<1>2. CASE LinkOpened(t)
  <2>1. PICK c \in Conns :
           /\ conn[c] = Unused
           /\ IF task[t].bond
              THEN /\ conn' = [conn EXCEPT ![c].link = "up"] /\ Goto(t, "bond", c)
                   /\ UNCHANGED session
              ELSE NewSession(t, c, "start", "up")
    BY <1>2 DEF LinkOpened
  <2>2. task[t].pc = "open_link" /\ UNCHANGED struck
    BY <1>2 DEF LinkOpened
  <2>3. CASE task[t].bond
    <3>1. \A d \in Conns : /\ conn'[d].notifying = conn[d].notifying
                          /\ conn'[d].enabled = conn[d].enabled
      BY <2>1, <2>3, <1>t DEF Connections
    <3> QED
      BY <2>1, <2>2, <2>3, <3>1, <1>f, <1>m, <1>u, <1>t, FlagsKept
  <2>4. CASE ~task[t].bond
    BY <2>1, <2>2, <2>4, <1>n
  <2> QED
    BY <2>3, <2>4
<1>3. CASE LinkFails(t) \/ StartFails(t) \/ ScanRaises(t)
  <2>1. /\ TakeSession /\ task'[t].pc \notin {"reopen", "start"}
        /\ \A u \in Tabs \ {t} : task'[u] = task[u]
    BY <1>3, <1>m DEF LinkFails, StartFails, ScanRaises, Disconnects, ConnectOver
  <2> QED
    BY <2>1, <1>k, <1>f, <1>u, FlagsKept
<1>4. CASE Bonded(t)
  <2>1. task[t].conn \in Conns /\ task[t].pc = "bond"
    BY <1>4 DEF Bonded, OwnerInv, Holds
  <2>2. PICK pc \in {"start", "reopen"}, link \in {"up", "down"} :
            NewSession(t, task[t].conn, pc, link)
    BY <1>4 DEF Bonded
  <2> QED
    BY <2>1, <2>2, <1>n
<1>5. CASE BondFails(t) \/ StartEnds(t)
  BY <1>5, <1>m, <1>e DEF BondFails, StartEnds, ConnectOver
<1>6. CASE Written(t) \/ Subscribed(t) \/ Paired(t) \/ Scanned(t)
  BY <1>6, <1>m, <1>e DEF Written, Subscribed, Paired, Scanned, Returns
<1>7. CASE WriteFails(t) \/ SubscribeFails(t) \/ PairRaises(t)
  BY <1>7, <1>m, <1>e DEF WriteFails, SubscribeFails, PairRaises, Fails, Raises
<1>8. CASE Reopened(t)
  <2>1. /\ task[t].pc = "reopen" /\ UNCHANGED << session, struck >>
        /\ task'[t].conn = task[t].conn /\ \A u \in Tabs \ {t} : task'[u] = task[u]
        /\ \A d \in Conns : /\ conn'[d].notifying = conn[d].notifying
                            /\ conn'[d].enabled = conn[d].enabled
    BY <1>8, <1>t, <1>m DEF Reopened, Connections
  <2>2. (\A c \in Conns : conn[c].notifying => conn[c].enabled)'
    BY <2>1, <1>f
  <2>3. (session # NoConn /\ conn[session].enabled => conn[session].notifying \/ struck)'
    BY <2>1, <1>t DEF FlagInv
  <2>4. (\A u \in Tabs : task[u].pc \in {"reopen", "start"} => ~conn[task[u].conn].enabled)'
    BY <2>1, <1>u
  <2> QED
    BY <2>2, <2>3, <2>4 DEF FlagInv
<1>9. CASE Notifying(t)
  <2>1. task[t].pc = "start" /\ task[t].conn \in Conns /\ UNCHANGED << session, struck >>
    BY <1>9, <1>u DEF Notifying
  <2>2. /\ conn'[task[t].conn].notifying /\ conn'[task[t].conn].enabled
        /\ \A d \in Conns \ {task[t].conn} : conn'[d] = conn[d]
    BY <1>9, <1>t, <2>1 DEF Notifying, Connections
  <2>3. task'[t].pc = "wait" /\ \A u \in Tabs \ {t} : task'[u] = task[u] /\ task[u].pc \notin ConnectPcs
    BY <1>9, <1>m, <1>x DEF Notifying, ConnectPcs, StartPcs
  <2>4. (\A c \in Conns : conn[c].notifying => conn[c].enabled)'
    BY <2>2, <1>f
  <2>5. (session # NoConn /\ conn[session].enabled => conn[session].notifying \/ struck)'
    BY <2>1, <2>2, <1>t DEF FlagInv
  <2>6. (\A u \in Tabs : task[u].pc \in {"reopen", "start"} => ~conn[task[u].conn].enabled)'
    BY <2>3 DEF ConnectPcs, StartPcs
  <2> QED
    BY <2>4, <2>5, <2>6 DEF FlagInv
<1> QED
  BY <1>1, <1>2, <1>3, <1>4, <1>5, <1>6, <1>7, <1>8, <1>9 DEF TaskStep

LEMMA OtherStepFlags ==
    ASSUME TypeOK, OwnerInv, FlagInv,
           \/ \E t \in Tabs : Command(t) \/ TabCloses(t)
           \/ EnableWrites
           \/ \E c \in Conns : OnReady(c) \/ OnUpdate(c) \/ LinkLost(c) \/ OnLinkLost(c)
    PROVE  FlagInv'
<1> USE DEF current, lost, told
<1>t. /\ task \in [Tabs -> Tasks] /\ conn \in [Conns -> Connections]
      /\ session \in Conns \cup {NoConn} /\ struck \in BOOLEAN
  BY DEF TypeOK, Tasks, Connections
<1>m. ASSUME NEW t \in Tabs
      PROVE  /\ Ends(t) => task'[t].pc = "idle" /\ \A u \in Tabs \ {t} : task'[u] = task[u]
             /\ \A pc, c : Goto(t, pc, c) =>
                    task'[t].pc = pc /\ \A u \in Tabs \ {t} : task'[u] = task[u]
  BY <1>t, TaskMoved
<1>u. \A u \in Tabs : task[u].pc \in {"reopen", "start"} =>
          task[u].conn \in Conns /\ ~conn[task[u].conn].enabled
  BY DEF FlagInv, OwnerInv, Holds, StartPcs
<1>f. \A c \in Conns : conn[c].notifying => conn[c].enabled
  BY DEF FlagInv
<1>s. ASSUME TakeSession,
             \A u \in Tabs : task'[u] = task[u] \/ task'[u].pc \notin {"reopen", "start"}
      PROVE  FlagInv'
  <2>1. /\ session' = NoConn
        /\ \A c \in Conns : /\ conn'[c].notifying = conn[c].notifying
                            /\ conn'[c].enabled = conn[c].enabled
    BY <1>s, <1>t, TakeSessionTyped
  <2> QED
    BY <1>s, <2>1, <1>f, <1>u, FlagsKept
<1>e. ASSUME UNCHANGED << conn, session, struck >>,
             \A u \in Tabs : task'[u] = task[u] \/ task'[u].pc \notin {"reopen", "start"}
      PROVE  FlagInv'
  BY <1>e, <1>u, <1>f, FlagsKept
<1>1. ASSUME NEW t \in Tabs, DisconnectCmd(t)
      PROVE  FlagInv'
  BY <1>1, <1>m, <1>s DEF DisconnectCmd, Disconnects
<1>2. ASSUME NEW t \in Tabs, NEW bond \in BOOLEAN, NEW p \in Protocols, ConnectCmd(t, bond, p)
      PROVE  FlagInv'
  BY <1>2, <1>t, <1>s DEF ConnectCmd, Tasks
<1>3. ASSUME NEW t \in Tabs, WriteCmd(t) \/ PingCmd(t) \/ SubscribeCmd(t) \/ PairCmd(t) \/ ScanCmd(t)
      PROVE  FlagInv'
  <2>1. PICK pc \in {"write", "subscribe", "pair", "pair_bluez", "scan"} : \E c : Awaits(t, pc, c)
    BY <1>3 DEF WriteCmd, PingCmd, SubscribeCmd, PairCmd, ScanCmd
  <2> QED
    BY <2>1, <1>m, <1>e DEF Awaits
<1>4. ASSUME NEW t \in Tabs, Refused(t)
      PROVE  FlagInv'
  BY <1>4, <1>m, <1>e DEF Refused, Fails, Raises
<1>5. ASSUME NEW t \in Tabs, TabCloses(t)
      PROVE  FlagInv'
  BY <1>5, <1>m, <1>e DEF TabCloses
<1>6. ASSUME EnableWrites
      PROVE  FlagInv'
  BY <1>6, <1>e DEF EnableWrites
<1>7. ASSUME NEW c \in Conns, OnReady(c)
      PROVE  FlagInv'
  <2>1. /\ \A d \in Conns : /\ conn'[d].notifying = conn[d].notifying
                            /\ conn'[d].enabled = conn[d].enabled
        /\ UNCHANGED << session, struck, task >>
    BY <1>7, <1>t DEF OnReady, Connections
  <2> QED
    BY <2>1, <1>f, <1>u, <1>t, FlagsKept
<1>8. ASSUME NEW c \in Conns, OnUpdate(c)
      PROVE  FlagInv'
  BY <1>8, <1>e DEF OnUpdate
<1>9. ASSUME NEW c \in Conns, LinkLost(c)
      PROVE  FlagInv'
  <2>1. /\ UNCHANGED << session, struck, task >> /\ ~conn'[c].notifying /\ ~conn'[c].enabled
        /\ \A d \in Conns \ {c} : conn'[d] = conn[d]
    BY <1>9, <1>t, LinkEndsTyped DEF LinkLost
  <2>2. session # NoConn /\ conn[session].notifying =>
            conn'[session].notifying \/ ~conn'[session].enabled
    BY <2>1, <1>t
  <2> QED
    BY <2>1, <2>2, <1>f, <1>u, FlagsKept
<1>10. ASSUME NEW c \in Conns, OnLinkLost(c)
      PROVE  FlagInv'
  <2>1. UNCHANGED << session, task >> /\ MarkSession
    BY <1>10 DEF OnLinkLost
  <2>2. /\ struck => struck'
        /\ session # NoConn /\ conn[session].enabled => struck'
        /\ \A d \in Conns : /\ conn'[d].notifying => conn[d].notifying
                            /\ conn'[d].enabled = conn[d].enabled
    BY <2>1, <1>t, MarkSessionTyped DEF MarkSession
  <2> QED
    BY <2>1, <2>2, <1>f, <1>u, <1>t, FlagsKept
<1> QED
  BY <1>1, <1>2, <1>3, <1>4, <1>5, <1>6, <1>7, <1>8, <1>9, <1>10 DEF Command

LEMMA NextFlags == TypeOK /\ OwnerInv /\ FlagInv /\ [Next]_vars => FlagInv'
<1>1. CASE UNCHANGED vars
  BY <1>1 DEF vars, lost, FlagInv
<1> QED
  BY <1>1, TaskStepFlags, OtherStepFlags DEF Next
-----------------------------------------------------------------------------
(* Every tab is told, unless a command that has to tell is cut off.        *)

LEMMA ShownKept ==
    ASSUME ShownInv, shown' = shown, Connected' = Connected, untold => untold', losses \subseteq losses',
           \A u \in Tabs : task'[u] = task[u] \/ task[u].pc \notin Telling
    PROVE  ShownInv'
<1> SUFFICES ASSUME \A u \in Tabs : task'[u].pc \notin Telling, losses' = {}, ~untold'
             PROVE  shown' = Connected'
  BY DEF ShownInv
<1>1. (\A u \in Tabs : task[u].pc \notin Telling) /\ losses = {} /\ ~untold
  OBVIOUS
<1> QED
  BY <1>1 DEF ShownInv

LEMMA ShownPushed == PushState => ShownInv'
  BY DEF PushState, ShownInv, Connected

\* A step to a command that will tell.
LEMMA ShownLater ==
    ASSUME NEW t \in Tabs, task'[t].pc \in Telling
    PROVE  ShownInv'
  BY DEF ShownInv

LEMMA DisconnectsShown ==
    ASSUME task \in [Tabs -> Tasks], NEW t \in Tabs, Disconnects(t)
    PROVE  ShownInv'
<1>1. CASE session = NoConn
  BY <1>1, ShownPushed DEF Disconnects
<1>2. CASE session # NoConn
  BY <1>2, TaskMoved, ShownLater DEF Disconnects, Telling, ClosingPcs
<1> QED
  BY <1>1, <1>2

LEMMA TaskStepShown ==
    ASSUME TypeOK, OwnerInv, FlagInv, ShownInv, NEW t \in Tabs, TaskStep(t)
    PROVE  ShownInv'
<1> USE DEF Telling, ClosingPcs, lost, told
<1>t. task \in [Tabs -> Tasks] /\ conn \in [Conns -> Connections] /\ session \in Conns \cup {NoConn}
  BY DEF TypeOK, Tasks, Connections
<1>n. ASSUME NEW c \in Conns, NEW pc \in {"start", "reopen"}, NEW link,
             NewSession(t, c, pc, link), task[t].pc \in {"open_link", "bond"},
             UNCHANGED << losses, untold, shown >>
      PROVE  ShownInv'
  <2>1. /\ ~conn'[c].notifying /\ session' = c
        /\ \A u \in Tabs \ {t} : task'[u] = task[u]
    BY <1>n, <1>t DEF NewSession, Unused
  <2>2. ~Connected'
    BY <2>1 DEF Connected
  <2>3. session = NoConn
    BY <1>n DEF OwnerInv, Holds
  <2>4. Connected' = Connected
    BY <2>2, <2>3 DEF Connected
  <2> QED
    BY <1>n, <2>1, <2>4, ShownKept
<1>1. CASE \/ Disconnected(t) \/ OldClosed(t) \/ LinkFails(t) \/ BondFails(t) \/ StartEnds(t)
           \/ FailedClosed(t) \/ WriteFails(t) \/ SubscribeFails(t) \/ PairRaises(t)
  BY <1>1, ShownPushed
     DEF Disconnected, OldClosed, LinkFails, BondFails, StartEnds, FailedClosed, WriteFails,
         SubscribeFails, PairRaises, Fails, Raises
<1>2. CASE LinkOpened(t)
  <2>1. PICK c \in Conns :
           IF task[t].bond THEN Goto(t, "bond", c) /\ UNCHANGED session
                           ELSE NewSession(t, c, "start", "up")
    BY <1>2 DEF LinkOpened
  <2>2. task[t].pc = "open_link" /\ UNCHANGED << losses, untold, shown >>
    BY <1>2 DEF LinkOpened
  <2>3. CASE task[t].bond
    <3>1. session = NoConn
      BY <2>2 DEF OwnerInv, Holds
    <3>2. Connected' = Connected
      BY <2>1, <2>3, <3>1 DEF Connected
    <3> QED
      BY <2>1, <2>2, <2>3, <3>2, <1>t, TaskMoved, ShownKept
  <2>4. CASE ~task[t].bond
    BY <2>1, <2>2, <2>4, <1>n
  <2> QED
    BY <2>3, <2>4
<1>3. CASE Bonded(t)
  <2>1. task[t].conn \in Conns /\ task[t].pc = "bond" /\ UNCHANGED << losses, untold, shown >>
    BY <1>3 DEF Bonded, OwnerInv, Holds
  <2>2. PICK pc \in {"start", "reopen"}, link \in {"up", "down"} :
            NewSession(t, task[t].conn, pc, link)
    BY <1>3 DEF Bonded
  <2> QED
    BY <2>1, <2>2, <1>n
<1>4. CASE StartFails(t)
  <2>1. CASE session = NoConn
    BY <1>4, <2>1, ShownPushed DEF StartFails
  <2>2. CASE session # NoConn
    BY <1>4, <2>2, <1>t, TaskMoved, ShownLater DEF StartFails
  <2> QED
    BY <2>1, <2>2
<1>5. CASE Written(t) \/ Subscribed(t) \/ Paired(t) \/ Scanned(t)
  <2>1. Returns(t) /\ task[t].pc \notin Telling
    BY <1>5 DEF Written, Subscribed, Paired, Scanned
  <2>2. shown' = shown /\ Connected' = Connected /\ UNCHANGED << losses, untold >>
    BY <2>1 DEF Returns, Connected
  <2> QED
    BY <2>1, <2>2, <1>t, TaskMoved, ShownKept DEF Returns
<1>6. CASE ScanRaises(t)
  BY <1>6, <1>t, DisconnectsShown DEF ScanRaises
<1>7. CASE Reopened(t)
  <2>1. /\ task[t].pc = "reopen" /\ task[t].conn \in Conns
        /\ UNCHANGED << session, losses, untold, shown >>
        /\ \A u \in Tabs \ {t} : task'[u] = task[u]
    BY <1>7, <1>t, TaskMoved DEF Reopened, OwnerInv, Holds, StartPcs
  <2>2. ~conn[task[t].conn].notifying
    BY <2>1 DEF FlagInv
  <2>3. /\ \A c \in Conns : conn'[c].notifying = conn[c].notifying
        /\ \A c \in Conns \ {task[t].conn} : conn'[c] = conn[c]
    BY <1>7, <1>t DEF Reopened, Connections
  <2>4. Connected' = Connected
    BY <2>1, <2>2, <2>3, <1>t DEF Connected
  <2> QED
    BY <2>1, <2>4, ShownKept
<1>8. CASE Notifying(t)
  BY <1>8, <1>t, TaskMoved, ShownLater DEF Notifying
<1> QED
  BY <1>1, <1>2, <1>3, <1>4, <1>5, <1>6, <1>7, <1>8 DEF TaskStep

LEMMA OtherStepShown ==
    ASSUME TypeOK, ShownInv,
           \/ \E t \in Tabs : Command(t) \/ TabCloses(t)
           \/ EnableWrites
           \/ \E c \in Conns : OnReady(c) \/ OnUpdate(c) \/ LinkLost(c) \/ OnLinkLost(c)
    PROVE  ShownInv'
<1> USE DEF Telling, ClosingPcs, lost, told
<1>t. task \in [Tabs -> Tasks] /\ conn \in [Conns -> Connections]
  BY DEF TypeOK, Tasks, Connections
<1>1. ASSUME NEW t \in Tabs, DisconnectCmd(t)
      PROVE  ShownInv'
  BY <1>1, <1>t, DisconnectsShown DEF DisconnectCmd
<1>2. ASSUME NEW t \in Tabs, NEW bond \in BOOLEAN, NEW p \in Protocols, ConnectCmd(t, bond, p)
      PROVE  ShownInv'
  <2>1. CASE session = NoConn
    BY <1>2, <2>1, ShownPushed DEF ConnectCmd
  <2>2. CASE session # NoConn
    <3>1. task'[t].pc = "close_old"
      BY <1>2, <2>2, <1>t DEF ConnectCmd, Tasks
    <3> QED
      BY <3>1, ShownLater
  <2> QED
    BY <2>1, <2>2
<1>3. ASSUME NEW t \in Tabs, WriteCmd(t) \/ PingCmd(t) \/ SubscribeCmd(t) \/ PairCmd(t) \/ ScanCmd(t)
      PROVE  ShownInv'
  <2>1. PICK pc, c : Awaits(t, pc, c)
    BY <1>3 DEF WriteCmd, PingCmd, SubscribeCmd, PairCmd, ScanCmd
  <2>2. shown' = shown /\ Connected' = Connected /\ UNCHANGED << losses, untold >>
    BY <2>1 DEF Awaits, Connected
  <2> QED
    BY <2>1, <2>2, <1>t, TaskMoved, ShownKept DEF Awaits
<1>4. ASSUME NEW t \in Tabs, Refused(t)
      PROVE  ShownInv'
  BY <1>4, ShownPushed DEF Refused, Fails, Raises
<1>5. ASSUME NEW t \in Tabs, TabCloses(t)
      PROVE  ShownInv'
  <2>1. /\ shown' = shown /\ Connected' = Connected /\ UNCHANGED losses
        /\ untold' = (untold \/ task[t].pc \in Telling)
    BY <1>5 DEF TabCloses, Connected
  <2>2. CASE task[t].pc \in Telling
    BY <2>1, <2>2 DEF ShownInv
  <2>3. CASE task[t].pc \notin Telling
    BY <1>5, <2>1, <2>3, <1>t, TaskMoved, ShownKept DEF TabCloses
  <2> QED
    BY <2>2, <2>3
<1>6. ASSUME EnableWrites
      PROVE  ShownInv'
  BY <1>6, ShownPushed DEF EnableWrites
<1>7. ASSUME NEW c \in Conns, OnReady(c) \/ OnLinkLost(c)
      PROVE  ShownInv'
  BY <1>7, ShownPushed DEF OnReady, OnLinkLost
<1>8. ASSUME NEW c \in Conns, OnUpdate(c)
      PROVE  ShownInv'
  <2>1. /\ shown' = shown /\ task' = task /\ Connected' = Connected
        /\ UNCHANGED << losses, untold >>
    BY <1>8 DEF OnUpdate, Connected
  <2> QED
    BY <2>1, ShownKept
<1>9. ASSUME NEW c \in Conns, LinkLost(c)
      PROVE  ShownInv'
  BY <1>9, <1>t, LinkEndsTyped DEF LinkLost, ShownInv
<1> QED
  BY <1>1, <1>2, <1>3, <1>4, <1>5, <1>6, <1>7, <1>8, <1>9 DEF Command

\* With no command under way and no lost link still to be told of, every tab shows whether
\* the console is connected, unless a tab closed while its command still had to tell, or
\* the session is marked for the end of another link.
THEOREM TabsAreTold == Spec => []ShownIsTrue
<1>1. Init => FlagInv /\ ShownInv
  <2> SUFFICES ASSUME Init PROVE FlagInv /\ ShownInv
    OBVIOUS
  <2>1. /\ session = NoConn /\ ~shown
        /\ \A c \in Conns : ~conn[c].notifying
        /\ \A t \in Tabs : task[t].pc = "idle"
    BY DEF Init, Unused, NoTask
  <2>2. shown = Connected
    BY <2>1 DEF Init, Connected
  <2> QED
    BY <2>1, <2>2 DEF FlagInv, ShownInv
<1>2. TypeOK /\ OwnerInv /\ FlagInv /\ ShownInv /\ [Next]_vars => ShownInv'
  <2>1. CASE UNCHANGED vars
    <3>1. /\ shown' = shown /\ task' = task /\ Connected' = Connected
          /\ UNCHANGED << losses, untold >>
      BY <2>1 DEF vars, lost, told, Connected
    <3> QED
      BY <3>1, ShownKept
  <2> QED
    BY <2>1, TaskStepShown, OtherStepShown DEF Next
<1>3. TypeOK /\ FlagInv /\ ShownInv => ShownIsTrue
  <2> SUFFICES ASSUME TypeOK, FlagInv, ShownInv, \A t \in Tabs : task[t].pc = "idle",
                      losses = {}, ~untold
               PROVE  LET connected == session # NoConn /\ Up(session) /\ conn[session].enabled
                      IN  /\ shown => connected
                          /\ connected /\ ~struck => shown
    BY DEF ShownIsTrue
  <2>1. shown = Connected
    BY DEF ShownInv, Telling, ClosingPcs
  <2>2. session # NoConn => /\ conn[session].notifying => conn[session].enabled
                            /\ conn[session].enabled /\ ~struck => conn[session].notifying
    BY DEF FlagInv, TypeOK
  <2> QED
    BY <2>1, <2>2 DEF Connected, Up
<1> QED
  BY <1>1, <1>2, <1>3, NextFlags, OwnerInductive, PTL DEF Spec
=============================================================================
