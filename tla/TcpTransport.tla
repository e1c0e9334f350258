---------------------------- MODULE TcpTransport ----------------------------
(***************************************************************************)
(* pyddm/transport/tcp.py: DDM2 over a TCP connection.  connect(),          *)
(* disconnect() and the reader task share the fields _writer and            *)
(* _reader_task; each may be suspended while another runs.  Code between    *)
(* two awaits is one action.  The peer sends lines and may leave at any     *)
(* time.                                                                    *)
(*                                                                          *)
(* The caller is Session: start() connects only a transport that is not     *)
(* connected (session.py:450), close() may disconnect at any time, also     *)
(* while connect() is under way, and may be cancelled.                      *)
(***************************************************************************)
EXTENDS Naturals, Sequences

CONSTANTS
    Closers,        \* the callers of disconnect()
    MaxLinks,       \* bound: links opened
    MaxLines,       \* bound: lines a peer sends on one link
    MaxWrites       \* bound: writes accepted on one link

ASSUME TcpAssumption ==
    MaxLinks \in Nat /\ MaxLines \in Nat /\ MaxWrites \in Nat

VARIABLES
    opening,        \* is connect() awaiting open_connection()?
    opened,         \* how many links there have been
    writer,         \* the link of _writer, None if there is none
    task,           \* the link whose read loop is _reader_task, or None
    sock,           \* this end of each link
    peer,           \* the other end of each link
    sent,           \* the lines the peer sent on each link
    taken,          \* how many of them the read loop took
    loop,           \* the read loop of each link
    closer,         \* where each disconnect() is and what it took over
    told,           \* history: how often the disconnect callback was called per link
    last,           \* history: the number of the last line delivered per link
    wrote           \* history: how many writes each link accepted

link == << sock, peer, sent, taken, loop >>
history == << told, last, wrote >>
vars == << opening, opened, writer, task, link, closer, history >>

Links == 1 .. MaxLinks
None == 0
\* A frame in base64, a line that is not base64, and one that exceeds the
\* limit of the StreamReader.
Lines == {"frame", "garbage", "overlong"}
Idle == [joins |-> None, writer |-> None]

Init ==
    /\ opening = FALSE
    /\ opened = 0
    /\ writer = None
    /\ task = None
    /\ sock = [k \in Links |-> "none"]
    /\ peer = [k \in Links |-> "none"]
    /\ sent = [k \in Links |-> << >>]
    /\ taken = [k \in Links |-> 0]
    /\ loop = [k \in Links |-> "none"]
    /\ closer = [d \in Closers |-> Idle]
    /\ told = [k \in Links |-> 0]
    /\ last = [k \in Links |-> 0]
    /\ wrote = [k \in Links |-> 0]

-----------------------------------------------------------------------------
(* connect().                                                              *)

\* The connected property.  A writer whose connection was reset is closing,
\* one whose peer just left is not.
Connected == writer # None /\ sock[writer] = "open" /\ peer[writer] # "reset"

ConnectCall ==
    /\ ~opening
    /\ ~Connected
    /\ opened < MaxLinks
    /\ opening' = TRUE
    /\ UNCHANGED << opened, writer, task, link, closer, history >>

\* A loop that was cancelled or whose connection was reset ends in the next
\* turn of the event loop.
Ending(k) == loop[k] = "cancelled" \/ (loop[k] = "reading" /\ peer[k] = "reset")

\* open_connection() takes several turns: no such loop outlasts it.
Opened ==
    LET k == opened + 1
    IN  /\ opening
        /\ \A j \in Links : ~Ending(j)
        /\ opening' = FALSE
        /\ opened' = k
        /\ writer' = k
        /\ task' = k
        /\ sock' = [sock EXCEPT ![k] = "open"]
        /\ peer' = [peer EXCEPT ![k] = "up"]
        /\ loop' = [loop EXCEPT ![k] = "reading"]
        /\ UNCHANGED << sent, taken, closer, history >>

\* Refused, or not within connect_timeout.
ConnectFails ==
    /\ opening
    /\ opening' = FALSE
    /\ UNCHANGED << opened, writer, task, link, closer, history >>

-----------------------------------------------------------------------------
(* _read_loop().                                                           *)

\* Mutant: frames of a link that is being closed still count.
ReadsLate(k) ==
    /\ loop[k] \in {"reading", "cancelled"}
    /\ taken[k] < Len(sent[k])
    /\ sent[k][taken[k] + 1] # "overlong"
    /\ taken' = [taken EXCEPT ![k] = @ + 1]
    /\ last' = IF sent[k][taken[k] + 1] = "frame"
               THEN [last EXCEPT ![k] = taken[k] + 1] ELSE last
    /\ UNCHANGED << opening, opened, writer, task, sock, peer, sent, loop, closer, told, wrote >>

\* A frame is delivered, garbage dropped.
Reads(k) ==
    /\ loop[k] = "reading"
    /\ taken[k] < Len(sent[k])
    /\ sent[k][taken[k] + 1] # "overlong"
    /\ taken' = [taken EXCEPT ![k] = @ + 1]
    /\ last' = IF sent[k][taken[k] + 1] = "frame"
               THEN [last EXCEPT ![k] = taken[k] + 1] ELSE last
    /\ UNCHANGED << opening, opened, writer, task, sock, peer, sent, loop, closer, told, wrote >>

\* readuntil() raises: everything was read and the peer has left, the
\* connection was reset, or a line is longer than the reader's limit.
ReadRaises(k) ==
    \/ peer[k] = "reset"
    \/ peer[k] = "left" /\ taken[k] = Len(sent[k])
    \/ taken[k] < Len(sent[k]) /\ sent[k][taken[k] + 1] = "overlong"

\* Mutant: the finally clause tells but does not close.
FinallyOpen(k) ==
    /\ loop' = [loop EXCEPT ![k] = "over"]
    /\ IF writer = None
       THEN UNCHANGED << writer, sock, told >>
       ELSE /\ told' = [told EXCEPT ![writer] = @ + 1]
            /\ writer' = None
            /\ UNCHANGED sock

\* The finally clause: whoever ends the loop, it closes _writer if there is
\* one and tells that the link dropped.
Finally(k) ==
    /\ loop' = [loop EXCEPT ![k] = "over"]
    /\ IF writer = None
       THEN UNCHANGED << writer, sock, told >>
       ELSE /\ sock' = [sock EXCEPT ![writer] = "closed"]
            /\ told' = [told EXCEPT ![writer] = @ + 1]
            /\ writer' = None

LoopDrops(k) ==
    /\ loop[k] = "reading"
    /\ ReadRaises(k)
    /\ Finally(k)
    /\ UNCHANGED << opening, opened, task, peer, sent, taken, closer, last, wrote >>

LoopCancelled(k) ==
    /\ loop[k] = "cancelled"
    /\ Finally(k)
    /\ UNCHANGED << opening, opened, task, peer, sent, taken, closer, last, wrote >>

-----------------------------------------------------------------------------
(* disconnect().                                                           *)

CloseSocket(k) == sock' = IF k = None THEN sock ELSE [sock EXCEPT ![k] = "closed"]

\* The fields are taken over and a live read loop is cancelled; the caller
\* then awaits its end.
DisconnectCall(d) ==
    /\ closer[d] = Idle
    /\ task # None /\ loop[task] = "reading"
    /\ task' = None
    /\ writer' = None
    /\ loop' = [loop EXCEPT ![task] = "cancelled"]
    /\ closer' = [closer EXCEPT ![d] = [joins |-> task, writer |-> writer]]
    /\ UNCHANGED << opening, opened, sock, peer, sent, taken, history >>

\* No loop to wait for: connect() has not come back, the link dropped or
\* somebody else disconnects it.
DisconnectNothing(d) ==
    /\ closer[d] = Idle
    /\ task # None => loop[task] = "over"
    /\ task' = None
    /\ writer' = None
    /\ CloseSocket(writer)
    /\ UNCHANGED << opening, opened, peer, sent, taken, loop, closer, history >>

\* Mutant: a cancelled disconnect() ends where it is.
DisconnectEndsWhole(d) ==
    /\ closer[d] # Idle
    /\ IF loop[closer[d].joins] = "over" THEN CloseSocket(closer[d].writer) ELSE UNCHANGED sock
    /\ closer' = [closer EXCEPT ![d] = Idle]
    /\ UNCHANGED << opening, opened, writer, task, peer, sent, taken, loop, history >>

\* The loop is over, or the caller was cancelled while it waited for that:
\* either way the exception is suppressed and the writer closed.
DisconnectEnds(d) ==
    /\ closer[d] # Idle
    /\ CloseSocket(closer[d].writer)
    /\ closer' = [closer EXCEPT ![d] = Idle]
    /\ UNCHANGED << opening, opened, writer, task, peer, sent, taken, loop, history >>

-----------------------------------------------------------------------------
(* write(), and the peer.                                                  *)

\* A write is refused unless the transport is connected; otherwise it is
\* accepted, or raises (which changes nothing).
Write ==
    /\ Connected
    /\ wrote[writer] < MaxWrites
    /\ wrote' = [wrote EXCEPT ![writer] = @ + 1]
    /\ UNCHANGED << opening, opened, writer, task, link, closer, told, last >>

PeerSends(k) ==
    /\ peer[k] = "up"
    /\ Len(sent[k]) < MaxLines
    /\ \E line \in Lines : sent' = [sent EXCEPT ![k] = Append(@, line)]
    /\ UNCHANGED << opening, opened, writer, task, sock, peer, taken, loop, closer, history >>

\* An unfinished line at the end is never delivered.
PeerLeaves(k) ==
    /\ peer[k] = "up"
    /\ \E how \in {"left", "reset"} : peer' = [peer EXCEPT ![k] = how]
    /\ UNCHANGED << opening, opened, writer, task, sock, sent, taken, loop, closer, history >>

-----------------------------------------------------------------------------
LoopStep(k) == Reads(k) \/ LoopDrops(k) \/ LoopCancelled(k)

Next ==
    \/ ConnectCall \/ Opened \/ ConnectFails \/ Write
    \/ \E k \in Links : LoopStep(k) \/ PeerSends(k) \/ PeerLeaves(k)
    \/ \E d \in Closers : DisconnectCall(d) \/ DisconnectNothing(d) \/ DisconnectEnds(d)

Spec == Init /\ [][Next]_vars

\* asyncio runs every task that is ready; a disconnect() whose read loop has
\* ended goes on.
FairSpec ==
    /\ Spec
    /\ \A k \in Links : WF_vars(LoopStep(k))
    /\ \A d \in Closers :
           WF_vars(closer[d] # Idle /\ loop[closer[d].joins] = "over" /\ DisconnectEnds(d))
-----------------------------------------------------------------------------
(* Properties.                                                             *)

\* Every variable has its type; a disconnect() that waits for a read loop
\* holds the writer it will close.
TypeOK ==
    /\ opening \in BOOLEAN
    /\ opened \in 0 .. MaxLinks
    /\ writer \in Links \cup {None} /\ task \in Links \cup {None}
    /\ sock \in [Links -> {"none", "open", "closed"}]
    /\ peer \in [Links -> {"none", "up", "left", "reset"}]
    /\ sent \in [Links -> Seq(Lines)]
    /\ taken \in [Links -> Nat] /\ last \in [Links -> Nat]
    /\ loop \in [Links -> {"none", "reading", "cancelled", "over"}]
    /\ closer \in [Closers -> {Idle} \cup [joins : Links, writer : Links]]
    /\ told \in [Links -> Nat] /\ wrote \in [Links -> Nat]

\* An open socket is the transport's or in the hands of a disconnect(): no
\* interleaving of connect(), disconnect(), its cancellation and the read
\* loop leaks one.
NoOrphanSocket ==
    \A k \in Links : sock[k] = "open" =>
        k = writer \/ \E d \in Closers : closer[d].writer = k

\* The disconnect callback means that the link dropped (base.py:51, "fired
\* once when the link drops unexpectedly"): the peer left, or sent what the
\* reader cannot take.  A disconnect() never causes it.
NoticeMeansDrop ==
    \A k \in Links : told[k] > 0 =>
        peer[k] # "up" \/ \E i \in DOMAIN sent[k] : sent[k][i] = "overlong"

\* While the transport calls itself connected, its link is open and a read
\* loop that nobody cancelled listens to it: a drop cannot go unnoticed.
ConnectedMeansRead ==
    writer # None => sock[writer] = "open" /\ loop[writer] = "reading" /\ task = writer

\* TcpTransport implements the contract of Transport.
Contract == INSTANCE Transport WITH owned <- writer
ImplementsTransport == Contract!Spec

\* A link whose peer has gone does not stay the transport's.
DropNoticed == \A k \in Links : (writer = k /\ peer[k] # "up") ~> writer # k

\* A disconnect() that took a link over closes it, also when it is cancelled.
DisconnectCloses ==
    \A d \in Closers, k \in Links : closer[d].writer = k ~> sock[k] = "closed"

\* No link is left behind: neither one that dropped nor one that was given up.
LinksEnd == DropNoticed /\ DisconnectCloses
=============================================================================
