----------------------------- MODULE TcpServer -----------------------------
(***************************************************************************)
(* TcpServer (tcp_server.cc) with its Acceptor (acceptor.cc), the          *)
(* EventLoopThreadPool it owns, and the connections it creates, all on the *)
(* server's EventLoop, composed with the Poller of that loop (Poller.tla,  *)
(* whose variables this module shares), running the echo server of        *)
(* tests/main.cc: the message callback sends back what it read, so the     *)
(* connections' Channels gain and lose write interest as output backs up   *)
(* and drains.  A peer connects, sends units of data and closes.  The file *)
(* descriptors are the listening socket's and those accept returns: the    *)
(* lowest free one, or EMFILE when none is free.  A connection's fd is     *)
(* closed when the TcpConnection object is destroyed (its Socket's dtor),  *)
(* which happens when the last shared_ptr goes: connections_, a queued     *)
(* connectDestroyed closure, or the closure being run.                     *)
(***************************************************************************)
EXTENDS Integers, Sequences, FiniteSets, FiniteSetsExt, SequencesExt

CONSTANTS
    Conns,       \* TcpConnection objects, each created at most once
    Acc,         \* the Acceptor's accept_channel_
    Fds,         \* file descriptors
    ListenFd,    \* the listening socket's fd, in Fds
    NoChan,      \* not a channel (connections_ has no entry)
    IdBits,      \* width of next_conn_id_ (an int)
    ThreadsNum,  \* the value given to setThreadsNum
    MaxSends     \* units of data the peers send in all

Chans == Conns \cup {Acc}
Ids == 0 .. 2^IdBits - 1

VARIABLES
    \* the Poller of the server loop and the Channels (Poller.tla)
    st, cfd, ev, idx, pollfds, cmap, active, assertFailed,
    lphase,       \* where the loop thread is in one startLoop iteration
    cur,          \* connection being established or destroyed, else NoChan
    cstate,       \* TcpConnection::state_, "none" before construction
    cname,        \* the id in the connection's name_ ("#<id>")
    connLoop,     \* the loop getNextLoop gave the connection
    connMap,      \* TcpServer::connections_: id -> connection or NoChan
    nextId,       \* TcpServer::next_conn_id_
    pending,      \* pending_functors_: connections with connectDestroyed queued
    listenning,   \* Acceptor::listenning_
    poolStarted,  \* EventLoopThreadPool::started_
    nextLoop,     \* EventLoopThreadPool::next_
    backlog,      \* connections completed by the kernel, not yet accepted
    arrivals,     \* connections the peers made so far
    peerClosed,   \* the peer closed its end (the fd reads EOF)
    revents,      \* Channel::revents_ of the channels poll reported
    recvQ,        \* units the peer sent that the server has not read
    sent,         \* units the peers sent so far
    sentTo,       \* units the peer of each open connection sent (unit k is its k-th)
    output,       \* TcpConnection::output_buffer_: the units it holds
    written,      \* units written back to each peer, in the order written
    serverAssert  \* an assert of TcpServer or TcpConnection failed

pollerVars == <<st, cfd, ev, idx, pollfds, cmap, active, assertFailed>>
connVars == <<cstate, cname, connLoop>>
trafficVars == <<revents, recvQ, sent, sentTo, output, written>>
vars == <<pollerVars, lphase, cur, connVars, connMap, nextId, pending,
          listenning, poolStarted, nextLoop, backlog, arrivals, peerClosed,
          trafficVars, serverAssert>>

P == INSTANCE Poller WITH Chans <- Chans

\* A failed assert aborts the process: no step is taken after it.
Aborted == assertFailed \/ serverAssert

TypeOK ==
    /\ P!TypeOK
    /\ lphase \in {"start", "poll", "dispatch", "establish", "functors",
                   "remove"}
    /\ cur \in Conns \cup {NoChan}
    /\ cstate \in [Conns -> {"none", "connecting", "connected",
                             "disconnected"}]
    /\ cname \in [Conns -> Ids \cup {-1}]
    /\ connLoop \in [Conns -> {"none", "base"} \cup 1 .. ThreadsNum]
    /\ connMap \in [Ids -> Conns \cup {NoChan}]
    /\ nextId \in Ids
    /\ pending \in Seq(Conns) /\ Len(pending) <= Cardinality(Conns)
    /\ listenning \in BOOLEAN /\ poolStarted \in BOOLEAN
    /\ nextLoop \in 0 .. ThreadsNum
    /\ backlog \in 0 .. Cardinality(Conns) /\ arrivals \in 0 .. Cardinality(Conns)
    /\ peerClosed \in [Conns -> BOOLEAN]
    /\ revents \in [Chans -> SUBSET {"read", "write"}]
    /\ recvQ \in [Conns -> 0 .. MaxSends]
    /\ sent \in 0 .. MaxSends
    /\ sentTo \in [Conns -> 0 .. MaxSends] /\ written \in [Conns -> Seq(1 .. MaxSends)]
    /\ output \in [Conns -> Seq(1 .. MaxSends)]
    /\ serverAssert \in BOOLEAN

\* A connection object is alive while connections_, a queued
\* connectDestroyed or the closure being run holds a shared_ptr to it.
Held(c, map, queue, running) ==
    (\E n \in Ids : map[n] = c) \/ c \in Range(queue) \/ running = c

\* The channel states after a step that left the holders map, queue and
\* running: a connection with none left is destroyed, which closes its fd
\* and destroys its Channel.
Released(s, map, queue, running) ==
    [c \in Chans |->
        IF c \in Conns /\ s[c] = "live" /\ ~Held(c, map, queue, running)
        THEN "dead" ELSE s[c]]

\* EventLoopThreadPool::loops_ is empty until start() made ThreadsNum loops.
LoopsEmpty == ~poolStarted \/ ThreadsNum = 0

\* EventLoopThreadPool::getNextLoop: the base loop while loops_ is empty,
\* else loops_[next_] with next_ advanced round robin.
getNextLoop == IF LoopsEmpty THEN "base" ELSE nextLoop + 1

advanceNextLoop ==
    nextLoop' = IF LoopsEmpty THEN nextLoop ELSE (nextLoop + 1) % ThreadsNum

\* The fd an accept returns: the lowest one no open file holds.
FreeFds == Fds \ {cfd[c] : c \in {d \in Chans : st[d] = "live"}}

AfterHandler(act) == IF act = {} THEN "functors" ELSE "dispatch"

\* Channel's interest mask (events_), as the Channel calls change it; the
\* update() each of them ends with is the action's P!updateChannel.
enableReading(e) == e \cup {"read"}
enableWriting(e) == e \cup {"write"}
disableWriting(e) == e \ {"write"}
disableAll(e) == {}
isWriting(e) == "write" \in e

\* The connections in gone were destroyed: their output_buffer_ goes with
\* the object and the kernel drops what their closed sockets still held;
\* the stream with their peer (which closed it) is over.
Forget(gone) ==
    /\ recvQ' = [c \in Conns |-> IF c \in gone THEN 0 ELSE recvQ[c]]
    /\ output' = [c \in Conns |-> IF c \in gone THEN <<>> ELSE output[c]]
    /\ sentTo' = [c \in Conns |-> IF c \in gone THEN 0 ELSE sentTo[c]]
    /\ written' = [c \in Conns |-> IF c \in gone THEN <<>> ELSE written[c]]

-----------------------------------------------------------------------------
(* The server loop                                                         *)

\* Acceptor::listen without accept_channel_.enableReading().
listenNoEnableReading ==
    /\ listenning' = TRUE
    /\ UNCHANGED <<ev, idx, pollfds, cmap, assertFailed>>

\* Acceptor::listen: listenning_, listen() (the backlog starts to fill) and
\* accept_channel_.enableReading().
listen ==
    /\ listenning' = TRUE
    /\ ev' = [ev EXCEPT ![Acc] = enableReading(@)]
    /\ P!updateChannel(Acc, enableReading(ev[Acc]))

\* TcpServer::start() called by main before startLoop: started_ is set and,
\* as the acceptor is not listening, Acceptor::listen runs in place
\* (runInLoop on the loop thread).
Start ==
    /\ ~Aborted /\ lphase = "start"
    /\ listen
    /\ lphase' = "poll"
    /\ UNCHANGED <<st, cfd, active, cur, connVars, connMap, nextId, pending,
                   poolStarted, nextLoop, backlog, arrivals, peerClosed,
                   serverAssert, trafficVars>>

\* The kernel's view of a slot's fd: the events among those asked for that
\* are ready.  The listening socket reads while a connection waits in the
\* backlog; a connection reads while the peer's data or its EOF waits, and
\* writes whenever asked (the peer keeps reading, so its socket's send
\* buffer has room again by the next poll).  A slot whose fd no open file
\* holds is reported as POLLNVAL, which no handler reads or writes on.
Revents(f, events) ==
    IF \E c \in Chans : st[c] = "live" /\ cfd[c] = f
    THEN LET c == CHOOSE d \in Chans : st[d] = "live" /\ cfd[d] = f
             readable == IF c = Acc THEN backlog > 0
                         ELSE recvQ[c] > 0 \/ peerClosed[c]
         IN  ({"read"} \cap events \cap (IF readable THEN {"read"} ELSE {}))
             \cup ({"write"} \cap events)
    ELSE {"nval"}

\* Poller::poll with fillActiveChannels: every enabled slot with an event,
\* its channel (through channels_) given revents_.  Nothing is the timeout.
Poll ==
    /\ ~Aborted /\ lphase = "poll"
    /\ LET ready == {i \in 1 .. Len(pollfds) :
                       pollfds[i].fd >= 0 /\ Revents(pollfds[i].fd,
                                                      pollfds[i].events) # {}}
           act == {cmap[pollfds[i].fd] : i \in ready}
       IN  /\ active' = act
           /\ revents' = [c \in Chans |->
                IF c \in act
                THEN LET i == CHOOSE j \in ready : cmap[pollfds[j].fd] = c
                     IN  Revents(pollfds[i].fd, pollfds[i].events) \ {"nval"}
                ELSE {}]
           /\ lphase' = AfterHandler(act)
    /\ UNCHANGED <<st, cfd, ev, idx, pollfds, cmap, assertFailed, cur,
                   connVars, connMap, nextId, pending, listenning,
                   poolStarted, nextLoop, backlog, arrivals, peerClosed,
                   recvQ, sent, sentTo, output, written, serverAssert>>

\* Acceptor::handleRead when accept fails with EMFILE: nothing is done and
\* the connection stays in the backlog, so the next poll reports it again.
AcceptFailed ==
    /\ ~Aborted /\ lphase = "dispatch" /\ Acc \in active /\ FreeFds = {}
    /\ active' = active \ {Acc}
    /\ lphase' = AfterHandler(active')
    /\ UNCHANGED <<st, cfd, ev, idx, pollfds, cmap, assertFailed, cur,
                   connVars, connMap, nextId, pending, listenning,
                   poolStarted, nextLoop, backlog, arrivals, peerClosed,
                   serverAssert, trafficVars>>

\* TcpServer::newConnection(fd) for connection object c: the name takes
\* next_conn_id_, which is incremented; getNextLoop picks the loop; the
\* TcpConnection is constructed (its Channel on fd); connections_[name] = c
\* drops the reference to a connection already stored under that name; and
\* connectEstablished is run next through runInLoop on this thread.
newConnection(c, fd) ==
    LET map == [connMap EXCEPT ![nextId] = c]
    IN  /\ nextId' = (nextId + 1) % 2^IdBits
        /\ cstate' = [cstate EXCEPT ![c] = "connecting"]
        /\ cname' = [cname EXCEPT ![c] = nextId]
        /\ connLoop' = [connLoop EXCEPT ![c] = getNextLoop]
        /\ advanceNextLoop
        /\ connMap' = map
        /\ cfd' = [cfd EXCEPT ![c] = fd]
        /\ st' = Released([st EXCEPT ![c] = "live"], map, pending, c)
        /\ cur' = c
        /\ lphase' = "establish"

\* Acceptor::handleRead when accept returns the lowest free fd: the
\* new-connection callback is TcpServer::newConnection.
Accept(c) ==
    /\ ~Aborted /\ lphase = "dispatch" /\ Acc \in active /\ FreeFds # {}
    /\ cstate[c] = "none"
    /\ active' = active \ {Acc}
    /\ backlog' = backlog - 1
    /\ newConnection(c, Min(FreeFds))
    /\ UNCHANGED <<ev, idx, pollfds, cmap, assertFailed, pending, listenning,
                   poolStarted, arrivals, peerClosed, serverAssert, trafficVars>>

\* TcpConnection::connectEstablished: assert kConnecting, set kConnected,
\* enableReading (update).  The connection callback only logs.
Establish ==
    /\ ~Aborted /\ lphase = "establish"
    /\ serverAssert' = (serverAssert \/ cstate[cur] # "connecting")
    /\ cstate' = [cstate EXCEPT ![cur] = "connected"]
    /\ ev' = [ev EXCEPT ![cur] = enableReading(@)]
    /\ P!updateChannel(cur, enableReading(ev[cur]))
    /\ cur' = NoChan
    /\ lphase' = AfterHandler(active)
    /\ UNCHANGED <<st, cfd, active, cname, connLoop, connMap, nextId, pending,
                   listenning, poolStarted, nextLoop, backlog, arrivals,
                   peerClosed, trafficVars>>

\* The erase from connections_ left out.
removeConnectionInLoopNoErase(c) ==
    LET queue == Append(pending, c)
    IN  /\ connMap' = connMap
        /\ pending' = queue
        /\ st' = Released(st, connMap, queue, NoChan)

\* TcpServer::removeConnectionInLoop(c), reached from handleClose through
\* removeConnection's runInLoop on the loop thread: erase connections_ by
\* c's name and queue connectDestroyed on c's loop, the server loop.  The
\* entry erased is whichever connection the name maps to.
removeConnectionInLoop(c) ==
    LET map == [connMap EXCEPT ![cname[c]] = NoChan]
        queue == Append(pending, c)
    IN  /\ connMap' = map
        /\ pending' = queue
        /\ st' = Released(st, map, queue, NoChan)

(* A connection's handlers work on o = [ev, out, wr]: its Channel's        *)
(* events_, the units in output_buffer_, and the units written to the      *)
(* socket so far in this handleEvent.  A message is a sequence of units.   *)

\* The units a write of n takes from the front of msg.
Rest(msg, n) == SubSeq(msg, n + 1, Len(msg))
Take(msg, n) == SubSeq(msg, 1, n)

\* A partial write leaves the rest buffered without asking for POLLOUT.
sendInLoopNoEnable(o, msg, nwrote) ==
    LET wrote == IF ~isWriting(o.ev) /\ o.out = <<>> THEN nwrote ELSE 0
    IN  [o EXCEPT !.out = @ \o Rest(msg, wrote), !.wr = @ \o Take(msg, wrote)]

\* A write straight to the socket whatever is already buffered.
sendInLoopAlwaysDirect(o, msg, nwrote) ==
    IF nwrote < Len(msg)
    THEN [o EXCEPT !.ev = enableWriting(@), !.out = @ \o Rest(msg, nwrote),
                   !.wr = @ \o Take(msg, nwrote)]
    ELSE [o EXCEPT !.wr = @ \o Take(msg, nwrote)]

\* TcpConnection::sendInLoop(message), lines 63-97: when not writing and
\* nothing is buffered, write directly (nwrote units taken, 0 for
\* EWOULDBLOCK); the rest is appended and writing enabled.
sendInLoop(o, msg, nwrote) ==
    LET wrote == IF ~isWriting(o.ev) /\ o.out = <<>> THEN nwrote ELSE 0
    IN  IF wrote < Len(msg)
        THEN [o EXCEPT !.ev = enableWriting(@), !.out = @ \o Rest(msg, wrote),
                       !.wr = @ \o Take(msg, wrote)]
        ELSE [o EXCEPT !.wr = @ \o Take(msg, wrote)]

\* TcpConnection::send(message), lines 46-61, from the loop thread: only
\* in kConnected, and then sendInLoop at once.
send(o, c, msg, nwrote) ==
    IF cstate[c] = "connected" THEN sendInLoop(o, msg, nwrote) ELSE o

\* EchoServer::onMessage (tests/echo.cc): retrieveAsString takes all the
\* units read, and conn->send sends them back.
onMessage(o, c, msg, nwrote) == send(o, c, msg, nwrote)

\* The units waiting in c's socket: the last recvQ[c] its peer sent.
RecvUnits(c) == [i \in 1 .. recvQ[c] |-> sentTo[c] - recvQ[c] + i]

\* TcpConnection::handleRead, lines 140-157: readFd takes the units the
\* peer sent; a non-empty read goes to the message callback; a read of 0
\* is handleClose, which starts with disableAll.
handleRead(o, c, msg, nwrote) ==
    IF msg = <<>> THEN [o EXCEPT !.ev = disableAll(@)] ELSE onMessage(o, c, msg, nwrote)

\* Draining the buffer leaves POLLOUT asked for.
handleWriteNoDisable(o, n) ==
    IF isWriting(o.ev) THEN [o EXCEPT !.out = Rest(@, n), !.wr = @ \o Take(o.out, n)] ELSE o

\* A write to a socket whose peer has closed may fail (EPIPE, SIGPIPE being
\* ignored): n = 0 units taken.
WriteFails(c) == IF peerClosed[c] THEN {0} ELSE {}

\* TcpConnection::handleWrite, lines 160-197, when POLLOUT was reported: if
\* writing, write takes n units, which are retrieved (a failed write, n = 0,
\* only logs and leaves the buffer and POLLOUT as they are); an empty buffer
\* disables writing (shutdownInLoop would follow in kDisconnecting, which
\* the echo server never enters).
handleWrite(o, n) ==
    IF isWriting(o.ev)
    THEN [ev |-> IF Len(o.out) = n THEN disableWriting(o.ev) ELSE o.ev,
          out |-> Rest(o.out, n), wr |-> o.wr \o Take(o.out, n)]
    ELSE o

\* handleClose without the close callback: the server never hears of it.
handleCloseNoCallback(c) ==
    /\ serverAssert' = (serverAssert \/ cstate[c] # "connected")
    /\ UNCHANGED <<st, connMap, pending>>

\* TcpConnection::handleClose after a read of 0: assert kConnected or
\* kDisconnecting, disableAll (below), the close callback
\* (removeConnectionInLoop, whose assert(n == 1) needs an entry to erase).
handleClose(c) ==
    /\ removeConnectionInLoop(c)
    /\ serverAssert' = \/ serverAssert
                       \/ cstate[c] # "connected"
                       \/ connMap[cname[c]] = NoChan

\* Channel::handleEvent for a connection, lines 35-70: the read callback,
\* then the write callback, which sees the events_ the read left.  The
\* Channel updates within the handler are one updateChannel to the final
\* events_ (those in between rewrite the same slot).
ConnEvent(c) ==
    /\ ~Aborted /\ lphase = "dispatch" /\ c \in active /\ c \in Conns
    /\ st[c] = "live"
    /\ LET rv == revents[c]
           o0 == [ev |-> ev[c], out |-> output[c], wr |-> <<>>]
           closing == "read" \in rv /\ recvQ[c] = 0
       IN  \E nwrote \in 0 .. recvQ[c], nw \in 0 .. MaxSends :
             LET o1 == IF "read" \notin rv THEN o0
                       ELSE handleRead(o0, c, RecvUnits(c), nwrote)
                 o2 == IF "write" \in rv THEN handleWrite(o1, nw) ELSE o1
             IN  /\ nw \in IF "write" \in rv /\ "write" \in o1.ev
                           THEN (1 .. Len(o1.out)) \cup WriteFails(c) ELSE {0}
                 /\ ev' = [ev EXCEPT ![c] = o2.ev]
                 /\ IF o2.ev # ev[c] THEN P!updateChannel(c, o2.ev)
                    ELSE UNCHANGED <<idx, pollfds, cmap, assertFailed>>
                 /\ output' = [output EXCEPT ![c] = o2.out]
                 /\ written' = [written EXCEPT ![c] = @ \o o2.wr]
                 /\ recvQ' = [recvQ EXCEPT ![c] = IF "read" \in rv THEN 0 ELSE @]
                 /\ IF closing THEN handleClose(c)
                    ELSE UNCHANGED <<st, connMap, pending, serverAssert>>
    /\ active' = active \ {c}
    /\ lphase' = AfterHandler(active')
    /\ UNCHANGED <<cfd, cur, connVars, nextId, listenning, poolStarted,
                   nextLoop, backlog, arrivals, peerClosed, revents, sent, sentTo>>

-----------------------------------------------------------------------------
(* doPendingFunctors: the queued connectDestroyed closures.  The swapped   *)
(* vector, and with it the last reference, goes at the end of the batch;   *)
(* nothing between the closure and the end of the batch looks at the fd,  *)
(* so the object is released when its closure is done.                     *)

\* TcpConnection::connectDestroyed, up to removeChannel: assert kConnected
\* or kDisconnecting, set kDisconnected, disableAll (update).
RunConnectDestroyed ==
    /\ ~Aborted /\ lphase = "functors" /\ pending # <<>>
    /\ LET c == Head(pending) IN
         /\ serverAssert' = (serverAssert \/ cstate[c] # "connected")
         /\ cstate' = [cstate EXCEPT ![c] = "disconnected"]
         /\ ev' = [ev EXCEPT ![c] = disableAll(@)]
         /\ P!updateChannel(c, disableAll(ev[c]))
         /\ cur' = c
    /\ pending' = Tail(pending)
    /\ lphase' = "remove"
    /\ UNCHANGED <<st, cfd, active, cname, connLoop, connMap, nextId,
                   listenning, poolStarted, nextLoop, backlog, arrivals,
                   peerClosed, trafficVars>>

\* The rest of connectDestroyed: EventLoop::removeChannel; then the closure
\* drops its reference.
RemoveConnChannel ==
    /\ ~Aborted /\ lphase = "remove"
    /\ P!removeChannel(cur)
    /\ st' = Released(st, connMap, pending, NoChan)
    /\ cur' = NoChan
    /\ lphase' = "functors"
    /\ Forget({c \in Conns : st[c] = "live" /\ st'[c] = "dead"})
    /\ UNCHANGED <<cfd, ev, active, connVars, connMap, nextId, pending,
                   listenning, poolStarted, nextLoop, backlog, arrivals,
                   peerClosed, serverAssert, revents, sent>>

FunctorsDone ==
    /\ ~Aborted /\ lphase = "functors" /\ pending = <<>>
    /\ lphase' = "poll"
    /\ UNCHANGED <<pollerVars, cur, connVars, connMap, nextId, pending,
                   listenning, poolStarted, nextLoop, backlog, arrivals,
                   peerClosed, serverAssert, trafficVars>>

-----------------------------------------------------------------------------
(* Peers                                                                   *)

\* A client connects; the kernel completes it into the listen backlog.
PeerConnect ==
    /\ ~Aborted /\ listenning /\ arrivals < Cardinality(Conns)
    /\ backlog' = backlog + 1
    /\ arrivals' = arrivals + 1
    /\ UNCHANGED <<pollerVars, lphase, cur, connVars, connMap, nextId,
                   pending, listenning, poolStarted, nextLoop, peerClosed,
                   serverAssert, trafficVars>>

\* The client of an accepted connection sends a unit of data.
PeerSend(c) ==
    /\ ~Aborted /\ st[c] = "live" /\ ~peerClosed[c] /\ sent < MaxSends
    /\ cstate[c] \in {"connecting", "connected"}
    /\ recvQ' = [recvQ EXCEPT ![c] = @ + 1]
    /\ sent' = sent + 1
    /\ sentTo' = [sentTo EXCEPT ![c] = @ + 1]
    /\ UNCHANGED <<pollerVars, lphase, cur, connVars, connMap, nextId,
                   pending, listenning, poolStarted, nextLoop, backlog,
                   arrivals, peerClosed, revents, output, written, serverAssert>>

\* The client of an accepted connection closes its end.
PeerClose(c) ==
    /\ ~Aborted /\ st[c] = "live" /\ ~peerClosed[c]
    /\ cstate[c] \in {"connecting", "connected"}
    /\ peerClosed' = [peerClosed EXCEPT ![c] = TRUE]
    /\ UNCHANGED <<pollerVars, lphase, cur, connVars, connMap, nextId,
                   pending, listenning, poolStarted, nextLoop, backlog,
                   arrivals, serverAssert, trafficVars>>

\* After the TcpServer constructor: the Acceptor's socket and channel exist.
Init ==
    /\ st = [c \in Chans |-> IF c = Acc THEN "live" ELSE "unborn"]
    /\ cfd = [c \in Chans |-> IF c = Acc THEN ListenFd ELSE -1]
    /\ ev = [c \in Chans |-> {}]
    /\ idx = [c \in Chans |-> -1]
    /\ pollfds = <<>>
    /\ cmap = [f \in Fds |-> NoChan]
    /\ active = {}
    /\ assertFailed = FALSE
    /\ lphase = "start"
    /\ cur = NoChan
    /\ cstate = [c \in Conns |-> "none"]
    /\ cname = [c \in Conns |-> -1]
    /\ connLoop = [c \in Conns |-> "none"]
    /\ connMap = [n \in Ids |-> NoChan]
    /\ nextId = 1 % 2^IdBits
    /\ pending = <<>>
    /\ listenning = FALSE
    /\ poolStarted = FALSE
    /\ nextLoop = 0
    /\ backlog = 0 /\ arrivals = 0
    /\ peerClosed = [c \in Conns |-> FALSE]
    /\ revents = [c \in Chans |-> {}]
    /\ recvQ = [c \in Conns |-> 0] /\ sent = 0 /\ sentTo = [c \in Conns |-> 0]
    /\ output = [c \in Conns |-> <<>>] /\ written = [c \in Conns |-> <<>>]
    /\ serverAssert = FALSE

LoopStep ==
    \/ Start \/ Poll \/ AcceptFailed \/ \E c \in Conns : Accept(c)
    \/ Establish \/ \E c \in Conns : ConnEvent(c)
    \/ RunConnectDestroyed \/ RemoveConnChannel \/ FunctorsDone

Next == LoopStep \/ PeerConnect \/ \E c \in Conns : PeerSend(c) \/ PeerClose(c)

\* The loop thread runs whenever it has a step; the peers need not act.
Spec == Init /\ [][Next]_vars /\ WF_vars(LoopStep)

-----------------------------------------------------------------------------
(* Properties                                                              *)

\* connections_ holds each open connection under its own name until its
\* close removes that entry, and from then on exactly connectDestroyed
\* (queued or running) keeps it: an entry is removed once, on close, and
\* only by its own connection.
MapTracksOpenConnections ==
    /\ \A n \in Ids : connMap[n] # NoChan =>
          st[connMap[n]] = "live" /\ cname[connMap[n]] = n
    /\ \A c \in Conns : st[c] = "live" =>
          LET inMap == connMap[cname[c]] = c
              closing == c \in Range(pending) \/ (cur = c /\ lphase = "remove")
          IN  inMap # closing

\* The server loop's Poller stays consistent with the channels as accept,
\* close and connectDestroyed add and remove them over reused fds, no
\* assert of the Poller, TcpServer or TcpConnection fails, and poll never
\* hands the loop a destroyed Channel.
PollerHealthy ==
    /\ P!IndexConsistent
    /\ P!PollerAssertsHold
    /\ ~serverAssert

\* A connection whose peer closed is eventually destroyed, which closes
\* its fd: handleClose, removeConnectionInLoop and connectDestroyed run and
\* the last reference goes.  (Both states are stable, so this is
\* peerClosed[c] ~> st[c] = "dead", stated in the form TLC checks without
\* a tableau.)
ClosedConnectionReleased ==
    \A c \in Conns : []<>(~peerClosed[c] \/ st[c] = "dead")

\* An open connection asks for POLLOUT exactly while its output buffer
\* holds data: sendInLoop enables writing when a write leaves a rest and
\* handleWrite disables it when the buffer drains, whatever the mix of
\* echoes, partial writes and POLLOUT reported in the same poll as a read.
\* Asking with nothing buffered makes poll return at once, forever; data
\* buffered without asking is never sent.
WritingIffPending ==
    \A c \in Conns :
        st[c] = "live" /\ "read" \in ev[c] =>
            ("write" \in ev[c] <=> output[c] # <<>>)

\* A connection waiting in the listen backlog is accepted while an fd is
\* free: poll keeps reporting the listening socket, also after accept
\* failed with EMFILE and left the connection queued (Acceptor::handleRead),
\* so once a close frees an fd the connection is taken.  (A waiting
\* connection with a free fd leads to none waiting or no fd free, which is
\* the same as infinitely often one of those two.)
BacklogServed ==
    []<>(backlog = 0 \/ FreeFds = {})

\* Whatever the echo server buffered is eventually written to the peer,
\* unless the connection is closed and destroyed first: output[c] # <<>>
\* leads to its negation or destruction, that is, infinitely often the
\* buffer is empty or the connection gone.
EchoDrains ==
    \A c \in Conns : []<>(output[c] = <<>> \/ st[c] = "dead")

\* Every peer gets back exactly the units it sent, each once and in the
\* order sent, across direct writes, partial writes, buffered rests and
\* POLLOUT reported in the same poll as a read (sendInLoop writes directly
\* only when nothing is buffered); units are dropped only when a peer that
\* closed has its connection destroyed.  The units not yet written back
\* are those in output_buffer_ followed by those unread in the socket.
EchoPending == [c \in Conns |-> output[c] \o RecvUnits(c)]

RoundTrip == INSTANCE Echo WITH pending <- EchoPending, closed <- peerClosed

EchoSpec == RoundTrip!Spec
====
