--------------------------- MODULE TcpConnection ---------------------------
(***************************************************************************)
(* One TcpConnection of src/mouse/src/net/tcp_connection.cc on its loop,   *)
(* with the Channel dispatch of channel.cc, the loop's pending functors of *)
(* event_loop.cc, the server's close path of tcp_server.cc (the thread     *)
(* pool is never started, so the connection lives on the server loop and  *)
(* runInLoop from a handler runs at once), a peer, and optionally one      *)
(* other thread that holds a TcpConnectionPtr and calls send/shutdown.     *)
(*                                                                         *)
(* Bytes are <<message, index>> pairs; message k is the k-th send.  A      *)
(* ::write returns any count up to what was asked (0 stands for            *)
(* EWOULDBLOCK), and fails once the write half is shut or the peer reset.  *)
(***************************************************************************)
EXTENDS Integers, Sequences, FiniteSets, SequencesExt

CONSTANTS
    MsgLen,        \* bytes per message handed to send()
    MaxSends,      \* bound on send() calls, all threads together
    MaxPeerMsgs,   \* bound on messages the peer sends us
    CrossThread    \* whether another thread calls send/shutdown

States == {"Connecting", "Connected", "Disconnecting", "Disconnected"}
Rank == [s \in States |->
           CASE s = "Connecting" -> 0 [] s = "Connected" -> 1
             [] s = "Disconnecting" -> 2 [] s = "Disconnected" -> 3]

VARIABLES
    state,        \* state_
    reading,      \* events_ & kReadEvent
    writing,      \* events_ & kWriteEvent (isWriting)
    registered,   \* the channel is in the Poller (channels_)
    pollerCorrupt,\* Poller::updateChannel/removeChannel on an unregistered channel
    inMap,        \* TcpServer::connections_ holds the connection
    outbuf,       \* output_buffer_ readable bytes
    wire,         \* bytes the kernel accepted, in order (history)
    sentStream,   \* bytes handed to sendInLoop, in order (history)
    halfClosed,   \* shutdownWrite done
    inData,       \* peer messages waiting in the receive queue
    peerFin,      \* the peer's FIN arrived
    rst,          \* the peer reset the connection
    peerMsgs,     \* peer messages sent so far
    sends,        \* send() calls so far
    phase,        \* the loop: "poll", "event" (handleEvent), "functors"
    revents,      \* handlers of the current handleEvent still to run
    pending,      \* pending_functors_
    batch,        \* the swapped functors not yet run
    batchHoldsConn, \* the swapped vector holds a connectDestroyed closure
    closeCount,   \* handleClose calls (history)
    destroyCount, \* connectDestroyed calls (history)
    oPc           \* the other thread: "idle" or "set" (inside shutdown)

chanVars == <<reading, writing, registered, pollerCorrupt>>
sockVars == <<outbuf, wire, sentStream, halfClosed>>
peerVars == <<inData, peerFin, rst, peerMsgs>>
loopVars == <<phase, revents, pending, batch, batchHoldsConn>>
vars == <<state, chanVars, inMap, sockVars, peerVars, sends, loopVars,
          closeCount, destroyCount, oPc>>

Closures == [op : {"sendInLoop"}, msg : 1 .. MaxSends]
              \cup [op : {"shutdownInLoop", "connectDestroyed"}]

TypeOK ==
    /\ state \in States
    /\ reading \in BOOLEAN /\ writing \in BOOLEAN
    /\ registered \in BOOLEAN /\ pollerCorrupt \in BOOLEAN /\ inMap \in BOOLEAN
    /\ halfClosed \in BOOLEAN /\ peerFin \in BOOLEAN /\ rst \in BOOLEAN
    /\ inData \in 0 .. MaxPeerMsgs /\ peerMsgs \in 0 .. MaxPeerMsgs
    /\ sends \in 0 .. MaxSends
    /\ phase \in {"poll", "event", "functors"}
    /\ revents \subseteq {"close", "read", "write"}
    /\ pending \in Seq(Closures) /\ batch \in Seq(Closures)
    /\ batchHoldsConn \in BOOLEAN
    /\ closeCount \in Nat /\ destroyCount \in Nat
    /\ oPc \in {"idle", "set"}

Bytes(m) == [i \in 1 .. MsgLen |-> <<m, i>>]

\* The connection object is alive while some TcpConnectionPtr holds it: the
\* server's map, a queued connectDestroyed closure, the swapped functor
\* vector of doPendingFunctors, or the other thread during its call.
Alive ==
    \/ inMap
    \/ \E i \in 1 .. Len(pending) : pending[i].op = "connectDestroyed"
    \/ batchHoldsConn
    \/ oPc # "idle"

\* Possible results of ::write(fd, buf, len): 0 stands for -1/EWOULDBLOCK,
\* and a shut or reset socket fails.
WriteResults(len) == IF halfClosed \/ rst THEN {0} ELSE 0 .. len

\* Channel::update -> EventLoop::updateChannel -> Poller::updateChannel: the
\* channel's index_ is never reset by removeChannel, so an update after
\* removal takes the "existing" branch on a slot that is not its own.
channelUpdate == pollerCorrupt' = (pollerCorrupt \/ ~registered)

shutdownInLoopUnconditional(isWriting) == halfClosed' = TRUE

\* TcpConnection::shutdownInLoop.
shutdownInLoop(isWriting) ==
    halfClosed' = (halfClosed \/ ~isWriting)

\* TcpConnection::sendInLoop(message); direct is the test of line 68.
sendInLoopDirectAlways(m) ==
    LET data == Bytes(m)
    IN  \E n \in WriteResults(MsgLen) :
          /\ wire' = wire \o SubSeq(data, 1, n)
          /\ outbuf' = outbuf \o SubSeq(data, n + 1, MsgLen)
          /\ IF n < MsgLen /\ ~writing
               THEN writing' = TRUE /\ channelUpdate
               ELSE UNCHANGED <<writing, pollerCorrupt>>
          /\ sentStream' = sentStream \o data

sendInLoop(m) ==
    LET data == Bytes(m)
        direct == ~writing /\ outbuf = <<>>
    IN  \E n \in (IF direct THEN WriteResults(MsgLen) ELSE {0}) :
          /\ wire' = wire \o SubSeq(data, 1, n)
          /\ outbuf' = outbuf \o SubSeq(data, n + 1, MsgLen)
          /\ IF n < MsgLen /\ ~writing
               THEN writing' = TRUE /\ channelUpdate
               ELSE UNCHANGED <<writing, pollerCorrupt>>
          /\ sentStream' = sentStream \o data

handleCloseNoDestroy ==
    /\ reading' = FALSE /\ writing' = FALSE /\ channelUpdate
    /\ closeCount' = closeCount + 1
    /\ inMap' = FALSE
    /\ UNCHANGED pending

\* TcpConnection::handleClose: disableAll, then close_callback_, which is
\* TcpServer::removeConnection; its runInLoop runs removeConnectionInLoop at
\* once on this loop: erase from connections_, queueInLoop(connectDestroyed).
handleClose ==
    /\ reading' = FALSE /\ writing' = FALSE /\ channelUpdate
    /\ closeCount' = closeCount + 1
    /\ inMap' = FALSE
    /\ pending' = Append(pending, [op |-> "connectDestroyed"])

connectDestroyedKeepChannel ==
    /\ state' = "Disconnected"
    /\ reading' = FALSE /\ writing' = FALSE
    /\ channelUpdate
    /\ UNCHANGED registered
    /\ destroyCount' = destroyCount + 1

\* TcpConnection::connectDestroyed: kDisconnected, disableAll, removeChannel.
connectDestroyed ==
    /\ state' = "Disconnected"
    /\ reading' = FALSE /\ writing' = FALSE
    /\ channelUpdate
    /\ registered' = FALSE
    /\ destroyCount' = destroyCount + 1

-----------------------------------------------------------------------------
(* The loop thread: EventLoop::startLoop, Channel::handleEvent,            *)
(* EventLoop::doPendingFunctors.                                           *)

PollIn == reading /\ (inData > 0 \/ peerFin \/ rst)
PollHup == rst \/ (peerFin /\ halfClosed)

\* poll(2) and fillActiveChannels: a channel with no interest has a negated
\* fd and reports nothing; POLLOUT is reported when the send buffer has room,
\* and always on a shut or reset socket; handleEvent runs the close handler
\* only for POLLHUP without POLLIN (CloseHandlerUnreached: no such event).
Poll ==
    /\ phase = "poll"
    /\ \E out \in IF ~writing THEN {FALSE}
                  ELSE IF halfClosed \/ rst THEN {TRUE} ELSE BOOLEAN :
         LET on == registered /\ (reading \/ writing)
         IN  revents' = IF ~on THEN {}
                        ELSE {k \in {"close"} : PollHup /\ ~PollIn}
                               \cup {k \in {"read"} : PollIn}
                               \cup {k \in {"write"} : out}
    /\ phase' = "event"
    /\ UNCHANGED <<state, chanVars, inMap, sockVars, peerVars, sends,
                   pending, batch, batchHoldsConn, closeCount, destroyCount, oPc>>

\* handleRead with n > 0: readFd drains the receive queue and the message
\* callback runs; like the echo server's it may send, shut down, or neither.
EventReadData ==
    /\ phase = "event" /\ "close" \notin revents /\ "read" \in revents
    /\ inData > 0
    /\ revents' = revents \ {"read"}
    /\ inData' = 0
    /\ \/ UNCHANGED <<state, chanVars, sockVars, sends>>
       \/ /\ sends < MaxSends
          /\ sends' = sends + 1
          /\ IF state = "Connected"
               THEN sendInLoop(sends + 1) /\ UNCHANGED halfClosed
               ELSE UNCHANGED <<writing, pollerCorrupt, sockVars>>
          /\ UNCHANGED <<state, reading, registered>>
       \/ /\ IF state = "Connected"
               THEN state' = "Disconnecting" /\ shutdownInLoop(writing)
               ELSE UNCHANGED <<state, halfClosed>>
          /\ UNCHANGED <<chanVars, outbuf, wire, sentStream, sends>>
    /\ UNCHANGED <<inMap, peerFin, rst, peerMsgs, phase, pending, batch,
                   batchHoldsConn, closeCount, destroyCount, oPc>>

\* handleRead with n == 0 (FIN) or n < 0 (reset): handleClose.
EventReadClose ==
    /\ phase = "event" /\ "close" \notin revents /\ "read" \in revents
    /\ inData = 0
    /\ revents' = revents \ {"read"}
    /\ handleClose
    /\ UNCHANGED <<state, registered, sockVars, peerVars, sends, phase, batch,
                   batchHoldsConn, destroyCount, oPc>>

\* TcpConnection::handleWrite.
EventWrite ==
    /\ phase = "event" /\ revents = {"write"}
    /\ revents' = {}
    /\ IF writing
         THEN \E n \in WriteResults(Len(outbuf)) :
                /\ wire' = wire \o SubSeq(outbuf, 1, n)
                /\ outbuf' = SubSeq(outbuf, n + 1, Len(outbuf))
                /\ IF n > 0 /\ n = Len(outbuf)
                     THEN /\ writing' = FALSE /\ channelUpdate
                          /\ IF state = "Disconnecting"
                               THEN shutdownInLoop(FALSE)
                               ELSE UNCHANGED halfClosed
                     ELSE UNCHANGED <<writing, pollerCorrupt, halfClosed>>
         ELSE UNCHANGED <<writing, pollerCorrupt, outbuf, wire, halfClosed>>
    /\ UNCHANGED <<state, reading, registered, inMap, sentStream, peerVars,
                   sends, phase, pending, batch, batchHoldsConn, closeCount,
                   destroyCount, oPc>>

SwapFunctorsCopy ==
    /\ phase = "event" /\ revents = {}
    /\ phase' = "functors"
    /\ batch' = pending
    /\ UNCHANGED pending
    /\ batchHoldsConn' = \E i \in 1 .. Len(pending) : pending[i].op = "connectDestroyed"
    /\ UNCHANGED <<state, chanVars, inMap, sockVars, peerVars, sends, revents,
                   closeCount, destroyCount, oPc>>

\* End of the active channels: doPendingFunctors swaps the queue out.
SwapFunctors ==
    /\ phase = "event" /\ revents = {}
    /\ phase' = "functors"
    /\ batch' = pending
    /\ pending' = <<>>
    /\ batchHoldsConn' = \E i \in 1 .. Len(pending) : pending[i].op = "connectDestroyed"
    /\ UNCHANGED <<state, chanVars, inMap, sockVars, peerVars, sends, revents,
                   closeCount, destroyCount, oPc>>

RunSendInLoop ==
    /\ phase = "functors" /\ batch # <<>> /\ Head(batch).op = "sendInLoop"
    /\ batch' = Tail(batch)
    /\ sendInLoop(Head(batch).msg)
    /\ UNCHANGED <<state, reading, registered, halfClosed, inMap, peerVars,
                   sends, phase, revents, pending, batchHoldsConn, closeCount,
                   destroyCount, oPc>>

RunShutdownInLoop ==
    /\ phase = "functors" /\ batch # <<>> /\ Head(batch).op = "shutdownInLoop"
    /\ batch' = Tail(batch)
    /\ shutdownInLoop(writing)
    /\ UNCHANGED <<state, chanVars, inMap, outbuf, wire, sentStream, peerVars,
                   sends, phase, revents, pending, batchHoldsConn, closeCount,
                   destroyCount, oPc>>

RunConnectDestroyed ==
    /\ phase = "functors" /\ batch # <<>> /\ Head(batch).op = "connectDestroyed"
    /\ batch' = Tail(batch)
    /\ connectDestroyed
    /\ UNCHANGED <<inMap, sockVars, peerVars, sends, phase, revents, pending,
                   batchHoldsConn, closeCount, oPc>>

\* The end of doPendingFunctors destroys the swapped vector, and with it the
\* last reference a connectDestroyed closure held.
FunctorsDone ==
    /\ phase = "functors" /\ batch = <<>>
    /\ phase' = "poll"
    /\ batchHoldsConn' = FALSE
    /\ UNCHANGED <<state, chanVars, inMap, sockVars, peerVars, sends, revents,
                   pending, batch, closeCount, destroyCount, oPc>>

-----------------------------------------------------------------------------
(* Another thread holding a TcpConnectionPtr for the length of its call.   *)

\* TcpConnection::send off the loop thread: the state_ test runs on the
\* caller, then runInLoop queues sendInLoop bound to the raw this.
OtherSend ==
    /\ CrossThread /\ Alive /\ oPc = "idle" /\ sends < MaxSends
    /\ sends' = sends + 1
    /\ IF state = "Connected"
         THEN pending' = Append(pending, [op |-> "sendInLoop", msg |-> sends + 1])
         ELSE UNCHANGED pending
    /\ UNCHANGED <<state, chanVars, inMap, sockVars, peerVars, phase, revents,
                   batch, batchHoldsConn, closeCount, destroyCount, oPc>>

\* TcpConnection::shutdown off the loop thread, in two steps: the test of
\* state_ (line 102), then setState and runInLoop (lines 104-106).
OtherShutdownCheck ==
    /\ CrossThread /\ Alive /\ oPc = "idle" /\ state = "Connected"
    /\ oPc' = "set"
    /\ UNCHANGED <<state, chanVars, inMap, sockVars, peerVars, sends, loopVars,
                   closeCount, destroyCount>>

OtherShutdownSet ==
    /\ oPc = "set"
    /\ state' = "Disconnecting"
    /\ pending' = Append(pending, [op |-> "shutdownInLoop"])
    /\ oPc' = "idle"
    /\ UNCHANGED <<chanVars, inMap, sockVars, peerVars, sends, phase, revents,
                   batch, batchHoldsConn, closeCount, destroyCount>>

-----------------------------------------------------------------------------
(* The peer and its kernel.                                                *)

PeerSend ==
    /\ peerMsgs < MaxPeerMsgs /\ ~peerFin /\ ~rst
    /\ inData' = inData + 1 /\ peerMsgs' = peerMsgs + 1
    /\ UNCHANGED <<state, chanVars, inMap, sockVars, peerFin, rst, sends,
                   loopVars, closeCount, destroyCount, oPc>>

PeerClose ==
    /\ ~peerFin /\ ~rst
    /\ peerFin' = TRUE
    /\ UNCHANGED <<state, chanVars, inMap, sockVars, inData, rst, peerMsgs,
                   sends, loopVars, closeCount, destroyCount, oPc>>

\* A reset discards what was queued for reading.
PeerReset ==
    /\ ~rst
    /\ rst' = TRUE /\ inData' = 0
    /\ UNCHANGED <<state, chanVars, inMap, sockVars, peerFin, peerMsgs,
                   sends, loopVars, closeCount, destroyCount, oPc>>

-----------------------------------------------------------------------------

\* After TcpServer::newConnection: connectEstablished ran at once (same loop),
\* so the connection is Connected, reading, registered and in the map.
Init ==
    /\ state = "Connected"
    /\ reading = TRUE /\ writing = FALSE
    /\ registered = TRUE /\ pollerCorrupt = FALSE /\ inMap = TRUE
    /\ outbuf = <<>> /\ wire = <<>> /\ sentStream = <<>> /\ halfClosed = FALSE
    /\ inData = 0 /\ peerFin = FALSE /\ rst = FALSE /\ peerMsgs = 0
    /\ sends = 0
    /\ phase = "poll" /\ revents = {} /\ pending = <<>> /\ batch = <<>>
    /\ batchHoldsConn = FALSE
    /\ closeCount = 0 /\ destroyCount = 0
    /\ oPc = "idle"

LoopStep ==
    \/ Poll \/ EventReadData \/ EventReadClose \/ EventWrite
    \/ SwapFunctors \/ RunSendInLoop \/ RunShutdownInLoop
    \/ RunConnectDestroyed \/ FunctorsDone

Next ==
    \/ LoopStep
    \/ OtherSend \/ OtherShutdownCheck \/ OtherShutdownSet
    \/ PeerSend \/ PeerClose \/ PeerReset

\* The loop thread never blocks but in poll, which returns; a thread inside
\* shutdown() finishes the call.  The peer and callers get no fairness.
Fairness == WF_vars(LoopStep) /\ WF_vars(OtherShutdownSet)

Spec == Init /\ [][Next]_vars /\ Fairness

-----------------------------------------------------------------------------
(* Properties                                                              *)

\* The kernel receives the bytes of sendInLoop calls in call order, each
\* once, with nothing skipped: direct writes of sendInLoop never overtake
\* bytes left in output_buffer_, and handleWrite writes from its front.
WireInSendOrder == IsPrefix(wire, sentStream)

\* shutdownWrite happens only after every byte handed to sendInLoop is
\* written: shutdownInLoop defers while the channel is writing and
\* handleWrite shuts down once output_buffer_ drains.
DrainBeforeHalfClose == halfClosed => wire = sentStream

\* Until the close path starts (handleClose's disableAll drops write
\* interest and what is buffered with it), the step that shuts
\* the write half (shutdownInLoop finding the channel not writing, or
\* handleWrite draining output_buffer_ in kDisconnecting) finds every byte
\* handed to sendInLoop so far on the wire, whichever thread called send
\* and shutdown.
DrainOnHalfClose ==
    [][~halfClosed /\ halfClosed' /\ closeCount = 0 => wire' = sentStream']_vars

\* handleClose (the close callback, and so removeConnectionInLoop with its
\* assert(n == 1)) and connectDestroyed each run at most once.
CloseOnce == closeCount <= 1 /\ destroyCount <= 1

\* Once the peer closes or resets, the loop runs connectDestroyed and the
\* channel leaves the Poller.
PeerCloseDestroys ==
    (peerFin \/ rst) ~> (destroyCount > 0 /\ ~registered)

\* Channel::handleEvent's close branch (POLLHUP without POLLIN) is never
\* taken: reading stays enabled until handleClose, and the connectDestroyed
\* it queues runs before the next poll, even when a later sendInLoop re-arms
\* writing in between.
CloseHandlerUnreached == "close" \notin revents

\* state_ only moves forward: Connecting, Connected, Disconnecting,
\* Disconnected (spec section 8), whichever thread writes it.
StateNeverGoesBack == [][Rank[state'] >= Rank[state]]_state

\* Once connectDestroyed removed the channel, no sendInLoop or
\* shutdownInLoop closure (bound to the raw this) is still queued, and no
\* Channel::update reached the Poller after the removal.  Run in the same
\* batch such a closure updates the removed channel, whose stale index_
\* sends Poller::updateChannel into its asserts; run in a later batch it
\* uses the destroyed object, whose last TcpConnectionPtr went with the
\* batch that ran connectDestroyed.
NoClosureAfterRemove ==
    /\ ~pollerCorrupt
    /\ ~registered => \A f \in Range(pending) \cup Range(batch) :
                          f.op \notin {"sendInLoop", "shutdownInLoop"}
====
