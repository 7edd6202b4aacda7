----------------------------- MODULE EventLoop -----------------------------
(***************************************************************************)
(* EventLoop (src/mouse/src/net/event_loop.cc) run by an EventLoopThread   *)
(* (event_loop_thread.cc): the owner thread starts the loop thread, waits  *)
(* for loop_, and its destructor quits and joins.  Other threads queue     *)
(* closures with queueInLoop and may call quit().  One further channel     *)
(* ("io") stands for every other fd of the loop; its handler may queue a   *)
(* closure.  A closure may itself queue one, or call quit() on the loop    *)
(* thread.  poll's 10 s timeout is an action without fairness, so every    *)
(* progress property must hold without waiting for it.                     *)
(***************************************************************************)
EXTENDS Integers, Sequences, FiniteSets

CONSTANTS
    Producers,   \* threads other than the loop thread and the owner
    MaxTasks,    \* bound on closures queued, all threads together
    MaxIo        \* bound on readiness events of the other channel

Tasks == 1 .. MaxTasks

VARIABLES
    lphase,    \* the loop thread: "none", "unborn" (constructing EventLoop),
               \* "published" (loop_ set), "check" (while (!quit_)), "poll",
               \* "dispatch", "swap", "functors", "body" (running one), "stopped", "gone"
    quit,      \* quit_
    looping,   \* looping_
    calling,   \* calling_pending_functors_
    wake,      \* the eventfd counter is non-zero
    io,        \* the other channel is ready
    ioEvents,  \* readiness events so far
    revents,   \* what poll returned: subset of {"wakeup", "io"}
    pending,   \* pending_functors_
    batch,     \* the swapped functors not yet run
    nextTask,  \* id of the next closure queued
    prod,      \* each producer: "idle", or "wake" between push and wakeup()
    owner,     \* the EventLoopThread owner: "idle", "wait", "got", "join", "done"
    deadQuit   \* quit() was called on a destroyed EventLoop

vars == <<lphase, quit, looping, calling, wake, io, ioEvents, revents,
          pending, batch, nextTask, prod, owner, deadQuit>>

LoopPhases == {"none", "unborn", "published", "check", "poll", "dispatch",
               "swap", "functors", "body", "stopped", "gone"}

TypeOK ==
    /\ lphase \in LoopPhases
    /\ quit \in BOOLEAN /\ looping \in BOOLEAN /\ calling \in BOOLEAN
    /\ wake \in BOOLEAN /\ io \in BOOLEAN /\ ioEvents \in 0 .. MaxIo
    /\ revents \subseteq {"wakeup", "io"}
    /\ pending \in Seq(Tasks) /\ batch \in Seq(Tasks)
    /\ nextTask \in 1 .. MaxTasks + 1
    /\ prod \in [Producers -> {"idle", "wake"}]
    /\ owner \in {"idle", "wait", "got", "join", "done"}
    /\ deadQuit \in BOOLEAN

Stopped == lphase \in {"stopped", "gone"}

\* queueInLoop's test before wakeup() (line 128).
wakeupNeededForeignOnly(inLoopThread) == ~inLoopThread

wakeupNeeded(inLoopThread) == ~inLoopThread \/ calling

\* EventLoop::quit: set quit_, and wake the loop when called off its thread.
\* On a destroyed EventLoop both are a use after free.
quitLoopNoWakeup(inLoopThread) ==
    /\ quit' = TRUE
    /\ UNCHANGED wake
    /\ deadQuit' = (deadQuit \/ lphase = "gone")

quitLoop(inLoopThread) ==
    /\ quit' = TRUE
    /\ wake' = (wake \/ ~inLoopThread)
    /\ deadQuit' = (deadQuit \/ lphase = "gone")

-----------------------------------------------------------------------------
(* The owner: EventLoopThread::startLoop and ~EventLoopThread.             *)

\* startLoop: create the thread, then wait on cond_ while loop_ is NULL.
OwnerStartLoop ==
    /\ owner = "idle"
    /\ owner' = "wait" /\ lphase' = "unborn"
    /\ UNCHANGED <<quit, looping, calling, wake, io, ioEvents, revents,
                   pending, batch, nextTask, prod, deadQuit>>

OwnerGotLoop ==
    /\ owner = "wait" /\ lphase # "unborn"
    /\ owner' = "got"
    /\ UNCHANGED <<lphase, quit, looping, calling, wake, io, ioEvents, revents,
                   pending, batch, nextTask, prod, deadQuit>>

\* ~EventLoopThread: exiting_ = true; loop_->quit(); then join.  The
\* producers are assumed to be finished with the loop by then.
OwnerDestroy ==
    /\ owner = "got" /\ \A p \in Producers : prod[p] = "idle"
    /\ quitLoop(FALSE)
    /\ owner' = "join"
    /\ UNCHANGED <<lphase, looping, calling, io, ioEvents, revents, pending,
                   batch, nextTask, prod>>

OwnerJoined ==
    /\ owner = "join" /\ lphase = "gone"
    /\ owner' = "done"
    /\ UNCHANGED <<lphase, quit, looping, calling, wake, io, ioEvents, revents,
                   pending, batch, nextTask, prod, deadQuit>>

-----------------------------------------------------------------------------
(* The loop thread: EventLoopThread::threadFunc and EventLoop::startLoop.  *)

\* threadFunc: construct the EventLoop, publish loop_ and notify.
Publish ==
    /\ lphase = "unborn"
    /\ lphase' = "published"
    /\ UNCHANGED <<quit, looping, calling, wake, io, ioEvents, revents,
                   pending, batch, nextTask, prod, owner, deadQuit>>

\* startLoop: looping_ = true; quit_ = false.
StartLoop ==
    /\ lphase = "published"
    /\ lphase' = "check" /\ looping' = TRUE /\ quit' = FALSE
    /\ UNCHANGED <<calling, wake, io, ioEvents, revents, pending, batch,
                   nextTask, prod, owner, deadQuit>>

\* while (!quit_); on exit looping_ = false.
Check ==
    /\ lphase = "check"
    /\ IF quit THEN lphase' = "stopped" /\ looping' = FALSE
               ELSE lphase' = "poll" /\ UNCHANGED looping
    /\ UNCHANGED <<quit, calling, wake, io, ioEvents, revents, pending, batch,
                   nextTask, prod, owner, deadQuit>>

\* Poller::poll returns the ready channels ...
Poll ==
    /\ lphase = "poll" /\ (wake \/ io)
    /\ revents' = {c \in {"wakeup"} : wake} \cup {c \in {"io"} : io}
    /\ lphase' = "dispatch"
    /\ UNCHANGED <<quit, looping, calling, wake, io, ioEvents, pending, batch,
                   nextTask, prod, owner, deadQuit>>

\* ... or times out after kPollTimeMs with nothing ready.
PollTimeout ==
    /\ lphase = "poll" /\ ~wake /\ ~io
    /\ revents' = {}
    /\ lphase' = "dispatch"
    /\ UNCHANGED <<quit, looping, calling, wake, io, ioEvents, pending, batch,
                   nextTask, prod, owner, deadQuit>>

\* handleEvent on the active channels: the wakeup channel's handleRead
\* drains the eventfd; the other channel's handler may queue a closure
\* (queueInLoop on the loop thread outside doPendingFunctors: no wakeup).
Dispatch ==
    /\ lphase = "dispatch"
    /\ wake' = (wake /\ "wakeup" \notin revents)
    /\ io' = (io /\ "io" \notin revents)
    /\ \/ UNCHANGED <<pending, nextTask>>
       \/ /\ "io" \in revents /\ nextTask <= MaxTasks
          /\ pending' = Append(pending, nextTask)
          /\ nextTask' = nextTask + 1
    /\ lphase' = "swap"
    /\ UNCHANGED <<quit, looping, calling, ioEvents, revents, batch, prod,
                   owner, deadQuit>>

SwapNoCalling ==
    /\ lphase = "swap"
    /\ UNCHANGED calling
    /\ batch' = pending /\ pending' = <<>>
    /\ lphase' = "functors"
    /\ UNCHANGED <<quit, looping, wake, io, ioEvents, revents, nextTask, prod,
                   owner, deadQuit>>

\* doPendingFunctors: calling_pending_functors_ = true, swap under the mutex.
Swap ==
    /\ lphase = "swap"
    /\ calling' = TRUE
    /\ batch' = pending /\ pending' = <<>>
    /\ lphase' = "functors"
    /\ UNCHANGED <<quit, looping, wake, io, ioEvents, revents, nextTask, prod,
                   owner, deadQuit>>

\* Take the next swapped closure ...
RunFunctor ==
    /\ lphase = "functors" /\ batch # <<>>
    /\ batch' = Tail(batch)
    /\ lphase' = "body"
    /\ UNCHANGED <<quit, looping, calling, wake, io, ioEvents, revents,
                   pending, nextTask, prod, owner, deadQuit>>

\* ... and run it.  It may queue another closure (on the loop thread while
\* calling_pending_functors_), call quit() on the loop thread, or neither.
FunctorBody ==
    /\ lphase = "body"
    /\ lphase' = "functors"
    /\ \/ UNCHANGED <<quit, wake, pending, nextTask, deadQuit>>
       \/ /\ nextTask <= MaxTasks
          /\ pending' = Append(pending, nextTask)
          /\ nextTask' = nextTask + 1
          /\ wake' = (wake \/ wakeupNeeded(TRUE))
          /\ UNCHANGED <<quit, deadQuit>>
       \/ quitLoop(TRUE) /\ UNCHANGED <<pending, nextTask>>
    /\ UNCHANGED <<looping, calling, io, ioEvents, revents, batch, prod, owner>>

FunctorsDone ==
    /\ lphase = "functors" /\ batch = <<>>
    /\ calling' = FALSE
    /\ lphase' = "check"
    /\ UNCHANGED <<quit, looping, wake, io, ioEvents, revents, pending, batch,
                   nextTask, prod, owner, deadQuit>>

\* threadFunc returns: the stack EventLoop is destroyed.
ThreadExit ==
    /\ lphase = "stopped"
    /\ lphase' = "gone"
    /\ UNCHANGED <<quit, looping, calling, wake, io, ioEvents, revents,
                   pending, batch, nextTask, prod, owner, deadQuit>>

-----------------------------------------------------------------------------
(* Other threads, holding the loop_ pointer the owner got.                 *)

ProducerPush(p) ==
    /\ owner = "got" /\ lphase # "gone" /\ prod[p] = "idle" /\ nextTask <= MaxTasks
    /\ pending' = Append(pending, nextTask)
    /\ nextTask' = nextTask + 1
    /\ prod' = [prod EXCEPT ![p] = "wake"]
    /\ UNCHANGED <<lphase, quit, looping, calling, wake, io, ioEvents, revents,
                   batch, owner, deadQuit>>

\* ... then, the mutex released, wakeup().
ProducerWake(p) ==
    /\ prod[p] = "wake"
    /\ wake' = (wake \/ wakeupNeeded(FALSE))
    /\ prod' = [prod EXCEPT ![p] = "idle"]
    /\ UNCHANGED <<lphase, quit, looping, calling, io, ioEvents, revents,
                   pending, batch, nextTask, owner, deadQuit>>

ProducerQuit(p) ==
    /\ owner = "got" /\ lphase # "gone" /\ prod[p] = "idle"
    /\ quitLoop(FALSE)
    /\ UNCHANGED <<lphase, looping, calling, io, ioEvents, revents, pending,
                   batch, nextTask, prod, owner>>

\* The kernel: the other channel becomes ready.
IoReady ==
    /\ ~io /\ ioEvents < MaxIo /\ lphase \notin {"none", "unborn", "gone"}
    /\ io' = TRUE /\ ioEvents' = ioEvents + 1
    /\ UNCHANGED <<lphase, quit, looping, calling, wake, revents, pending,
                   batch, nextTask, prod, owner, deadQuit>>

-----------------------------------------------------------------------------

Init ==
    /\ lphase = "none"
    /\ quit = FALSE /\ looping = FALSE /\ calling = FALSE
    /\ wake = FALSE /\ io = FALSE /\ ioEvents = 0 /\ revents = {}
    /\ pending = <<>> /\ batch = <<>>
    /\ nextTask = 1
    /\ prod = [p \in Producers |-> "idle"]
    /\ owner = "idle"
    /\ deadQuit = FALSE

LoopStep ==
    \/ Publish \/ StartLoop \/ Check \/ Poll \/ Dispatch \/ Swap
    \/ RunFunctor \/ FunctorBody \/ FunctorsDone \/ ThreadExit

Next ==
    \/ LoopStep \/ PollTimeout
    \/ OwnerStartLoop \/ OwnerGotLoop \/ OwnerDestroy \/ OwnerJoined
    \/ \E p \in Producers : ProducerPush(p) \/ ProducerWake(p) \/ ProducerQuit(p)
    \/ IoReady

\* The loop thread runs whenever it is not blocked in poll (the timeout gets
\* no fairness); the owner wakes from cond_ and from join when it may; a
\* producer finishes its queueInLoop call.
Fairness ==
    /\ WF_vars(LoopStep)
    /\ WF_vars(OwnerGotLoop) /\ WF_vars(OwnerJoined)
    /\ \A p \in Producers : WF_vars(ProducerWake(p))

Spec == Init /\ [][Next]_vars /\ Fairness

-----------------------------------------------------------------------------
(* Properties                                                              *)

\* The loop implements TaskQueue: the closures not yet run are the rest of
\* the swapped vector followed by pending_functors_, and the loop counts as
\* stopped once startLoop has left its while loop.
TQ == INSTANCE TaskQueue WITH queue <- batch \o pending, stopped <- Stopped

\* Closures run one at a time, in queue order, each once, and every queued
\* closure runs unless the loop stops first, without relying on the poll
\* timeout: queueInLoop's wakeup (line 128) and the swap in doPendingFunctors.
TaskQueueSpec == TQ!Spec

\* The loop never sleeps in poll with closures queued unless the eventfd is
\* readable or a queueInLoop caller is about to write it: a closure queued
\* by a closure during doPendingFunctors wakes the loop.
NoSleepWithWork ==
    (lphase = "poll" /\ pending # <<>>)
        => (wake \/ \E p \in Producers : prod[p] = "wake")

\* A quit() issued while the loop is looping stops it, from any thread,
\* without relying on the poll timeout.
QuitAfterStartStops == (quit /\ looping) ~> Stopped

\* ~EventLoopThread returns: once it has called quit(), the join ends.
JoinReturns == (owner = "join") ~> (owner = "done")

\* ~EventLoopThread never calls quit() on an EventLoop that is destroyed.
NoQuitOnDeadLoop == ~deadQuit
====
