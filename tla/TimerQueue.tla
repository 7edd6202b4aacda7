----------------------------- MODULE TimerQueue -----------------------------
(***************************************************************************)
(* The timer facility of one EventLoop: mouse::TimerQueue, mouse::Timer    *)
(* and mouse::TimerId (src/mouse/src/net/timer_queue.cc, timer.cc,         *)
(* timer_id.h), together with the part of EventLoop that carries its       *)
(* cross-thread calls (runInLoop / queueInLoop / doPendingFunctors).       *)
(*                                                                         *)
(* Heap records are addressed by Addrs so that an address freed by one     *)
(* timer can be reused by a later one.  Time is counted in ticks of at     *)
(* least 100us, the smallest delay resetTimerfd ever programs.             *)
(*                                                                         *)
(* Everything in the queue runs on the loop thread.  Other threads only    *)
(* allocate a Timer and append a closure to the loop's pending functors.   *)
(* Timer callbacks run one per step between the start and the end of       *)
(* handleRead; a callback may itself call runAfter/runEvery or cancel.     *)
(***************************************************************************)
EXTENDS Integers, Sequences, FiniteSets, SequencesExt

CONSTANTS
  Addrs,        \* heap addresses a Timer can be allocated at (ordered)
  Delays,       \* delays given to runAfter, in ticks
  Intervals,    \* intervals given to runEvery, in ticks (all > 0)
  MaxTimers,    \* bound on Timer::s_num_created_
  ClockLimit,   \* bound on the clock
  MaxPending,   \* bound on closures queued by other threads
  NoTimer       \* the value of a freed (or never used) heap address

ASSUME Addrs \subseteq Nat /\ Addrs # {}
ASSUME Delays \subseteq Nat /\ Intervals \subseteq Nat \ {0}
ASSUME MaxTimers \in Nat /\ ClockLimit \in Nat \ {0} /\ MaxPending \in Nat

VARIABLES
  heap,       \* addr -> [seq, expiration, interval] of the Timer there, or NoTimer
  timers,     \* timers_: set of Entry <<expiration, addr>>
  active,     \* active_timers_: set of ActiveTimer <<addr, sequence>>
  canceling,  \* canceling_timers_: set of ActiveTimer
  calling,    \* calling_expired_timers_ (TRUE exactly while callbacks run)
  expired,    \* the vector handleRead got from getExpired, sorted
  cursor,     \* how many callbacks of expired have run
  readNow,    \* the `now` handleRead took, passed on to reset
  timerfd,    \* the timerfd: [armed, at, readable]
  now,        \* Timestamp::now(), in ticks
  nextSeq,    \* Timer::s_num_created_
  pending,    \* EventLoop::pending_functors_ holding this queue's closures
  issued,     \* history: every TimerId handed out, with the timer it names
  cancelled   \* history: timers whose cancelInLoop ran while they were live

vars == <<heap, timers, active, canceling, calling, expired, cursor, readNow,
          timerfd, now, nextSeq, pending, issued, cancelled>>

Times == 0 .. ClockLimit + Max(Delays \cup Intervals)
Seqs == 1 .. MaxTimers
TimerRec == [seq : Seqs, expiration : Times, interval : Intervals \cup {0}]
Key(a) == <<a, heap[a].seq>>

(* std::set<Entry> orders by expiration, then by pointer value.            *)
EntryLess(x, y) == x[1] < y[1] \/ (x[1] = y[1] /\ x[2] < y[2])

(* Timestamp::valid(): microseconds_since_epoch_ > 0.                      *)
Valid(t) == t > 0

(* addTime(timestamp, seconds): the timestamp moved on by the delay,      *)
(* truncated to the clock's unit.  Delays and intervals are whole ticks.   *)
addTime(t, d) == t + d

(* Timer::restart(now): a repeating timer (interval_ > 0) expires again    *)
(* interval_ after now; any other gets the invalid Timestamp.              *)
restart(rec, t) ==
  [rec EXCEPT !.expiration = IF rec.interval > 0 THEN addTime(t, rec.interval) ELSE 0]

(* TimerId(timer): the id addTimer returns.  The constructor's second      *)
(* parameter defaults to 0, and addTimer passes only the pointer.          *)
TimerIdOf(a) == <<a, 0>>

(* The requests a caller can make: runAfter(delay) and runEvery(interval). *)
Requests == {[delay |-> d, interval |-> 0] : d \in Delays}
              \cup {[delay |-> i, interval |-> i] : i \in Intervals}

(***************************************************************************)
(* Helpers that change the timer state; each is part of an action below.  *)
(***************************************************************************)

(* The tick at which the timerfd expires when programmed with the relative *)
(* value howMuchTimeFromNow(when): when - now, but never less than 100us,  *)
(* which is within the current tick.                                       *)
timerfdExpiry(when) == IF when > now THEN when ELSE now

(* resetTimerfd(timerfd_, when): timerfd_settime, one-shot.  Re-arming     *)
(* discards an expiration not yet read.                                    *)
resetTimerfd(when) ==
  timerfd' = [armed |-> TRUE, at |-> timerfdExpiry(when), readable |-> FALSE]

(* Mutant: an insert ahead of the current earliest does not re-arm.      *)
insertEarliestChangedOnlyWhenEmpty(w) == timers = {}

(* insert(timer): both indexes gain the timer; TRUE iff it became earliest. *)
insertEarliestChanged(w) == timers = {} \/ \A e \in timers : w < e[1]

(* addTimerInLoop(timer) for the Timer at a with sequence s expiring at w: *)
(* insert it into both indexes, and re-arm if the earliest changed.        *)
addTimerInLoop(w, a, s) ==
  /\ timers' = timers \cup {<<w, a>>}
  /\ active' = active \cup {<<a, s>>}
  /\ IF insertEarliestChanged(w) THEN resetTimerfd(w) ELSE UNCHANGED timerfd

(* A timer is live for a caller from its insertion until it is freed.      *)
Scheduled(k) == k \in active
InBatch(k) == calling /\ \E j \in 1 .. Len(expired) : Key(expired[j][2]) = k

(* cancelInLoop(timer_id): look the id up in active_timers_; if found,     *)
(* erase it from both indexes and delete the Timer; otherwise, while       *)
(* callbacks run, remember it in canceling_timers_.                        *)
cancelInLoop(r) ==
  LET id == TimerIdOf(r.addr)
      a  == id[1]
  IN
  /\ IF id \in active
       THEN /\ timers' = timers \ {<<heap[a].expiration, a>>}
            /\ active' = active \ {id}
            /\ heap' = [heap EXCEPT ![a] = NoTimer]
            /\ UNCHANGED canceling
       ELSE /\ canceling' = IF calling THEN canceling \cup {id} ELSE canceling
            /\ UNCHANGED <<timers, active, heap>>
  /\ cancelled' = IF heap[r.addr] # NoTimer
                     /\ (Scheduled(<<r.addr, r.seq>>) \/ InBatch(<<r.addr, r.seq>>))
                    THEN cancelled \cup {<<r.addr, r.seq>>} ELSE cancelled
  /\ UNCHANGED timerfd

(* Mutant: the sequence taken before the increment (s_num_created_++).   *)
NewTimerPostIncrement(a, q) ==
  /\ heap[a] = NoTimer
  /\ nextSeq < MaxTimers
  /\ heap' = [heap EXCEPT ![a] = [seq |-> nextSeq,
                                  expiration |-> addTime(now, q.delay),
                                  interval |-> q.interval]]
  /\ nextSeq' = nextSeq + 1
  /\ issued' = issued \cup {[addr |-> a, seq |-> nextSeq + 1]}

(* new Timer(cb, when, interval): a free address and the next sequence.    *)
NewTimer(a, q) ==
  /\ heap[a] = NoTimer
  /\ nextSeq < MaxTimers
  /\ heap' = [heap EXCEPT ![a] = [seq |-> nextSeq + 1,
                                  expiration |-> addTime(now, q.delay),
                                  interval |-> q.interval]]
  /\ nextSeq' = nextSeq + 1
  /\ issued' = issued \cup {[addr |-> a, seq |-> nextSeq + 1]}

(***************************************************************************)
(* Actions.                                                                *)
(***************************************************************************)

(* addTimer called on the loop thread: runInLoop runs addTimerInLoop now.  *)
AddTimerInLoopThread ==
  /\ ~calling
  /\ \E a \in Addrs, q \in Requests :
       /\ NewTimer(a, q)
       /\ addTimerInLoop(addTime(now, q.delay), a, nextSeq + 1)
  /\ UNCHANGED <<canceling, calling, expired, cursor, readNow, now, pending, cancelled>>

(* addTimer called on another thread: runInLoop queues addTimerInLoop.     *)
AddTimerOtherThread ==
  /\ Len(pending) < MaxPending
  /\ \E a \in Addrs, q \in Requests :
       /\ NewTimer(a, q)
       /\ pending' = Append(pending, [op |-> "add", addr |-> a])
  /\ UNCHANGED <<timers, active, canceling, calling, expired, cursor, readNow,
                 timerfd, now, cancelled>>

(* cancel called on the loop thread, outside a timer callback.             *)
CancelInLoopThread ==
  /\ ~calling
  /\ \E r \in issued : cancelInLoop(r)
  /\ UNCHANGED <<calling, expired, cursor, readNow, now, nextSeq, pending, issued>>

(* cancel called on another thread: runInLoop queues cancelInLoop.         *)
CancelOtherThread ==
  /\ Len(pending) < MaxPending
  /\ \E r \in issued : pending' = Append(pending, [op |-> "cancel", addr |-> r.addr, seq |-> r.seq])
  /\ UNCHANGED <<heap, timers, active, canceling, calling, expired, cursor,
                 readNow, timerfd, now, nextSeq, issued, cancelled>>

(* doPendingFunctors runs the next queued closure of this queue.           *)
RunPendingFunctor ==
  /\ ~calling
  /\ pending # <<>>
  /\ LET f == Head(pending) IN
     IF f.op = "add"
       THEN /\ addTimerInLoop(heap[f.addr].expiration, f.addr, heap[f.addr].seq)
            /\ UNCHANGED <<heap, canceling, cancelled>>
       ELSE cancelInLoop(f)
  /\ pending' = Tail(pending)
  /\ UNCHANGED <<calling, expired, cursor, readNow, now, nextSeq, issued>>

(* The kernel: the armed timerfd expires and becomes readable.             *)
TimerfdExpire ==
  /\ timerfd.armed /\ timerfd.at <= now
  /\ timerfd' = [timerfd EXCEPT !.armed = FALSE, !.readable = TRUE]
  /\ UNCHANGED <<heap, timers, active, canceling, calling, expired, cursor,
                 readNow, now, nextSeq, pending, issued, cancelled>>

(* Real time passes.                                                       *)
Tick ==
  /\ now < ClockLimit
  /\ now' = now + 1
  /\ UNCHANGED <<heap, timers, active, canceling, calling, expired, cursor,
                 readNow, timerfd, nextSeq, pending, issued, cancelled>>

(* Mutant: getExpired forgets to erase the expired timers from            *)
(* active_timers_.                                                         *)
getExpiredKeepActive(t) ==
  LET due == {e \in timers : e[1] <= t} IN
  /\ expired' = SetToSortSeq(due, EntryLess)
  /\ timers' = timers \ due
  /\ UNCHANGED active

(* getExpired(now): every entry below the sentry <<now, UINTPTR_MAX>>,    *)
(* i.e. every timer whose expiration is <= now, moved out of timers_ into  *)
(* the returned vector, and erased from active_timers_.                    *)
getExpired(t) ==
  LET due == {e \in timers : e[1] <= t} IN
  /\ expired' = SetToSortSeq(due, EntryLess)
  /\ timers' = timers \ due
  /\ active' = active \ {Key(e[2]) : e \in due}

(* handleRead, up to the callbacks: readTimerfd, getExpired(now), then     *)
(* calling_expired_timers_ = true and canceling_timers_.clear().           *)
HandleReadBegin ==
  /\ ~calling
  /\ timerfd.readable
  /\ getExpired(now)
  /\ timerfd' = [timerfd EXCEPT !.readable = FALSE]
  /\ calling' = TRUE
  /\ canceling' = {}
  /\ cursor' = 0
  /\ readNow' = now
  /\ UNCHANGED <<heap, now, nextSeq, pending, issued, cancelled>>

(* One expired timer's callback runs.  What it does to this queue is one   *)
(* of: nothing, runAfter/runEvery, or cancel of any id it holds.           *)
RunExpiredCallback ==
  /\ calling
  /\ cursor < Len(expired)
  /\ cursor' = cursor + 1
  /\ \/ UNCHANGED <<heap, timers, active, canceling, timerfd, nextSeq, issued, cancelled>>
     \/ \E a \in Addrs, q \in Requests :
          /\ NewTimer(a, q)
          /\ addTimerInLoop(addTime(now, q.delay), a, nextSeq + 1)
          /\ UNCHANGED <<canceling, cancelled>>
     \/ /\ \E r \in issued : cancelInLoop(r)
        /\ UNCHANGED <<nextSeq, issued>>
  /\ UNCHANGED <<calling, expired, readNow, now, pending>>

(* Mutant: reset() leaves the timerfd as it is.                           *)
rearmEarliestMissing(ts) == UNCHANGED timerfd

(* The tail of reset(): re-arm the timerfd at the earliest expiration of   *)
(* timers_, when there is one and it is a valid Timestamp.                 *)
rearmEarliest(ts) ==
  LET first == CHOOSE e \in ts : \A f \in ts : ~EntryLess(f, e) IN
  IF ts # {} /\ Valid(first[1]) THEN resetTimerfd(first[1]) ELSE UNCHANGED timerfd

(* handleRead, after the callbacks: calling_expired_timers_ = false and    *)
(* reset(expired, now): each expired timer that repeats and is not in      *)
(* canceling_timers_ is restarted at now + interval and re-inserted, every *)
(* other one is deleted; then the timerfd is re-armed at the earliest      *)
(* remaining expiration, if that is a valid Timestamp.                     *)
HandleReadEnd ==
  /\ calling
  /\ cursor = Len(expired)
  /\ LET batch   == {expired[j][2] : j \in 1 .. Len(expired)}
         again   == {a \in batch : heap[a].interval > 0 /\ Key(a) \notin canceling}
         heap2   == [a \in Addrs |->
                       IF a \in again
                         THEN restart(heap[a], readNow)
                       ELSE IF a \in batch THEN NoTimer ELSE heap[a]]
         timers2 == timers \cup {<<heap2[a].expiration, a>> : a \in again}
     IN
     /\ heap' = heap2
     /\ timers' = timers2
     /\ active' = active \cup {Key(a) : a \in again}
     /\ rearmEarliest(timers2)
  /\ calling' = FALSE
  /\ expired' = <<>>
  /\ cursor' = 0
  /\ UNCHANGED <<canceling, readNow, now, nextSeq, pending, issued, cancelled>>

Init ==
  /\ heap = [a \in Addrs |-> NoTimer]
  /\ timers = {}
  /\ active = {}
  /\ canceling = {}
  /\ calling = FALSE
  /\ expired = <<>>
  /\ cursor = 0
  /\ readNow = 1
  /\ timerfd = [armed |-> FALSE, at |-> 0, readable |-> FALSE]
  /\ now = 1
  /\ nextSeq = 0
  /\ pending = <<>>
  /\ issued = {}
  /\ cancelled = {}

Next ==
  \/ AddTimerInLoopThread
  \/ AddTimerOtherThread
  \/ CancelInLoopThread
  \/ CancelOtherThread
  \/ RunPendingFunctor
  \/ TimerfdExpire
  \/ Tick
  \/ HandleReadBegin
  \/ RunExpiredCallback
  \/ HandleReadEnd

(* The loop thread never blocks outside poll, poll returns a readable      *)
(* timerfd, and the kernel expires an armed timerfd: these are weakly fair.*)
(* Callers (adds, cancels) and the clock are not.                          *)
Fairness ==
  /\ WF_vars(TimerfdExpire)
  /\ WF_vars(HandleReadBegin)
  /\ WF_vars(RunExpiredCallback)
  /\ WF_vars(HandleReadEnd)
  /\ WF_vars(RunPendingFunctor)

Spec == Init /\ [][Next]_vars /\ Fairness

(***************************************************************************)
(* Properties.                                                             *)
(***************************************************************************)

TypeOK ==
  /\ heap \in [Addrs -> TimerRec \cup {NoTimer}]
  /\ timers \subseteq Times \X Addrs
  /\ active \cup canceling \subseteq Addrs \X (Seqs \cup {0})
  /\ calling \in BOOLEAN
  /\ expired \in Seq(Times \X Addrs)
  /\ cursor \in 0 .. Len(expired)
  /\ timerfd \in [armed : BOOLEAN, at : Times, readable : BOOLEAN]
  /\ now \in 1 .. ClockLimit /\ readNow \in 1 .. ClockLimit
  /\ nextSeq \in 0 .. MaxTimers
  /\ issued \subseteq [addr : Addrs, seq : Seqs]

(* Every allocated Timer is owned by exactly one place -- timers_, the     *)
(* batch handleRead is running, or a queued addTimerInLoop closure -- and  *)
(* timers_ and active_timers_ describe the same live Timers.  A Timer in   *)
(* none of them leaks; one in two is deleted twice or used after delete    *)
(* (cancelInLoop, getExpired, reset and the cross-thread add).             *)
TimerOwnership ==
  LET inTimers  == {e[2] : e \in timers}
      inBatch   == IF calling THEN {expired[j][2] : j \in 1 .. Len(expired)} ELSE {}
      inPending == {pending[j].addr : j \in {i \in 1 .. Len(pending) : pending[i].op = "add"}}
  IN
  /\ {a \in Addrs : heap[a] # NoTimer} = inTimers \cup inBatch \cup inPending
  /\ inTimers \cap inBatch = {} /\ inTimers \cap inPending = {} /\ inBatch \cap inPending = {}
  /\ \A e \in timers : heap[e[2]] # NoTimer /\ heap[e[2]].expiration = e[1]
  /\ active = {Key(e[2]) : e \in timers}

(* Outside handleRead, while any timer is scheduled the timerfd is either  *)
(* readable or armed to expire no later than the earliest expiration (or   *)
(* at once, if that is already past): no timer is left without a wakeup    *)
(* (insert's earliest_changed, addTimerInLoop and reset's re-arm).         *)
NoLostWakeup ==
  (~calling /\ timers # {}) =>
    \/ timerfd.readable
    \/ /\ timerfd.armed
       /\ LET earliest == CHOOSE e \in timers : \A f \in timers : ~EntryLess(f, e)
          IN  timerfd.at <= timerfdExpiry(earliest[1])

(* Every timer whose expiration has come is eventually taken out of        *)
(* timers_ and run (timerfd, poll, handleRead, reset).                     *)
DueTimerRuns ==
  \A a \in Addrs, w \in Times :
    (<<w, a>> \in timers /\ w <= now) ~> (<<w, a>> \notin timers)

(* A timer whose cancel has run on the loop while it was scheduled, or     *)
(* while its own batch was running, never runs afterwards (spec 4.3 and    *)
(* 8: "runAfter followed by cancel ... cb never executes"; a repeating     *)
(* timer cancelled from its own callback is not re-armed).                 *)
CancelledTimerNeverRuns ==
  [][ RunExpiredCallback => Key(expired[cursor + 1][2]) \notin cancelled ]_vars

=============================================================================
