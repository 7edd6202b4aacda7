# TLA+ models of the `mouse` reactor (src/mouse/src/net)

This directory holds TLA+ models of the reactor library in `src/mouse/src`
(a muduo-style, one-loop-per-thread TCP framework), the TLC configurations
that check them, and `PROJECT.json`, which maps every definition to the
source lines it models and lists the hazards the checks are aimed at.

## 1. Inventory

### Components, their state and operations

| Component | Source | State | Operations |
|---|---|---|---|
| EventLoop | `net/event_loop.cc` | `looping_`, `quit_`, `calling_pending_functors_`, `pending_functors_` (mutex), wakeup eventfd, Poller, TimerQueue | `startLoop` (poll, dispatch active channels, `doPendingFunctors`), `quit`, `runInLoop`, `queueInLoop`, `wakeup`, `handleRead`, `runAt/runAfter/runEvery/cancel` (forward to TimerQueue), `updateChannel/removeChannel` |
| Poller | `net/poller.cc` | `pollfds_` (vector), `channels_` (fd -> Channel*) | `poll`, `fillActiveChannels`, `updateChannel` (append, update, disable = negated fd), `removeChannel` (swap with last) |
| Channel | `net/channel.cc` | `events_`, `revents_`, `index_`, `event_handling_`, four callbacks | `enableReading/Writing`, `disableWriting/All`, `handleEvent` (close, error, read, write in that order) |
| TimerQueue / Timer / TimerId | `net/timer_queue.cc`, `net/timer.*`, `net/timer_id.h` | `timers_` (set of <expiration, Timer*>), `active_timers_` (set of <Timer*, seq>), `canceling_timers_`, `calling_expired_timers_`, timerfd; Timer: expiration, interval, sequence (global atomic counter) | `addTimer` -> `addTimerInLoop`, `cancel` -> `cancelInLoop`, `handleRead` (`getExpired`, callbacks, `reset`), `insert`, `resetTimerfd` |
| TcpConnection | `net/tcp_connection.cc` | `state_` (Connecting, Connected, Disconnecting, Disconnected), input/output Buffer, Channel, Socket, callbacks | `send` / `sendInLoop`, `shutdown` / `shutdownInLoop`, `connectEstablished`, `connectDestroyed`, `handleRead/Write/Close/Error` |
| TcpServer | `net/tcp_server.cc` | `connections_` (name -> conn), `next_conn_id_`, `started_`, Acceptor, EventLoopThreadPool | `start`, `newConnection`, `removeConnection`, `removeConnectionInLoop` |
| Acceptor | `net/acceptor.cc` | listening Socket, Channel, `listenning_` | `listen`, `handleRead` (one accept per readiness) |
| Connector | `net/connector.h` | declared: `connect_`, `state_`, channel, `retry_delay_`, `timer_id_` | header only: no `connector.cc` exists in the repository |
| EventLoopThread(Pool) | `net/event_loop_thread*.cc` | `loop_` (cond-var handshake), `loops_`, `next_` | `startLoop`, `start`, `getNextLoop` (round robin) |
| Buffer | `net/buffer.h`, `net/buffer.cc` | `buffer_`, `reader_index_`, `writer_index_` | `append`, `retrieve*`, `prepend`, `makeSpace`, `readFd` |
| Socket / sockets / InetAddress | `net/socket.cc`, `net/sockets_ops.cc`, `net/inet_address.cc` | a file descriptor | thin system-call wrappers; `accept` aborts on unexpected errors |
| bigint | `bigint/bigint.h`, `bigint.cpp` | `sign_`, `num_` (digits, least significant first) | constructors from int and string, `==`, `<`, `>`, `+`, `-`, `*`, unary `-`, `>>` |
| Leaf utilities | `string/`, `vector/`, `Singleton/`, `mutex/`, `timer/` | — | not part of the reactor (spec section 1) |

### How they interact

* Each EventLoop is owned by one thread. All mutation of a loop's Poller,
  TimerQueue, Channels and TcpConnections happens on that thread. Other
  threads talk to a loop only through `runInLoop`/`queueInLoop`: they append a
  closure to `pending_functors_` under the mutex and write the wakeup eventfd.
  The loop runs the closures after dispatching one poll batch.
* The TimerQueue is a Channel (timerfd) of its loop. `addTimer` and `cancel`
  hop to the loop via `runInLoop`. Timer callbacks run inside `handleRead`,
  and may call `addTimer` and `cancel` themselves (reentrancy).
* TcpServer's Acceptor accepts on the server loop. `newConnection` builds a
  TcpConnection for the loop `getNextLoop` picks and runs `connectEstablished`
  there. Close travels back through `close_callback_` -> `removeConnection`
  (hop to the server loop) -> `removeConnectionInLoop` (erase from the map)
  -> `queueInLoop(connectDestroyed)` (hop back to the connection's loop).
* `TcpConnection::send`/`shutdown` may be called from any thread. They read
  or write `state_` on the calling thread and hop with `runInLoop`.

### What is hard

* Reentrancy: timer callbacks adding and cancelling timers, including the one
  that is running, while `handleRead` holds the expired batch.
* Cross-thread hops: closures queued by other threads run later, after
  whatever the loop did in between (a cancel before its add; a send after a
  shutdown; a `sendInLoop` after the connection was destroyed).
* Data races by design: `quit_`, `state_` (in `send`/`shutdown`, marked
  FIXME) are plain variables shared between threads.
* Manual memory management of Timers with address reuse, and of Poller slots
  with swap-with-last removal.
* Wakeups: the timerfd must be re-armed whenever the earliest timer changes;
  the eventfd must be written whenever a closure could otherwise wait for the
  10 s poll timeout.
* Partial writes and half-close ordering on a connection.
* Failed writes: once a peer has closed, `handleWrite`'s write fails and
  only logs, keeping POLLOUT on. The connection is released only because
  `handleEvent` runs the read callback first, and that read sees EOF.

### Properties that make each component correct

* TimerQueue: every Timer is owned exactly once (no leak, no double delete,
  no use after free); while a timer is scheduled, the timerfd will wake the
  loop no later than its deadline; every due timer runs; a cancelled timer
  never runs again.
* EventLoop: every queued closure eventually runs, in queue order per
  producer; `quit()` from any thread stops the loop.
* Poller: `pollfds_[ch.index_]` is the slot of `ch` for every registered
  channel, and disabled channels are never reported.
* TcpConnection: state never goes back; the close callback runs once;
  bytes given to `send` while connected reach the socket in order and before
  the write half is shut down.
* TcpServer: a connection is in `connections_` from `newConnection` until
  its removal, removed exactly once, and `connectDestroyed` follows
  `connectEstablished`.
* Buffer: `reader_index_ <= writer_index_ <= size()`, makeSpace's asserts
  hold, the vector grows only when sliding cannot make room, and the
  readable bytes behave as a byte string written at the back (or put at
  the front) and consumed from the front.

The hazards these properties aim at are listed, each at its source line, in
`PROJECT.json` under `"hazards"`.

## 2. Plan

Modules in the order they are (to be) written, most important first:

1. **TimerQueue.tla** (done): the timer facility with the loop's pending
   functors for cross-thread adds/cancels; heap addresses with reuse.
2. **TcpConnection.tla** (done): one connection's state machine, output buffer as a
   sequence of chunks, partial writes, `send`/`shutdown` from the loop thread
   and from another thread (with the unsynchronised `state_` read), read EOF
   and error, the close path, the Channel's interest mask and the order of
   `handleEvent`. Properties: `StateNeverGoesBack` (action property),
   `CloseOnce`, `WireInSendOrder`, `DrainOnHalfClose`.
3. **EventLoop.tla** (done): the poll / dispatch / doPendingFunctors cycle, the
   wakeup eventfd, `calling_pending_functors_`, `quit_` from another thread.
   Liveness: `QuitAfterStartStops`, `JoinReturns`. An abstract
   `TaskQueue` specification (closures run in enqueue order) refined by it
   (INSTANCE ... WITH, abstract Spec as a PROPERTY).
4. **Poller.tla** (done): `updateChannel`/`removeChannel` on `pollfds_` and
   `channels_`; invariants `IndexConsistent` and `PollerAssertsHold`. It is
   checked inside TcpServer.tla, which instantiates it.
5. **TcpServer.tla** (done) composing the Poller (INSTANCE), Acceptor,
   EventLoopThreadPool and the echo server's connections: the connection
   map, the removal path, fd reuse, EMFILE, and echo traffic with partial
   writes. The pool is never started, so the two-hop removal across loops
   is unreachable.
6. **Buffer.tla** (done): index arithmetic of `append`/`retrieve`/`makeSpace`/
   `prepend`/`readFd` with small capacities, refining `ByteStream`.
7. **BigInt.tla** (done): the digit-vector algorithms of `bigint.cpp` as
   RECURSIVE operators, driven by a client whose registers are compared
   with integer arithmetic on small inputs.

## 3. Modules and runs

### TimerQueue.tla (with MCTimerQueue.tla)

Models `TimerQueue`, `Timer`, `TimerId` and the slice of `EventLoop` that
carries their closures (`runInLoop`, `queueInLoop`, `doPendingFunctors`).

* State: `heap` (address -> Timer record or `NoTimer`, so freed addresses
  are reused), `timers` (= `timers_`, pairs <expiration, address>),
  `active` (= `active_timers_`), `canceling`, `calling`
  (= `calling_expired_timers_`), `expired`/`cursor`/`readNow` (the batch
  `handleRead` is running), `timerfd` (armed, at, readable), `now`,
  `nextSeq` (= `Timer::s_num_created_`), `pending` (queued closures).
  `issued` and `cancelled` are history variables used only by properties.
* Actions: `AddTimerInLoopThread`, `AddTimerOtherThread`,
  `CancelInLoopThread`, `CancelOtherThread`, `RunPendingFunctor`,
  `HandleReadBegin` (readTimerfd + `getExpired`), `RunExpiredCallback`
  (one callback; it may add a timer or cancel any issued id),
  `HandleReadEnd` (`reset`), plus the environment: `TimerfdExpire` (kernel)
  and `Tick` (clock).
* Time arithmetic: `addTime` (`timestamp.h`) gives a new Timer's
  expiration, `now + delay`, for `runAfter` and `runEvery`. `restart`
  (`Timer::restart`) gives a repeating timer its next expiration,
  `handleRead`'s `now + interval`, and every other timer the invalid
  Timestamp 0.
* Abstractions: time is counted in ticks of at least 100 us, so the clamp of
  `howMuchTimeFromNow` becomes "expires within the current tick"; a callback
  makes at most one call into the queue per run; poll is abstracted to
  "`handleRead` may run when the timerfd is readable".
* Fairness: weak fairness on the loop-thread steps (`HandleReadBegin`,
  `RunExpiredCallback`, `HandleReadEnd`, `RunPendingFunctor`) because the
  loop thread never blocks except in `poll`, which returns a readable fd or
  times out after 10 s; and on `TimerfdExpire` (the kernel). Callers and the
  clock get none.

Runs (bounds: 2 addresses so that an address is reused, 3 timers, clock up to
2, delays {0, 1}, interval 1, one queued closure):

* `timer_queue` (`TimerQueue.cfg`, pass, ~140k states): `TypeOK`,
  `TimerOwnership` (every allocated Timer is in exactly one of `timers_`,
  the running batch, a queued add closure; `timers_` and `active_timers_`
  agree), `NoLostWakeup` (outside `handleRead`, while a timer is scheduled
  the timerfd is readable or armed no later than the earliest expiration
  in `timers_`), `DueTimerRuns` (liveness).
* `timer_cancel` (`TimerQueueCancel.cfg`, violation): `CancelledTimerNeverRuns`.
  TLC's trace: `runAt(now)` on the loop thread, `cancel(id)`, the timerfd
  fires and the callback runs. `addTimer` returns `TimerId(timer)` whose
  sequence is the default 0 (`timer_queue.cc:98`), so `cancelInLoop` looks
  up `<timer, 0>` and never matches. The same defect makes
  `canceling_timers_` useless: a repeating timer that cancels itself keeps
  firing. Spec sections 4.3 and 8 say cancellation prevents the run.

Because cancel never takes effect, the passing run's properties are about
what the code does do: ownership of Timers, wakeups and expiry. A mutant of
each property (listed in `PROJECT.json`) shows TLC catches a plausible bug:
an off-by-one on the sequence counter, `getExpired` forgetting
`active_timers_`, `insert` reporting `earliest_changed` only for an empty
queue, so a timer added ahead of the current earliest waits for the later
expiration (armed, but too late), and `reset`
forgetting to re-arm.

### TcpConnection.tla

Models one `TcpConnection` (`tcp_connection.cc`) on its loop, together with:

* the parts of `Channel` it drives: the interest mask, and the close, read,
  write order of `handleEvent`;
* `EventLoop`'s poll / dispatch / `doPendingFunctors` cycle, including the
  swapped functor vector;
* `TcpServer`'s close path (`removeConnection`, `removeConnectionInLoop`);
* the peer's kernel;
* optionally, one other thread that holds a `TcpConnectionPtr` for the
  length of a `send` or `shutdown` call.

`TcpServer::start` never starts its thread pool (see the hazards), so
`getNextLoop` returns the server loop. Every connection therefore lives on
the server loop, and `runInLoop` from a handler runs its closure at once.

* State:
  * `state` (= `state_`);
  * `reading` and `writing` (the interest mask), and `registered` (in the
    Poller);
  * `inMap` (in `connections_`);
  * `outbuf` (= `output_buffer_`), as a sequence of bytes `<<k, i>>`, where
    `k` numbers the `send` call;
  * `halfClosed` (after `shutdownWrite`);
  * what the peer has done: `inData`, `peerFin` and `rst`;
  * the loop's `phase`, `revents`, `pending` and `batch`.
  * History variables: `wire` (the bytes the kernel accepted), `sentStream`
    (the bytes handed to `sendInLoop`), and the counts of `handleClose` and
    `connectDestroyed` calls.
  * `Alive` is derived from the `TcpConnectionPtr` holders: the map, a queued
    `connectDestroyed` closure, the swapped vector, and the other thread
    during its call.
* Loop-thread actions:
  * `Poll`;
  * `EventReadData`: `handleRead` with `n > 0`. The message callback may send,
    shut down, or do neither, as the echo server does.
  * `EventReadClose`: EOF or an error, leading to `handleClose`, which erases
    the map entry and queues `connectDestroyed`.
  * `EventWrite` (`handleWrite`);
  * `SwapFunctors`, `RunSendInLoop`, `RunShutdownInLoop`,
    `RunConnectDestroyed` and `FunctorsDone`.
* Other-thread actions:
  * `OtherSend`;
  * `OtherShutdownCheck`, then `OtherShutdownSet`. These are the two
    unsynchronised halves of `shutdown()` (lines 102 and 104-106).
* Environment actions: `PeerSend`, `PeerClose` and `PeerReset`.
* `::write` returns any count up to the size of the request, where 0 stands
  for `EWOULDBLOCK`. It always fails on a socket that is shut or reset.
* POLLOUT is reported when there is room in the send buffer, and always on a
  shut or reset socket.
* `handleError` only logs, so it is left out.
* Fairness: weak fairness on the loop thread as a whole, because it only
  ever waits in `poll`, and that returns. A thread inside `shutdown()`
  finishes its call. The peer and the callers get no fairness.

Runs (bounds: 2-byte messages, so a write can be partial; up to 3 `send`
calls; up to 2 peer messages):

* `tcp_connection` (`TcpConnection.cfg`, pass, ~66k states), with the other
  thread active, checks:
  * `WireInSendOrder`: the kernel gets the bytes in `sendInLoop` order, each
    once.
  * `CloseOnce`: `handleClose` and `connectDestroyed` each run at most once.
  * `CloseHandlerUnreached`: the POLLHUP-without-POLLIN branch of
    `handleEvent` is never taken. A later `sendInLoop` can re-arm writing
    after `handleClose`, but `connectDestroyed` runs before the next poll.
  * `PeerCloseDestroys` (liveness): after a peer FIN or RST, the loop runs
    `connectDestroyed` and removes the channel.
  * `DrainOnHalfClose` (action property): until `handleClose` starts the
    close path, the step that shuts the write half finds every byte handed
    to `sendInLoop` on the wire. That step is `shutdownInLoop` finding the
    channel not writing, or `handleWrite` draining in `kDisconnecting`.
    This holds whichever thread called `send` and `shutdown`. After
    `handleClose`, `disableAll` has already dropped write interest, and
    the buffered bytes go with the close.
* `tcp_state_race` (violation, `StateNeverGoesBack`). The other thread
  passes the `state_ == kConnected` test. The loop then handles the peer's
  close and runs `connectDestroyed`. The other thread's `setState` then moves
  the state from `kDisconnected` back to `kDisconnecting`.
* `tcp_lost_send` (violation, `DrainBeforeHalfClose` with the other thread
  active). A `send` accepted off-thread is queued. The message callback's
  `shutdown` finds `output_buffer_` empty and shuts the write half. The
  queued `sendInLoop` then writes to a shut socket, so its bytes are lost
  and write interest stays on.
* `tcp_closure_after_remove` (violation, `NoClosureAfterRemove`). After
  `handleClose` the other thread's `send` still sees `kConnected`, so it
  queues a `sendInLoop` bound to the raw `this` behind `connectDestroyed`.
  There are two outcomes:
  * Both run in one batch. A short write makes `sendInLoop` call
    `enableWriting` on the channel `connectDestroyed` removed. `index_` was
    never reset, so `Poller::updateChannel` takes the update branch, and
    its assert at poller.cc:85 aborts the process.
  * The closure lands in the next batch. The connection was freed when the
    batch holding `connectDestroyed` ended, so the closure uses a freed
    object.

Mutants:

* `sendInLoop` writing directly even when bytes are queued breaks
  `WireInSendOrder`.
* `doPendingFunctors` copying instead of swapping breaks `CloseOnce`.
* `handleClose` without queueing `connectDestroyed` breaks
  `CloseHandlerUnreached`.
* `connectDestroyed` without `removeChannel` breaks `PeerCloseDestroys`.
* `shutdownInLoop` ignoring `isWriting` breaks `DrainOnHalfClose`.

A related observation: removing `disableAll` from `handleClose` breaks
nothing on a single loop, because `connectDestroyed` always follows in the
same iteration.

### EventLoop.tla (with MCEventLoop.tla) and TaskQueue.tla

`TaskQueue.tla` is the abstract promise of spec section 4: closures queued
for a loop run one at a time, in queue order, each once, and every queued
closure runs unless the loop stops first. It has a FIFO `queue`, a `stopped`
flag, and weak fairness on `Run`.

`EventLoop.tla` models `EventLoop` as `EventLoopThread` runs it. There are
four kinds of actor:

* The owner thread:
  * `OwnerStartLoop` creates the thread.
  * `OwnerGotLoop` is the cond-var wait for `loop_`.
  * `OwnerDestroy` is `~EventLoopThread`: it calls `quit()`, then starts to
    join.
  * `OwnerJoined` is the join returning.
* The loop thread:
  * `Publish` is `threadFunc` setting `loop_`.
  * `StartLoop` sets `looping_` and resets `quit_`.
  * `Check` is `while (!quit_)`.
  * `Poll` returns when the eventfd or the other channel is ready.
    `PollTimeout` is the 10 s timeout, which gets no fairness.
  * `Dispatch` is the wakeup `handleRead` plus the other channel's handler,
    which may queue a closure without a wakeup.
  * `Swap` sets `calling_pending_functors_` and swaps the queue out.
  * `RunFunctor` takes a closure, and `FunctorBody` runs it. A body may queue
    a closure (with the wakeup that `calling_pending_functors_` triggers),
    call `quit()` on the loop thread, or do neither.
  * `FunctorsDone` ends the batch.
  * `ThreadExit` is `threadFunc` returning, which destroys the stack
    `EventLoop`.
* Two producer threads:
  * `ProducerPush` is the push under the mutex.
  * `ProducerWake` is the `wakeup()` after the mutex is released.
  * `ProducerQuit` is a `quit()` from another thread.
* The kernel: `IoReady`.

The refinement mapping maps `queue` to the rest of the swapped vector
followed by `pending_functors_`, and maps `stopped` to "the loop left
`startLoop`".

Fairness: weak fairness on the loop thread's steps except the timeout, on
the owner waking from the cond var and from `join`, and on a producer
finishing its `queueInLoop` call. Progress therefore never relies on the
10 s timeout, which is what the wakeup eventfd exists to avoid.

Runs (2 producers, up to 4 closures, 2 readiness events of the other
channel):

* `event_loop` (`EventLoop.cfg`, pass, ~25k states) checks:
  * `TaskQueueSpec`: the refinement, including its liveness.
  * `NoSleepWithWork`: the loop never sleeps in `poll` with closures queued
    unless the eventfd is readable or a producer is about to write it.
  * `QuitAfterStartStops`: a `quit()` from any thread, made while looping,
    stops the loop.
  * `CHECK_DEADLOCK FALSE`: the system ends once the owner has joined.
* `event_loop_join_hang` (violation, `JoinReturns`). The owner gets `loop_`
  and its destructor runs `quit()` before the loop thread reaches
  `startLoop`. `startLoop` then sets `quit_ = false`, and the loop runs
  forever on poll timeouts while the owner waits in `join`.
* `event_loop_dead_quit` (violation, `NoQuitOnDeadLoop`). A producer quits
  the loop, and `threadFunc` returns and destroys the `EventLoop`.
  `~EventLoopThread` then calls `quit()` through the dangling `loop_`.

Mutants:

* `queueInLoop` waking only for foreign threads breaks `TaskQueueSpec`: a
  closure queued by a closure waits for the timeout.
* `doPendingFunctors` not setting `calling_pending_functors_` breaks
  `NoSleepWithWork`.
* `quit()` without `wakeup()` breaks `QuitAfterStartStops`.

### Poller.tla (library of TcpServer.tla)

Poller.tla has no run of its own. TcpServer.tla instantiates it
(`P == INSTANCE Poller`) and shares its variables, so every channel of the
server goes through the Poller's own operators.

The state is the Poller's `pollfds_`, a sequence of `[fd, events]` slots
where a disabled slot holds `-fd-1`, and its `channels_`, a function from
fd to channel or `NoChan`. It also holds each Channel object's `fd_`,
`events_` and `index_`. A channel object is `unborn`, `live` or `dead`
(destroyed after removal). `assertFailed` records that one of the asserts of
`updateChannel` or `removeChannel` failed. The build has no `NDEBUG`, so a
failed assert aborts the process, and every action is disabled afterwards.

* `updateChannel(c, e)` is `Poller::updateChannel`. A channel with
  `index_ < 0` appends a slot and enters `channels_`. Any other channel
  rewrites its slot, negating the fd when the events are 0. The asserts of
  both branches are kept.
* `removeChannel(c)` is `Poller::removeChannel`, with all its asserts. It
  erases from `channels_`, swaps the last slot into the freed one, and sets
  the moved channel's `index_`, first turning a negated fd back into the
  real one. Then it pops the last slot.
* `IndexConsistent` and `PollerAssertsHold` are its invariants:
  `channels_` and `pollfds_` describe the same registrations, each
  registered channel's `index_` names its own slot, and no assert fails.
  TcpServer's `PollerHealthy` checks both.

### TcpServer.tla (with MCTcpServer.tla)

TcpServer.tla composes the server's loop, its Poller, the Acceptor, the
EventLoopThreadPool and the TcpConnection objects of the echo server
(`tests/echo.cc`). Peers connect, send data, and close.

State and how it matches the code:

* `cstate`, `cname` and `connLoop` hold each connection's `state_`, the id
  in its `name_`, and the loop `getNextLoop` gave it.
* `connMap` is `connections_`, keyed by id. `nextId` is `next_conn_id_`,
  taken modulo `2^IdBits`.
* `pending` holds the queued `connectDestroyed` closures.
* `poolStarted` and `nextLoop` are the pool's `started_` and `next_`.
* `backlog` is the kernel's listen queue.
* Data is counted in units. A unit is named by its place in what its
  peer sent: 1, 2, and so on. `sentTo` is how many units each peer has
  sent. `recvQ` is how many of the last ones the server has not read yet
  (`RecvUnits` names them). `output` is the sequence of units in the
  connection's `output_buffer_`. `written` is the sequence of units
  written back, in the order written. `revents` is what the last poll
  reported per slot. `sent` bounds the sends of all peers together.
  When the loop writes correctly, the names follow from the counters, so
  naming the units adds few states.
* Destroying a connection (`Forget`) drops its buffer, its unread socket
  data and its stream counters. The stream with a peer that closed is
  over, and forgetting it lets such states merge.
* `lphase` and `cur` say where the loop thread is: `start`, `poll`,
  `dispatch`, `establish` (`connectEstablished` through `runInLoop`),
  `functors`, or `remove` (the `removeChannel` of `connectDestroyed`).
* A connection object is destroyed when no `shared_ptr` holds it any more:
  `connections_`, a queued closure, or the one running. Destruction
  (`Released`) closes its fd, and accept reuses the lowest free fd.

Actions:

* `Start` is `TcpServer::start` called from main before the loop. It runs
  `listen` (`Acceptor::listen`): `listenning_`, then `enableReading` on the
  Acceptor's channel. The Channel calls that change a mask
  (`enableReading`, `enableWriting`, `disableWriting`, `disableAll`,
  `isWriting`) are operators on `ev`. The `update()` each of them ends with
  is the action's `P!updateChannel`.
* `Poll` is the level-triggered readiness of every enabled slot: POLLIN
  when data or EOF is waiting, POLLOUT while writing is asked for. A slot
  whose fd is closed reports POLLNVAL.
* `Accept` is `Acceptor::handleRead` with `TcpServer::newConnection`.
* `AcceptFailed` is `Acceptor::handleRead` when accept fails with EMFILE.
* `Establish` is `connectEstablished`.
* `ConnEvent` is `Channel::handleEvent` for a connection: `handleRead`
  (`readFd`, then `onMessage`, which `send`s the data back through
  `sendInLoop`: a direct `write` of any length, but only when nothing is
  buffered and writing is off, with the rest buffered and writing
  enabled), then `handleWrite` (a partial or full write, writing
  disabled once the buffer drains). Once the peer has closed, a write may
  also fail (`WriteFails`: EPIPE, as SIGPIPE is ignored). A failed write
  only logs, and leaves the buffer and POLLOUT as they were. A read of 0 is `handleClose`, then
  `removeConnectionInLoop`.
* `RunConnectDestroyed` and `RemoveConnChannel` split `connectDestroyed`.
* A failed assert aborts the process, and no step follows it.

Fairness: weak fairness on the loop thread's steps (`WF_vars(LoopStep)`).
The loop thread never blocks except in `poll`, which returns as soon as a
slot is ready, so whenever it has a step it takes one. The peers never
have to connect, send or close.

Run `tcp_server` (`TcpServer.cfg`, pass, ~111k states in about 1 minute)
uses three connection objects, fds 0..2 with 0 listening, so at most two
connections are open and the third meets EMFILE first and then reuses a
freed fd. `IdBits = 2` so no id wraps, `ThreadsNum = 0`, and `MaxSends = 2`
so an echo can be written partly, buffered, and drained. It checks:

* `MapTracksOpenConnections`: each open connection is in `connections_`
  under its own name, or else its `connectDestroyed` is queued or running.
  It is never in both, and never in neither.
* `PollerHealthy`: the Poller's invariants hold, and no assert of the
  Poller, TcpServer or TcpConnection fails.
* `WritingIffPending`: an open connection asks for POLLOUT exactly while
  its output buffer holds data.
* `ClosedConnectionReleased` (liveness): a connection whose peer closed is
  eventually destroyed.
* `EchoDrains` (liveness): buffered echo data is eventually written,
  unless the connection is destroyed first.
* `EchoSpec` (refinement): TcpServer implements Echo.tla. Every peer gets
  back the units it sent, each exactly once and in the order sent. This
  holds across direct writes, partial writes, buffered rests, and POLLOUT
  reported in the same poll as a read. The refinement mapping takes the
  pending units to `output[c] \o RecvUnits(c)`, Echo's `closed` to
  `peerClosed`, and the rest one to one.
  `MaxSends = 2` is enough to order a unit behind a buffered one.
* Liveness checking of the form `P ~> Q` needs TLC's tableau, which made
  this run take minutes. Each leads-to here has a stable `P` and `Q`, or
  has `~P` imply `Q`, so it is stated as the equivalent
  `[]<>(~P \/ Q)`, which TLC checks directly.
* `BacklogServed` (liveness): a connection waiting in the backlog while an
  fd is free is accepted. After EMFILE the connection stays queued and poll
  keeps reporting the listening socket, so it is taken once an fd is freed.

Mutants:

* `removeConnectionInLoop` without the erase breaks
  `MapTracksOpenConnections`.
* A Poller removal that does not un-negate the moved fd, and so leaves its
  channel with a stale `index_`, breaks `PollerHealthy`.
* `handleWrite` that never disables writing breaks `WritingIffPending`.
* `handleClose` without the close callback breaks
  `ClosedConnectionReleased`.
* `sendInLoop` that buffers the rest without enabling writing breaks
  `EchoDrains`.
* `sendInLoop` that writes directly even while data is buffered breaks
  `EchoSpec`. The new unit overtakes the buffered one.
* `Acceptor::listen` without `enableReading` breaks `BacklogServed`.

Two defects of TcpServer are recorded as hazards, not runs:

* `next_conn_id_` is an `int` that wraps. A name reused while its first
  holder is open makes `connections_[name] = conn` destroy that connection
  with its Channel still in the Poller. The model keeps the width as
  `IdBits`. With `IdBits = 1`, TLC reaches this in three accepts: a gets
  #1, b gets #0, b closes, and c gets #1 and replaces a. The passing run
  uses `IdBits = 2`, where three connections over two fds never wrap onto
  an open name, so no run checks it. With the real 32-bit width it takes
  2^32 accepts while one connection stays open.
* `start()` never starts the pool, so `getNextLoop` always returns the
  server loop, whatever `setThreadsNum` was given (spec 4.6 says round
  robin).

### Echo.tla (the echo promise, checked through TcpServer.tla)

Echo.tla states what the echo server promises each peer, with no loop,
poller or buffer in it.
* Variables: per connection, `sentTo` (the units sent so far), `pending`
  (units sent and not written back, oldest first), `written` (the units
  written back, in order) and `closed`.
* `Send` appends the next unit.
* `Return(c, k)` moves the oldest `k` pending units to `written`.
* `Close` marks the peer closed.
* `Discard` tears down the stream of a closed peer with whatever it still
  held. This is the only way a unit is dropped.

It has no run of its own. `TcpServer.tla` instantiates it as `RoundTrip`
and checks `EchoSpec == RoundTrip!Spec` as a property.

### Buffer.tla (with MCBuffer.tla) and ByteStream.tla

`Buffer.tla` models `net/buffer.h` and `net/buffer.cc`. The state is
`buffer` (`buffer_`; sequence index i+1 holds `buffer_[i]`), `readerIndex`
and `writerIndex`. There is also `produced`, the number of bytes handed to
the buffer so far, and `assertFailed`. Each byte is named by the order in
which it was produced (1, 2, ...). A zero is a char that nobody wrote:
`vector::resize` fills with zeros.

The private methods are operators on a record `[buf, r, w, fail]`, so a
public method composes them as the code does:
* `append` is `ensureWritableBytes`, then copy, then `hasWritten`;
* `ensureWritableBytes` calls `makeSpace` only when the free tail is short,
  then checks its assert;
* `makeSpace` resizes to `writer_index_ + len`, or slides the readable
  bytes to `kCheapPrepend`. The slide asserts `kCheapPrepend <
  reader_index_`.

The actions are the public methods:
* `AppendData(len)`;
* `Retrieve(len)`, which also stands for `retrieveUntil`;
* `RetrieveAll`, which also stands for `retrieveAsString`;
* `Prepend(len)`, within its asserted precondition;
* `ReadFd(n)`: `readv` fills the writable tail first and then `extrabuf`.
  If `n <= writable`, only `writer_index_` moves. Otherwise it is set to
  `size()` and the rest is appended, which may resize or slide. A failed
  `readv` changes nothing but `errno`, so it is a stuttering step.

Callers respect `retrieve`'s precondition. TcpConnection retrieves what
`write` took of `readableBytes()`.

`ByteStream.tla` is the abstract promise. Its state is a byte string
`content` and the name of the producer's next byte. `Write(k)` adds the
next k bytes at the back, `Put(k)` adds them at the front, and
`Consume(k)` drops k from the front. The refinement mapping is
`content <- buffer_[reader_index_, writer_index_)` and
`next <- produced + 1`.

Run `buffer` (Buffer.cfg) uses `kCheapPrepend` 2, `kInitialSize` 2, an
`extrabuf` of 3, appends and prepends of 1..3 bytes, and 6 bytes in all.
It finds 6,261 states. These sizes make every branch happen:
* appends that fit, appends that grow the vector, and appends that slide
  over a gap a retrieve opened;
* reads below, at and above the writable tail, including spills whose
  append grows or slides.

It checks three properties:
* `TypeOK`, which includes `reader <= writer <= size`.
* `BufferAssertsHold`: neither makeSpace's slide assert nor
  ensureWritableBytes' final assert fails. The slide is taken only when
  the tail is short, so the front gap must exceed `kCheapPrepend`.
* `BufferSpec`: the refinement of `ByteStream`. No byte is lost,
  duplicated or reordered by a slide, a resize or a spilled read.

Mutants:
* `ReadFdOffByOne` treats `n == writable + 1` as fitting, which breaks
  `TypeOK`.
* `ensureWritableBytesAlways` calls makeSpace unconditionally, which breaks
  `BufferAssertsHold`.
* `makeSpaceNoCopy` resets the indices without moving the bytes, which
  breaks `BufferSpec`.

`shrink(reserve)` is left out: nothing calls it. It is wrong as written.
It copies the readable bytes to offset `kCheapPrepend` of a new vector but
keeps `reader_index_` and `writer_index_`, so afterwards the readable
range names the wrong bytes, or bytes past the end. This is recorded as a
hazard. `swap` has no caller either.

### BigInt.tla (with MCBigInt.tla)

`BigInt.tla` models `src/bigint/bigint.h` and `bigint.cpp`. The library
has no shared state, so its functions are operators on a value
`[sign, num]`, where `sign` is `sign_` and `num[i + 1]` is `num_[i]`
(least significant digit first).

* `FromInt` is `bigint(int)`: a do-while of C's truncating `%` and `/`
  (`CMod`, `CDiv`). `-INT_MIN` wraps to itself (`IntNeg`).
* `FromString` is `bigint(const std::string&)`. It keeps leading zeros and
  `"-0"`. `Throws` is its `invalid_argument`.
* `Eq` is `operator==`, and `Neg` is unary `operator-`.
* `LessSet` is `operator<`. Its digit loop moves `++i` from the top digit,
  so a tie on the top digit reads past the end of `num_`. That read is
  undefined behaviour, so the operator returns the set of possible answers
  (`BOOLEAN`). `GreaterSet` is `operator>`, written as `!(lhs < rhs)`.
* `AddSet` and `SubSet` are `operator+` and `operator-`. They call each
  other as the code does. `SubSet` may swap its operands after a
  `LessSet`, which can recurse without end when `<` answers wrongly.
  Nesting deeper than `MaxDepth` gives `Crash`, the stack overflow.
* `Carry`, `Borrow` and `Trim` are the digit loops. `Borrow` keeps
  `borrow = 1` once set, as the code does (line 193).
* `Mul` is `operator*`: the column sums (`Column`), then the carry loop.

A client holds bigint variables `reg` next to the integers `ref` they
should hold. Its actions are `Assign` (`x = n`), `Read` (`is >> x`),
`Arith` (`+`, `-`, `*`), `Negate` and `Compare` (`==`, `!=`, `<`, `>`);
`Ops` chooses which the client calls. `ResultsAgree` says every variable
holds its integer and the last comparison answered as the integers do.

Run `bigint_borrow` (`BigInt.cfg`, violation, `ResultsAgree`) takes
inputs 1 and 110 with `+`, `-` and `*`. TLC sets x = 1, y = 110, then
x = y - x. The borrow from the units digit is never reset, so the result
is digits `9, 0, 0` trimmed to `9`, where the integer is 109.

The other defects the model shows need only other constants in `BigInt.cfg`
(they are recorded as hazards, not runs, because each is a different
reading of the same invariant):

* `Inputs <- NegInputs` with `Ops = {"sub"}`: -3 - (-15) gives -12, since
  the difference of two negatives takes the wrong sign.
* `Ops = {"cmp"}`: `0 < 0` may answer TRUE (the read past the end).
* `IntBits = 8` with `Inputs <- IntMinInput`: `bigint(-128)` gives the
  digits `-8, -2, -1`.
* `Strings <- MCStrings` with `"read"` and `"cmp"`: `"007"` and `7`, or
  `"-0"` and `0`, compare unequal.

## 4. Not modelled (yet) and why

* Connector: only `connector.h` exists; with no implementation there is
  nothing to translate.
* Socket wrappers, InetAddress, Timestamp formatting: system calls and
  formatting; their results appear as nondeterministic inputs.
* Leaf utilities string, vector, Singleton, Condition and stopwatch: they
  are outside the reactor. `Mouse::vector::clear` deletes the array but
  keeps the pointers, and `string`'s `operator>>` reads an uninitialised
  char and leaks its buffer. Both are recorded as hazards. Modelling them
  would need a module of heap cells for one-line defects a reader sees at
  once.
* bigint: `operator<<` is formatting only, and `operator+=` is declared
  without a body.
* A wall-clock step between `Timestamp::now()` and the monotonic timerfd is
  not modelled: the model has one clock. A `ClockStepBack` action was
  tried in TimerQueue.tla. With the bounds that let Timer addresses be
  reused, the run went past 500k states and the five-minute limit, and a
  smaller instance loses the address reuse that the run is about.
* `Buffer::shrink` and `swap` have no caller (see the Buffer section).
* TcpServer: the wakeup and timer fds of the server loop, which hold two
  more fds for the loop's lifetime, are left out of the fd pool. The
  ECONNABORTED/EAGAIN accept failures are left out too: they take the same
  "return -1, do nothing" path as EMFILE. The pool's worker loops and the
  two-hop removal across loops are unreachable because `start()` never
  starts the pool.
