# tinyev: TLA+ models and proofs

tinyev is a small C++17 reactor library in the style of muduo: one event loop
per thread, an epoll set and a task queue per loop, TCP connections bound to a
loop, a thread pool for computations. The default CMake build is a release
build, so `assert()` is compiled out: the models follow the code without its
assertions. An assertion about the order of calls that the code keeps is part of
a property; those that it breaks are in section 5. Paths below are relative to
the repository; `EventLoop.cc:116` means `tinyev/EventLoop.cc`, line 116.

## 1. Inventory

| Component | State it keeps | Operations | Talks to |
|---|---|---|---|
| `EventLoop`, `EPoller` | `quit_`, `doingPendingTasks_`, `pendingTasks_` (under `mutex_`), the eventfd counter, `activeChannels_`, the epoll set | `loop`, `quit`, `runInLoop`, `queueInLoop`, `wakeup`, `doPendingTasks`, `handleRead`, `poll`, `updateChannel` | every component, by tasks and channel callbacks; other threads, by `mutex_` and the eventfd |
| `Channel` | `events_`, `revents_`, `polling`, `tie_` | `enable*`/`disable*`, `handleEvents`, `tie` | its loop's `EPoller`; its owner's callbacks |
| `TimerQueue`, `Timer` | the ordered set `timers_`, the timerfd | `addTimer`, `cancelTimer`, `handleRead`, `getExpired` | its loop; user callbacks that add and cancel timers |
| `EventLoopThread`, `CountDownLatch` | `loop_`, `started_`, the thread, `count_` | `startLoop`, `runInThread`, destructor, `count`, `wait` | its `EventLoop`, across threads |
| `ThreadPool` | `taskQueue_`, `running_`, two condition variables | `runTask`, `take`, `stop`, destructor | any thread; tasks |
| `TcpConnection` | `state_` (atomic exchange), `inputBuffer_`, `outputBuffer_`, the channel's flags, the socket | `send`, `shutdown`, `forceClose`, `stopRead`, `startRead` from any thread; `handleRead/Write/Close/Error` in the loop | its loop's task queue; the kernel socket; user callbacks; the owner's `closeCallback_` |
| `Buffer` | a vector and two indices | `append`, `retrieve*`, `prepend`, `readFd`, `makeSpace` | `TcpConnection`, codecs |
| `Acceptor` | the listening socket and its channel | `listen`, `handleRead` | `TcpServerSingle` |
| `TcpServerSingle`, `TcpServer` | the set of connections; the loops and threads | `newConnection`, `closeConnection`; `start`, `runInThread`, destructor | `Acceptor`, `TcpConnection`, several loops |
| `Connector`, `TcpClient` | the connecting socket's channel; the connection, the retry timer | `start`, `handleWrite`; `retry`, `newConnection`, `closeConnection` | `TimerQueue`, `TcpConnection` |
| `Logger`, `InetAddress`, `Timestamp` | none that another component reads | formatting and system calls | |
| examples | the k-th element bisection, N-queens distribution, external sort, echo/chargen/discard servers | | the library |

### What is hard here, and what makes each part correct

* **EventLoop.** `epoll_wait` has no timeout, so a task pushed by any thread at
  any moment must be accompanied by a write to the eventfd, except where the
  loop is sure to swap the vectors before it blocks (`EventLoop.cc:112-117`).
  Tasks run in push order across swaps; tasks that queue tasks do not starve the
  descriptors; `quit()` reaches a loop that is running.
* **EventLoopThread, TcpServer.** A loop lives on another thread's stack: it
  must be published before it is waited for, alive until the last call on it has
  ended, and a quit must not be lost. The code guarantees neither the last nor,
  of the `quit()` that ends the loop, what follows its store (section 5).
* **ThreadPool.** Two condition variables and `notify_one()`: no task or room
  overlooked, bounded FIFO, `stop()` without a lost notification.
* **TcpConnection.** Bytes leave in the order `sendInLoop` handled them, whole,
  through partial writes; the write side is shut down after what was sent
  before; the connection is closed once and is not polled afterwards; a foreign
  thread's `shutdown()`/`forceClose()` races the loop's `handleClose()`, and then
  the connection does not stay closed (section 5).
* **TimerQueue.** The timerfd is armed whenever a timer waits; callbacks add and
  cancel timers while the expired batch is being run.
* **Buffer.** Indices stay ordered and contents survive compaction and growth.
* **Connector, TcpClient.** Ownership: a channel or object replaced while the
  loop still holds a pointer to it; failed connects; retry.
* **Acceptor, TcpServerSingle, TcpServer.** Each thread's server comes to accept
  and is taken down with its loop; a client waits out a lack of descriptors; the
  end of a connection is told to the user wherever it happens.
* **K-th element.** The bisection never drops the element it looks for, with
  counts added up by several threads and several servers, any of which may be
  lost at any time. **N queens.** Each sub-problem is given out and counted once.
  Both clients talk to all servers or end: one connection that fails shuts the
  others down one after the other (`KthClient.cc:70`, `NQueenClient.cc:72`).

`PROJECT.json` lists each hazard at its line with the properties that cover it.

## 2. Plan

Order: what every other part relies on first, then what holds state across
threads, then what holds data, then ownership.

| Module | Models | Builds on | State |
|---|---|---|---|
| `TaskQueue` | what a loop promises about tasks | | done |
| `EventLoop` | loop, tasks, eventfd | implements `TaskQueue` | done, proved |
| `EventLoopThread` | the thread around a loop | extends `EventLoop` | done, proved |
| `WorkQueue` | what a pool promises | | done |
| `ThreadPool` | the pool | implements `WorkQueue` | done, proved |
| `ByteStream` | what a connection promises about bytes | | done |
| `TcpConnection` | connection, channel, socket | implements `ByteStream`; takes the loop as a `TaskQueue` | done, proved |
| `TimerService` | what a loop promises about timers | | done |
| `TimerQueue` | timers, timerfd, clocks | implements `TimerService` | done, proved |
| `Buffer` | the byte buffer | | done, proved |
| `TcpClient` | connectors, retry timer, connection, the channels a loop iteration still holds | the ends of `TcpConnection`, a timer of `TimerService` | done, proved |
| `TcpServer` | start, publication of the loops, destructor; acceptors, descriptors, sets of connections | `EventLoopThread`'s protocol, the ends of `TcpConnection` | done, proved |
| `Fleet` | what the two distributed examples' clients share: several `TcpClient`s, FIFO connections, losses, the rule that ends the client | what `TcpClient` and `ByteStream` promise | done |
| `KthElement` | the bisection | extends `Fleet` | done, proved |
| `NQueen` | the distribution of sub-problems and their solution | extends `Fleet`; `ThreadPool` as a set of running tasks | done |

"Proved" is said of the safety properties of a module (section 6). What is left:
how `NQueen` gives its requests out, each once, apart from what the search
computes.

Runs are kept few, one for each component. Type invariants and the
strengthenings that are proved (`LoopInv`, `ConnectionInv`, `OrderInv`,
`SearchInv`, `ServerInv` and so on) were checked by TLC while they were sought, and no run
repeats them. The programs around a connection are members of one constant, `Uses`, so
that one run checks every property under each of them.

## 3. Modules and code

Every module names, in its header, the grain of its steps and its bounds;
`PROJECT.json` maps each definition to its lines. A definition `X_Fault` is `X`
with a plausible mistake (a dropped wakeup, a queue that is copied and not
swapped, a bound off by one); no specification uses it. Each property is
violated when one of them takes the place of its original.

* **`EventLoop`.** `pc` is the loop thread's place in `loop()` and
  `doPendingTasks()`; `pending` and `batch` are the two vectors, `eventfd` the
  counter, `active` what is left of `activeChannels_`, `early` marks the tasks
  the loop's thread queued before `loop()`. A foreign thread's `queueInLoop()`
  is the push under `mutex_` and then the write; `quit()` the store and then the
  write. `epoll_wait()` returns everything that is ready, or nothing on a
  signal.
* **`EventLoopThread`** extends it with the owner (`startLoop()`, the latch, the
  destructor) and the thread (`runInThread()`). The owner's `quit()` is the store
  and then the wakeup, and a thread that sees the first may destroy its loop
  before the second: the owner then uses an object that is gone, and is in the
  place `"undefined"`.
* **`ThreadPool`.** A critical section is one step, except that a worker that
  decided to wait holds `mutex` until it does, because `stop()` stores
  `running_` without the mutex. `notify_one()` chooses any waiter; spurious
  wakeups are steps.
* **`TcpConnection`.** `events`, `polling` and `revents` are the channel;
  `output`, `tasks`, `state` the connection; `sent`, `inflight`, `peer`,
  `sockErr` the socket. A handler or a task is one step, and the user callback
  it calls is a phase of its own (`user`), in which callbacks call `send()`,
  `shutdown()` and so on. A foreign thread's `forceClose()` is three steps: the
  test, the exchange, the queueing. A task is what `EventLoop` is proved to run:
  once, in order, on the loop. `RunTimer` is user code on the loop that no event
  of the connection calls, such as `EchoServer::onTimeout()`; `Poll` may find its
  channel ahead of the connection's. `use` is the program around the connection:
  what its callbacks, a timer and its threads call, and how its peer may end.
* **`TimerQueue`.** `timers` is the ordered set, `object` the heap's `Timer`
  objects at addresses that are used again, `batch` the expired vector.
  `handleRead()` is cut around the callbacks, which add and cancel. The system
  clock may be set; the timerfd counts on its own. The expired timers are run in
  the order they have in the set, by time and then address (`InOrder`).
* **`TcpClient`.** A `Connector` and a `TcpConnection` are named by their
  descriptor; `socket` is the kernel's state of it, `epoll` whose channel is in
  the epoll set under it. `active` is what is left of `activeChannels_`, in any
  order, so that the answer, the retry timer and the end of the connection meet
  in one iteration. Where the code uses an object that is gone, the behaviour
  ends in the place `"undefined"` (section 5).
* **`TcpServer`.** Server 0 is the base server, the others live on their
  threads' stacks. `main` and `index` are the base thread's place in
  `startInLoop()` and `~TcpServer`, `place` each thread's in `runInThread()`,
  `eventLoops` the published pointers; the wait on the condition variable is cut
  between the test and the sleep, and `quit()` between the store (`QuitLoop`) and
  the wakeup (`WakeLoop`), with `"undefined"` as above. A handler of a loop is one
  step. `link` follows a
  client from the kernel's `backlog` to `connections`, and `Open` is whatever is
  still referred to, by the set or by the user (`kept`, for instance
  `EchoServer`'s expiry map): a descriptor is given back when the last reference
  goes.
* **`Fleet`, `KthElement`, `NQueen`.** `conn` is each `TcpClient` with its
  connection, `srv` the server's end, `toClient` and `toServer` the messages in
  flight, as the records that the codecs print and parse. A server may refuse,
  be slow enough for a retry, or be lost, and with it whatever it had sent.
  A client that quits its loop a second time in the same iteration is in the
  place `"again"` (section 5). In `KthElement` a server's I/O loop waits (`asked`, `toCount`) while its
  workers count one after the other; in `NQueen` its pool answers in any order.
  The search of `NQueen` is the code's, bit masks as sets of their bits.
* **`Buffer`.** A buffer is a record (size, two indices, memory); each member
  function is an operator; the specification calls them in any order, takes
  lines as the codecs do, and keeps, as a history, the bytes that ought to be in
  it.

## 4. Runs

| Run | Instance | Shows |
|---|---|---|
| `event_loop` | 2 threads, 3 tasks, 1 channel, eventfd limit 2 | no wakeup is lost, tasks run once in push order, every task runs, `quit()` ends a running loop, channels are not starved |
| `loop_thread` | owner and a user, 2 tasks | `startLoop()` returns, and the loop it gives is there for its user's calls to their end and for the destructor's `quit()` up to its store; the destructor joins once the loop was entered, or its wakeup came to a loop that is gone |
| `loop_thread_lost_quit` | the same, 1 task | violation, section 5 |
| `thread_pool` | 3 workers, 2 producers, 4 tasks, room for 2 | bounded FIFO; no task or room overlooked; tasks run and `stop()` returns |
| `tcp_connection` | 2 messages of 2 bytes, kernel room 3, 2 threads; six programs: callbacks that do everything with a peer that ends in any way, a timer that closes, threads that send, shut down and close, a callback that starts to read without looking, a thread that stops and starts reading, two threads and a peer that end the connection at once | order of bytes, closed for good where one closer is alone, write event armed exactly when needed; `shutdown()` and `forceClose()` take effect, output drains, a reset closes |
| `tcp_connection_flush` | one thread | violation, section 5 |
| `timer_queue` | 2 addresses, time to 2, intervals 0 and 1, another thread's calls, one clock step | armed in time, no dangling entry, timers run when due |
| `tcp_client` | 2 descriptors, used again by later attempts | each descriptor closed by one owner, epoll set of live channels, one connection, a client connects in the end |
| `tcp_server` | 3 loops, 2 clients, 1 descriptor for their connections | every thread comes to accept, the destructor joins the threads that entered their loops (or ends in a wakeup of a loop that is gone), clients wait out a lack of descriptors, ends are told; a loop that is about to be quit is there, every client is queued once or connected once |
| `kth_element` | 3 servers of 2 workers, 5 numbers with one on two servers, the median and an element past the last | the element stays in the interval, the interval halves, the client ends |
| `nqueen` | boards of 1, 2, 4 and 5 queens, 2 servers, one with 2 cores on board 4 | the sum of the answers is the number of solutions, the client ends |
| `buffer` | 2 byte values that end a line together, a vector that grows from 4 to 8 bytes | contents kept through compaction, growth, reads in two parts and lines taken |

**Why the bounds are enough.** Two foreign threads and three tasks let one task
be in the vector being run, one in the other and one about to be pushed while a
thread stands between its push and its write; an eventfd limit of two reaches
the full counter. Three workers and two producers on a queue of two give a
waiter that is woken, one that overtakes it and one that sleeps on; the run's
tasks submit nothing, because workers that do may all block on a full queue,
which is how the code is, while the proofs hold for those too. Messages of two
bytes with kernel room for three split every way `write()` can split them, and
two of them put one in the kernel or the buffer and one in a task or a call.
A client needs a second descriptor only while one connector replaces another.
Two timers give a first and a later one, each able to take the other's address.
Three loops are the base loop and two threads that it starts and joins in turn
with one condition variable; one descriptor for two clients makes every second
`accept4()` fail. Three servers leave two to be shut down one after the other
when one is lost; a number on two servers, and a `kth` past the end, are the
bisection's corners. A board of one queen is a single request, of four an even
board with its mirror images only, of five the first odd one with solutions
both with and without a queen in the middle column.
A vector of four that grows to eight compacts and grows in the same behaviour.
The proofs remove these bounds where they apply (section 6).

**Fairness.** A thread that can take a step does (the scheduler), a call that
began ends, a notified thread gets a mutex that is free again and again (strong
fairness), a callback and a task return, a live peer reads, time passes. Nothing
obliges a user to call, a peer to send or end, a signal to arrive, or a stop to
come. `TcpConnection` and `TimerQueue` assume of the loop that it handles ready
channels and runs tasks: `IoNotStarved` and `EveryTaskRuns` of `event_loop`.
Timers that are due all the time do not keep `TcpConnection`'s loop from this,
because every iteration polls, so that its fairness is strong. `TcpClient`
assumes that again and again an attempt is answered before its retry is due;
`Connects` adds that refusals end and that no iteration lasts as long as the
retry interval. `TcpServer`'s user destroys it once the base loop has
returned and drops its references; `Served` is stated for connections that end.
In `Fleet` an attempt is in the end answered or, after a refusal, retried with
success, and nothing obliges a server to stay: the clients' ends are shown with
and without losses.

**What does not stop.** All specifications switch the deadlock check off: a loop
that returned, a pool that stopped, a connection that closed, a server that was
destroyed, a client whose process ended do nothing more.
The liveness properties say that nothing stops earlier.

## 5. Disagreements between code and documentation

* **A lost quit** (`loop_thread_lost_quit`). `EventLoop.h:28` calls `quit()`
  thread safe. `loop()` begins with `quit_ = false` (`EventLoop.cc:71`), so a
  `quit()` after the loop is published and before it is entered is erased, and
  the destructor that called it joins for ever. `TcpServer` has the same order
  (`TcpServer.cc:89` and `95`), and only the destructor quits its loops, so
  that a base loop that ends early enough leaves it joining for ever.
  `JoinReturnsOnceLooping` and, for `TcpServer`, `AllJoined` are the part that
  holds.
* **Shutdown overtakes a send** (`tcp_connection_flush`). A foreign thread that
  sends and then calls `shutdown()`, as `EchoClient.cc` does, changes `state_`
  at once, while the message waits as a task; a `handleWrite()` that empties the
  buffer meanwhile shuts the write side down and the message is lost.

Two have a run that ends in the violation, above. The models reach the following
ones too, where no passing property claims more than the code keeps:

* **A wakeup of a loop that is gone.** `quit()` stores `quit_` and then uses the
  loop (`EventLoop.cc:85-87`), although the store lets the loop's thread leave
  `loop()` and end the stack frame the loop is in: a `quit()` by another thread
  may write to an eventfd that is closed, against `EventLoop.h:28`. It is the
  other way in which `loop_thread_lost_quit` fails (`UserWakes`, `AfterUse`), and
  `TcpServer`'s `WakeLoop`. `LoopOutlivesUsers` and `ClientsAndLoopsHeld` end at
  that store, and `JoinReturnsOnceLooping` and `AllJoined` name the outcome.
* **A connection that opens again.** A foreign thread's `forceClose()` tests
  `state_` and then exchanges it: the `kDisconnected` of a `handleClose()` in
  between is overwritten (`ThreadForceClose`, `ThreadExchange`; likewise
  `shutdown()`, as in `EchoClient.cc`), against the assertion at
  `TcpConnection.cc:70`. A `forceClose()` after that closes it a second time and
  calls `closeCallback_` again, against `TcpServerSingle.cc:47`; a `startRead()`
  puts its channel back in the epoll set. `Racing` is such a program, of which
  `ClosedForGood` says only how the connection is until it is closed.
* **Reading after the close.** A write-complete callback that runs after the
  close and calls `startRead()` without looking at the state (`EchoServer.cc:79`)
  puts a removed channel back into the epoll set. `handleRead()` then runs on a
  closed connection, against `TcpConnection.cc:243`, and at the end of the stream
  `handleClose()` does, against `TcpConnection.cc:287`. `Careless` is such a
  program; of programs that are not `Careful`, `ClosedForGood` says only that the
  state stays `kDisconnected`.
* **A second quit.** `EventLoop.cc:84` asserts that a loop is not quit twice. Two
  first attempts of the k-th element or the N queens client that are refused in
  one iteration do so, because each finds no connection left (`KthClient.cc:72-74`,
  `NQueenClient.cc:72-74`): `Fleet`'s `Quit` and its place `"again"`. So does
  `~EventLoopThread` to a loop that quit by itself. Without assertions the second
  call changes nothing.
* `TcpClient` has three places where what follows is undefined. A `connect()`
  that ends at once, as it does without a route, takes a channel out of the epoll
  set that is not in it, against `EPoller.cc:53`; leaves no `SO_ERROR`, so that a
  failure is handed on as a connection; and cancels a timer that is null in
  `start()` (`StartAtOnce`) or whose callback is running in `retry()`
  (`RetryAtOnce`). And `retry()` may destroy a connector whose answer is in the
  same iteration, after it (`ConnectorGone`). Outside the model: connectors made
  by `retry()` have no error callback, and a client whose connection has closed
  never connects again, because `connected_` stays set.
* `Acceptor::handleRead()` logs a failure of `accept4()` and calls its callback
  all the same (`Acceptor.cc:71-79`), with descriptor -1 and an address that was
  not written: without a descriptor left it makes a connection that is
  none (`phantom`), and does so in every iteration while the client waits. The
  client is served when a descriptor is given back (`Served`). A
  `TcpServerSingle` that is destroyed closes its connections without telling the
  user (`dropped` in `EndIsTold`).

## 6. Proofs

Checked by TLAPS, for all values of the constants that satisfy each module's
named assumption:

* **`EventLoop_proofs`.** `TypeCorrect`, `LoopInvariant`, `NoWakeupIsLost`,
  `LoopRefinesTaskQueue`. `NoLostWakeup` alone is not inductive: it speaks of
  `epoll_wait()`, while a task is pushed anywhere. `LoopInv` adds that a wakeup
  is promised wherever the loop will block before it swaps the vectors again,
  and ties `doingPendingTasks_` to the loop's place, which is what the test in
  `queueInLoop()` relies on. The same module proves, of `EventLoopThread`,
  `LoopInThread`, `ThreadTypeCorrect`, `LatchIsNotMissed` and
  `LoopIsThereForItsUsers`. Every step of the thread, its owner and its user is
  one of `EventLoop`'s or leaves the loop's variables alone, so that what is proved
  of a loop holds of it on its thread. `TogetherInv` ties the owner's place to the
  thread's: the latch opens after `loop_` is set, a waiter has its notification
  still to come, and `quit_` is the destructor's when nothing in the loop quits
  (`TaskQuits`); a loop that does quit itself may be gone before its owner looks.
  `LoopIsThereForItsUsers` covers a user's call to its end and the destructor's
  `quit()` to its store; the wakeup after it may come too late (section 5).
* **`ThreadPool_proofs`.** `TypeCorrect`, `MutexHeld`, `IsWorkQueue`,
  `RoomIsSeen`, `TasksAreSeen`. `PoolInv` adds to the types that a worker with a
  decision to wait holds the mutex over an empty queue and that a submitter has
  a task. The two notification theorems count: a push adds a task and a worker
  on its way, or nobody was waiting; a take makes room and wakes a submitter,
  or nobody was blocked. They show one `notify_one()` enough for any number of
  threads, spurious wakeups included.
* **`Buffer_proofs`.** `TypeCorrect`, `ContentsAreKept`, `BytesMoveDown`,
  `HeaderFits`. A lemma for each member function says what it makes of the
  contents; `BufferInv` is their conjunction with the resting place of an empty
  buffer. The assumption is only that sizes are naturals.

* **`TcpClient_proofs`.** `TypeCorrect`, `DescriptorsAreOwned`,
  `LiveChannelsAreWatched`, `RetriesEnd`, for any number of descriptors. The
  invariants need `Linked`: what an event in `activeChannels_` still says of its
  object after the handlers before it, above all that a connector reported
  together with the timer is the present one until the timer's turn.
* **`TimerQueue_proofs`.** `TypeCorrect`, `TimerfdArmedInTime`,
  `EveryTimerInOnePlace`, `ServiceImplemented`, for any number of timers and any
  times. `QueueInv` says that an entry is under its timer's due time and that a
  timer is in exactly one of the set, the batch that `handleRead()` works on (all
  of it due) and a task that will add it (`Placed`); that the calls which wait are
  about existing timers, each added before it is canceled and neither twice, and
  that nobody else may cancel a timer that a task cancels (`CallsInOrder`); and
  that between two handlers the timerfd expires before any entry is due (`Armed`,
  unless the clock was set).
  Refinement maps a timer that is to be added and one that is in the batch
  to what the service promised, and each step to one of the service's or none.
* **`TcpConnection_proofs`.** `TypeCorrect`, `WriteEventArmed`, `ClosesOnce`,
  `StreamImplemented`, for any threads, messages and kernel room. `ClosesOnce`
  is about every program: `Unclosed` is an invariant of all of them, because only
  `handleClose()` stores `kDisconnected`; what it says of a closed connection
  is for a lone closer. `ConnectionInv` adds to the
  types that nothing happens before `connectEstablished()` (`Fresh`), that the
  write event is watched while bytes wait and urgent data always, so that the
  channel stays in the epoll set (`Wired`), that after the close no event that
  reads or closes is left over (`Watched`), that the state tells whether the
  connection was closed (`Told`), and where a foreign thread that ends the
  connection is (`Ending`).
  `SenderOrderKept` is proved on top of them: a message is followed from
  `send()` through the call, the loop's task, the output buffer and the kernel:
  `OrderInv` says that it is in one of these places, once, that it is taken up
  whole, and that the earlier messages of its sender are further on. Every step
  is one of five kinds (nothing moves, a task is run, the loop sends, a thread's
  message is accepted, it is queued), and each kind keeps the invariant.
* **`TcpServer_proofs`.** `TypeCorrect`, `ClientsAndLoopsAreHeld`,
  `NotificationIsAhead`, for any number of threads, clients and descriptors.
  `ServerInv` says that a loop is published exactly while it may be used
  (`Published`), that the threads are created in turn, each published before the
  next (`StartsInTurn`), that nobody but the destructor quits them, each once
  (`QuitsInTurn`), and that a socket listens and a connection lives only on a
  server that exists (`ServesWhileThere`). That `~TcpServer` may use a pointer it
  read without the mutex, up to the store of `quit()`, follows from the third: a
  loop that nobody has quit does not end. Of the wakeup after the store it does
  not (section 5). A step that concerns no client is kept apart from those that do, and
  the clients' part, `HeldOnce`, is kept by each of the latter by what it does to
  one backlog or one set.
* **`KthElement_proofs`.** `TypeCorrect`, `ElementStaysInRange`,
  `IntervalHalves`, for any servers, workers and numbers. `SearchInv` says how
  far each server is in the round: quiet, asked, counting or answered for the
  present guess, so that no count of another guess is ever added; that the sums
  are those of the servers that answered; and that the element is in the
  interval. The counts are the cardinalities of sets of places, which are added
  up one worker and one server at a time; that the element exists is the least
  guess that enough numbers do not exceed. Finite sets have first elements
  because strict inclusion is well founded on them, and 2^(n+1) = 2 * 2^n
  because a set with one element more has twice the subsets: both are proved here
  from the library's facts without an induction. Numbers are unbounded integers;
  those of `KthServer` are below `INT32_MAX`, so that the code's sums do not
  overflow.

**The assumption about closers.** A program has a `LoneCloser` if, when a foreign
thread calls `shutdown()` or `forceClose()`, nobody else ends the connection. The
theorems about `TcpConnection`, except `ClosesOnce`, assume it of all programs
(`OneCloser`), and `ClosesOnce` makes it a hypothesis of what it says of a closed
connection. The code needs it: both calls store `kDisconnecting` whatever `state_`
was (`TcpConnection.cc:182`, `204`), so that one that comes after a
`handleClose()` opens the connection again (section 5). TLC evaluates on each run
that `Racing` is the only program of `MCTcpConnection` without a lone closer.
`Racing` sends nothing: what a connection that was opened again would do with its
bytes is not stated.

Only model-checked: all liveness (under fairness, out of this prover's reach),
which for `EventLoopThread` and `TcpServer` is what they are about: of the
handshakes, the proofs show that a sleeper has a notification to come, the runs
that the start and the joins end. And `NQueen`: its search is written with
RECURSIVE operators, as the code is, and what a recursion computes for every
board is out of this prover's reach, as is a sum over a set of any size.

## 7. Not modelled

`Logger` and `InetAddress` format and wrap system calls. The external sort
(`example/sort`) is one thread on files: sorted blocks and a merge with a heap,
both the standard library's algorithms, with nothing that runs beside them.

Of the modelled parts: when a `TcpConnection` is destroyed (`stopRead()` and
`startRead()` capture a raw `this`, so that their tasks may come after it),
out-of-band data, names and addresses; `TimerQueue`'s destructor; the errors of
`accept4()` that end the process (`FATAL`, `Acceptor.cc:81-82`: anything but
`ECONNABORTED` and `EMFILE`, so `ENFILE`, `ENOBUFS` and `ENOMEM` too); in
`TcpServer` the kernel's choice between the sockets of one address, which is
any; in `Fleet` the connects that end at once, which `TcpClient` has; the parse
errors of the codecs, whose peers send well-formed lines; the random numbers and
the logged sum of `KthServer`; the times in `EchoServer`'s map; `Buffer`'s
`swap()`, which nothing calls, its byte order and its integer widths, as lengths
stay far below 2^64.
