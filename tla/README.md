# A verification project for LearnForCpp

LearnForCpp is a learning project in C++: a reactor network library in the style of muduo
(`reactor/`), thread utilities (`thread/`), a logging library (`logging/`), a time stamp
(`timestamp/`) and example programs (`example/`). Most of the library's own logic, and most of what is
hard to test in it, is in the reactor: one event loop per thread, other threads that hand it work, and
objects whose lifetime is decided by callbacks. The modules here model the reactor, server and client,
the queues and the mutex of `thread/`, and logging in TLA+, check them with TLC on small instances, and
prove all of the invariants, and the action properties and refinements, with TLAPS for all values of the
constants; what is about fairness stays with TLC.

## 1. The system

| Component | State | Operations | Interacts with |
|---|---|---|---|
| `EventLoop` | `quit_`, `callingdoPendingFunctions_`, eventfd, `channellist_`, `pendingFunctors_` | `loop`, `runInLoop`, `queueInLoop`, `wakeup`, `quit`, `handleRead`, `doPendingFunctions` | every thread calls it; it calls channels and functors |
| `EventLoopThread` | `loop_`, mutex and condition variable, the thread | `startLoop`, `ThreadFunc`, destructor | owns a loop on the stack of its thread |
| `EventLoopThreadPool` | `loops_`, `next_` | `start`, `getNextLoop` | gives `TcpServer` the loop of a connection |
| `Channel`, `Epoller` | `events_`, `registeredInEpoller_`; map descriptor -> channel | `enable*`, `disable*`, `handleEvent`; `epollAdd/Mod/Del`, `epoll` | the kernel's interest list |
| `TimerQueue`, `Timer` | `timerlist_`, timerfd, expirations | `addTimer`, `addTimerInLoop`, `handleRead`, `reset`, `restart` | loop, clock |
| `Buffer` | vector and two indices | `append`, `retrieve*`, `prepend`, `ensureWritableBytes`, `readFd`, `shrink`, `swap` | input and output of a connection |
| `TcpConnection` | `state_`, channel, socket, buffers | `send`, `shutdown`, `connectEstablished`, `connectDestoryed`, `handleRead/Write/Close/Error` | loop, server, application callbacks, other threads |
| `TcpServer`, `Acceptor` | `connections_`, `nextConnfd_`, `listenning_` | `start`, `newConnection`, `removeConnection(InLoop)`, `Acceptor::handleRead` | loop, pool, connections |
| `Connector`, `TcpClient` | connector state, retry delay and timer, connection | `connect`, `retry`, `stop`, `disconnect`, `newConnection`, destructor | loop, timers, connection |
| `thread/` | pools, bounded and two-lock queues, stack, lookup table, hierarchical mutex | put/take, push/pop, lock/unlock | threads |
| `logging/` | log file with roll-over, fixed buffers | `append`, `flush`, `rollFile`, formatting | any thread |

What is hard here: functors that cross threads and the wakeup that goes with them; flags written by one
thread and tested by another (`quit_`, `state_`, `callingdoPendingFunctions_`); a loop object on another
thread's stack; descriptors reused by the kernel while a map still knows them; partial writes against
sends and shutdowns in between; destruction from inside a callback; index arithmetic on unsigned sizes;
a countdown on one clock for times on another; retry timers that outlive what they retry; notifications
sent outside the mutex of the waiters; files rolled and flushed by several threads on a clock that is set.
`PROJECT.json` lists these hazards at their lines, with
the properties that cover them.

What makes each component correct, in a sentence: `EventLoop` calls every functor once, in the order of
the pushes, and sleeps on nothing it should be awake for; `EventLoopThread` returns a loop that exists
and can be stopped; `Epoller`'s map agrees with the kernel and with the channels; `TimerQueue` is armed
for its earliest timer whenever the loop polls; `Buffer` is a byte queue; `TcpConnection` writes what
was sent, in order, and all of it before the FIN; `TcpServer` tells the application of each connection
once up and once down and then destroys it; `TcpClient` makes one attempt at a time, closes every socket
once, goes on trying until it is connected or stopped, and then rests; the queues are first-in first-out
and leave nobody waiting; the hierarchical mutex refuses whatever is not below what a thread holds, so
that no deadlock arises; the log reads in order, is rolled and flushed in time, and has the last line of
a program that aborts.

## 2. The modules

| Module | Models | Composition |
|---|---|---|
| `EventLoop` | `reactor/EventLoop` | |
| `EventLoopThread` | `reactor/EventLoopThread`, with the start and join of `thread/Thread` | extends `EventLoop` |
| `ByteQueue` | the abstract specification of a buffer | |
| `Buffer` | `reactor/Buffer` | implements `ByteQueue` |
| `TimerQueue`, `MCTimerQueue` | `reactor/TimerQueue`, `Timer` | |
| `Epoller` | `reactor/Epoller`, registration in `Channel` | operators only |
| `TcpConnection` | `reactor/TcpConnection`, dispatch in `Channel`, `Socket` | extends `Epoller`; actions of one connection |
| `TcpServer` | `reactor/TcpServer`, `Acceptor`, the loop's iteration | extends `TcpConnection`; the complete state machine |
| `TcpClient` | `reactor/TcpClient`, `Connector` | the complete state machine, with its own short loop and connection |
| `HierarchicalMutex`, `MCHierarchicalMutex` | `thread/hieraarchical_mutex.cc` | |
| `Fifo` | the abstract specification of a queue between threads | implemented by `ThreadsafeQueue` and, as proved in `EventLoopProofs`, by the functors of `EventLoop` |
| `ThreadsafeQueue` | `threadsafer_queue` and `threadsafe_queue_version_2` of `thread/threadsafe_queue.cc`, `thread/BlockingQueue.cc` | implements `Fifo` |
| `LoggingStream` | `logging/LoggingStream`: buffer and conversions | operators only |
| `LogFile` | `logging/LogFile` | actions of the file |
| `Logger`, `MCLogger` | `logging/Logging` | extends `LoggingStream` and `LogFile`; the complete state machine |
| `EventLoopProofs` | theorems on the loop and on the thread that runs it | extends `EventLoopThread` |
| `BufferProofs`, `TimerQueueProofs`, `TcpServerProofs`, `TcpClientProofs`, `HierarchicalMutexProofs`, `ThreadsafeQueueProofs`, `LoggerProofs` | theorems | extend the module they are about |

Variables and operators keep the names of the source, with its spelling. Operators with a suffix after
an underscore (`Swap_Copy`, `epollDel_KeepsEntry`) are deliberately faulty variants of the definition
that follows them; no specification uses them, and each shows that a property would notice that fault.

**EventLoop.** One action is one step of a thread between two accesses to state another thread can
see. A call of `queueInLoop` or `quit` by another thread is two steps: the push, or the flag, and then
the wakeup. The loop's thread makes both in one, since it alone drains the eventfd and swaps the queue.
`loop()` is split at the test of `quit_`, the poll, each handler, the setting of the flag, the swap and
each functor. Callbacks (`iocb`, `fncb`) and the code before `loop()` are any sequence of `queueInLoop`,
`runInLoop` and `quit`. The eventfd is its counter. `quit_` and `callingdoPendingFunctions_` are plain
`bool`s read without a lock; the build is `-O0`, each access is one load or store, and the model takes
them so. Functors are handed over at most once each so that the history can tell them apart. Channels
other than the wakeup channel are one `"io"`, which may or may not be active. `looping_` is not
modelled: only the loop's thread uses it.

**EventLoopThread.** The two critical sections of its mutex are one step each; the condition variable
may wake up spuriously. The loop object exists from `Construct` to `ThreadReturn`; a call on the pointer
outside of that sets `dangling`. A call by the owner that has begun goes on to its wakeup after the loop
is gone. The destructor of an object whose `startLoop` was never called aborts in the assert of
`Thread::join` (`DestructorNotStarted`).

**Buffer.** The operations on a record `[buf, r, w]`. `retrieveUntil` is `retrieve`, `retrieveAsString`
is `retrieveAll`. `retrieve` and `prepend` have the caller's obligation, asserted in the code, as their
guard. `readFd` covers a read of any length up to the free room and `extrabuf`; an error or the end of
the stream changes nothing. `peek(this)` is the refinement mapping to `ByteQueue`. `swap` and `shrink`
are not modelled; `shrink`, which nothing calls, leaves both indices where they pointed in the old,
larger vector (Buffer.h:106-110), so that no call after it can be relied on.

**TimerQueue.** Time is counted in ticks of the minimal countdown (100 µs). The wall clock, which the
code reads, can be set (`Jump`); the countdown, on the monotonic clock, does not notice. A timer is added
in the loop's thread at any point of an iteration, in a timer callback too, or queued by another thread.
A re-arm clears a pending expiration, as `timerfd_settime` does, so that `handleRead` may find nothing to
read. The addresses that order equal expirations are the timers' numbers. The expiration 0 stands for an
invalid time stamp, which `runAt` accepts. `resetTimerfd` reads the clock (TimerQueue.cc:23) and arms the
countdown (line 48) in one step: that a timer is late by the time that passes between the two is outside
the model.

**Epoller, TcpConnection, TcpServer.** A connection's channel is named by the connection. `channels_` is
the loop's map, `interest` the kernel's list, which forgets a descriptor when it is closed; the map does
not. Asserts are active in the build (no `NDEBUG`): a failing one sets `fault` and the process takes no
further step. `calls` is the stack of calls that the current event or functor has still to make: one
event calls several callbacks in turn, and in between everything else can happen. In a callback
(`"client"`) the application sends on, and shuts down, any connection it has been told of. A message has
two units, the send buffer of a socket one, so that every write is partial. A connection is destroyed
when the last reference goes: the map `connections_`, a functor that binds the shared pointer, the
vector of functors being run (`kept`), or a thread that is inside `send()` or `shutdown()`. The functors
those two queue from another thread hold a raw pointer. `writeCompleteCallback_` is taken to be set, as
an application can do in its connection callback. `Senders` are other threads; a call of theirs tests
`state_` in one step and does the rest in another. The kernel is external: descriptors are reused lowest
first, `accept` fails when none is free, and may fail otherwise, and `epoll_wait` reports a FIN with `EPOLLIN` and `EPOLLRDHUP`
together, as Linux does for TCP; so the `EPOLLRDHUP`-without-`EPOLLIN` branch of `handleEvent` is in the
model and not taken. `epoll_ctl` is taken never to fail: the code only logs a failure and leaves map and
channel as they were (Epoller.cc:71-73, 86-88, 102-104), after which a connection whose channel could
not be added is never served nor destroyed. Two threads' data races on `state_` are the interleavings of whole loads and
stores. Input is counted, not kept: what the application does with it is its own. With `NumThreads`
other than 0, `connectEstablished` runs in the wrong thread and the model stops at its assert; the runs
have it 0. `~TcpServer`, whose body is empty, is not modelled: it drops `connections_` while channels
are registered, which is harmless only after `loop()` has returned, as in test8.cc and
pingpong_server.cc.

**TcpClient.** The `Connector` is a record and its operations functions of that record; a set of results
stands for what `connect(2)`, `SO_ERROR` and the self-connection test may say. The loop polls, handles
what is active and runs a batch of functors; the user calls `connect`, `disconnect` and `stop` from
another thread, each in two steps, the client's flag and then the rest. `~TcpClient` runs in a callback of
the loop. The timers are the multiset of their delays, expiring in any order, except that the one-second
timer of the destructor is the last of those that are not longer. `open` counts sockets. The assert of
`removeConnection` on `connection_` is a fault like the others. `misused`
remembers the calls for which the code is not ready (`AtRest`, `Misuse`): `NoFault` and `SocketsAccounted`
say that there are no others, and the list below what happens in each.

**HierarchicalMutex.** One step for each access to `internal_mutex`, so that another thread can come
between the lock and the update of the thread's value. A thread unlocks mutexes it holds, in any order;
one that another was locked after is refused. A call that throws, and a `try_lock` that fails, change
nothing and are not steps. `ULONG_MAX` is a constant.

**ThreadsafeQueue.** What a thread does under the one mutex of `threadsafer_queue` or `BlockingQueue` is
one step; `BlockingQueue` notifies in a step of its own. In `version_2` every access is a step, since the
two ends are locked separately, and `cond_.wait` unlocks and waits in one. A notification wakes one of the
waiting threads, whichever; spurious wakeups are possible at any time. Nodes are the numbers of the items
they were made for. The pointer types and names that keep `threadsafe_queue.cc` from compiling are read as
in the copy that does, in `threadsafe_queue_test.cc`.

**LoggingStream, LogFile, Logger.** A line is put together from pieces whose lengths are known, integers,
signed and unsigned, of `Width` bits, and pointers, which are converted digit by digit with the remainders of C++. The wall clock
moves, and may be set back, between the two times that `append_unlocked` and `rollFile` read it; `stdio`
has a buffer in front of the disk. `rolling` is the thread that holds the mutex between the two. The step
of a statement is the moment its line is given to `LogFile::append`; what a FATAL one does then is another
step. Not modelled: floating point (`snprintf`), a failing `fwrite` (which is counted as written,
LogFile.cc:41), a `LogFile` without mutex.

## 3. The runs

All bounds are named constants of the modules (`Max...`, `NumFds`) and set in the `.cfg` files. The type
invariants of `EventLoop`, `TcpServer`, `Buffer` and `HierarchicalMutex` are not in a run: they are proved
(section 4).

| Run | Shows | Bounds |
|---|---|---|
| `event_loop` | functors in order, none lost or repeated; the loop sleeps neither on its own functors nor over a quit; every queued functor is called unless `loop()` is left | two other threads, two functors, two calls of `loop()`, two quits: enough for a functor of one thread to overtake one of another, for a push at every point of a batch and for a quit left over from an earlier `loop()` |
| `event_loop_thread` | `startLoop` returns, with a live loop; a quit that reaches a running loop ends the thread | one functor, two quits (owner and callback) |
| `buffer` | refinement of `ByteQueue`, no assert fails | header 2, initial room 2, extra 2, chunks up to 3, vector up to 7: full, growing, moving and spilling all occur within a few steps |
| `timer_queue` | armed whenever a timer waits and not too late; repeats keep their distance; every reachable timer fires | three timers, one repeating, five times, the clock set once |
| `tcp_server` | no assert fails and the maps agree while only the loop's thread uses connections; order of bytes, flush before FIN, up-then-down | two connections on one descriptor (reuse, and `accept` without a free one), two messages, one other thread |
| `tcp_server_live` | a connection whose peer is gone is destroyed; a peer that waits because `accept` failed is accepted; a shutdown ends in a FIN; no assert fails | two connections at once whose callbacks use each other, `accept` failing any number of times |
| `tcp_client` | no assert fails, nothing deleted is used, sockets are accounted for; only `connect()` undoes a stop, and a stopped client comes to rest; a wanted connection comes about | two calls of `connect()`, any number of `stop()`, `disconnect()` and retries, two connections closed by the peer: enough for a second start beside a reconnection, and for the delay to reach its limit (500 ms to 30 s in six doublings) |
| `hierarchical_mutex` | no cycle of blocked threads; the level is right | three threads, mutexes of three places with two in the same: cycles of two and of three, and the equal places of which a check that is off by one would make a cycle |
| `thread_queues` | refinement of `Fifo` by all three queues, no waiter forgotten with one mutex, the ends of the two-lock queue apart | three threads, each of which pushes and pops; two items: an empty, a one-item and a two-item queue, two waiters for one item |
| `logging` | numbers, order of files, rolling, flushing, the last line | two threads, five lines, days of four seconds, a check every third line, one setting back of the clock; all integers of 8 bits, signed and unsigned, lines around the size of the buffer |

`NoFault`, `EpollAgrees` and `ShutdownFlushes` speak of behaviours in which no other thread has used a
connection (`foreign`); the list of disagreements says what
happens otherwise. `WireInOrder` and
`UpThenDown` hold with other threads too.

**Disagreements.** Two runs state what a comment or a test of the repository says, and TLC finds the
behaviour of the code that contradicts it.

- `event_loop_wakeup`: the comment on EventLoop.cc:100 says that a thread other than the loop's wakes
  the loop up; the test has lost its negation. A functor from another thread waits for the next event,
  or for the 10 s time-out of the poll. (That is why `OwnFunctorsNeverWait` speaks of the loop's own
  functors, and why the time-out is needed for `QueuedEventuallyRuns`.)
- `queue_lost_wakeup`: the two-lock queue notifies without the mutex under which a consumer tests for
  emptiness. The notification can fall between the test and the wait, and the consumer waits on a queue
  with an item in it; threadsafe_queue_test.cc:157 joins such a consumer.

The models also have the following, which no run is devoted to. Each is the reason for a condition in a
property (`foreign`, `misused`, `quits = 0`, `pc # "out"`, `pc # "restart"`).

- A quit between the publication of an `EventLoopThread`'s loop and the reset of `quit_` in `loop()` is
  lost, and the destructor waits in `join` for ever (EventLoop.cc:69; test4.cc:24 calls it just then).
- The destructor of `EventLoopThread` joins and then calls `quit()` on the destroyed loop
  (EventLoopThread.cc:17-18); `dangling` records it.
- With threads in the pool, `connectEstablished` runs in the base loop's thread and its assert aborts the
  process (TcpServer.cc:73, TcpConnection.cc:107), though test8.cc:48 offers `setThreadNum`.
- The test on the output buffer in `sendInLoop` (TcpConnection.cc:61) is inverted: the direct write is taken
  only on a connection that was closed with output left, past that output.
- A send queued by another thread and run after `connectDestoryed` registers the removed channel again, and
  the next connection on that descriptor fails the assert of Epoller.cc:63. The functor binds a raw pointer
  and may also run on a destroyed connection (TcpConnection.cc:52).
- `connect()` while the `Connector` is not at rest - connecting, waiting for a retry, or connected before
  without `enableRetry()`, which leaves its state at `kConnected` - fails the assert of Connector.cc:39.
- `~TcpClient` while an attempt has been under way for more than a second fails the assert of `~Connector`
  (Connector.cc:29); with a retry delay above one second, the timer runs on a deleted `Connector`
  (Connector.cc:181, where the code says "FIXME: unsafe"); with a connection nobody else points to, the
  connection is deleted on the spot, without `connectDestoryed` and with its channel registered
  (TcpClient.cc:57-62).
- A `stop()` or `disconnect()` between the test of TcpClient.cc:138 and `restart()` is undone by it. That
  there is no other such moment is what `StopHolds` says; `Stopped` leaves out just this one.
- A `disconnect()` between TcpClient.cc:121 and `connectEstablished` finds the connection in `kConnecting`
  and does nothing.
- A line whose text fills the buffer up to one character has no newline (LoggingStream.h:22, Logging.cc:102).
- `LOG_SYSFATAL` passes `false` for `toAbort` (Logging.h:66): it neither logs FATAL nor aborts, so that
  the `...OrDie` functions of `Socketops` go on with a descriptor of -1.

**Fairness.** `EventLoop`: the loop's thread is scheduled and callbacks return; `epoll_wait` returns
within `kPollTimeMs`; that an event of another channel comes and ends the poll is not assumed.
User threads are under no fairness: that none of them is needed is part of what
`QueuedEventuallyRuns` says. `EventLoopThread`: both threads are scheduled, and a call that began
continues; that the owner calls quit, or leaves, is not assumed. `TimerQueue`: time passes and the loop
runs. `TcpServer`: the loop's thread is scheduled and callbacks return; a peer that stays connected takes
what is in the send buffer (without it no shutdown could end); nothing else is asked of peers, not even
that one ever leaves, so that `WaitingAccepted` excepts a peer for whom no descriptor is free any more; and
`accept` does not fail for ever while a descriptor is free, which is strong fairness of `newConnection`.
`TcpClient`: the loop's thread and a user's call that began go on, pending functors make the poll return,
an attempt comes to an end and timers expire even if other events come again and again (strong fairness,
since the model's poll may always find something else first); and, for `Connects` alone, the server
accepts time and again. `ThreadsafeQueue`: a thread inside a call is scheduled and gets a mutex that is
free; nobody has to call, and no spurious wakeup is relied on.

**Deadlock** is checked where the system runs for ever (`buffer`, `timer_queue`, `tcp_server_live`,
`hierarchical_mutex`, `thread_queues`). It is switched off where it may stop: a loop that was left, a thread that ended, a process that aborted, a
client that was deleted, a log whose bounded lines are written.

## 4. The proofs

`EventLoopProofs` proves, for any sets of threads and functors and any number of calls of `loop()` and
`quit()`:

- `TypeCorrect`: the types, and that `callingdoPendingFunctions_` is set exactly while
  `doPendingFunctions` is between its first and last statement.
- `OrderCorrect`: `ran \o functions \o pendingFunctors_ = queued`. It is inductive with the types: a push
  appends on both sides (`PushKeepsOrder`), the swap moves the queue into a batch that `TypeOK` says is
  empty, a call moves the head over (`MoveHead`).
- `OwnFunctorsCorrect` is not inductive: it says nothing of the functors of the loop's thread while the
  thread is elsewhere. `OwnPendingWakes` strengthens it: at every point from which the loop can reach its
  poll without swapping the queue, such a functor has the eventfd readable, or it is in the batch phase
  whose drain comes before the next swap. `Invariance` proves it together with the rest.
- `QuitCorrect`: the flag is set before the wakeup, and `loop()` resets it only on entry.
- `StartedCorrect`, on `EventLoopThread`: the owner has the pointer only after the loop was constructed,
  and the thread leaves `loop()` only when `quit_` is set, which only a `quit()` does.
- `LoopImplementsFifo`: the loop implements `Fifo`, with the loop's thread as the one consumer. Fifo's queue
  is `functions \o pendingFunctors_`: a push is `Enqueue`, the call of a functor is `Dequeue` (`ConcatHead`:
  the head of the batch is the head of the whole, whoever has pushed behind it), and the swap changes
  nothing that a thread could tell. `PushedOnce`, that what is fresh was never pushed, is the invariant it
  needs with the types. It says more than `FunctorsInOrder`: not only are the sequences right in each
  state, every step is one that a queue may take.
- `ThreadRunsLoop`: the composition keeps all of this. Each step of `EventLoopThread` is a step of
  `EventLoop`, or none, or a call through the pointer to the destroyed loop (`ThreadProjects`). The last is
  no step of `EventLoop`, so that `SpecThread => Spec` does not hold; `Outside`, that nobody is in the
  loop's code before and after `ThreadFunc`'s call of `loop()`, shows that it still disturbs nothing
  (`DanglingKeeps`). So the results above are about the loop as it is really used, one that is constructed
  late and destroyed while others have a pointer to it.

The assumptions are those of the modules: the loop's thread is not among the others, the bounds are
numbers, and, for `EventLoopThread`, its owner is the only other thread.

`BufferProofs` proves, for every alphabet and every value of the header, the initial size, the extra
buffer and the bounds: `TypeCorrect`, `AssertsCorrect`, and `Refinement`, that `Buffer` implements
`ByteQueue`. The lemmas say what each operator does to a buffer with indices in order: `makeSpace` keeps
the readable bytes and makes the request fit (`MakeSpaceFacts`), a filled buffer reads as the old bytes
followed by the new ones (`FillFacts`), and so the split read (`ReceivedFacts`) and the prepended header
(`PrependFacts`). The type invariant needs `kCheapPrepend <= Len(buffer_)` to be inductive, for
`retrieveAll` sets the indices without looking at the vector.

`HierarchicalMutexProofs` proves, for any sets of threads and mutexes and any hierarchy:

- `LevelCorrect`: the thread's value is that of the lowest mutex it holds. It is not inductive: `unlock`
  goes back to what the mutex kept. `PreviousIsNextHeld` says what that is, the place of the lowest mutex
  above it that its owner holds, or `ULONG_MAX`; `CallInOrder` says that a call that passed the check is
  still in order when it gets the mutex, since only the thread itself changes its value. `IInv` is these
  three with `TypeOK`, and `Invariance` proves it.
- `DeadlockFree`: a blocked thread that holds what another one waits for waits for a lower mutex itself
  (`WaitsDescend`). The places waited for are numbers, so there is a lowest, and the thread that holds
  that mutex is not blocked.

The assumption is that the places are numbers up to `ULONG_MAX`.

`TimerQueueProofs` proves, for any set of timers, any intervals and any bound on the time:

- `TypeCorrect`: the types, with the place of each entry. `OnePlace` is what makes that inductive: a timer
  is unborn, queued by another thread, in the list, or among the expired ones, and in one of these only.
- `NoTimerForgotten` (`ListedTimerArmed`) speaks of the poll only. While `handleRead` runs, it rests on
  `reset` arming `timerfd_` for the earliest timer, which `reset` does not when that one's expiration is
  invalid; `InvalidArmed` says that then the callback that added it has just armed the minimal countdown.
- `InTime` (`CountdownNotLate`): adding a timer re-arms when the new one is the earliest, `reset` always;
  the lemmas on `howMachTimeFromNow` say that an earlier expiration has no longer a countdown.
- `Spaced` (`RunsSpaced`, an action property): `NextRunLater` says that an entry that ran before has its
  next expiration at least its interval after the time that `handleRead` had read, and the assertion of
  `getexpiration` that it is taken only when that has come.

`ThreadsafeQueueProofs` proves, for any finite set of threads and any number of items:

- `Refinement`: all three queues implement `Fifo`. For the two-lock queue the mapping reads the queue off
  the list, a recursive function along the `next` pointers. The invariant `ListInv` gives the list as a
  sequence `s` of all nodes that were ever linked, with the place `h` of the head in it: what the function
  computes is then the rest of `s` after `h` (`ChainIsRest`), an induction that is done by the least
  counterexample, since the provers do not have the induction rule. The move of `tail_` is `Enqueue`, that
  of `head_` is `Dequeue`; the node is read later, when nobody writes to it.
- `Apart` (`EndsApart`): `Locked` says who holds which mutex, `Pushing` that pushes have different nodes
  that are not in `s`, and `Shape` that those who pop have a node between them and the tail.
- `Announced` (`EveryItemAnnounced`): counts the items against the threads that were woken or will be
  notified, with the cardinalities of `FiniteSetTheorems`; so the set of threads has to be finite, and the
  value of a free mutex no thread, which the module assumes.

`TcpServerProofs` proves, for any number of connections, descriptors, messages and other threads and any
size of the send buffer:

- `TypeCorrect`, `WireCorrect` (`WireInOrder`) and `UpDownCorrect` (`UpThenDown`) whichever threads send,
  `EpollCorrect` (`EpollAgrees`) and `FlushCorrect` (`ShutdownFlushes`) while only the loop's thread does, and,
  with one loop (`NumThreads = 0`), `NoFaultCorrect` (`NoFault`).

They all come from one invariant, `IInv`, since none is inductive alone. That no assert fails needs that
`handleClose` runs once for each connection, which needs that the channel of a closed connection has no
read event (`Reading`), not even one that the last poll reported and that is still to be handled; that
`connectDestoryed` is queued once for each closed connection and for no other (`Deaths`); and that a
connection is registered from its "up" callback to `removeChannel` and no longer (`OwnConn`). That the map
agrees with the kernel needs that a descriptor has one owner (`Kernel`) and that what is destroyed has
left the map: a connection that nothing refers to has had its `connectDestoryed` (`GoneDown`). That bytes
stay in order needs that whatever is in the output buffer has the channel waiting to write (`Wire`): the
direct write of `sendInLoop`, whose test is the wrong way round, is then never taken. The parts hold in
different generality: those with `foreign` in them only as long as no other thread has called `send()` or
`shutdown()`, and the proofs of the other threads' steps show that the rest needs no such condition. There
is one lemma for each handler (`HandleWriteKeeps`, `DestroyedKeeps`, ...), and lemmas on what they share:
`UpdateFacts`, `DelFacts` and `CloseFacts` for the epoll map, `PoppedFacts` for the stack of calls,
`QueuedFacts` for the queue of functors. The assumptions: the bounds and the size of the send buffer are
numbers.

`TcpClientProofs` proves, for any number of calls, connections and retries:

- `TypeCorrect`, whatever the user does;
- `NoFaultCorrect` (`NoFault`) and `SocketsCorrect` (`SocketsAccounted`) as long as the client is used as the
  code needs it;
- `StopCorrect` (`StopHolds`), again whatever the user does.

`IInv` has a part for every behaviour up to the first fault (`Always`: an event that the last poll reported
still has something to be handled by, `connectDestoryed` is queued once) and one for the clients that were
not misused (`Disciplined`). There, `OneAttempt` says that a start that was asked for or is queued, a retry
timer, an active channel, a restart that is due and a connection exclude each other; without it neither
property is inductive, for each handler asserts the state that only the absence of the others guarantees.
`InOrder` is about the queue of functors: no `shutdownInLoop` follows the `connectDestoryed` of its
connection, and none is of an earlier one. `ActiveFresh` says that no handler of an iteration takes away
what a later one of the same iteration needs, and `Deleted` what is left when the client is gone: the
`Connector` and the timer that keeps it, and no retry that comes after that timer. `StopCorrect` rests on
`CallsInTime`, which holds of misused clients too: a `connect()` under way is one of a client that is there
and wants to connect, so that it cannot be an old one that undoes the stop. The other steps are `Quiet`:
they set neither `connect_`, and start no timer and no attempt of a `Connector` that was stopped. The
assumptions: the bounds are numbers.

`LoggerProofs` proves, for any number of threads, lines and files and all sizes, intervals and periods:

- `ReadsInOrderCorrect` (`LogReadsInOrder`), however often the clock is set back: `Names` says that
  `lastRoll_` is the name of the file that is written to, so that the test of `rollFile` is one against the
  names of all files, and that only the last file has anything in its buffer.
- `RolledCorrect` (`RolledInTime`) and `FlushCorrect` (`FlushLag`), as long as it is not set back. Both need
  what `count_` has to do with the lines: while nobody is about to roll, at most `count_` lines of the file
  are of another period than its name, and at most `count_` were appended when a flush was due (`Counted`).
  That a check which finds nothing due may reset `count_` to 0 needs that the times of the lines lie
  between the name of the file and now (`Within`) and that what lies between two times of a period is in
  it (`PeriodBetween`).
- `FatalCorrect` (`FatalOnDisk`): the place of a FATAL line is in the log, which no step takes a line out
  of (`Grows`), and a program that aborted has nothing in the buffer (`FatalInv`).

- `LinesCorrect` (`LineFaithful`), for integers of any number of bits and any size of the buffer: what
  `convert` and `convertHex` write reads as the number, is shorter than `kMaxNumericSize`, and no message
  fills its buffer. It is an argument by induction on numbers and sequences. The induction theorems of the
  library take an operator, which the provers cannot instantiate; so `Induction` and `StrongInduction` are
  stated for the members of a set, and proved from the least number that is not in it. A recursive
  function is the value of a CHOOSE, of which nothing is known until some function satisfies its
  equation; `Iteration` gives one, step by step, for `Pow`, `Value` and `Puts`, and `DigitsExist` one for
  the digits, as the limit of rounds after which no digit changes. Then: `DigitsFacts`, that the digits of
  a number read as the number and are no more than the power of the base above it has zeros; `QuotFacts`,
  that division towards zero and the table `zero`, which is the same on both sides of its middle, give
  the digits of the absolute value although that may not be a number of the type (`INT_MIN`); and
  `PutFacts`, that a piece is put only where there is room to spare.

The assumptions: sizes and intervals are numbers, a period is not empty, and no thread is the value of a
mutex that is free (`LogFileAssumption`); a statement is a sequence of pieces, and the line number is an
integer of the type (`LoggerAssumption`); and a number of `Width` bits has, with its sign, fewer characters
than `kMaxNumericSize`, a pointer with its prefix too, and the buffer is not smaller (`StreamAssumption`).
The first half of the last is what `staticCheck` asserts at compile time (LoggingStream.cc:122-128), with
more to spare; the pointer's is true of 64 bits and 32 characters.

The inductive invariants, and the refinement of `Fifo` by the loop, were checked with TLC on small instances
before they were proved.

Only model-checked: the ten liveness properties (`QueuedEventuallyRuns`, `StartLoopReturns`,
`QuitEndsThread`, `EveryTimerFires`, `ShutdownSendsFin`, `PeerGoneConnGoes`, `WaitingAccepted`, `Connects`, `StopSettles`,
`WaiterServedOneMutex`), since fairness and ENABLED are out of the prover's reach.

## 5. Not modelled

- `EventLoopThreadPool`: a round robin over loops that, as said above, abort the process when they get a
  connection. What a server does with the pool's threads cannot be checked past that assert.
- `threadpool` (`thread/thread_pool.cc`): nothing uses it, and its threads call a task only when it is
  empty (line 77), so that no task is ever run; its `stop()` wakes nobody (line 52) and waits for threads
  in `cond_.wait`. `TaskQueue` (`reactor/taskQueue.cc`): `put` takes no lock, `take` removes nothing.
- The first class of `threadsafe_queue.cc` (it waits on its `std::queue`, or not at all), the stack and the
  lookup table (each operation all under one lock).
- `Buffer::swap` and `shrink`, see above. `Mutex.h`, `Atomic.h` (whose `decrementAndGet` returns the old
  value): wrappers of one call. `~TcpServer` and a failing `epoll_ctl`, see above. `Thread` beyond start and join. `InetAddress`, and the conversions of
  `Socketops`: without state. The formatting of `Timestamp`.
- The example programs and tests, which are used as statements of what the library is expected to do.

## 6. Plan

All invariants, the two action properties and the refinements are proved. What is left is to make the longer
proofs, those of `TcpServer` and `TcpClient`, shorter, and a model of `Buffer::swap`.
