# myMuduoWeb in TLA+

This directory holds a TLA+ model of myMuduoWeb, a C++ web server built on a
muduo style network library: one event loop per thread, an epoll poller, timers,
connections with buffers, a MySQL connection pool, an asynchronous log and a
memory pool. The modules are translated from the code under `src/src/`; the
comments of the code are used only as statements that the code can be compared
with. Paths below are relative to `src/src/`.

Contents: 1. the system, 2. the modules, 3. the runs, 4. fairness, 5. the
proofs, 6. where the code and its comments differ, 7. what is left out, 8. plan.

## 1. The system

### 1.1 Components

| Component | State | Operations | Interacts with | Hard behaviour | What makes it correct |
|---|---|---|---|---|---|
| `EventLoop` (Net) | `quit_`, `callingPendingFunctors_`, `pendingFunctors_` (under `mutex_`), `wakeupFd_`, `activeChannels_` | `loop`, `quit`, `runInLoop`, `queueInLoop`, `wakeup`, `handleRead`, `doPendingFunctors` | every other thread, through the queue and the eventfd | a functor may be queued at any point of an iteration; the wakeup is skipped under a condition | it never sleeps on queued work; functors run once each, in order; a quit ends it |
| `EventLoopThread`, `Thread` | `loop_`, `mutex_`, `cond_`, the thread, a semaphore | constructor, `startLoop`, `threadFunc`, destructor | publishes a loop on its stack to its owner | the destructor reads `loop_` without the lock; detached threads | the pointer is live while it is used; no member is freed under the thread; everything returns |
| `EventLoopThreadPool` | `loops_`, `next_` | `start`, `getNextLoop` | TcpServer | index arithmetic | the loops are used in turn |
| `Channel`, `Poller`, `EPollPoller` | `events_`, `index_`, `channels_`, the kernel's interest list | `enable*`, `disable*`, `remove`, `poll`, `handleEvent` | owned by connections, the timer queue and the loop | one registration is stored four times | the four agree and no `epoll_ctl` fails |
| `TcpConnection` | `state_`, channel, input and output buffer, socket | `send`, `shutdown`, `handleRead/Write/Close/Error`, `connectEstablished`, `connectDestroyed` | its loop, TcpServer's callbacks, other threads | short writes, a shutdown while bytes are buffered, closes while functors are queued | bytes in order, EPOLLOUT exactly when needed, one down per up |
| `TcpServer`, `Acceptor` | `connections_`, `next_` | `newConnection`, `removeConnection(InLoop)`, destructor | base loop and pool loops | a connection's life crosses two queues twice; `shared_ptr` against raw pointers | nothing dangles; what is closed is destroyed |
| `Buffer` | vector, `readerIndex_`, `writerIndex_` | `append`, `readFd`, `retrieve*`, `makeSpace` | TcpConnection | moving back against growing | the readable part is what was put in and not taken out |
| `TimerQueue`, `Timer` | `timers_`, `timerfd_`, `callingExpiredTimers_` | `addTimer`, `handleRead`, `reset` | its loop, other threads through the queue | two clocks; one timerfd that fires once | the timerfd is armed while timers wait; each callback is called once per expiration |
| `SqlConnPool`, `MysqlConn` | `connectionQueue_`, `currentSize_`, `mutex_`, `cond_` | `Init`, `getConnection` and its deleter, `proConn`, `removeConn` | threads that serve requests (`UserVerify`), two detached threads, the database | one condition variable for two conditions, connections that die, two queries that are not one | a connection is in one hand, the count is exact, who waits is served, a name is registered once |
| `AsyncLogging`, `FixedBuffer` | `currentBuffer_`, `nextBuffer_`, `buffers_`, the spares of the thread | `append`, `start`, `stop`, `threadFunc` | every thread that logs, the log file | buffers change hands and are recycled | no null buffer, no line lost, lines in order |
| `LogFile`, `FileUtil` | `file_`, `count_`, `lastRoll_`, `startOfPeriod_`, `lastFlush_` | `append`, `flush`, `rollFile` | AsyncLogging's thread, stdio, the clock | partial writes; rolls and flushes by size, count and clock | each line is in one file, in order, and gets to the disk |
| `MemoryPool` | blocks with `last_`, `quote_`, `failed_`; `current_`; `largeList_` | `createPool`, `malloc`, `calloc`, `freeMemory`, `resetPool`, `destroyPool` | `Memory` | a block is emptied by its counter alone | requests in use do not overlap |
| `Memory` | `pool_`, `poolMutex_`, `largeSetMutex_`, `largeDeal_` | `allocate`, `deallocate`, `resetPool` | any thread | an exclusive lock is exchanged for a shared one in the middle of `deallocate` | a large block has one owner until it is freed |
| `HttpServer` | none of its own | `onConnection`, `onMessage`, `onDestroy` | TcpConnection's callbacks | answers twice after a bad request | every answer belongs to its request, and each connection ends |
| `HttpRequest` | `state_`, `method_`, `path_`, `header_`, `post_` | `parse`, `UserVerify` | the connection's input buffer, SqlConnPool | a new parser for every read, wherever the read ended | the bytes of one request do not decide the answer to another |
| `HttpResponse` | `code_`, `path_`, `mmFileStat_`, `mmFile_` | `Init`, `MakeResponse` | the files under `srcDir_` | the file is looked at twice, by `stat` and by `open` | the page and its length agree |
| `Logger`, `LogStream`, `Timestamp`, `CurrentThread`, `noncopyable` | see section 7 | | | | not modelled |

### 1.2 How a connection lives

The base loop accepts (`Acceptor::handleRead`), picks a pool loop
(`getNextLoop`), puts the connection into `connections_` and queues
`connectEstablished` in the pool loop. That loop handles the channel's events.
On a close it calls back `TcpServer::removeConnection`, which hops to the base
loop, erases the map entry and queues `connectDestroyed` back in the pool loop,
which removes the channel from the poller. Each hop carries a `shared_ptr`. The
poller and `activeChannels_` hold raw pointers to the channel inside the
connection, so the question is whether the last `shared_ptr` always goes after
the last raw pointer.

## 2. The modules

| Module | Models | State and actions |
|---|---|---|
| `TaskQueue` | what an event loop promises: one FIFO queue, each task once | abstract specification |
| `EventLoop` | `Net/EventLoop.cpp` and the waiting part of `EPollPoller::poll` | `pc` is where `loop()` is; one action per phase (`EnterLoop`, `TestQuit`, `PollWakeup`, `PollIO`, `PollTimeout`, `HandleRead`, `EndDispatch`, `TakePending`, `RunFunctor`, `EndFunctor`, `DonePending`). The loop's own thread calls `queueInLoop`, `runInLoop` and `quit` wherever a callback or functor runs (`Owner*`); another thread pushes under the lock and writes to the eventfd in two steps (`CallerPush`, `CallerWakeup`) |
| `EventLoopThread` | `Net/EventLoopThread.cpp`, `Base/Thread.cpp` | extends `EventLoop`; `thr` is where `threadFunc` is, `own` where the owner is. Each unlocked read of `loop_` in the destructor is a step |
| `Channel` | `Net/Channel.h`, `updateChannel`, `removeChannel`, `update` of `EPollPoller.cpp` | operators on a record with the four copies of a registration |
| `Poller` | any sequence of the calls of `Channel` | one action per call |
| `TcpConnection` | `Net/TcpConnection.cpp`, `Channel::handleEvent`, the callbacks of `Http/httpServer.cpp` | a connection is a record, a handler maps it to the set of records it may leave |
| `TcpServer` | `Net/TcpServer.cpp`, `getNextLoop`, several loops with their queues, clients, other threads | composes `TcpConnection` and `Channel`: `Accept`, `Poll`, `Handle`, `Execute`, `ServerDestroyed`, `Client*`, `User*` |
| `TimerQueue` | `Timer/TimerQueue.cpp`, `Timer/Timer.cpp` | time is relative: the ticks left to each timer and to the timerfd |
| `Buffer` | `Net/Buffer.h`, `Net/Buffer.cpp` | operators on a record, three actions |
| `HttpRequest` | `parse` and its helpers in `Http/httpRequest.cpp` | pure operators: a line is a sequence of letters, each a piece of text the regular expressions tell apart |
| `HttpServer` | `onMessage` and `onDestroy` of `Http/httpServer.cpp`, `MakeResponse` of `Http/httpResponse.cpp` | composes `Buffer` and `HttpRequest` into one connection: `Read`, one turn of `parse`'s loop (`ParseLine`, `Refuse`), `Stat`, then `SendPage`, `Unopened` or `Crash`, and `OnDestroy`; `Edit` is another process that changes the files. Without a client (`script = <<>>`) it is `Buffer` alone |
| `SqlConnPool` | `Mysql/sqlConnectPool.cpp` | one action per critical section; whether the producer sleeps is state |
| `UserVerify` | `HttpRequest::UserVerify` of `Http/httpRequest.cpp` | extends `SqlConnPool`: each user takes a connection, asks (`SelectDecides`, `SelectFindsNone`), inserts (`Insert`) and gives it back (`Return`) |
| `AsyncLogging` | `Logger/AsyncLogging.cpp`, `Logger/FixedBuffer.h` | the two buffers under the lock, the two spares; extends `LogFile`; the buffers of a pass are written one at a time (`WriteBuffer`), then the spares are prepared (`Recycle`) |
| `LogFile` | `Logger/LogFile.cpp`, `Logger/FileUtil.cpp` | the sequence of files with what is in each and how much of it is on the disk; of the clock, the three comparisons the code makes |
| `MemoryPool` | `Memory/MemoryPool.cpp` | blocks as a sequence, an address is a block and an offset |
| `Memory` | `Memory/Memory.h`, `Memory/Memeory.cpp` | extends `MemoryPool`; what holds `poolMutex_` exclusively is one step, the way of a large block through `deallocate` is four (`DeallocateLarge`, `EnterDeal`, `FreeShared`, `LeaveDeal`) |
| `EventLoopProofs`, `TcpServerProofs`, `HttpServerProofs`, `SqlConnPoolProofs`, `AsyncLoggingProofs`, `TimerQueueProofs`, `MemoryProofs` | | the theorems of `EventLoop` with `EventLoopThread`, `TcpServer` with `Poller`, `HttpServer` with `Buffer`, `SqlConnPool` with `UserVerify`, `AsyncLogging`, `TimerQueue`, `Memory` with `MemoryPool` |
| `SequenceLemmas` | | what flattening a sequence of sequences gives, and induction over a fixed set of numbers |
| `MC*` | | the sets that the runs use |

Granularity. A handler runs to its end on its loop's thread and touches only
what that thread owns, so in `TcpServer` it is one step. What is not owned, the
queues and the map, is reached through functors, and `EventLoop` shows that a
loop with its batches, swap and wakeups is a FIFO queue (`ImplementsTaskQueue`),
which is what `TcpServer` takes it for. `Execute` and `Poll` of `TcpServer`
alternate more freely than batches do, which adds behaviours and removes none.
In `EventLoop` and `EventLoopThread` every access to shared state that another
thread may come between is a step of its own.

Abstractions worth knowing.

- `EventLoop`: `EarlyQueue` says whether the loop's thread may queue functors
  before it enters `loop()`. Each functor is queued once.
- `TcpConnection`: bytes are numbered in the order in which `sendInLoop` takes
  them, so that order and loss show in the numbers. A response is `MsgLen`
  bytes. A write takes any part of what it is given, and a short write means
  that the socket is full until the client reads. Errors of `write` other than
  EAGAIN, EPIPE and ECONNRESET are left out. A write on a broken connection
  raises SIGPIPE, which this program does not ignore; the model continues as a
  process that ignores it does, since otherwise there is nothing to check.
- `TcpServer`: each of `Users` is a thread that has a `shared_ptr` to a
  connection from its connection callback and does one `send` or `shutdown` or
  lets it go. The variable `setup` is chosen at the start and never changes: it
  says which connections, loops and threads this program has, so that one run
  covers several programs. `ServerDestroyed` is the destructor's own loop over
  `connections_`, after the base loop has ended; the pool's loops go on, as they
  do until the pool is destroyed after it.
- `SqlConnPool`: an object that was deleted may be made again; the clock is the
  flag `aged`, the database the flag `valid`. A user has one call at a time.
- `UserVerify`: a query may fail or succeed; whether a password matches is not
  told apart, since a login leaves the table alone. `raced` records the names
  that two threads were about to insert at once.
- `HttpRequest`: the letters are chosen so that every division that matters can
  happen: within the request line, between CR and LF, within a header and
  within the password. `/register` is handled as `/login` is; the decoding of
  `%xx` and `+`, the version and the list of pages are left out.
- `HttpServer`: of an answer the model keeps the page, its declared length and
  what `UserVerify` was asked. `UserVerify`'s own answer is either of the two.
- `LogFile`: `fopen` succeeds. A unit that `fwrite` has taken is not on the disk
  before `fflush` or `fclose`; stdio may write it earlier, which helps.
- `AsyncLogging`: a line takes one unit of a buffer. `FixedBuffer::append`
  stores a line only if strictly more than its length is left.
- `TimerQueue`: `Tick` moves both clocks, `StepBack` only the wall clock.
- `MemoryPool`: `quote_` of a new block is never initialised in the code, so it
  starts at any value of `Garbage` and wraps like an `unsigned`. `next_` of the
  first block is not initialised either; it is taken to be null, since a program
  that follows a wild pointer has no further behaviour to describe. The history
  field `clean` records whether every new block happened to hold 0.
- `Memory`: views are not copied, and whoever resets the pool has no view left
  and no thread in `deallocate`: the class offers no way to know.
- `Buffer`: lengths fit an `int`, which is what `makeSpace` takes.

## 3. The runs

Every property has a mutant: a definition of the module, changed the way a
plausible mistake would change the code, under which TLC finds the property
violated. The mutants stand beside the definitions they change, with a comment
that begins with "Mutant".

| Run | Instance | Checks |
|---|---|---|
| `EventLoop` | 2 other threads, 3 functors, nothing queued before `loop()` | `TypeOK`, `NoBlockedWork` (no sleep on queued work), `ImplementsTaskQueue` (FIFO, exactly once), `Delivered` (wakeups alone suffice), `QuitEndsLoop` (a quit ends a loop whose poll times out) |
| `EventLoopThread` | one thread, its owner, 2 functors, early functors, callbacks that may quit | `ThreadTypeOK`, `PointerIsLive`, `DestructorSafe`, `StartLoopReturns`, `QuitIsObeyed` |
| `Poller` | 3 channels, any sequence of calls | `RegistrationAgrees` |
| `TcpServer` | the five setups of `MCTcpServer`: 2 connections on 2 loops, 2 on the base loop alone, 1 with 3 requests, 1 shared with another thread, 3 silent ones on 2 loops | `TypeOK` (with the range of `next_`), `NoDanglingChannel`, `WatchedAsNeeded`, `StreamInOrder`, `ShutdownFlushes`, `CallbacksPaired`, `ClosedIsFinal` |
| `TcpServerLive` | the setups with 3 requests and with another thread, fair loops, a client that reads | `ClosedIsDestroyed`, `ShutdownCompletes` |
| `TimerQueue` | 3 timers, one repeating, delays up to 2 ticks, one clock step | `OnceEach`, `ArmedForEarliest`, `EveryTimerRuns` |
| `Buffer` | module `MCBuffer`: prefix 2, size 3, `extrabuf` 10; alone, calls of up to 6 bytes, 12 bytes in all; with a client, eight pairs of requests in at most 3 reads, cut anywhere, and 2 changes of the files | `TypeOK` (indices in the vector), `BytesInOrder`, `AnswersMatch`, `ClosedAfterAnswer` |
| `SqlConnPool` | 3 users in `UserVerify`, 1 name, 3 objects, `minSize_` 1, `maxSize_` 2 | `TypeOK`, `Exclusive`, `CountExact`, `NameTakenOnce`, `ServedWhenReliable` |
| `SqlConnPoolStale` | the same | `Served` is **violated** |
| `AsyncLogging` | buffers of 3 units, 6 lines, files rolled after 4 units, the clock looked at in every second append | `NeverNull`, `LinesInOrder`, `NoneDropped`, `LineWritten` |
| `AsyncLoggingFull` | the same, 7 lines | `NothingLost` is **violated** |
| `MemoryPool` | module `Memory`: 2 views, 2 threads, 2 large blocks, pages of 16 units with headers of true size, sizes that fit, that fill a block and that are large on either side of a page, 3 blocks | `TypeOK`, `Disjoint`, `QuoteCounts`, `LargeOwned` |

Why the bounds are enough.

- `EventLoop`: the hazard is a push between the swap and the next poll. It takes
  one functor being executed, one queued by it or by a thread, and one queued by
  a second thread whose write is still to come: three functors, two threads.
- `EventLoopThread`: the object has one owner and one thread by construction.
- `Poller`: channels are independent in the code, so three are more than enough;
  the theorem covers any number.
- `TcpServer`: with `MsgLen` 2 a write can take none, some or all of a response.
  Three requests make a response be sent while an earlier one is buffered and a
  later one overtaken. Two connections share a loop in the setup without a pool.
  Three connections on two loops take `next_` past its end.
- `Buffer`: 12 bytes through an initial vector of 5 move back, grow, and split a
  read several times over. Two requests in three reads meet every division:
  both whole, one cut once or twice, the end of one read with the start of the
  next request. With `MaxReads` 3 a connection that was shut down can still get
  bytes. Two changes of the files remove a page and its error page, or empty a
  page between `stat` and `mmap`.
- `SqlConnPool`: with two connections and three users one user waits while all
  are out; three objects let a deleted one be replaced by another.
  Two registrations of one name and a third thread on the second connection are
  all that `NameTakenOnce` can tell apart; names do not interact.
- `AsyncLogging`: a buffer of 3 units holds two lines, so that six lines fill
  three buffers, more than the two that are kept; recycled ones come back; and
  files of four units are rolled in the middle of it. `FlushAfter` 1 lets the
  clock be early, in time and late. A write is taken whole or in two parts.
- `MemoryPool`: a block of 16 units has room for two small requests behind its
  headers, so both the first fit among blocks and the end of a block are met.
  `MaxFailed` is 0 and `MaxScan` 1 where the code has 5, so that blocks are
  skipped and the search for a free node gives up within three blocks and two
  large ones. Two threads in `deallocate` and a view that gets a freed address
  again meet in every order of their four steps.

Deadlock is checked for `Poller` and `TimerQueue`. The other programs
may stop: a loop that has quit, a server whose clients have gone, threads that
have nothing to do, a log that was stopped, a pool that was destroyed, a
client that has sent everything.

## 4. Fairness

- `EventLoop`: the loop's thread is scheduled, callbacks return, and a thread
  that has pushed a functor gets to its `write`. Neither traffic nor the poll
  timeout is assumed, so `Delivered` shows that the wakeups suffice.
  `QuitEndsLoop` has the timeout (`kPollTimeMs`) as a premise, because a quit
  from another thread writes nothing.
- `EventLoopThread`: both threads are scheduled and the poll times out. The two
  lock operations of the new thread are strongly fair, since the owner may wake
  up spuriously, take the mutex and wait again for ever in a weakly fair run.
  Nobody is obliged to call `startLoop`, the destructor or `quit`.
- `TcpServer`: each loop polls, handles and executes. For `ShutdownCompletes`
  the client reads what it is sent; this is about the environment, and without
  it a full socket stays full.
- `SqlConnPool`: the producer runs, and a waiting user gets the mutex in some
  of the moments when the queue has a connection (its timed wait ends again and
  again). Nobody has to finish a query or give a connection back.
- `AsyncLogging`: the thread runs; its wait ends after 3 seconds; the clock goes
  on; `fwrite` takes something each time, and with the buffer's end in sight
  all of it.
- `HttpServer`: `onMessage` comes to its end and the write-complete callback is
  called. No client has to send anything.
- `TimerQueue`: the loop runs, callbacks return, time passes, and functors
  queued in the loop are executed in each iteration (strong fairness, because a
  timerfd that is readable again and again disables the action in between).

## 5. The proofs

Checked by TLAPS for every value of the constants.

| Theorem | Statement | Argument |
|---|---|---|
| `EventLoopProofs!TypeCorrect` | `Spec => []TypeOK` | by the actions |
| `EventLoopProofs!NeverSleepsOnWork` | if `~EarlyQueue`, `Spec => [](WakeupInv /\ NoBlockedWork)` | `NoBlockedWork` speaks of the two phases around the poll and is not inductive. `WakeupInv` extends it to all phases between the swap and the next dispatch: whoever refills the queue there wakes the loop, and nothing drains the eventfd. The case that needs it is a functor that queues a functor |
| `EventLoopProofs!Refinement` | `Spec => ImplementsTaskQueue` | the queue is `functors \o pending`; a swap happens only when `functors` is empty and is a stutter, an execution takes the head, a push appends |
| `EventLoopProofs!ThreadTypesCorrect`, `PointerStaysLive`, `OwnershipSafe` | `ThreadSpec => []ThreadTypeOK`, `[]PointerIsLive`, `[]DestructorSafe` | one inductive invariant `OwnershipInv`: until the destructor has set `quit_` the loop has not left `loop()`, so `loop_` is set whenever the owner is between `startLoop` and the destructor's quit, and a destructor that finds it null belongs to a thread that was never started. All of it as long as no callback has quit the loop, which the variable `selfQuit` records |
| `TcpServerProofs!RegistrationSound` | `PollerSpec => []RegistrationAgrees` | with the type, by the six calls; a call first changes the mask (`Registered`) and then brings the four copies back into agreement (`Consistent`) |
| `TcpServerProofs!ServerInvariant`, `ServerTypeCorrect` | `Spec => []ServerInv`, `[]TypeOK` | `ServerInv` is `LoopsInv /\ LoneInv /\ UnsharedInv`, for programs with any, at most one, and no other thread at a connection. `LoopsInv`: the shape of each record; `Settled`, what a connection's state says of its channel and its bytes; `InItsQueue`, a functor is only ever in the queue of its connection's loop; `EstablishedFirst`, `connectEstablished` is in front of whatever else is queued for a connection that is still connecting; `Used`, another thread has only what it was given. Each handler is proved once on the record (`Handled`, `Flushed`, `Sent` and so on), then each action on the queues |
| `TcpServerProofs!ServerStreamInOrder` | `Spec => []StreamInOrder` | for any threads: a number is taken when a byte is handed to `sendInLoop`, and what is written is the front of what is held |
| `TcpServerProofs!ServerNoDanglingChannel` | `Spec => []NoDanglingChannel` | for at most one other thread. A connection whose channel is registered, or will be, is in `connections_` or has its `connectDestroyed` in the queue, each of which holds a `shared_ptr`. That nobody registers the channel after `connectDestroyed` needs `ShutdownWaits`: while a send is pending, a shutdown that has begun still waits for the output buffer or is done, so that a late send does not register the channel again |
| `TcpServerProofs!ServerWatchedAsNeeded`, `ServerShutdownFlushes`, `ServerCallbacksPaired`, `ServerClosedIsFinal` | `Spec => []` of each; the last `Spec => ClosedIsFinal`, an action property | when only the loops use a connection, `state_`, the mask, the output buffer and the counts of callbacks determine each other (`Kept`) |
| `HttpServerProofs!BufferCorrect` | `Spec => [](TypeOK /\ BytesInOrder)` | `BufferInv` is both together. Lemmas for growing and moving back (`Keeps`: the readable part is the same and there is room), for appending, reading and retrieving |
| `HttpServerProofs!SessionTypeOK`, `SessionBytesInOrder` | `SessionSpec => []TypeOK`, `[]BytesInOrder` | the steps of a connection are steps of `Buffer` or leave it alone, so the lemmas of the buffer carry over; what is left to show is that the parser never takes more than is readable, although it skips two bytes behind every line (`httpRequest.cpp:62`): a line that is not the whole text ends before a CRLF, by counting the letters in front of it |
| `HttpServerProofs!SessionAnswersMatch` | `SessionSpec => []AnswersMatch` | `SessionInv` says at which letter of the stream the parser stands: between requests all that was read is answered (`Idle`), while parsing it is at a line of request number `reads` and knows what the lines before it told it (`Parsing`), and then the response is for that request (`Responding`). `Alone` adds that pages are there while nobody edits. Letters are followed line by line: where the first CRLF of each kind of request is, is counted, and `FlattenSeqParts` finds a request in the stream of all of them |
| `SqlConnPoolProofs!PoolTypeOK`, `PoolExclusive`, `PoolCountExact` | `VerifySpec => []TypeOK`, `[]Exclusive`, `[]CountExact` | inductive together: a connection is in the queue once, in one hand, or deleted, and each of the steps that count changes exactly one of these. With finite sets and their cardinalities |
| `SqlConnPoolProofs!RowsUnique` | `VerifySpec => []NameTakenOnce` | the rows of a name and the threads about to insert it are at most one together, unless the name is in `raced`; a thread that finds no row either finds no other thread or puts the name there |
| `AsyncLoggingProofs!PointersValid` | `Spec => []NeverNull` | `BuffersInv`, the types of the buffers and where the spares may be null; the lemma `KeptTwo`: a pass keeps exactly two buffers, and takes at most two |
| `AsyncLoggingProofs!LinesOrdered` | `Spec => []LinesInOrder` | the files, the rest of the pass, `buffers_` and `currentBuffer_` make one stream, in which the numbers increase (`InOrder`). The parts are flattened, and what flattening does to an appended, dropped or cut part is proved in `SequenceLemmas` |
| `AsyncLoggingProofs!LinesKept` | `Spec => NoneDropped` | in the invariant of `LinesOrdered` the stream only grows (`Grown`): a pass moves buffers to the files one after the other, a partial write keeps the rest, and `Recycle` throws away nothing that is not written (`PassInv`) |
| `TimerQueueProofs!CalledOnce` | `Spec => []OnceEach` | `TimersInv`: expired timers exist only while `handleRead` runs, and those still to be called are among them |
| `TimerQueueProofs!AlwaysArmed` | `Spec => []ArmedForEarliest` | `ArmedInv`. It is inductive since the property already speaks of the phases in which the timerfd is off: fired and not read, or expired timers that wait for `reset`. `Earliest` is a CHOOSE over a set, so it needs a lemma that a bounded set of naturals has a least element; without induction that is shown by counting the numbers above it (`LeastExists`) |
| `MemoryProofs!MemoryInvariant`, `MemoryTypeCorrect`, `MemoryQuoteCounts`, `MemoryDisjoint` | `MemorySpec => []MemoryInv`, `[]TypeOK`, `[]QuoteCounts`, `[]Disjoint` | `Disjoint` alone is not inductive. `PoolInv` adds that `last_` lies in its block (`InBounds`), that every request in use lies behind the headers, aligned (`AllPlaced`), and ends at or before `last_`, with room for `quote_` requests below it (`RoomIsFree`). So a new request starts behind all others, `quote_` does not wrap around, and the block that `freeMemory` empties when it reaches 0 holds no request in use |
| `MemoryProofs!MemoryLargeOwned` | `MemorySpec => []LargeOwned` | `DealInv`: a block in use is with one view or one thread in `deallocate` (`OneOwner`), and a thread between the two locks is in `largeDeal_`, one for each address (`DealEntered`) |

Assumptions. `~EarlyQueue` in `NeverSleepsOnWork`: a functor queued by the
loop's own thread before `loop()` is written nowhere and is slept upon (section
6). The others are assumptions on constants, named in the modules that declare
them, and TLC evaluates each on every run:

- `BufferAssumption`, `LoggingAssumption`, `LogFileAssumption`, `MsgLenAssumption`:
  sizes and bounds are natural numbers, a message has a byte, a log buffer has
  room for a line, `FlushAfter` is no less than the code's interval.
- `ServerAssumption`: a program's pool is a sequence of loops.
- `HttpAssumption`: a client sends the three kinds of request; an edit removes
  a page or puts another file there.
- `TimerAssumption`: intervals are within the bound on delays.
  `StarterAssumption`: the owner is one of the callers.
- `PoolAssumption`: `minSize_ <= maxSize_`, and there are objects for all of them.
- `MemoryPoolAssumption`: headers fit a page and keep the alignment, a request is
  not empty, `quote_` can count more than a page has bytes.

What only TLC checks is liveness, since the prover has neither ENABLED nor
fairness: `Delivered`, `QuitEndsLoop`, `StartLoopReturns`, `QuitIsObeyed`,
`ClosedIsDestroyed`, `ShutdownCompletes`, `ServedWhenReliable`, `LineWritten`,
`EveryTimerRuns` and `ClosedAfterAnswer`. Every invariant and every safety
property of a passing run is stated by a theorem.

The library's induction theorems take a predicate, which the provers here cannot
instantiate. For one fixed set it can be had from the fact that `<` on the
naturals is well-founded (`SetInduction`), and that is how the lemmas about
`FlattenSeq` are proved; what other recursive definitions compute for every input
is not proved. The inductive invariants were checked
by TLC in the same small instances as the properties they imply, before they
were proved.

## 6. Where the code and its comments differ

Two are shown by a run.

- `SqlConnPoolStale` (`Mysql/sqlConnectPool.cpp:23`). `getConnection` empties a
  queue whose first connection is dead, without a notify. The producer is asleep
  waiting for an empty queue, and nobody tells it; the caller then waits for a
  connection that nobody creates. The comment at :12 says that the connections
  are cleared and made again. With a reliable database the same property holds
  (`ServedWhenReliable`).
- `AsyncLoggingFull` (`Logger/AsyncLogging.cpp:111`). Spares are recycled with
  `bzero()`, which clears the bytes and leaves the write position, so that a
  buffer that was filled comes back full and drops every line put into it.
  What a buffer accepts is not lost (`NoneDropped`).

The others were met while modelling. They are in the model, and the properties
carry the condition under which the code keeps them.

- `Net/EventLoop.cpp:104`: `quit()` wakes the loop only when the loop's own
  thread calls it; a quit from another thread waits for the poll timeout
  (`QuitEndsLoop` has it as a premise).
- `Net/EventLoop.cpp:140`: a functor queued by the loop's thread before `loop()`
  wakes nobody (`EarlyQueue`).
- `Net/EventLoop.cpp:68`: `loop()` overwrites a `quit()` that came before it
  (`QuitIsObeyed` says `pc # "ready"`).
- `Net/EventLoopThread.cpp:19`: after a loop that quit by itself, the destructor
  may detach the thread and free the mutex under it, or find `loop_` null at its
  second read; and `startLoop` may wait for ever if the loop is gone before it
  looked (`selfQuit` in these properties).
- `Poller/EPollPoller.cpp:87`: an update of a channel without events that is not
  registered registers it. `RegistrationAgrees` holds all the same.
- `Net/TcpConnection.cpp:122`: a `send` tested before a `shutdown` of another
  thread is written after it (`ShutdownFlushes` is about connections that only
  the loops use).
- `Net/TcpConnection.cpp:197`: a `shutdown` of another thread may store
  `kDisconnecting` over `kDisconnected`, and a queued send then registers the
  removed channel again. That takes two other threads, one that tested for its
  `send` before the close and one that shuts down: `NoDanglingChannel` says
  `Lone`, at most one. `StreamInOrder` holds for any threads; `ClosedIsFinal`,
  `CallbacksPaired`, `WatchedAsNeeded` and `ShutdownFlushes` say `Unshared`.
- `Net/TcpConnection.cpp:131`: a write on a reset connection raises SIGPIPE,
  which the code expects as an error (:152) and nothing ignores.
- `Net/TcpServer.cpp:75`: `src/README.md:38` promises that silent connections
  are closed by a timer; no timer is set.
- `Mysql/sqlConnectPool.cpp:52`: the connection handed out is not the one that
  was tested, since the mutex is released in between.
- `Logger/AsyncLogging.cpp:64`: the thread leaves its loop without a last pass,
  so that lines before `stop()` may never be written (`LineWritten` ends at the
  stop).
- `Timer/TimerQueue.cpp:146`: expirations are wall clock times and the timerfd
  is monotonic; after a clock set back, a wakeup finds nothing due and the
  timerfd stays off (`steps` in two properties).
- `Memory/MemoryPool.cpp:28` and `:124`: `quote_` is used uninitialised;
  `Disjoint` and `QuoteCounts` hold where the memory was zero
  (`clean`). `MemoryPool.cpp:55` reads `next_` of a freed node.
- `Memory/Memory.h:79`: the comment argues that two threads that deallocate one
  address meet in `largeDeal_`. A view is emptied under the exclusive lock, so
  the second never has the address; what `largeDeal_` can do is hold back a
  thread that was given the address anew, and it does not, because the address
  is taken out before the shared lock is released (`LargeOwned`, and its mutant).
- `Http/httpRequest.cpp:47`: a request that arrives in two reads is parsed as
  two, and only the last header's position decides that there is no body;
  `AnswersMatch` is about requests that arrive whole (`whole`). A further
  request in the same read as a POST's body becomes part of its last value.
- `Http/httpRequest.cpp:231`: two threads may find a name free and both insert
  it (`raced`); and :241 reports a registration as done whose INSERT has failed,
  although :238 sets the flag to false.
- `Http/httpServer.cpp:57`: every connection is shut down after its first answer,
  also when the answer's head says `keep-alive` (`ClosedAfterAnswer`). After a
  refused request line `onMessage` goes on and makes a second answer, which
  `send` drops since the connection is being shut down.
- `Http/httpResponse.cpp:128`: a failed `mmap` returns an address that is
  dereferenced before it is compared, so that the message below is never
  written; an empty file, or one that shrinks after `stat`, ends the process
  (`Crash`). With files that nobody changes it does not happen (`AnswersMatch`).
- `Logger/AsyncLogging.cpp:55`, `Logger/LogFile.cpp:62`: AsyncLogging gives `false`
  where LogFile takes the flush interval in seconds, and `LogFile::flush` leaves
  `lastFlush_` alone, so that once it is overdue every pass flushes.
- `Logger/FileUtil.cpp:22`: a disk that refuses data keeps the loop busy.

## 7. What is not modelled

- `Logger`, `LogStream`: formatting of one line on the caller's stack.
- `CurrentThread`, `Timestamp`, `noncopyable`: no state that changes.
- Of `HttpRequest` and `HttpResponse`: the decoding of `%xx`, the head's text,
  the types of files.
- `Acceptor`'s limit of descriptors (EMFILE), errors of `epoll_wait` (the program
  installs no signal handler), socket options and addresses: answers of the
  system without state in this program.
- The destruction of `SqlConnPool` and of `TimerQueue`, and of a thread pool
  after its server. `Memory::getInstance`, a member function that needs the
  object it would create.
- Web pages, build files and compiled tests.

## 8. Plan

Done in this order, from the centre outwards: `TaskQueue` and `EventLoop` with
their proofs; `EventLoopThread`; `Channel` and `Poller`; `TcpConnection` and
`TcpServer`; `TimerQueue` and `Buffer`; `SqlConnPool`; `AsyncLogging`;
`MemoryPool`; then `Memory` over `MemoryPool`, `UserVerify` over `SqlConnPool`,
`LogFile` under `AsyncLogging`, `HttpRequest` and `HttpServer` over `Buffer`, and
the proofs of `SqlConnPool`, `AsyncLogging`, `TimerQueue` and `HttpServer`; then
the proofs of `TcpServer`, of `Memory` with `MemoryPool`, of the order of the log's
lines and of the answers.

Next, to model: the teardown of `TcpServer` with its pool (`EventLoopThread` per
loop), and of `SqlConnPool` with its detached threads.

Next, to prove:

1. The same properties of `TcpServer` through the teardown of its pool, once it is
   modelled.
2. `TcpServer`: that the queue of each of its loops implements `TaskQueue`, as
   `EventLoop` does, so that what one assumes is what the other promises.
3. `TimerQueue`: that nothing is called before its time, with the clock stepped
   back counted in.
