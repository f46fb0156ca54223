# Formal model of hutty

hutty is a small C++11 network library in the manner of Netty: a thread pool
(`schedule/`), byte buffers and sockets (`io/`), a pipeline of handlers
(`handle/`) and a server bootstrap that ties them together (`strap/`). This
directory holds TLA+ modules of its core, the TLC configurations that check
them on small instances, and proofs that TLAPS checks for every size.

The repository has no tests, and its documentation is the comments in the
headers, so the source is the reference throughout. The Makefiles build without
optimisation: loads and stores happen in program order, and an unlocked access
is modelled as a step of its own in that order.

## 1. Inventory

For each component: its state, its operations, how it interacts, what is hard
about it, and what makes it correct.

### FifoQueue (`structure/fifoqueue.h`)
- State: an array of `m_length` slots, `m_push_index`, `m_pop_index`,
  `m_new_index`, a mutex.
- Operations: `push`, `pop` under the mutex; `size`, `length` without it.
- Interacts: `submit()` pushes, workers and the draining master pop; submit and
  master read `size()`.
- Hard: the array's front is reused while its back is still being read, and all
  three indexes are switched when pops reach the end; `size()` reads the three
  indexes while that happens.
- Correct if: it is a bounded FIFO, and a wrong `size()` is wrong by a bound.

### ThreadPool (`schedule/thread.cc`, lines 272-556)
- State: `m_live_t`, `m_exit`, `m_pool_shutdown`, the queue, the slots
  `m_worker_threads`, a mutex for the slots, a semaphore.
- Operations: `submit` (shutdown test, growth, push, overflow policy, post),
  `shutdown`, the master's loop (grow, clean up, reclaim; on shutdown: release
  the workers and drain), the workers' loop (wait, exit test, pop, run).
- Interacts: any thread submits; event loop groups delegate to it; futures.
- Hard: every decision reads shared state outside the mutex; one semaphore
  carries tokens for tasks and for exits; workers are not joined before their
  slots and the queue are freed.
- Correct if: the counts balance, no task is lost, run twice or reordered,
  queued tasks are started, and a shutdown ends.

### ThreadFuture and the lifetime of tasks (`schedule/thread.cc`, lines 206-255)
- State: the static `s_futute_map` from task addresses to (done, data).
- Operations: constructor, destructor, `isDone`, `get`, `set`.
- Hard: registered after the task may already have run; found by the address of
  an object that is deleted and may be allocated again; searched unlocked.
- Correct if: a future reports its own task's result, nothing is left behind in
  the map, `get()` returns.

### Thread (`schedule/thread.cc`, lines 5-136)
- State: `m_flag` (not created, created, running, ended, cancelled), the
  interrupt flag, the static cache from system thread ids to `Thread`.
- Hard: the flag is written by the thread, by `join` and by `stop` without a
  lock; the cache is searched unlocked and keeps the older of two entries.
- Correct if: `getCurrentThread()` is the caller's `Thread`, and a thread that
  ended is seen to have ended.

### Thread event loop group, thread-local map, mutex and semaphore (`schedule/`)
Thin layers: a group delegates to one pool; `ThreadLocal` is a map by thread id
without a lock; `wlock` wraps pthread.

### ByteBuf (`io/buf.cc`)
- State: storage, capacity, read index, write index, one mutex per direction.
- Operations: typed reads and writes over `readBytes` and `writeBytes`,
  `onlyReadBytes`, `readBuf`/`writeBuf`, `clear`, `resize`.
- Hard: a reader and a writer exclude only their own kind; `resize` replaces the
  storage; failure is reported in different ways.
- Correct if: bytes come out in the order they went in, indexes stay in bounds,
  every lock is released.

### Channels and sockets (`io/channel.cc`, `io/niosocketchannel.cc`, `io/socket.cc`)
- State: a descriptor, a user-space buffer for peeked and for unsent bytes.
- Operations: `read`, `write`, `tryRead`, `tryWrite`, `flush`, `close`, `accept`.
- Hard: partial writes, the peeked byte, closing while another thread uses it.
- Correct if: no byte is lost, duplicated or reordered between pipeline and wire.

### Pipeline and handler contexts (`io/defaultchannelpipeline.cc`, `handle/`)
- State: a doubly linked list of contexts between head and tail, the destroyed
  flag, per thread the current outbound context.
- Operations: `addFirst`, `addLast`, the events inwards (`fire...`) and
  outwards (`write`, `writeFlush`).
- Hard: a handler may write while it handles a write; destruction has two phases.
- Correct if: links are symmetric, each event visits each handler once in order,
  a re-entrant write goes on from the handler that made it, and the replies made
  in a read are those that its write encodes (`bytetransformhandler.h`).

### ServerBootstrap and ChannelFuture (`strap/`)
- State: the selector's list of channels, the maps of channels with a read or a
  write under way, the listeners.
- Operations: `sync`, `waitForClose`, the acceptor `boos`, the selector
  `workerSelect`, the event handler `workerHandler`.
- Hard: three threads share lists and maps under mutexes that do not cover every
  access; channels are deleted by the selector while events are queued.
- Correct if: each channel is handled by one worker at a time, no channel is used
  after its deletion, accepted channels are served.

### Config, logger, exceptions, environment, maps, the example
`utils/config.cc` parses an ini file at start-up and answers look-ups; the rest is
output, formatting, templates and a demonstration. None of it has a protocol.

How the parts interact: the bootstrap submits acceptor, selector and events to
pools; a pool stores tasks in its FifoQueue and reports through futures; an
event runs a pipeline on a channel; head and tail contexts read and write the
channel through ByteBufs.

## 2. Modules

| module | role | models |
| --- | --- | --- |
| `BoundedFifo` | abstract | what a bounded queue promises its callers |
| `FifoQueue` | detailed | `structure/fifoqueue.h`; refines `BoundedFifo` |
| `TaskPool` | abstract | what a pool promises of the tasks handed to it |
| `ThreadPool` | detailed | submit, shutdown, master, workers; refines `TaskPool` |
| `ThreadFuture` | composed | futures and task lifetime, over the steps of `TaskPool` |
| `ThreadLife` | detailed | class `Thread` and its cache, `schedule/thread.cc` |
| `ByteBuf` | detailed | `io/buf.cc` under concurrent calls |
| `Buf` | operators | the calls of `io/buf.cc` that nothing overlaps, and the two stores of a write |
| `NioSocketChannel` | composed | a connection, its two `Buf`s, selector and workers |
| `Pipeline` | detailed | `handle/`, `io/defaultchannelpipeline.cc`: the chain and its walks |
| `Bootstrap` | composed | `strap/`: acceptor, selector, workers, start and listeners |
| `MC...` | checking | constants and symmetry for TLC |
| `...Proofs` | proofs | theorems about each of the eight detailed and composed modules, for every value of the constants |

The definitions ahead of an action that are named for what they get wrong
(`PushBackOneTooMany`, `ReadClaimUnlocked`, ...) and introduced as "Variant with
a plausible bug" are faulty variants of that action. They are no part of a
specification: each property was seen to fail when its variant stands in for the
action.

### FifoQueue
A push, or a pop before the switch, stores one index under the mutex and is one
action. The switch (lines 65-68) stores four times, so it is the four actions
`SwitchPush`, `SwitchNew`, `SwitchPop`, `SwitchTake`, between which `switching`
keeps other pushes and pops out (the mutex) but not readers. `size()` is the
three loads `LoadPush`, `LoadPop`, `LoadNew`. Sums are taken modulo
`SizeModulus`, which is 2^64 in the code. `Items` is the queue that the indexes
stand for: the rest of the back, then the refilled front.

### ThreadPool
`call[t]` says where the call of `submit()` for task `t` is, `m_worker_threads[w]`
where the thread in slot `w` is, `master` where the master is. A critical
section of `m_thread_mutex` is one action; every read outside is an action of
its own, so `SubmitSize`/`SubmitGrow`, `WorkerCheck`/`WorkerCheckExit`/
`WorkerLeave` and `MasterIdle`/`MasterReclaim` are separate. The queue is a
sequence, which `QueueImplementsFifo` justifies; its unlocked size is any value
of `TornSizeRange` when `TornReads` is set. That range also covers a size that
has become stale by the time `m_live_t` is read next to it. After `freed`, a
thread that touches the queue or the slots is `"astray"`: the code says nothing
of what it does next, and the model lets it do nothing.

The model starts from what the constructor leaves behind, with one call of
`shutdown()`. Sleeps order nothing and are left out. `m_exit` may be
overwritten: the master's unlocked store (line 430) can be lost to a worker's
decrement, which is the second disjunct of `MasterExitAll`.

### ThreadFuture
The pool is `INSTANCE TaskPool`: `Accept`, `Start`, `Finish`, `GiveUp` and
`Close` are its steps together with what they do to tasks and futures.
`Allocate` takes any address that no existing task has, so addresses are reused.
`Register` comes after `Accept`, as in `submit()`, and may come after `Finish`.
`GetPeriod` may fail to see an entry, because `isDone()` searches without the
lock. `shared` records which tasks met on one address; only properties read it.

### ThreadLife
An object has an existence (`life`), the fields `m_flag` and `m_id`, a client that
runs, joins, stops and deletes it, and a system thread that is somewhere in
`start()` (`at`, `tid`). The system gives a new thread any id that no live thread
has, so ids come again. `EnterCache` is `insert()`, which keeps an older entry;
`FindSelf` and `SetDone` are apart because the look-up holds no lock. What uses a
deleted object is undefined: `Touch` lets the program end or go on. A `stop()`
in the thread's function aborts the program, since `catch (...)` swallows the
unwinding (`Cancelled`). `m_id` of a new object is arbitrary: the constructor does
not set it.

Three histories say where the code keeps no promise, id by id, and only the
property reads them: `stopped`, the objects that `stop()` was called on; `shared`,
the ids that were known for two existing objects at once; `late`, the ids under which
an object entered the cache that had been deleted before. The use of a deleted object
is in none of them: it may end the program or have its effect, and the property has
to hold of what goes on.

### ByteBuf
A call is a walk through `pc`: the mutex (`ReadEnter`, `WriteEnter`), then per byte
the store of the index (`ReadClaim`, `WriteClaim`) and the load or store of the
byte (`ReadLoad`, `WriteStore`), then the return. That is the order of
`m_buf[m_write_index++] = x` as compiled without optimisation. `Observe` and
`ObserveRead` are the two loads of an unlocked `readable()`. A byte is the number
of its write; `due` says which byte each slot should hold. `clear()` takes no
mutex and its callers (`flush`, the contexts) own the buffer or hold a mutex of
their own, so it overlaps with `readable()` only. `resize()` to the present
capacity (`ResizeSame`) returns with both mutexes held, as in line 315. `Answer` is
what a call tells its caller: the bytes; the value that the read started from, which
is a failure that can be told from data for -1 or an empty string, and one that
cannot for `readByte()`, `readBool()`, `readFloat()` and `readDouble()`; or, for a
failed `readShort()`, two bytes of its stack.

### Buf and NioSocketChannel
`Buf` holds the results and after-states of calls that nothing overlaps, as a mutex or
the ownership of a buffer ensures for `m_buffer`, and the two stores that a write
makes for each byte. In `NioSocketChannel` the selector looks at a connection with
`tryRead()`: it takes one byte off the socket (`TryRecv`), advances the write index of
`m_read_buffer` (`TryClaim`) and stores the byte (`TryStore`), or drops it when the
buffer is worn out (`TryNoRoom`). It does so under `m_wmutex`, and a worker reads under
`m_rmutex`, so the steps of its `read()` come in between: the test (`ReadTest`), per
byte the store of the read index and the load (`ReadClaim`, `ReadLoad`), the end of the
loop (`ReadTaken`), and the socket (`ReadSocket`, `ReadNothing`, `ReadEnd`). A slot that is
loaded before its store holds something else: `-b` in place of byte `b`, which
is then `overtaken`.

Workers write as the pipeline's head does: flush, write, flush, each a critical
section of `m_write_mutex`. The socket is external and non-blocking: it takes all, some
or none (−1) of a write, and a read finds bytes, nothing (−1) or the end (0). `Ages`
are bytes that have gone through both linear buffers before the run begins, so
that a buffer nobody ever clears can wear out within a few bytes.

### Pipeline
`stack[t]` holds the walks of thread `t`: a read or an event from head to tail, a
write towards the head, and inside them the writes that handlers make. One action
is one visit of a context. `m_in_outbound` and `m_current_context` are the thread
locals that decide where a nested write starts (`Start`). For the property a walk also
has its `writer`, the handler whose `channelWrite()` made it, and `again`, whether that
handler's walk had lost its routing by then: the head resets both thread locals at the end of
every write, also of one inside another (`rerouted`). So the first write of a handler
goes on from it, as the comment at `channelcontexthandler.cc` line 17 says, and a second one
starts at the tail and calls its writer again inside the writer's own
`channelWrite()`, against that comment. `WholeChain` asks for just these two ways (`WayOf`);
it does not measure a walk by where the code let it start.

`m_type_local` is the per-thread list of replies of a transforming handler, kept as
its length; a list that was never made is a null pointer, and following it ends the
program. `Throw` ends all walks of a thread and leaves its routing as it stands. `FireEvent` is every
`fire...` whose handlers differ only in the member function called. The destructor
begins when no thread is in the pipeline; `Bootstrap` has the threads that still
use a channel being freed.

### Bootstrap
`main` is the caller of `sync()` and `waitForClose()`, `start` the start task, which
submits acceptor and selector, each to a pool that may have been shut down by then,
`told` what the listeners heard, `acceptor`, `sel` and `pc`/`job` where acceptor, selector and
workers are. `list` is the selector's `std::list` of channels (`sel.i` the iterator),
`map` the two maps of dispatched events, `pool` the worker pool's queue. The pool keeps
what `TaskPool` promises, a bounded FIFO that refuses tasks and starts each
accepted one once, which `ImplementsTaskPool` checks of the real one.

A visit of a channel is the steps of `W_TRY_`: the search of the map, the look at the
channel, the entry in the map, the submission. The search takes no mutex. While a worker
erases from the map (`BeginErase` to `EraseEntry`), it may miss an entry that is there
(`SearchFindsNothing`), or follow a node that is being freed, which ends the program
(`SearchGoesAstray`). `missed` counts, per event, the entries that were missed and put in
again. A channel that is closed is marked in one round (`VisitClosed`) and freed in the
next (`VisitDestroyed`). A connection whose `init()` or `fireConnected()` throws is
accepted and in no list for ever (`AcceptFails`, `lost`). A write-through that fails
leaves the channel's write mutex locked (`leaked`), and a worker that flushes it then
waits for ever. Using a freed channel and shutting a pool down a second time are
undefined, so `crashed` may become TRUE or the run goes on.

Bounds that are named in the module: peers connect only to a server that is not being shut down;
a write fails only after the peer has closed; and only the connections of `Busy` have a peer
that closes, handlers that write or close, and searches that miss them. The liveness
properties speak of those, which can do all that the others can.

## 3. Runs

| run | what it shows | bounds |
| --- | --- | --- |
| `fifo_pass` | the array is a bounded FIFO; unlocked sizes are wrong by a bound | capacity 3, two elements, one reader |
| `fifo_size` (violation) | `size()` can exceed the capacity or wrap | capacity 3, one element, one reader |
| `pool_safety` | counts, tokens and tasks stay in balance; refinement of `TaskPool` | 3 tasks, 1 to 2 workers, queue of 2, torn sizes, shutdown, two policies |
| `pool_live` | queued tasks start while a worker is left; shutdown releases every worker and returns | 2 tasks, 1 to 2 workers, queue of 2, exact sizes |
| `pool_min` (violation) | fewer workers than the minimum can remain | as `pool_safety`, exact sizes, no shutdown |
| `future_pass` | futures report their own results, leave nothing behind, return | 2 tasks, 2 addresses, timeouts 2 and 9 of 16 |
| `future_lost` (violation) | a result that comes before its future is lost | 1 task, 1 address |
| `thread_pass` | object, thread and cache agree under every id that was not known twice | main and 3 objects, 3 ids |
| `buf_pass` | bytes are present, in order and taken once, answers are whole; calls return | 2 threads, capacities 2 and 3, lengths 1 and 2, values of 1 and 2 bytes, `MaxBytes` 3 |
| `channel_pass` | no byte is duplicated; losses are of four kinds and single; each `read()` is in order; output leaves | selector and 2 workers, `Capacity` 4, `ReadLength` 3, `MaxIn` 2, `MaxOut` 2, ages 0 and 3 |
| `pipeline_pass` | every walk calls the handlers between its writer and the head once and in order; routing is clean afterwards | 3 handlers, 2 threads, `MaxDepth` 2, `MaxReplies` 1 |
| `bootstrap_pass` | an event per entry, and one more per missed search; input is read, closed channels are freed | 2 connections that talk, one of them in `Busy`, selector and 2 workers, queue of 1, `MaxSend` 2, `MaxMissed` 1 |

Why the bounds are enough. Capacity 3 lets back, reused front and a switch with
both empty and non-empty rests occur, and a switch be followed by another. Two
workers with a minimum of one are the least pool that grows and shrinks; three
tasks fill a queue of two and overflow it. With the torn sizes of `pool_safety`
every comparison goes either way at every moment, so growth and reclaiming do
not depend on long queues. Two tasks and two addresses allow reuse and its
absence. Sixteen periods stand for 2^32 ms: 2 is a positive timeout, 9 becomes
negative in the cast to int. No counter of the pool needs a bound of its own: a task
is submitted once, the live count has its limits, and a thread told to leave keeps
its slot until it has left, so that exit requests and tokens stay few although the
master may reclaim and grow again and again.

`thread_pass`: with three objects and three ids an object gets the id of another that is
live, deleted or over, and a third disturbs either. `buf_pass`: with `MaxBytes` 3 and
capacities of 2 and 3 the buffer fills up, is cut short by a `resize()`, worn
by a write and a half, and cleared; two threads are one per mutex and the extra
one that reads `readable()` in turn. `channel_pass`: `ReadLength` 3 is more than
the two bytes of the peer, so a read meets an empty buffer, an empty socket and
both; `Capacity` 4 is half full after two bytes, the threshold of `write()`; an age
of 3 leaves one byte of room. `pipeline_pass`: `a` reads, writes and transforms,
`b` writes and takes events, `c` only writes, and all orders of adding them are
explored, so a writer can stand first, between and last. `bootstrap_pass`: a queue of one
refuses the second event, which may be of the same connection or the other; two bytes
let a second read event be due while the first is handled; one missed search
dispatches a channel twice at a time; two workers let an erasure go on while the
selector searches; the other connection is what an erasure in the list shifts.
Named bounds are `MaxBytes`, `MaxIn`, `MaxOut`, `MaxDepth`, `MaxReplies`, `MaxSend`,
`MaxMissed` and `Busy`.

`CHECK_DEADLOCK FALSE` appears where the system may stop: a pool that was shut
down has ended, clients need not submit, read futures or call a buffer, objects
and connections may all be gone, a chain may have been deleted, and a program
that has crashed takes no step. Symmetry is used for tasks, for threads in
`pipeline_pass` and for objects in `thread_pass`, in safety runs only; they are
compared with each other for equality and nothing else.

### Fairness
- A thread that can run does run: weak fairness of each worker, of the master,
  of a call of `submit()` that has begun, and of the thread that NEW_THREAD
  joins. The kernel's scheduler justifies it. It covers tasks that are running
  (`WorkerFinish`): the pool can promise nothing when a task never ends.
- Waiting for the semaphore is weakly fair only. A worker may be overtaken
  again and again, and no property depends on which one is woken.
- `shutdown()` goes on after the master has ended (`ShutdownFree`), since it
  waits for nothing else. Nobody has to call `submit()` or `shutdown()`.
- In `ThreadFuture`: accepted tasks start and end, which `QueuedTasksStart`
  checks of the pool as long as it has a worker; calls of `submit()` and `get()` go on.
- In `ByteBuf`: a call under way goes on (weak), and a thread gets a mutex that is
  free again and again (strong): each holder keeps it for one short loop.
- In `NioSocketChannel`: the selector's loop goes on (weak); each worker goes on
  (strong), as it may find the mutex taken or the event gone at every try. Nobody
  has to write or to close.
- In `Bootstrap`: the selector and each worker go on (weak). Nothing is asked of
  the acceptor, which waits for peers, nor of the peers.
- `Pipeline` and `ThreadLife` have no liveness property and no fairness: handlers
  and thread functions are the user's and need not return.

`pool_live` has a pool that shrinks and grows between one thread and two. The race of
`pool_min` may leave no worker at all, and a queued task then waits until
somebody submits enough to make the pool grow: `QueuedTasksStart` makes an exception of a
pool without workers, and `pool_min` shows the step that leads there. Sizes are
exact in this run. With torn sizes at every test the master could let the same
thread go and come back for ever, which no execution of finitely many pushes and
pops does.

### What the violations show
- `fifo_size`: the comment at `fifoqueue.h` line 113 promises the used size. A
  reader between the stores of a push, a pop or a switch gets another number.
- `pool_min`: `thread.h` line 145 calls `t_min` the least number of threads. Two
  workers that read `m_exit > 0` before either decrements it both leave.
- `future_lost`: `thread.h` line 171 says that `submit()` returns the future of
  the task's result. A task that runs before line 385 has its result dropped.

### What the runs reach and no property forbids
The properties of the passing runs name the conditions under which the code keeps
its word. Outside of them the models reach the following, all of it in the code.
- `Bootstrap`: an event of a channel may be handled after the selector has freed
  the channel; `fireRegistered()` may come after it too; `sync()` and the acceptor
  may both shut the pools down. A refused event leaves its entry behind (`left`):
  that channel is never dispatched for that kind again. A missed search dispatches a
  channel twice at a time, and even without one a second event may be dispatched
  while the first is handled, as the entry is erased before the handling. An
  acceptance that throws leaks its connection. A failed write-through takes away one
  worker after the other, as they come to flush that channel.
- `NioSocketChannel`: a byte read alone, with nothing after it on the socket, is
  thrown away, because −1 is added to a count of 1; so is what was read before the
  end of the stream. A worker that loads a slot between the two stores of `tryRead()`
  passes on what was there before, and the byte is lost. `m_read_buffer` is not
  cleared: worn out, it drops each byte that `tryRead()` takes. Two threads between
  buffer and socket can swap bytes. A write that fails leaves `m_write_mutex` locked. A partial write loses
  the rest.
- `Pipeline`: a handler's second write inside its `channelWrite()` starts at the tail and
  calls that handler again; after an exception a thread's next write may start in the middle of
  the chain; a transforming handler on a thread that never read follows a null
  pointer; a thread that writes without a read encodes the last read's replies
  again.
- `ByteBuf`: `resize()` to the same capacity blocks the buffer; a failed `readShort()`
  answers garbage, and a failed `readByte()`, `readBool()`, `readFloat()` or
  `readDouble()` a value that data can have as well.
- `ThreadLife`: under an id that two objects know, a thread may find the other's object,
  and a destructor may erase the other's entry. A thread whose object is deleted
  between its search and its store writes into freed memory.

Seen while reading and not modelled: `onlyReadBytes()` returns one more than it
copies (`buf.cc` line 140); `handlerContext()` never advances; the result of
`::accept` is not checked; `ChannelId` increments and loads its counter apart;
`pthread_create` is not checked.

## 4. Proofs

All theorems are about the specifications that TLC runs, for every value of the
constants that the named assumptions allow. Each safety property and each
refinement that a passing run checks is a theorem, and so are the action properties
that are not liveness: TLC checks them on a small instance, the proof system for any
number of threads, tasks, objects, handlers, channels, bytes and slots.

### Assumptions
They are the `ASSUME`s of the modules and nothing else. Most say that a null value is
no task, no handler and so on, or that a number is a natural one. The others:
`FifoQueue`, that the sums of `size()` do not wrap (capacity below 2^63);
`ThreadPool`, at least one thread, at most `MaxThreads`, a queue of one; `ByteBuf`,
that there is a greatest among the capacities that the constructor and `resize()`
are given (they are `int`s); `NioSocketChannel`, a capacity of two or more
(it is `1024 << 10` in the code); `Pipeline`, that a transforming handler both reads and
writes (`ByteTransformHandler` derives from both). The bounds `MaxBytes`, `MaxIn`,
`MaxOut`, `MaxDepth`, `MaxReplies`, `MaxSend`, `MaxMissed` are any natural numbers, so
no proof rests on their being small, and `Busy` is any set of connections that talk.

### `FifoQueueProofs`
- `QueueIndexes`, `QueueTypes`: `TypeOK` and `IndexInv`, by the invariant that is
  their conjunction. `IndexInv` needs its clauses about a switch under way: without
  them nothing bounds `m_new_index` when `SwitchPop` resets `m_pop_index`.
- `TornSizes`: `TornSizeRange`. What a reader has loaded so far bounds what it
  can still compute, since loaded values were at most the capacity when loaded.
- `QueueImplementsFifo`: initial states map to initial states and each step to a
  step of `BoundedFifo` or to a stutter. `MapPush`, `MapTake`, `MapPopEmpty` and
  `MapSwitch` are the cases: the first store of a switch changes how the indexes
  are read without changing the sequence they stand for.

### `ThreadPoolProofs`
- `PoolTypes`, `PoolBounds`: `TypeOK` and `LiveWithinBounds`, with `PhaseInv`
  (only a shutdown leads the master out of its loop or frees memory).
- `PoolWorkerBalance`, `PoolTokenBalance`, `PoolPopFindsTask`, by `BalanceInv`.
  The two balances alone are inductive except for `WorkerPopNothing`: a worker
  that finds no task would spend a token for nothing. The third part of
  `Balanced`, that exits still owed are covered by tokens other than those of
  workers at the pop, closes the gap: then the queue holds a task for each of
  them. `CountMove` is the lemma about counting on which every case rests: when
  one element of a finite set moves, its count changes by what the element does.
- `PoolImplementsTaskPool`: the refinement of `TaskPool`, with torn sizes, growth,
  reclaiming, every overflow policy and shutdown. It needs `TaskInv`: a task is at
  one place of the queue or in one worker's hands and not in both, and its call has
  been through by then. Without it a worker that pops could change the stage of
  another task, or start one again. `MapSubmit`, `MapWorker` and `MapMaster` show for
  each action which step of `TaskPool` it is, mostly none.

### `ThreadFutureProofs`
- `FutureTypes`, `MapIsClean`, `AloneIsRight`, `DoneIsStable`. The invariant adds to
  the properties `Lifetimes` (a task exists until it has been fulfilled or given
  up, a future only after its `submit()`) and `Apart`: as long as no second task was
  given the address of a task in use, every other task that ever had that address
  is gone, future included. Without `Apart`, an old task of the same address could
  still call `set()` on the entry.

### `ThreadLifeProofs`
- `ThreadTypes`, `ThreadsAgree`. The invariant goes id by id, as the property does, and
  through deletions: what belongs to an object under an id that is not in `shared`
  belongs to no other object or thread (`IdsApart`). Under one that is not in `late`
  either, no entry is of a deleted object (`CacheAlive`), a thread's entry is its own
  (`CacheOwn`), so is what it has found (`FoundOwn`), a deleted object leaves nothing to
  find (`DeadGone`), and `m_flag` goes with the thread (`FlagTells`). `Shape` is what holds
  under every id.

### `ByteBufProofs`
- `BufferTypes`, `BytesPresent`, `NeverAPart`, `ReadableIsSafe` and the action property
  `TakenOnce`. The invariant says who holds the mutexes (`Owners`) and how far each
  call has come (`Reading`, `Writing`, `Observing`): an all-or-nothing read keeps as
  many bytes ahead of it as it has still to take, although writers run beside
  it, since only holders of `m_rmutex` lower that number, and its answer follows
  from whether it failed. `Ordered` numbers the
  bytes in the order of their slots, which makes `TakenOnce` follow.

### `NioSocketChannelProofs`
- `ChannelTypes`, `BytesConserved`, `BytesInOrder`, `WireInOrder` and the action property
  `LostAlone`, all from `ChannelIsSound`, with the selector's stores and the workers'
  loads interleaved. `InputConserved` counts places; the invariant says instead (`Divided`) that
  unread slots, hands, pipeline and bin are pairwise disjoint and make up just
  what has left the socket, which is what a step that moves bytes keeps. `SignInv` says
  where something else stands for a byte: where its store is still to come or has come
  too late. `OrderInv` keeps what a reader has in hand older than what it may still
  find; `AloneInv` is what overlapping takes away.
  `Written` relates what was accepted, the content of `m_buffer` and the wire by
  positions, since a partial write leaves a gap.
- The lemmas about `Buf` say what the calls of the buffer return and leave for every
  buffer and length.

### `PipelineProofs`
- `PipelineTypes`, `WalksAreWhole`, `RoutingIsLeftClean`, all from `PipelineIsSound`,
  for any set of handlers of any kinds, added in any order. The links go along
  `order` (`LinkInv`), or along what the destructor has left of it (`EndInv`).
  `WholeChain` speaks of walks at their end; the invariant has to say of a walk at
  place k what it has called and encoded so far (`WalkedDown`, `WalkedUp`).
  `RouteInv` is what makes it inductive: the thread locals tell, for the
  innermost write of a thread, whether it is at the handler that made it, which has
  to be skipped, or at another. It is also why `Throw` needs the exception in the
  properties: it leaves the routing of a walk that is no more. `WaysInv` says that where
  a write began is where its way begins: behind its writer as long as the walk
  around it had its routing, at the tail afterwards.

### `BootstrapProofs`
- `ServerTypes`, `EntriesMatchEvents`. The list part: a channel is in one of the
  backlog, the acceptor's hands and the list (`Apart`), so the list has no channel
  twice and an erasure leaves none that is freed; the selector's place is inside the
  list or just behind it. The event part: with a search that may miss, an entry can
  have two events, so the events are counted. `OneEventPerEntry` relates their
  number to the entry and the misses, and is inductive as it stands. `CountTail` and
  `CountAppend` say how a step changes the number of an event's places in the queue.

### Only model-checked
- All liveness (`QueuedTasksStart`, `ShutdownReleasesWorkers`, `ShutdownReturns`,
  `RegisteredResultArrives`, `GetReturns`, `CallsReturn`, `OutputLeaves`, `InputIsRead`,
  `ClosedIsFreed`): the proof system does not reason about `ENABLED`, which
  fairness is made of.
- The three violations, which are single behaviours.

## 5. Plan

What is left, in order of importance.

1. `PoolStartup`: the constructor of the pool against the master it has started.
2. `ThreadFuture` over `ThreadPool` itself: its steps are those of `TaskPool`, which
   `PoolImplementsTaskPool` justifies for the pool's part of them; that `exists` and
   the pool's slots agree is not stated.
3. Steps towards the liveness properties that are safety: that a worker told to leave
   and one that waits always have their token before shutdown is `TokenBalance`; the
   counterpart after it, that the master posts as many tokens as workers wait, is
   not stated.
4. The channel of `NioSocketChannel` as the socket of `Pipeline`'s head, so that order
   and completeness hold from handler to wire.

## 6. Not modelled

- The constructor of the pool, against the master it starts (see the plan). The
  effects of a second `shutdown()`: that it may happen is in `Bootstrap`, what it
  joins and deletes twice is undefined.
- A server that is shut down with connections open, and the destructor of
  `ServerBootstrap`: peers connect only while the server is not being shut down.
- Memory corruption by unlocked use of `std::map` and `std::list`: a search may miss in
  `ThreadFuture`, and miss or end the program in `Bootstrap`, and that is all it may
  do; an append to the selector's list and an erasure from it are one step each; the
  map of `ThreadLocal` is a function.
- A worker that is told to leave and does not find itself among the slots, because
  `getCurrentThread()` takes it for another (`ThreadLife` says when it may): it goes on to
  `pop()` (`thread.cc` line 526).
- A `Runnable` under NEW_THREAD, for which line 370 starts a thread on a null
  function; the model runs such a task.
- What a thread does after it has touched freed memory: it ends the program or
  goes on as if the memory were there, and nothing in between.
- The values of numbers, byte order, and what messages say.
- Client side: `connect()`. Nothing in the library calls `onlyReadBytes()`,
  `readBuf()`, `removePrev()`, `handlerContext()`, `ReadWriteLock` or `SpinLock`.
- `Config`, `Maps`, `Logger`, `Exception`, `Environment` and the example: parsing,
  formatting, templates and constants without a protocol; a sequential unit test
  says all there is to say of them.
