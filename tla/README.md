# TinyReactor in TLA+

Specifications of the HTTP server under `reactor/`, an epoll-based main/sub reactor in
C++ with a worker pool, and of the four echo servers under `demo/` it grew out of. The
modules are translated from the C++ sources; TLC checks them on small instances, and
TLAPS proves, for instances of every size, every invariant and action property that the
passing runs check, and the refinements but for their liveness. Paths below are relative to
`src/reactor/`, or to `src/demo/` for the echo servers.

## The system

One process. `main` reads its settings and runs an `EventLoop` that accepts
connections; `TcpServer` deals them to `EventLoopThread`s, each with an `EventLoop` of
its own; requests are answered by a `ThreadPool`, and responses go back to the
connection's loop by way of `queueInLoop`. A signal ends it.

| Component | State | Operations | Talks to | What makes it correct |
|---|---|---|---|---|
| `EventLoop` | `looping_`, `quit_`, `pendingFunctors_`, `callingPendingFunctors_`, `events_`, the eventfd | `loop`, `queueInLoop`, `quit`, `wakeup` | every thread (mutex, eventfd); channels (callbacks) | no wakeup, functor, event or quit is lost; functors run once and in order |
| `EventLoopThread` | `loop_`, the thread | constructor, `getLoop`, destructor, `threadFunc` | its `EventLoop` | the owner sees a live loop; the destructor returns |
| `Channel` | `events_`, `added_`, callbacks | `handleEvent`, `enable*`, `disable*` | epoll | what waits is subscribed; no call on a destroyed object |
| `TcpConnection` | `closed_`, two `Buffer`s, the `HttpContext`, `timerId_` | `handleRead/Write/Close`, `send`, `connectEstablished`, `destroy` | loop, pool, timers, peer | closed once, released in the end, never destroyed while reachable |
| `TcpServer` | `connectionCount_`, `connections_`, `next_`, `subLoops_` | `start`, `shutdown` | main loop, I/O loops | the count is the number of open connections and is bounded; shutdown ends, and nothing is used after it |
| `Acceptor` | `listenfd_`, its channel | `listen`, the loop over `accept`, `close` | epoll, `TcpServer` | every connection that waits is accepted |
| `SignalHandler` | eventfd, `instance_` | `onSignal`, `handleRead` | main loop | a signal begins the shutdown |
| `Config` | `ServerConfig` | `parse`, `loadFromFile` | `main` | the settings are what the command line and the files mean |
| `TimerQueue`, `Timer` | `timers_`, `id2exp_`, the timerfd | `addTimer`, `cancel`, `handleRead` | loop, callbacks | a timer fires when due, unless cancelled in time; the timerfd covers the earliest |
| `Buffer` | `buf_`, `readIndex_`, `writeIndex_` | `append`, `prepend`, `retrieve`, `readFd`, `writeFd`, `shrinkIfLarge` | connection, parser | it is a queue of bytes; the indices stay in the vector |
| `HttpContext` | `state_`, `error_`, `contentLength_` | `parseRequest`, `reset` | buffer, `main` | requests are framed exactly, wherever reads cut them |
| `Router`, `StaticFileHandler` | routes; the root | `route`, `handle` | disk | the answer agrees with the disk |
| `ThreadPool` | `tasks_`, `running_` | `run`, `workerLoop`, destructor | I/O loops | no worker sleeps beside a task; stopping joins |
| echo servers | the descriptors they wait for | one loop each, over `select`, `poll`, `epoll_wait` (level and edge) | clients | they wait for what is open; what is sent is answered; who leaves is closed |
| `Metrics`, `Log` | counters; level | | | see *Not modelled* |

Hard to test here: the order of steps of the loop thread, the workers and the
acceptor; edge-triggered epoll, where an event that is not used up is not
repeated; objects whose last `shared_ptr` may be dropped by any of several owners;
the order in which all of it is taken down while requests are being answered;
callbacks that call back into the component that runs them; requests cut at any
byte; files that change while they are served. `PROJECT.json` lists each at its
line with the properties that watch it.

## Modules

| Module | Models | Against |
|---|---|---|
| `EventLoop` | the loop and its callers | `FunctorQueue`: a FIFO executor |
| `EventLoopThread` (extends `EventLoop`) | the loop of `main`, or one of a thread and its owner | |
| `ConnectionLifetime` | acceptor, one I/O loop, connections, their timers, pool and peers | `ConnectionContract`: the life of a connection |
| `TimerQueue` | the two maps and the timerfd | `TimerService`: due, taken, run |
| `Buffer` | indices into a vector | `ByteQueue`: a sequence of bytes, and what each call takes out of it |
| `HttpContext` | parser and `main`'s message callback | |
| `HttpService` (extends `HttpContext`) | the workers' tasks, routes and the disk | |
| `ThreadPool` | pool, condition variable, destructor | |
| `Config` | the two passes over the command line, and the files | `Meaning`: what a command line means, without passes |
| `Server` (extends `ThreadPool` and `Config`) | `main` from its start to its return, with the acceptor, the I/O threads, signals and the destructors | |
| `EchoServers` | the four demos and their clients | |
| `EventLoopProofs`, `ConnectionLifetimeProofs`, `TimerQueueProofs`, `BufferProofs`, `HttpProofs`, `EchoServersProofs` | theorems about `EventLoop` and `EventLoopThread`, `ConnectionLifetime`, and so on, with the inductive invariant of each | |
| `ConfigProofs` | theorems about `Config` | |
| `ServerProofs` (extends `ConfigProofs`) | theorems about `ThreadPool` and `Server` | |

`MC*` modules give TLC the values of constants. Names follow the source; what is
called `kExpectHeaders` or `id2exp` here is called so there. A definition under
"Mistake:" is what the code might have been: the properties are tried on it.

**EventLoop.** A step of the loop thread is what it does between two points at which
another thread can be seen: the test of `looping_`, the return of `epoll_wait`, one
channel's callback, the swap under the mutex, one functor. `queueInLoop` and `quit`
called by another thread are two steps each, the store and the wakeup. The ready list
of the kernel is the set `ready`; a channel enters on an edge and leaves when reported.
`looping_` and `quit_` are plain `bool`s written by one thread and read by another,
a data race. Between two reads of `looping_` the loop makes system calls and calls
functions the compiler cannot see through, so the build reads it afresh in every turn,
and each outcome of the race is one interleaving of the model.

**EventLoopThread.** `loop_` is not initialised (`EventLoopThread.h:17`): it starts as
null or as garbage. With null the constructor's wait is a wait and the owner gets the
live loop (`PublishedLoopLives`); with garbage it ends at once, and what the owner would
do with the pointer is undefined, so that it does nothing more: that it can come to this
is `OwnerHasLoop`, below. The `EventLoop` is on the thread's stack (`alive`) and is gone
when `threadFunc` returns. Behaviours with `owner = "none"` are those of the main loop, which
any thread and its own callbacks may quit: one run looks at both.

**ConnectionLifetime.** `Held(c)` collects the `shared_ptr`s to a connection: the
server's set, the idle timer's callback, functors queued and functors called in this
turn, tasks queued and a task a worker has not yet dropped. A connection is destroyed
when nothing holds it. `revents` is what `epoll_wait` reported and has not been
dispatched, so that a connection can be closed, or destroyed, in the middle of a batch.
`Level` and `Reportable` are epoll's rules: EPOLLIN, EPOLLOUT, and EPOLLERR/HUP always.
Data is counted in requests; a request is whole (see `HttpContext` for the others).
The acceptor's thread is separate from the I/O thread, which stands for any of them.

**TimerQueue.** The multimap is a set of records. `Collect` is the first half of
`handleRead`, `RunTimer` one callback of the second, and between two of them a callback
may add and cancel. The timerfd is one-shot (`armedFor`), its readiness edge-triggered.
Three variables remember: `ran`, the timers that have been collected before, and which
cancels came in time (`cancelled`) or later (`late`). What comes in time is part of
`TimerService` and for good (`CancelStops`); of a later one nothing is promised there.

**Buffer.** Indices and sizes are real, sizes scaled down (`kPrependSize` 2 for 8,
a stack buffer of 2 for 65536), `size_t` has `Width` bits, so that subtraction wraps.
`Grown` is the loop that doubles the capacity, `MaxIndex` the bound that stands for what
memory and `size_t` allow.
Every operation is one step: a Buffer belongs to one thread. How the program uses the
two buffers of a connection differs, so there are two specifications: `InputSpec`
(`readFd`, `retrieve`, `retrieveAll`, `append`, `prepend`) and `OutputSpec` (`append`,
`writeFd`, `shrinkIfLarge`).

**HttpContext and HttpService.** The input is a sequence of tokens: a line with its
CRLF, or a unit of a body. A read brings any number of them, or a part of one, which
as far as the parser can tell is none. What the parser says of a line it meets out of
place is open where it depends on the text. A header line may be one that
`parseRequestLine` accepts (`Lookalikes`): like every line it is looked at for two
spaces, a method, a path and a version only. A client without such lines is `Conforming`.
`main`'s callback parses one request for each read and has an `HttpRequest` of its own
in each call (`req`). A task is the sequence of its looks at the disk: `realpath`,
`stat`, and reading. `WithinRoot` are the paths whose `realpath` begins with the
characters of the root, which is all that `isWithinRoot` compares, and `IndexOf[d]` is the
file that the path `d` and `index.html` spell together: for a directory asked for
without its final slash that is not the `index.html` in it.

**ThreadPool.** `running_` is tested outside of the mutex (`Test`), the predicate of
the wait inside (`Take`, `Wait`). `notify_one` is a step of its own after the unlock, and
waiters may wake for no reason (`Spurious`). Nothing in the class keeps a thread out of
`run()` while the destructor is at work, and nothing in the model does: that none is
there is a property of the program (`PoolOutlivesCallers` in `Server`).

**Config.** The command line is a sequence of words, a file the sequence of its lines with
an `=`. The three loops of the parser are functions of the number of their turns:
`FirstPass` and `SecondPass` carry from word to word what the `for` loops have in `i`,
whether the next word is the value of the last, and `LoadFromFile` takes line after line.
`Meaning` says what comes of it without any loop: the last value an option gives, or the
last line of the last file that has one about the field, or the default. `Accepted` are
the command lines the program goes on with. `Plain` leaves those out in which the value of
some other option is `-c` or `--config`: the first pass takes such a value for the option,
and opens the word behind it as a file, and the second does not. The options and keys in
`Meaning` and `Accepted` are not the parser's own but those a user is told of, in
`printHelp` (`HelpOption`) and in `README.md:95-104` there (`DocumentedKey`), with the
five exceptions that `TrueOption` and `TrueKey` name. `Converted` is `std::atoi` into the
type of the field, with the 16 bits of a port and a negative number that becomes a huge
`size_t`.

**Server.** `stage` is where `main` is, from `parse()` over the constructors, the loop,
`shutdown()` and its joins to the destructors of the locals, last one first. `io[i]` is
where the thread of an I/O loop is, and a loop that has been told to quit still finishes
its batch, callbacks and all (`Turning`); `ThreadPool`'s variables are the pool's. Each call of
`accept()` is a step, between which clients come and workers go on, and the listening
socket is edge-triggered: `edge` is its entry on epoll's ready list. `strays` collects
what has been used after its end: `router` by a task, a destroyed `EventLoop` by
`queueInLoop()` or by the last `shared_ptr` of a task, `instance_` by a signal. A
behaviour that has done so is not continued.

**EchoServers.** One specification for the four, as they differ only in how they wait,
accept and close: `kind` says which one runs. A round is the set `ready` that `select`,
`poll` or `epoll_wait` reported; each read is a step. `fds` is `poll`'s array, compacted
in the middle of a round; an entry behind its end is an overrun, with which the
behaviour ends. `demo-epoll-ET` reads all there is and then sends one reply, two steps
with `answer` between them, and closes a connection that will not take it. Clients send,
wait, leave, and reset what they leave unread.

## Runs

| Run | Shows | Bounds |
|---|---|---|
| `event_loop` | `NoLostWakeup`, `NoLostQuit`, `PublishedLoopLives`, `EventReported`, `QuitAfterEntry`; implements `FunctorQueue`, with its liveness | 3 functors (2 in a thread's loop), 2 other threads, 2 channels, `events_` of 1 |
| `thread_hang` | **violated**: `DestructorAlwaysReturns` | a thread's loop, 2 functors |
| `conn` | `CountIsOpen`, `OpenHasTimer`, `OutputSubscribed`, `NoLostEdge`, `GuardedUntilDispatched`, `RequestAnswered`; implements `ConnectionContract`, with its liveness | 3 connections for 2 places, 1 worker; one peer sends, stops reading, closes and resets |
| `conn_dangling` | **violated**: `NoDangling` | 2 connections that do all that, 1 place, 1 worker |
| `timer_queue` | `Covered`, `IndexExact`, `CancelStops`; implements `TimerService` | 3 timers, clock to 3 |
| `buffer` | `RegionsInOrder`; implements `ByteQueue` | indices to 8, chunks to 3 bytes of 2 values |
| `buffer_output` | **violated**: `NoOverrun` | same |
| `http` | `FramingExact`, `AnswersInOrder`, `RefusalEndsService`, `EachAnswered`, `AnswerExplained` | 2 requests out of 15 shapes, 2 workers, 11 paths, 4 of them directories, 1 change of a file |
| `http_split` | **violated**: `RequestWhole` | 1 request |
| `server` | `ConfigResolved`, `NoneIdle`, `PoolOutlivesCallers`, `NoLostConnection`, `RequestServed`, `ShutdownCompletes` | 0 or 2 I/O threads, 2 workers, 2 connections, 2 signals; 0 to 3 options with values out of 18 pairs, any 1 to 4 of 7 words, 2 files |
| `server_stray` | **violated**: `ShutdownClean` | 0 or 1 I/O threads, 1 signal |
| `demos` | `WatchedIsOpen`, `NoLostEdge`, `Served`, `Departed` | 3 clients, 2 of which send up to two buffers, arrays for 2 of them |

Each passing run also checks a type invariant, but for `demos`.

Why these are enough. Two writers and one loop are the least with which a functor can
arrive between the swap and the wait while another wakeup is on its way; with an `events_`
of one the array is full in the first round. Three connections for two places are the
least with which one is refused, and one admitted again, while another is in the middle of
its life; the timers of those that are silent fire in the same rounds. What connections
share is the count, the set, the queue and the pool, so that one peer that does everything
is enough; the five invariants have also been checked with two of them (`Conns <- Two`,
`MaxReqs <- OneRequest`, 1.7 million states), which takes too long with the temporal
properties. Three timers allow one collected, one waiting and one added by a callback. Two
requests show what one leaves for the next. Two I/O threads are the least with which one
is joined while the other still submits, two workers with which a notification goes to a
worker that finds nothing while another sleeps, and two signals with which the second one
finds the shutdown of the first. Options, keys and numbers are dealt with one by one, by a
rule that depends on the field's type only: three pairs hold two options and a file in
every order, or two files and an option. With a third client a server has one that comes,
one that is read and one that leaves in the same round, and an array that is too short.
The paths are one of each kind that `handle()` can tell apart: the root, a file, a
directory without its slash, one whose `index.html` is a link that leads out, the
directory above, and a file next to the root. The shapes are every verdict on a request
line with every kind of header line behind it that makes a difference.

### The five violated runs

* `thread_hang`: `loop()` begins with `looping_ = true` (`EventLoop.cpp:29`) and never
  reads `quit_`. `EventLoopThread`'s constructor returns when `loop_` is published,
  which is before `loop()` is entered: a destructor that follows at once loses its
  `quit()` and joins forever. Once the loop has been entered `quit()` ends it
  (`QuitAfterEntry`), and the join returns.
* `conn_dangling`: the guard that `destroy()` queues is the last owner only if nobody
  else is. A worker's task that outlives the guard drops the last reference in any
  moment, also while `epoll_wait`'s array holds the Channel, which `send()` on the
  closed connection has registered again. That this is the only way is
  `GuardedUntilDispatched` in `conn`.
* `buffer_output`: after a large response has drained, `shrinkIfLarge` makes the
  vector smaller than `writeIndex_`; the next `append` writes outside of it.
* `http_split`: a request that arrives in two reads loses the lines of the first.
* `server_stray`: `shutdown()` empties `connections_` "first", so that no Channel
  outlives its loop (`TcpServer.cpp:81`), and then destroys the I/O loops; but the pool
  is joined only by its destructor, behind those of the router, the static handler and
  the signal handler. A task that is being run meanwhile calls `route()` of a router
  that is gone, or `queueInLoop()` of such a loop; a second signal finds `instance_`
  null.

### What else the code does not keep

The following are stated in the modules too, are violated, and have no run of their own;
to see TLC's trace, add the name to the configuration given.

* `OwnerHasLoop` (`MCEventLoopThread.cfg`): the constructor of `EventLoopThread` waits
  "until `loop_` is initialised" (`EventLoopThread.cpp:8`), but `loop_` has no initialiser
  (`EventLoopThread.h:17`) and the wait tests for null. If the memory is not zero, it does
  not wait, and `getLoop()` is not a loop.
* `QuitReachesLoop` (`MCEventLoopThread.cfg`): `quit()` stores `looping_ = false` and then
  wakes the loop "to make it exit" (`EventLoop.cpp:66-67`). A loop that is awake exits in
  between, its thread returns and destroys it, and the `wakeup()` is that of a destroyed
  object.
* `CancelAlways` (`MCTimerQueue.cfg`): "cancels a timer" (`TimerQueue.h:27`), but
  `cancel()` finds one by `id2exp_`, which loses it when it is first collected
  (`TimerQueue.cpp:76`), for ever if it repeats (`:87`). A cancel from then on has no
  effect: the timer runs in this round, or again and again.
* `RoomForAll` (`MCEchoServers.cfg`): the table of the repository's `README.md:57` gives
  `poll` no limit of descriptors; `demo-poll/server.cpp:20` has an array of 1024 and, at
  line 38, writes behind it. The properties of `demos` are about a server that has not.
* `PostNotAllowed` (`MCHttpService.cfg`): `POST /` is said to be 405 in `README.md:114`;
  the code answers 404.
* `DirectoryServesIndex` (`MCHttpService.cfg`): "a directory: its index.html"
  (`README.md:49`), but `StaticFileHandler.cpp:56` appends the name without a slash: for
  `/sub` it looks for `subindex.html` and answers 404.

And in the definitions, where a property has to take the code as it is:

* `TrueKey` and `TrueOption`: `log_level`, `listen_backlog` and `max_connections` of the
  file in `README.md:95-104` are ignored without a word (`loadFromFile` knows
  `log-level`), and `--worker` and `-m` of the program's own help (`Config.cpp:109,111`)
  are refused by its parser (`:31,35`).
* `Conforming`: a refusal of a method or version leaves `error_` set, and the header lines
  that follow are taken for request lines and refused one by one, until the empty line
  closes the connection. A header line that reads as a request line is then served as
  one. `FramingExact`, `AnswersInOrder` and `RefusalEndsService` leave clients that send
  such lines out, and are proved for all others.
* `WithinRoot`: `isWithinRoot` compares characters, not names of directories: a sibling of
  the root whose name continues the root's counts as within. `AnswerExplained` takes the
  comparison as it is.

With `-w 0`, or a number `atoi` does not read, there is no worker and no request is ever
answered. `demo-select` does not echo what it reads.

## Fairness

Weak fairness only, of threads that can take a step: the loop thread, each worker, the
thread inside `queueInLoop`, `run` or a destructor. The operating system's scheduler
gives that. Nothing is assumed of peers, clients, signals, spurious wakeups, the timeout
of `epoll_wait`, or of anyone calling `quit` or a destructor. Time passes for idle
timers and armed timerfds. In `HttpService` what a client has sent arrives (TCP). In
`Server` the main thread, each I/O thread and each worker go on once the arguments have
been parsed; connections, requests, errors of `accept()` and signals need not come. In
`EchoServers` the server goes on, and a client that waits for a reply reads the one that
has come. Liveness is checked by TLC only.

## Proofs

`EventLoopProofs` proves for any finite set of channels, any threads, any functors and
any first size of `events_`, from `ChannelsAssumption` and `CapAssumption`:

* `TypeCorrect`, `WakeupsKept`, `QuitsKept`: the invariants of `EventLoop`, and
  `EventsStayBounded`, that `events_` is at most twice as long as there are channels
  (`EventsBounded`, part of the inductive invariant, which no run checks by itself);
* `Refinement`: the safety part of `FunctorQueue`.

`NoLostWakeup` is not inductive: that the loop does not sleep when the eventfd is
positive needs that a positive eventfd is on the ready list or in `events_`, and that
`temp` is empty but while functors are called. `LoopState` adds this, together with
`calling = (pc = "functors")`, which makes the condition in `queueInLoop` the right one.
`IInv` is the conjunction; `Invariance` proves it step by step.

Its second part adds, from `OwnerAssumption`, that a thread and its owner do with
their loop only what `EventLoop` allows (`StepOfLoop`), so that the same invariant holds
under them (`ThreadWakeupsKept`) and the same abstract queue is implemented
(`ThreadRefinement`); and `PublishedLoopIsKept` (`PublishedLoopLives`), where the
strengthening `OwnerInv` says why: until the destructor begins nobody calls `quit()`, so
`looping_` stays true and the thread does not leave `loop()`. It claims nothing of a
`loop_` that was garbage at first, where the claim is false (`OwnerHasLoop`).

`ConfigProofs` proves `ParseMeans`, from `FilesAssumption` alone, for every command line
and every set of files: `parse()` returns true just for the lines that are `Accepted`, and
for those that are `Plain` as well its settings are their `Meaning`. `parse()` goes
through the words, `Meaning` takes maxima of sets of positions; the proof is an induction
over the words, with one over the lines of a file in it, that says after each turn what
the settings are so far. `TablesAgree` is that the parser's tables are those of the help
and the documented file but for the five exceptions. As in `BufferProofs`, `Induction` is
for a set of numbers instead of an operator.

`ServerProofs` begins with the pool alone, for any number of workers, submitters and
tasks: `NoneSleepsBesideTask` (`NoneIdle`). `NoneIdle` has two parts. `Balanced` with the
types is inductive, a balance: a task is added with a notification to come, a
notification makes a worker look or finds nobody waiting, and a worker stops looking with
a task or beside an empty queue. `JoinFindsAwake` needs that `running_` is false before
`notify_all()` (`Awake`): whoever looks at the queue afterwards does not wait. Then it
goes on to the whole program, for any number of I/O threads, workers, connections and
signals and any command line, from `SubmittersAssumption` and `CommandLinesAssumption`:

* `ServerTypeCorrect`: a request comes from a thread that may submit, as `next_` modulo
  the number of I/O threads is one of them; that this number is within bounds is in `SInv`;
* `ServerNoneIdle`: every step of the server is one of the pool or leaves it alone
  (`StepOfPool`), so that `NoneIdle` carries over, to the end of the shutdown;
* `ServerPoolOutlivesCallers` (`PoolOutlivesCallers`): `CallersInv` says at each stage of
  `main` where the I/O threads can be and who can be inside `run()`. When `main` leaves
  its loop the I/O threads are gone, and the pool's destructor is two stages later;
* `ServerNoLostConnection` (`NoLostConnection`): a connection that comes leaves an edge,
  and `main` comes back to its wait with an empty backlog or after an error (`BacklogInv`);
* `ServerConfigResolved` (`ConfigResolved`): `argv` is untouched until it is parsed
  (`ArgumentsInv`), and the rest is `ParseMeans`.

`ConnectionLifetimeProofs` proves, for any finite or infinite set of connections, any
limit, any workers and any number of requests, `TypeCorrect`, `CountIsExact`
(`CountIsOpen`), `NoOpenWithoutTimer` (`OpenHasTimer`), `WaitingOutputIsWatched`
(`OutputSubscribed`), `NoEdgeIsLost` (`NoLostEdge`), `GuardHolds`
(`GuardedUntilDispatched`) and `Refinement`: the safety of `ConnectionContract`. Three
things have to be added. `References` says whom functors, tasks, workers and reported
events can be about: only a connection that was accepted, and for a `send` or a task one
whose `connectEstablished` has run. Without it a `send` could reach a connection that was
never accepted. `EdgeForEvent` is `NoLostEdge` event by event: a callback uses up one
event of a connection and must leave the others. That `connections` is finite is what lets
a removal take one from its cardinality. A step is followed by way of `HandleCloseDoes`,
what `handleClose()` does wherever it is called from. In the refinement a connection that
loses its last reference in a step is released in it, so that one step of the loop may
release several (`SettleStep`). `GuardHolds` is what the guard of `destroy()` achieves,
next to the violated `NoDangling`: its strengthening `Guarded` says that a connection that
is closed, has left epoll and has events to be dispatched is among those of a guard in
`pendingFunctors_`, which is swapped out only when the batch is over.

`TimerQueueProofs` proves `TypeCorrect`, `EarliestIsCovered` (`Covered`),
`IndexStaysExact` (`IndexExact`), `CancelIsFinal` (`CancelStops`) and `Refinement`, the
safety of `TimerService`, for any number of timers, delays and intervals. That a cancel in
time is for good needs that no id is given out twice and that only a timer of this round
can come back into `timers_`. In the refinement such a cancel is a step of the service, a
later one is none. `RoundState` is what the invariant needs besides them: timers that are
in neither map exist only while `handleRead()` runs its callbacks, are not in `timers_` as
well, and no id is used before it has been given out, so that a timer that a callback adds
is not taken for one that has been collected. `Covered` rests on lemmas about the least
expiration of a set that grows and shrinks (`EarliestOfAdded`, `EarliestOfFewer`), the
refinement on lemmas about `Find`.

`BufferProofs` proves for `InputSpec`, any bytes and any sizes, `TypeCorrect`,
`RegionsStayInOrder` (`RegionsInOrder`) and `Refinement`: the buffer is the `ByteQueue`,
without restriction, as that has no liveness. `Sized` completes the invariant: the write
index is never before `kPrependSize`, so that the vector is not empty and doubling makes
progress, and the vector is at most three times `MaxIndex`, so that (as `MaxIndex * 4 <
2 ^ Width`) no difference of indices wraps round. That the doubling loop ends with
enough room (`GrownHolds`) is an induction over its turns; `Induction` is derived from
the well-foundedness of the naturals, for a set of numbers instead of an operator. The
rest is about slices: `Joined` says what the readable bytes are after bytes have been
moved and written behind them, whichever operation did so. Nothing of this is true of
`OutputSpec`, whose `NoOverrun` is violated.

`HttpProofs` proves for any requests, any way of cutting the stream, any workers and any
changes of the files: `TypeCorrect`, `RequestsAreTheClients` (`FramingExact`),
`RefusalIsFinal` (`RefusalEndsService`), `ResponsesInOrder` (`AnswersInOrder`) and
`ResponsesExplained` (`AnswerExplained`). The invariant `HInv` has the types and what
workers are at (`Seen`) without condition, and what it says of the parser for a
`Conforming` client, as `FramingExact`, `RefusalEndsService` and `AnswersInOrder` do: with
a header line that reads as a request line they are not true of the code. It names an
index `E` of where requests end in the stream of all that was sent (`IsIndex`), and says
that `inputBuffer_` and the wire hold the rest of this stream (`Laid`), that the parser is
where its state says in the request after those it has handed on (`Synced`), and that each
of those was a whole one (`Framed`). `Astray` is the case worth knowing: after a refused
method or version the parser takes header lines for request lines, and that no request
comes of it rests on these being none and on the empty line, which never is one.
`OneAtATime` says what a client that waits can rely on: with no more than one request
unanswered at most one worker is busy, and with the last request; `Seen`, that a worker's
`realpath` and `stat` are of the file its request names. Assumed are `ShapesAssumption`, a
body goes with a `Content-Length`, and `SiteAssumption`: no path is empty, since a request
line with an empty path is refused (`HttpContext.cpp:81-87`), and `path + "index.html"` of
a directory names a file.

`EchoServersProofs` proves `EveryServerWatchesItsOpen` (`WatchedIsOpen`) for the four
servers, any number of clients and any length of `poll`'s array, as long as it has not
been overrun. `Descriptors` says that
a descriptor is open or still in the backlog, not both, and that what was reported and
has not been looked at is open; `Tables` are the types of what the server keeps. The
steps that matter are `poll`'s: its array gets an entry at its end (`AppendWatches`), and
is compacted without losing or doubling one (`CompactionKeeps`). `EdgeServerForgetsNone`
(`NoLostEdge`) is about `demo-epoll-ET` alone: its strengthening `EdgeInv` adds that a
client that has gone has left an end of file or a reset, so that the reply to it is
never what makes a descriptor readable that has just been read.

Checked by TLC and not proved: liveness, that of the abstract specifications included,
which is out of the prover's reach. These are `EventReported`,
`QuitAfterEntry`, `RequestAnswered`, `EachAnswered`, `RequestServed`,
`ShutdownCompletes`, `Served`, `Departed` and the liveness in `ImplementsFunctorQueue`,
`ImplementsContract` and `ImplementsTimerService`. What can be proved is what they rest
on in each single state: `NoLostWakeup` and `NoLostQuit`, `NoneIdle`, `NoLostConnection`,
the two `NoLostEdge` and `Covered` say that nobody sleeps, or is left to sleep, beside
what he has to do.

## Not modelled

* `Metrics`: independent atomic counters on which nothing depends. `Log`: formatting
  under one mutex.
* In `Server`: connections that close (they are `ConnectionLifetime`'s), the loops from
  inside (`EventLoop`'s), and the numbers of descriptors: the eventfd, the wakeup fd and
  the listening socket are closed twice each (`SignalHandler.cpp:20`, `EventLoop.cpp:26`
  and `Acceptor.cpp:30`, and again by their Channels), which is harmless as long as no
  other thread opens a file in between.
* The text of responses, MIME types, socket options; errors of system calls that do not
  fail in a running server (`epoll_ctl`, `eventfd`, allocation).
* In `EchoServers`: the bytes, and the errors of `accept()` and `epoll_wait()`.

## What could come next

The closing of connections in `Server`, to say which of them a shutdown leaves to their
timers.
