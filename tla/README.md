# Verification of ikun_svr

ikun_svr is a C++ TCP server (an echo server over a reactor with I/O threads
and worker threads) and a small actor runtime. This directory holds TLA+
models of its concurrent parts, the TLC runs that check them and the TLAPS
proofs about them. Line numbers are those of the files under `src/src/`.

## The system

| Part | State | Operations | Talks to |
|---|---|---|---|
| `threadpool` (net/threadpool.cc) | `_queue`, `_mutex`, `_cond`, atomic `_stop`, threads | worker loop, `add`, `shut_down`, destructor | runs the I/O loops (one task each, which does not return before the loop stops) and the work of `echosvr` |
| `eventloop` (net/eventloop.cc) | `_tasks`, `_mutex`, eventfd, one-shot timerfd, `_conns`, atomic `_shut_down` | `run`, `add`/`weakup`, `handle_weakup`, `handle_timer`, `new_conn`, `shut_down` | poller; workers post tasks to it; main loop inserts connections |
| `poller`, `channel` (net/poller.cc, channel.cc) | epoll descriptor; `_evs`, `_revs`, `_in_ep` | `update`, `remove`, `loop`, `handle_event` | the kernel; calls back into connect and eventloop |
| `connect` (net/connect.cc, buffer.cc) | input and output buffer, atomic `_disconn`, `_last_at_time` | `on_msg`, `on_close`, `on_error`, `send`, `send_in_loop`, `writecb`, `time_out` | its loop's thread; `send` from workers |
| `tcpsvr`, `acceptor` (net/tcpsvr.cc, acceptor.cc, socket.cc) | `_conns`, loops, I/O pool | `_on_new_conn`, `_on_conn_close`, `remove_conn`, `shut_down` | main loop's thread creates connections that belong to the sub loops |
| `echosvr` (net/echosvr.cc) | the work pool | `handle_msg`, `on_msg`, `shut_down` | tcpsvr callbacks, work pool, `connect::send` |
| `actor`, `mgr` (actor/) | a queue, mutex, condition, `_stop` per actor; a vector of actors per kind | `dispatch`, `session`, `stop`; `create`, `send` | one detached thread per actor |
| `logger`, `print` (log/) | singleton, mutex, file | `push_log`, `get_inst` | every thread |
| `main` | global server pointer | signal handler, start of actors | all of the above |

Hard behaviours: `_stop` and `_shut_down` are written outside the mutexes
whose condition they belong to; edge-triggered descriptors with callbacks that
consume edges; the posted tasks and the channels of an epoll batch are bare
pointers to connections that a timer or a worker may free; registration of a
connection on one thread while another thread already serves it; stopping all
of it from a signal handler. `PROJECT.json` lists each hazard at its line.

What makes each part correct:

* thread pool: every task begins once, in order; no task waits while a worker
  sleeps; nothing begins after the stop; the members outlive the threads;
* event loop: no posted task, input or stop request is forgotten, whatever the
  order of events; a closed or freed connection is left alone;
* registration: a connection is complete before its events are handled, and is
  in the maps exactly while it is open;
* framing and replies: a message is handed up once, in order and unaltered,
  and its reply reaches the client that asked for it;
* actors: every task sent is dealt with by the one session of its actor;
* shutdown: it returns, with no thread left running.

## Modules

| Module | Models |
|---|---|
| `Executor` | what a task queue promises: tasks begin in the order accepted, each once, by an idle slot; after it closes none begins; while open, none waits for ever beside an idle slot |
| `ThreadPool` | `threadpool`, as an implementation of `Executor` |
| `ThreadPoolProofs` | theorems about `ThreadPool` |
| `Epoll` | the kernel's interest and ready lists, as operators (external to the code); the ready list is a set, since epoll(7) promises no order |
| `Least` | lemmas the proof modules share: a least number, functions as sequences, head and tail |
| `Actors` | `mgr` and its actors as `main()` uses them; the queue of each actor is an implementation of `Executor` |
| `ActorsProofs` | theorems about `Actors` |
| `Registration` | `acceptor`, `tcpsvr` and the part of `connect` and `eventloop` that makes, closes and reaps connections, on the main thread and the sub loops' |
| `RegistrationProofs` | theorems about `Registration` |
| `Echo` | one connection end to end: the client's byte stream, the network, `connect::on_msg` and `buffer`, the work pool, `connect::send`, the send buffer and the client's `recv` |
| `EchoProofs` | theorems about `Echo` |
| `MCEcho` | the lengths of the requests and replies of its run |
| `Shutdown` | the signal handler of main.cc in any thread of the server, with `echosvr::shut_down`, `tcpsvr::shut_down`, both thread pools, the loops, and the mutexes every thread takes, the logger's included |
| `MCShutdown` | the threads of its run |
| `ShutdownProofs` | theorems about `Shutdown` |
| `EventLoop` | one sub loop with poller, channels, connections, the workers that post replies, peers, timer and `shut_down`; its task queue is an implementation of `Executor` |
| `MCEventLoop` | constraints for the runs of `EventLoop` |
| `EventLoopProofs` | theorems about `EventLoop` |

### ThreadPool

`wpc` is where a worker stands: `head` (line 13), `lock` (16, or the
re-acquisition inside `wait`), `check` (the predicate, 18), `block` (about to
sleep, still with the mutex), `waiting`, `test` (21), `pop` (24), `running`
(28). Between `check` and `block` the mutex is held, but `_stop` may change,
because `shut_down` does not take the mutex: this is why they are two steps.
`add` is two steps, the push and the notify. Wakeups may be spurious. The
owner (`opc`) calls `shut_down` and then the destructor, whose second
`shut_down` returns at line 48. Tasks are numbered by their push; `late` is a
history variable that counts tasks taken after the stop.

### EventLoop

`ep` is the kernel's record for the loop (`Epoll`), `Level` what holds of each
descriptor. A batch is any order of what epoll reports, and an entry of it
carries the events the kernel reported of it (`own`)
and the ones the code gives it (`revs`, those of the first entry:
poller.cc:60). `handle_event` calls the read callback if `IN` is among `revs`,
else the write callback. `handle_weakup` is read the eventfd, lock, then for
each task pop and run, unlock; `handle_timer` is re-arm, then one step per
element, with the iterator arithmetic of `it = erase(it)` under a loop that
increments: the next element is skipped, and incrementing `end()` either spins
for ever (empty map) or lands on a remaining element. What libstdc++ does with
that increment was read off its implementation: it moves to a node of the
tree's right edge, here any remaining connection.

A peer may also reset its connection (`PeerReset`). `writecb` takes no note of why
`send` fails (connect.cc:121): a full buffer (`WriteBlocked`) has an edge to come, but
a reset does not, and with output in the buffer neither is that erased nor
`EPOLL_CTL_MOD` called, which would have had epoll look again (`WriteFails`). `reset`
is what the kernel answers next: `ECONNRESET` once, then `EPIPE` with
SIGPIPE, which ends the process (`WriteKills`). `swallowed` remembers the
connections whose write readiness `on_msg` took (channel.cc:75).

A connection lives while it is referenced by the loop's map, a queued job or a
worker; its last release closes the descriptor. Three ends of the program are
states: `fault = "exit"` (epoll_ctl failed), `"killed"` (by SIGPIPE) and
`"dangling"` (memory of a freed connection was used); the model says nothing of what follows.

Abstractions: a message is a unit (several units read at once may come out as
fewer messages, as on_msg makes them); the output buffer is empty or not; the
clock is the count of timer expiries since a connection's last message; a
handler that only touches state of its own thread is one step; registration of
a connection is one step and does not overlap the timer's walk; the work pool
is a FIFO of jobs, which is what `ThreadPool` is shown to implement.

### Actors

An actor is named by the thread of `mgr::create` that makes it. A thread is at
`push` or `store` (two halves of the unguarded `push_back`: read the end; store
the element and the new end), `pick` (about to start the last element), or in a
session: `head` (line 43 of actor.cc), `lock`, `check`, `block`, `waiting`,
`test` (50), `pop` (53), `dealing` (56). `seat` is the actor whose session it
runs, which by mgr.hh:31 need not be its own. `slot` is the storage of the vector
and `size` its size, which an overtaken `push_back` sets back: the search of
`send` ends at the size, its indices read the storage. `main()` is inside `mgr::send`
(`left`, `right`: the two loads of one comparison; `dispatch`, `notify`) or
destroys the actors one after the other (`stop`, `notify_all`, `free`).

The data race on the vector is a choice between its outcomes: the later
`push_back` overwrites the earlier one (`Store`), or a thread follows storage
that was replaced (`Torn`, the end of the behaviour). Destroying a condition
variable with sleepers waits for them, as glibc does: since a woken session
whose actor is stopped goes back to sleep, `Free` may wait for ever; if the
session is awake at that moment, it goes on in freed memory instead
(`SessionOfFreed`). The loads are read without the mutex and are taken to be
the queue's length at that moment. `main()` returns after its sends; the sleeps
of main.cc order nothing.

### Registration

The main thread stands in `acceptor::new_conn` and `tcpsvr::_on_new_conn`
(`mpc`: `register` is connect.cc:22, `in_ep` poller.cc:35, `close_cb` and
`msg_cb` tcpsvr.cc:39 and 41, `lock` 44, `loop_conns` 45, `conns` 47, `leave`
51) while the thread of the sub loop (`lpc`) is already given the events of
the connection: `read`, `msg` (about to test `_msg_cb`), `close` (about to test
`_close_cb`), `close_lock` and `close_erase` (tcpsvr.cc:58, 59), or walks its map
(`scan`, `reap_lock`, `reap_erase`, `reap`). `hung` is the walk that increments
`end()` of an empty map, as in `EventLoop`.

`lmap` and `svr` are the maps of the loops and of the server, both indexed by
the descriptor's number (the loop of `f` is `f % ThdCount`, so one function
stands for the maps of all loops). A connection is open while something refers
to it: the main thread, a map, a job, the parameter of the close callback.
`Accept` takes the lowest free number, so that numbers are used again.

Two accesses at once without a common mutex are a choice: they happen one after
the other, or one sees the other's half-done work (`Torn`), and the behaviour
ends. It also ends when the process exits (`AcceptFails`, `ReadEndTooEarly`) and
when a handler's connection is freed by the end of a job (`UseFreed`). The
interesting order the code allows without any of these is a timer that reaps a
connection between tcpsvr.cc:45 and 47: the server then keeps it for ever.
`overtaken` remembers these connections, which both `MapsAgree` and
`ClosedIsReleased` except.

Of output only this is here: once a job has posted a reply to a loop (`Reply`, remembered
in `replied`), a batch of that loop may begin with a connection that is only writable, and
poller.cc:60 may give the one edge of the timer to nobody (`LoseTimer`); nothing arms it
again.

Abstractions: a loop handles one event at a time; what poller.cc:60 and a failing
`send` do to the events of connections is the subject of `EventLoop`. Peers are accepted in
any order. The error and send callbacks are set with the close and message
callbacks. What the workers do with a message is to hold the connection for a
while.

### Echo

`EventLoop` looks at which events a loop forgets; `Echo` at the bytes of one
connection. A stream is a sequence of cells: the cell `<<i, 0>>` is the header of
request `i`, `<<i, k>>` part `k` of its body; a reply is a sequence of `<<j, k>>`
for the `j`-th message handed up. `wire`, `inq`, `sockbuf` are the network and
the socket's buffers, `inbuf` and `outbuf` the two buffers of connect.hh, `edge`
an `OUT` event on the epoll's ready list, `lpc` where the loop's thread stands in
`on_msg` (`read`: line 67; `pick`: line 76), `wpc` where a worker stands in
`connect::send` (`send`: line 100; `copy`: line 110). `Taken` is the append of
`len + 4` bytes of `buf` (connect.cc:71): too few if two frames were read at once,
zeros behind a part of a frame, and past the end of `buf` if a body is read as a
length (`fault = "overrun"`, where the behaviour ends). `Send` is the write that
erases what it did not send (line 123), `Copy` the 30 bytes of line 111.

`env` fixes what a behaviour's surroundings are: whether the client waits for
one `recv` after each `send`, as the one in src/test/client does; whether the
network splits and joins what is sent; whether the work pool has threads
(echosvr.cc:37); and what a body's bytes are as a length.

What the model says of the code: requests that are read together lose all but
the first, and a request read in parts is garbled, but nothing that
remains is handed up twice or out of order, and `on_msg` never leaves a message in
the buffer that a later event would have to fetch. A short write loses the end
of a reply and repeats nothing. A client that waits for its answers and
whose requests arrive whole is answered, with the one exception of an `OUT` event
taken by `on_msg` (`swallowed`): then the reply stays in `_output_buf` until the
next event, which is how such a client may wait for ever.

Abstractions: the four bytes of a header are not divided; the end of the stream
also stands for a reset; the 30 bytes copied from a shorter reply (a read past its
end) have no effect; the tasks of one drain of `handle_weakup` may be
interleaved with events, as if they had been posted later; the connection is
alone on its loop and is not reaped.

### Shutdown

The server is the one of main.cc:47-48, which the repository has commented out;
the handler that stops it is not, nor are the actors of main.cc:36-38, whose
detached threads (`ActThds`) live beside it. `pc` is where a thread stands in its own
code: `boot` (main before line 47), `run` (in a loop, in a task, in a session), `left`
(main behind line 48), `spinning` (in the walk of `handle_timer` that does not end), and
`lock`, `block`, `waiting`, `exited` of threadpool.cc. What threads do in `run` is reduced to
the mutexes they take, in the nesting the code has (`Outermost`, `Lockable`): `push_log`
inside everything that prints, tcpsvr's mutex, a pool's for `add`, a loop's for
`eventloop::add` and `handle_weakup`.

`Handler` lists the calls of main.cc:17-22, echosvr.cc:61-67, tcpsvr.cc:113-122,
threadpool.cc:46-55 (twice for the work pool: its destructor calls `shut_down` again) and of
`delete echosvr` in their order; `hpc` is the line a thread is at. A thread in the handler
does nothing else and keeps the mutexes it holds: the handler ends in `exit` and
never returns. The kernel gives a signal to any thread, also to one that handles the other
signal (`nested`), for `signal()` masks only the one being handled; the handler then begins
anew, on top of the first. `joiner` is who joins the threads of a pool: `join` throws, and
the process aborts, if another thread has joined or is joining them, or if a
thread would wait for itself. `delete echosvr` is two steps, as the members of the work
pool go from the last: first the condition, whose destructor waits for those who sleep on it,
then, with the server `dying`, `_thds`, which aborts if a thread was not joined.

`status` is how the process ended: `exit` (line 22), `return` (line 51), `abort`, `null` (the
handler ran before line 47), `freed` (something used what was deleted). `missed` remembers
the threads that `notify_all` found between predicate and sleep, and those asleep when
the thread that was to notify them was interrupted.

What the model says of the code: after one signal the handler ends with `exit(0)` only if
the kernel runs it in the main thread or an actor's; in a thread of a pool it joins itself
and the process aborts. In an actor's thread it joins every thread but the main one, which,
if it has not noticed `_shut_down` by then, uses its loop after it was freed
(`StopsInOrder` states this as its exception). The handler can hang in the ways `HangHasCause`
lists and in no other: a thread was interrupted with a mutex; two threads were interrupted;
a thread was about to sleep when its pool was notified, or asleep when the one to notify it was
interrupted by the other signal; a loop spins in `handle_timer`; or a worker was interrupted in
its sleep and destroys the condition it sleeps on. With two signals the second handler need
not wait for the workers at all: `shut_down` of a pool that is being stopped returns at once
(threadpool.cc:47), "work thread has shut down" is printed while they run, and the server is
destroyed under those who use it (`UseDeleted`); `StopsInOrder` and `CleanEnd` speak of one.

Abstractions: one notification wakes all (`notify_all`) or any one sleeper; spurious
wakeups are left out, since they could only repair a missed notification; the
loops are halted in one step; jobs are there or not, by choice; the mutex of
the logger also stands for the locks inside `localtime`, `malloc` and `std::cout`,
which `print` takes and a handler may find held likewise; an actor's thread takes no other
mutex of the server, and nothing in the handler waits for those of the actors.

## Runs

| Run | Shows | Bounds |
|---|---|---|
| `thread_pool` | types, lock discipline, each task once and in order, no lost wakeup, at most one late task, shutdown outside the race window, refinement of `Executor` | 3 workers, 2 submitters, 4 tasks: more tasks than sleepers, two notifies in flight |
| `thread_pool_drain` (violation) | a worker exits with tasks queued, against the comment at line 20 | 2 workers, 1 submitter |
| `thread_pool_stop` (violation) | `shut_down` never returns: `_stop` and `notify_all` fall between predicate and block | same |
| `event_loop` (`MCEventLoop`) | no input, output, task or expiry of the timer forgotten but in the cases the properties name, closed connections quiet, iterator valid, exit only after a close | 2 connections (so that a batch mixes events and the walk skips), 1 worker, 3 messages (two replies of one connection and one of the other are needed to find a full send buffer in a mixed batch); the constraint `NotStopped` leaves out `shut_down`, which the run of the tasks has, and sends the third message only while the clock stands still |
| `event_loop_tasks` | refinement of `Executor` with its liveness; `shut_down` ends the loop | 1 connection, 2 workers, 2 messages, time-out after 2 periods |
| `actors` | types, choice of the queue, whose session a thread runs, tasks taken, `Executor` per actor | 2 creating threads (enough for every race of a pair), 3 tasks (more than sessions), then `main()` returns |
| `registration` | types and mutex; input and closes are noticed at every moment of a registration; the maps agree; nothing is erased for another connection that has its number; a closed connection is released | 2 connections (one reaped or registered while the other is served), 2 descriptors (used again as soon as they are free), 1 sub loop (loops share the server's map only, which is under its mutex or `Torn`), 1 message (the job that outlives the maps) |
| `echo` (`MCEcho`) | what is handed up and what comes back, for every cut of the stream; a waiting client is answered | 2 requests, one of which is read in up to three parts and answered by a reply longer than the copy (30 bytes: 1 cell), a read buffer (4 cells) that both requests overflow, a send buffer (2 cells) that the longer reply overflows alone (3 cells) and every two replies together, 2 workers (replies overtake each other), pool with and without threads |
| `shutdown` (`MCShutdown`) | order of the shutdown and the destruction, how the process ends and why it may not | main, 1 I/O thread, 1 worker, 1 thread of an actor (one of each; larger pools are left to the proofs), 2 signals (the second while the first handler is anywhere, in its thread or another) |
| `event_loop_revs` (violation) | a channel is given events that are not its own (poller.cc:60) | 1 connection, reported together with the timer or the eventfd |
| `event_loop_reset` (violation, `MCEventLoop`) | a reset that is taken for a write: `send` fails and no event is left (connect.cc:121) | 2 connections, 2 messages |
| `event_loop_in_ep` (violation) | `_in_ep` stays set after removal (poller.cc:38) | 1 connection |

Every bound is a constant: `MaxTasks` calls of `add`, `MaxMsgs` messages of
all peers together, `MaxAge` timer periods (in `Registration` 0: the first expiry
times a silent connection out, which is the earliest a reaping can meet a
registration; the code's 10 seconds are two periods of 5). The systems may rest, so deadlock
is not checked. Batches of more than MAX_EVS (128) channels do not occur.

Each property also has a mutant of the code's actions that breaks it; the
mutants stand beside the actions they change.

What the passing event loop runs say is not obvious from the code: in spite of
poller.cc:60, a posted task is never stranded (the eventfd happens to be
level-triggered, because it is registered before `use_et`), and an input edge
consumed by `writecb` is reported again, because `disenable_write` is an
EPOLL_CTL_MOD that polls the descriptor anew. That is so only as long as `send`
succeeds or finds the buffer full: after a reset `disenable_write` is not reached, and
the input and the close are forgotten too (`WriteFailed` in the properties). Output does
not have this luck: an `OUT` edge consumed by `on_msg` is lost (`swallowed`). Nor does the
timer: once a reply has been posted its one edge may be given to nobody, so
`TimerNotForgotten` speaks of the time before.

### Fairness

`ThreadPool`: every worker step up to the start of a task, the notify of a
submitter inside `add`, and the steps of a running `shut_down` are weakly
fair: threads are scheduled and a free mutex is eventually had. Nothing is
assumed of callers, spurious wakeups or tasks (a pool also runs event loops);
where the end of tasks matters the property says so (`TasksEnd`). `EventLoop`:
the loop's thread, workers and a running `shut_down` are weakly fair; peers
and the clock are not. `Executor` asks only that a begin that stays possible
happens. `Registration`: the main thread, the
clock and the ends of jobs are weakly fair; a loop's handlers and its walk each
strongly, because epoll reports everything that is ready, so a loop with both
serves both, unless the timer's event is the one that is lost. No reply need be posted;
once one was, nothing is assumed that would spare the timer, and `ClosedIsReleased` excepts
a timer that was lost. `Actors`: `main()` and every thread are weakly fair, `deal()` (a print
and a sleep) included; spurious wakeups and the outcomes of undefined behaviour
are not. `Echo`: the network delivers, a client that has something to receive
does receive it, workers and the loop are weakly fair; posted tasks strongly,
because the eventfd stays ready (it is level-triggered) however busy the
connection keeps its loop. The client's requests and its close are not fair.
`Shutdown` states no fairness: that a handler ends is false, and which of its hangs are possible
is said by a state predicate instead (`HangHasCause`: every set of threads
that wait for each other has one of the causes above), which needs no scheduling and
names the cause.

## Proofs

`ThreadPoolProofs` proves, for all finite sets of workers and submitters and
every `MaxTasks` (the assumptions of `ThreadPool`):

* `TypeCorrect` and `OneHolder`: types and `LockDiscipline`, strengthened by
  what the holder of the mutex knows of the queue (`HolderSees`): a worker at
  `pop` has a non-empty queue because only it and `add`, which needs the mutex,
  change it;
* `EveryTaskOnce`: `NoTaskTwice` together with `InHand` (a task is in hand
  exactly while its worker runs it);
* `OneLateTake`: `late <= 1`, inductive with "if a task was late nobody is
  past line 21", which holds because a late taker held the mutex and `_stop`
  keeps everybody else from passing the test;
* `NoLostWakeup`: the counting invariant `WakeupCovered` is inductive by
  itself given the lock discipline; the proof counts `Awake` and `Notifying`;
* `PoolIsAnExecutor`: initial states and steps of the pool map to those of
  `Executor`. The liveness half of `ImplementsExecutor`, like
  `ShutDownReturnsUnlessRaced`, is checked by TLC only.

`ActorsProofs` proves, for all finite sets of creating threads and every
`MaxTasks`:

* `TypeCorrect`, from three invariants that hold each other up: `CreationInv`
  (a thread about to store finds the storage long enough; one about to start
  finds an element), `SessionInv` (whoever is in a critical section holds the
  mutex of the actor it serves, and at `pop` its queue is not empty) and
  `MainInv` (the indices of `send` and of the destruction refer to stored
  elements);
* `OwnSessionUnlessRaced`: without a race the last element is that of the
  thread about to start it (`OwnInv`);
* `ChoosesShortest`: `SearchInv` says what `send` knows between two reads of a
  load. It survives the steps of other threads because these only shorten
  queues or put an empty actor in an element's place; that the actor is empty
  is `FreshInv`;
* `ActorsExecute`: `QueueInv` (a queue holds the consecutive numbers after those
  taken) makes every step a step of `Executor` or a stutter, for each actor.

`ShutdownProofs` proves all four properties of its run for all finite pools of
threads, all threads of actors and any `MaxSignals` (`ThreadsAssumption`: the threads differ
from each other and from the names of the mutexes). `HandlerEffect` says once what a step of
a handler may change; the theorems rest on

* `TypeCorrect`: `LockOrder` (who holds a mutex runs or is about to sleep, and waits
  for nothing but the logger's, whose holder waits for nothing) and `Ends` (a
  joined thread has exited; an interrupted one does not exit any more);
* `OrderOfShutdown` and `ExitIsClean`: `OneHandler`. While at most one thread took a
  signal, and one signal only, its line tells what has been stopped, joined and destroyed
  (`DoneBy`). That thread is of no pool if it gets past the joins, because it
  would have had to exit in order to be joined (`OfNoPool`);
* `HangsHaveCauses`: `Notified` (who sleeps in a stopped pool was missed by the
  notification, or a handler is still at it). In a circle without the
  causes nobody holds a mutex by `LockOrder` (`NoHolder`), nobody is asleep by
  `Notified` and nobody spins, so everybody joins somebody or destroys what somebody sleeps on,
  which takes two handlers, or one that sleeps on what it destroys.

`RegistrationProofs` proves, for all connections, finite sets of descriptors,
numbers of loops, `MaxMsgs` and `MaxAge` (the assumptions of `Registration`):

* `TypeCorrect`: `TypeOK` (types, and who holds the mutex), inductive together with
  `Filed` (who is in a map is there under its own number, and whoever is held,
  served or being made has one), `Placed` (a loop serves a connection exactly in
  its handlers, and its walk stands on an entry of its map that has timed out)
  and `FdsAreOwn` (open connections differ in their numbers, since `accept`
  takes one that nobody open has);
* `NoneErasedForNothing`: an action property; an erasure finds the connection
  it is for by `Placed` and `Filed`, although numbers are used again;
* `MapsAlwaysAgree`: `Agreement` says where the two maps may differ (the main
  thread between its two insertions, a loop between its two erasures, and the
  connections `overtaken` remembers);
* `InputAlwaysHasEvent`: `InputHasEvent` with `Watched` (an open connection is
  registered with epoll unless it is just being made or has been closed).

`EventLoopProofs` proves, for all finite sets of connections, any workers and
every `MaxMsgs` and `MaxAge` (`ConnsAssumption`, `ChannelsAssumption` and
`BoundsAssumption`), every safety property of the runs of `EventLoop`:

* `TypeCorrect` and `WalkIsSafe`: `TypeOK` and `IteratorValid` are inductive
  with three more parts (`LoopInv`): `Kernel` relates what epoll has registered
  to the life of the connection and the interest its channel keeps; `Batch`
  says that a batch holds a channel once and no closed one; `Hands` numbers the
  tasks and says which one the loop has in hand and which worker has a job;
* `ClosedHearsNothing`: from `Kernel` and `Batch`, since a closed connection is
  neither registered nor in the rest of a batch;
* `OutputHasCallback`: output waits exactly while `OUT` is asked for, and has an event to
  come, because what asks for `OUT` is an `EPOLL_CTL_MOD`; only `on_msg` and a failing `send`
  take it without another;
* `NoInputForgotten`: relies on the first half of the former, because a stuck reply excuses
  unread input only while the write callback is still to come;
* `TimerIsHeard`: no channel is writable before a reply was posted, so that the first entry of
  a batch has `IN`, and so has, by poller.cc:60, every other;
* `NoTaskForgotten`: waiting tasks keep the eventfd readable and registered
  level-triggered, so that it stays on the ready list whatever takes its events
  (`WeakEvents`);
* `ExitsForClosedOnly`: `epoll_ctl` fails only for a channel whose connection
  was closed before;
* `LoopIsAnExecutor`: initial states and steps of the loop map to those of
  `Executor`; the liveness half of `ImplementsExecutor` stays with TLC, as does
  `ShutDownStopsLoop`.

`EchoProofs` proves, for every number of requests and lengths of their bodies
and replies, every capacity of the read and the send buffer, every length of the
copy and any workers (`LengthsAssumption`: all are positive and a body fits the
read buffer; `NoneAssumption`: `None` is not a job), every safety property of
the run of `Echo`:

* `TypeCorrect`: `TypeOK` is inductive by itself;
* `HandedInOrder`: `OrderInv` says that the cells handed up, then those in
  `inbuf`, `inq` and `wire`, lie in the order in which they were asked.
  `RequestsInOrder` itself is not inductive, because it says nothing of what is
  still to be read. The order survives `Taken`, which drops and invents cells,
  because what it keeps is the front of the read and what it invents is `Filler`;
* `RepliesArriveAsPrefixes`: `Once` (a message handed up is a job, in a worker's
  hands, a posted task or in the stream of replies, in at most one of these
  places) and `Proper` (in that stream every cell but the first of its reply
  follows the one before it). A short write cuts the stream at the end only. The
  stream starts with what the client has received, which the history variable
  `received` joins, so that no recursion over the answers is needed;
* `NothingStranded`: `ChunkInv` says that `inbuf` can be cut into pieces each as
  long as its first cell says, so that
  `pick_msg` always takes a whole piece and ends at the end of the buffer. The
  other half, what a client that waits for its answers is told, is by
  `OneByOneInv`: its request is answered (`AtRest`), under way to `on_msg`
  (`UnderWay`) or handed up and its reply in one place (`BeingAnswered`);
* `AnswersAreRight`: also by `OneByOneInv`, whose part `Answered` is about the
  answers of the past.

With these, every invariant that a passing run checks is proved for all values
of the constants, and so is the action property `ErasedForCause`. What TLC alone
checks is liveness under fairness, which is out of the prover's reach: `TasksAreTaken`,
`ShutDownReturnsUnlessRaced`, `ShutDownStopsLoop`, `ClosedIsReleased`,
`AnsweredUnlessSwallowed` and the liveness halves of the refinements of `Executor`.

## Plan

No safety property of the runs is left to prove. Left for later: reaping and
errors of a connection in `Echo`, whose connection is not timed out.

Not modelled: formatting of log lines and the log file, addresses and timestamps
(no state that others depend on); protobuf (generated); `connect::on_error` and
`tcpsvr::_on_conn_error`, which differ from the close in the callback they call
and are reached only by events that poller.cc:60 would have to deliver alone;
`append_with_sep` and `disenable_read`, which nothing calls; stop signals, which would
interrupt `epoll_wait` (poller.cc:49).
