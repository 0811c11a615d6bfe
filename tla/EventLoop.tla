----------------------------- MODULE EventLoop ------------------------------
(***************************************************************************)
(* One I/O loop of the server (net/eventloop.cc, poller.cc, channel.cc and *)
(* connect.cc): the thread that runs it, the connections it serves, the    *)
(* worker threads that post replies to it, and the thread that stops it.   *)
(*                                                                         *)
(* A handler is one step where only the loop's own thread touches what it  *)
(* changes; handle_weakup() and handle_timer() are several.                *)
(***************************************************************************)
EXTENDS Epoll, Sequences, FiniteSets, Functions

CONSTANTS
    Conns,     \* file descriptors of the connections, each used once
    Workers,   \* threads of echosvr::_wrok_pool
    MaxMsgs,   \* bound on the messages all peers send
    MaxAge,    \* a connection times out when the timer fired more often than
               \* this since its last message (time_out / time_tvl)
    Weak,      \* _weak_chnl
    Timer,     \* _timer_chnl
    Loop       \* the loop's thread, as the slot of an executor

ASSUME ConnsAssumption == Conns \subseteq Nat \ {0} /\ IsFiniteSet(Conns)
ASSUME ChannelsAssumption == Weak # Timer /\ {Weak, Timer} \cap Conns = {}
ASSUME BoundsAssumption == MaxMsgs \in Nat /\ MaxAge \in Nat

VARIABLES
    ep,       \* _ep: what the kernel knows
    evs,      \* channel::_evs of the connections
    inEp,     \* channel::_in_ep of the connections
    evfd,     \* the eventfd _weakup_fd is readable
    timer,    \* the timerfd: "armed" or "expired"
    unread,   \* messages in each socket's receive buffer
    fin,      \* the peer has closed
    full,     \* the socket's send buffer is full
    reset,    \* what send() says of a reset by the peer: "no" (there was none),
              \* "reset" (ECONNRESET), "failed" (it said so: SIGPIPE next), "pipe"
              \* (SIGPIPE at once)
    out,      \* connect::_output_buf is not empty
    disconn,  \* connect::_disconn
    swallowed, \* history: connections with output whose write readiness on_msg() took
    age,      \* how often the timer fired since _last_at_time, up to MaxAge + 1
    conns,    \* eventloop::_conns, by file descriptor
    lpc,      \* where the loop's thread is
    batch,    \* the channels of the last epoll_wait() still to be handled
    cur,      \* the iterator of handle_timer(), 0 is end()
    tasks,    \* _tasks: <<number, connection of the bound send_in_loop>>
    hand,     \* the task being run, <<0, 0>> when none
    posted,   \* number of tasks pushed so far
    sent,     \* number of messages sent by the peers
    jobs,     \* echosvr::_wrok_pool: connections whose message waits for a worker
    wpc,      \* where each worker is
    wconn,    \* the connection each worker holds a shared_ptr to, 0 when none
    shut,     \* shut_down(): "no", "flag" (flag set, about to wake), "done"
    fault     \* "none"; "exit": exit(-1) of poller.cc; "dangling": freed memory is
              \* used; "killed": by SIGPIPE

peers   == <<unread, fin, full, reset>>
connect == <<evs, inEp, out, disconn, swallowed, age>>
loop    == <<lpc, batch, cur, hand>>
workers == <<jobs, wpc, wconn>>
vars == <<ep, peers, connect, evfd, timer, conns, loop, tasks, posted, sent, workers, shut, fault>>

Channels == Conns \cup {Weak, Timer}
NoTask == <<0, 0>>
End == 0

LoopPcs ==
    { "top",       \* line 44, about to read _shut_down
      "wait",      \* line 45, in epoll_wait()
      "dispatch",  \* line 51, about to handle the next channel
      "lock",      \* line 82: the eventfd was read, the mutex not yet taken
      "drain",     \* line 84, holding the mutex
      "run",       \* line 87, holding the mutex
      "scan",      \* line 103
      "hung",      \* line 103, incrementing end() of an empty map for ever
      "exited" }

\* The conditions that hold of each descriptor.
ConnLevel(n, closed, stuffed) ==
    (IF n > 0 \/ closed THEN {"IN"} ELSE {}) \cup (IF stuffed THEN {} ELSE {"OUT"})

Level == [ch \in Channels |->
            CASE ch = Weak  -> IF evfd THEN {"IN"} ELSE {}
              [] ch = Timer -> IF timer = "expired" THEN {"IN"} ELSE {}
              [] OTHER      -> ConnLevel(unread[ch], fin[ch], full[ch])]

\* A connect object lives while a shared_ptr to it does: in _conns, in a job
\* of the worker pool, or in the hands of a worker.
Referenced(c, map, waiting, held) ==
    \/ c \in map
    \/ \E i \in 1..Len(waiting) : waiting[i] = c
    \/ \E w \in Workers : held[w] = c

Alive(c) == Referenced(c, conns, jobs, wconn)

\* The interest the loop's own channels and a new connection register.  The
\* eventfd is registered by enable_read() before use_et() sets EPOLLET, so the
\* kernel never learns of EPOLLET (eventloop.cc:31 to 33).
WeakEventsSwapped == {"IN", "ET"}   \* mutant: use_et() first
WeakEvents  == {"IN"}
TimerEvents == {"IN", "ET"}
Established == {"IN", "ET"}

Init ==
    /\ ep = [reg |-> [ch \in Channels |-> IF ch = Weak THEN WeakEvents
                                          ELSE IF ch = Timer THEN TimerEvents ELSE {}],
             ready |-> {}]
    /\ evs = [c \in Conns |-> {}]
    /\ inEp = [c \in Conns |-> FALSE]
    /\ evfd = FALSE /\ timer = "armed"
    /\ unread = [c \in Conns |-> 0]
    /\ fin = [c \in Conns |-> FALSE]
    /\ full = [c \in Conns |-> FALSE]
    /\ reset = [c \in Conns |-> "no"]
    /\ out = [c \in Conns |-> FALSE]
    /\ disconn = [c \in Conns |-> FALSE]
    /\ swallowed = {}
    /\ age = [c \in Conns |-> 0]
    /\ conns = {} /\ lpc = "top" /\ batch = <<>> /\ cur = End
    /\ tasks = <<>> /\ hand = NoTask /\ posted = 0 /\ sent = 0
    /\ jobs = <<>>
    /\ wpc = [w \in Workers |-> "idle"]
    /\ wconn = [w \in Workers |-> 0]
    /\ shut = "no" /\ fault = "none"


\* A fault is the end of what the model says of the program.
Running == fault = "none"
LoopAt(pc) == Running /\ lpc = pc
WorkerAt(w, pc) == Running /\ wpc[w] = pc

----------------------------------------------------------------------------
(* The peers of the connections, and the clock *)

PeerSend(c) ==
    /\ Running /\ Alive(c) /\ ~fin[c] /\ sent < MaxMsgs
    /\ unread' = [unread EXCEPT ![c] = @ + 1]
    /\ sent' = sent + 1
    /\ ep' = Signal(ep, c, "IN")
    /\ UNCHANGED <<fin, full, reset, connect, evfd, timer, conns, loop, tasks, posted,
                   workers, shut, fault>>

PeerClose(c) ==
    /\ Running /\ Alive(c) /\ ~fin[c]
    /\ fin' = [fin EXCEPT ![c] = TRUE]
    /\ ep' = Signal(ep, c, "IN")
    /\ UNCHANGED <<unread, full, reset, connect, evfd, timer, conns, loop, tasks, posted,
                   sent, workers, shut, fault>>

\* The peer resets the connection: everything is ready, nothing can be sent, and
\* what there is to read ends.  The kernel has ECONNRESET for the next send(), or
\* EPIPE if the peer had closed before; EPIPE comes with SIGPIPE, which the program
\* neither handles nor ignores.
PeerReset(c) ==
    /\ Running /\ Alive(c) /\ reset[c] = "no"
    /\ reset' = [reset EXCEPT ![c] = IF fin[c] THEN "pipe" ELSE "reset"]
    /\ fin' = [fin EXCEPT ![c] = TRUE]
    /\ full' = [full EXCEPT ![c] = FALSE]
    /\ ep' = Signal(ep, c, "IN")
    /\ UNCHANGED <<unread, connect, evfd, timer, conns, loop, tasks, posted, sent,
                   workers, shut, fault>>

\* The peer reads, and the send buffer has room again.
PeerDrain(c) ==
    /\ Running /\ Alive(c) /\ full[c]
    /\ full' = [full EXCEPT ![c] = FALSE]
    /\ ep' = Signal(ep, c, "OUT")
    /\ UNCHANGED <<unread, fin, reset, connect, evfd, timer, conns, loop, tasks, posted,
                   sent, workers, shut, fault>>

\* The timerfd is one-shot: lines 15 to 23 and 93 to 97 of eventloop.cc.
TimerExpire ==
    /\ Running /\ timer = "armed"
    /\ timer' = "expired"
    /\ age' = [c \in Conns |-> IF age[c] > MaxAge THEN age[c] ELSE age[c] + 1]
    /\ ep' = Signal(ep, Timer, "IN")
    /\ UNCHANGED <<peers, evs, inEp, out, disconn, swallowed, evfd, conns, loop, tasks, posted,
                   sent, workers, shut, fault>>

----------------------------------------------------------------------------
(* poller::update() and channel::remove() *)

\* The channel of c asks for mask.  _in_ep chooses between ADD and MOD; the
\* kernel refuses a MOD of a descriptor it does not have, and the program
\* exits.
Update(c, mask, level) ==
    /\ evs' = [evs EXCEPT ![c] = mask]
    /\ swallowed' = swallowed \ {c}
    /\ inEp' = [inEp EXCEPT ![c] = TRUE]
    /\ IF inEp[c] /\ ep.reg[c] = {}
         THEN ep' = ep /\ fault' = "exit"
         ELSE ep' = Control(ep, c, mask, level) /\ fault' = fault

\* Mutant of RemoveChannel: only reading is disabled.
DisableRead(c) ==
    /\ evs' = [evs EXCEPT ![c] = @ \ {"IN"}]
    /\ ep' = Control(ep, c, evs[c] \ {"IN"}, Level[c])
    /\ UNCHANGED <<inEp, swallowed>>

\* disable_all() and poller::remove(): _in_ep stays set.
RemoveChannel(c) ==
    /\ evs' = [evs EXCEPT ![c] = {}]
    /\ ep' = Delete(ep, c)
    /\ UNCHANGED <<inEp, swallowed>>

\* connect::connect() and tcpsvr::_on_new_conn(), on the thread of the main
\* loop.  What can happen between their steps is not a matter of this module;
\* the walk over _conns does not overlap the insertion here.
Establish(c) ==
    /\ Running /\ ~inEp[c] /\ lpc # "scan"
    /\ Update(c, Established, Level[c])
    /\ conns' = conns \cup {c}
    /\ age' = [age EXCEPT ![c] = 0]
    /\ UNCHANGED <<peers, out, disconn, evfd, timer, loop, tasks, posted, sent,
                   workers, shut>>

----------------------------------------------------------------------------
(* Worker threads: echosvr::on_msg() and connect::send() *)

\* The pool hands its oldest job to a worker (ThreadPool.tla).
TakeJob(w) ==
    /\ WorkerAt(w, "idle") /\ jobs # <<>>
    /\ jobs' = Tail(jobs)
    /\ wconn' = [wconn EXCEPT ![w] = Head(jobs)]
    /\ wpc' = [wpc EXCEPT ![w] = "send"]
    /\ UNCHANGED <<ep, peers, connect, evfd, timer, conns, loop, tasks, posted, sent,
                   shut, fault>>

\* Mutant of ReleaseConn: the first to let go closes the descriptor.
CloseConn(c, kernel) == ep' = Delete(kernel, c)

\* The last shared_ptr takes the object with it, and the socket closes the
\* descriptor: the kernel forgets it.
ReleaseConn(c, kernel) ==
    ep' = IF Referenced(c, conns', jobs', wconn') THEN kernel ELSE Delete(kernel, c)

\* The worker returns from its job and drops its shared_ptr.
EndJob(w, kernel) ==
    /\ wconn' = [wconn EXCEPT ![w] = 0]
    /\ wpc' = [wpc EXCEPT ![w] = "idle"]
    /\ UNCHANGED <<jobs, conns>>
    /\ ReleaseConn(wconn[w], kernel)

\* connect.cc:100 to 103.
FindDisconnected(w) ==
    /\ WorkerAt(w, "send") /\ disconn[wconn[w]]
    /\ EndJob(w, ep)
    /\ UNCHANGED <<peers, connect, evfd, timer, loop, tasks, posted, sent, shut, fault>>

\* connect.cc:100 and 104: not the loop's thread.
FindConnected(w) ==
    /\ WorkerAt(w, "send") /\ ~disconn[wconn[w]]
    /\ wpc' = [wpc EXCEPT ![w] = "push"]
    /\ UNCHANGED <<ep, peers, connect, evfd, timer, conns, loop, tasks, posted, sent,
                   jobs, wconn, shut, fault>>

\* The loop's thread holds _mutex.
LoopHoldsMutex == lpc \in {"drain", "run"}

\* connect.cc:112 and eventloop.cc:67 to 70.  The task binds a bare pointer.
PushTask(w) ==
    /\ WorkerAt(w, "push") /\ ~LoopHoldsMutex
    /\ posted' = posted + 1
    /\ tasks' = Append(tasks, <<posted + 1, wconn[w]>>)
    /\ wpc' = [wpc EXCEPT ![w] = "wake"]
    /\ UNCHANGED <<ep, peers, connect, evfd, timer, conns, loop, sent, jobs, wconn,
                   shut, fault>>

\* eventloop.cc:72 and 74 to 77.
WakeLoop(w) ==
    /\ WorkerAt(w, "wake")
    /\ evfd' = TRUE
    /\ EndJob(w, Signal(ep, Weak, "IN"))
    /\ UNCHANGED <<peers, connect, timer, loop, tasks, posted, sent, shut, fault>>

----------------------------------------------------------------------------
(* eventloop::shut_down(), called by another thread *)

\* Line 121.
SetShutDown ==
    /\ Running /\ shut = "no"
    /\ shut' = "flag"
    /\ UNCHANGED <<ep, peers, connect, evfd, timer, conns, loop, tasks, posted, sent,
                   workers, fault>>

\* Mutant of WakeForShutDown: the flag alone.
ForgetWakeForShutDown ==
    /\ Running /\ shut = "flag"
    /\ shut' = "done"
    /\ UNCHANGED <<ep, peers, connect, evfd, timer, conns, loop, tasks, posted, sent,
                   workers, fault>>

\* Line 122.
WakeForShutDown ==
    /\ Running /\ shut = "flag"
    /\ shut' = "done"
    /\ evfd' = TRUE
    /\ ep' = Signal(ep, Weak, "IN")
    /\ UNCHANGED <<peers, connect, timer, conns, loop, tasks, posted, sent, workers, fault>>

----------------------------------------------------------------------------
(* eventloop::run() and poller::loop() *)

\* Line 44 of eventloop.cc.
ReadShutDown ==
    /\ LoopAt("top")
    /\ lpc' = IF shut = "no" THEN "wait" ELSE "exited"
    /\ UNCHANGED <<ep, peers, connect, evfd, timer, conns, batch, cur, hand, tasks,
                   posted, sent, workers, shut, fault>>

\* epoll_wait() returns, its array in any order; every channel is given the
\* events of the first entry (poller.cc:60).  own is what the kernel reported
\* of it.
EpollWait ==
    LET channels == Reported(ep, Level)
        own(ch)  == Level[ch] \cap ep.reg[ch]
    IN  /\ LoopAt("wait") /\ channels # {}
        /\ \E array \in Bijection(1..Cardinality(channels), channels) :
              batch' = [i \in 1..Cardinality(channels) |->
                           [ch |-> array[i], own |-> own(array[i]), revs |-> own(array[1])]]
        /\ ep' = AfterWait(ep, Level)
        /\ lpc' = "dispatch"
        /\ UNCHANGED <<peers, connect, evfd, timer, conns, cur, hand, tasks, posted,
                       sent, workers, shut, fault>>

\* Where the loop's thread goes when a handler returns.
Return(rest) == IF rest = <<>> THEN "top" ELSE "dispatch"

\* Line 52 calls handle_event() of the next channel.
Handling(ch) ==
    /\ LoopAt("dispatch")
    /\ Head(batch).ch = ch
    /\ batch' = Tail(batch)

Revs == Head(batch).revs

\* The timer or a worker destroyed the connection after epoll_wait() returned it.
HandleFreed(c) ==
    /\ Handling(c) /\ ~Alive(c)
    /\ fault' = "dangling"
    /\ UNCHANGED <<ep, peers, connect, evfd, timer, conns, lpc, cur, hand, tasks, posted,
                   sent, workers, shut>>

\* channel.cc:75 to 79: neither the eventfd nor the timer has a write callback.
HandleNothing(ch) ==
    /\ Handling(ch) /\ "IN" \notin Revs
    /\ lpc' = Return(batch')
    /\ UNCHANGED <<ep, peers, connect, evfd, timer, conns, cur, hand, tasks, posted,
                   sent, workers, shut, fault>>

----------------------------------------------------------------------------
(* connect::on_msg() and connect::writecb() *)

\* read() is repeated until EAGAIN.
LeftAfterOneRead(n) == IF n = 0 THEN 0 ELSE n - 1   \* mutant: read() once
LeftUnread(n) == 0

\* connect.cc:63 to 88: everything is read, the complete messages are picked
\* and each becomes a job.  Messages that arrive in one read() count as one.
\* Output that could be written is not: the event is used up (channel.cc:75).
OnMsg(c) ==
    /\ Handling(c) /\ Alive(c) /\ "IN" \in Revs /\ ~fin[c]
    /\ unread' = [unread EXCEPT ![c] = LeftUnread(@)]
    /\ \E picked \in IF unread[c] = 0 THEN {0} ELSE 1..unread[c] :
          /\ jobs' = jobs \o [i \in 1..picked |-> c]
          /\ age' = IF picked = 0 THEN age ELSE [age EXCEPT ![c] = 0]
    /\ swallowed' = IF out[c] /\ ~full[c] /\ ~InReady(ep, c) THEN swallowed \cup {c}
                                                            ELSE swallowed
    /\ lpc' = Return(batch')
    /\ UNCHANGED <<ep, fin, full, reset, evs, inEp, out, disconn, evfd, timer, conns, cur, hand,
                   tasks, posted, sent, wpc, wconn, shut, fault>>

\* connect.cc:65 to 98 and 36 to 43: read() returned 0, after a reset at its second
\* attempt; what was read before is not picked.  tcpsvr forgets the connection, the
\* loop's map keeps it.
OnMsgClosed(c) ==
    /\ Handling(c) /\ Alive(c) /\ "IN" \in Revs /\ fin[c]
    /\ unread' = [unread EXCEPT ![c] = 0]
    /\ disconn' = [disconn EXCEPT ![c] = TRUE]
    /\ RemoveChannel(c)
    /\ lpc' = Return(batch')
    /\ UNCHANGED <<fin, full, reset, out, age, evfd, timer, conns, cur, hand, tasks, posted,
                   sent, workers, shut, fault>>

\* Mutant of WriteBlocked: write interest is dropped with the output unsent.
WriteAbandoned(c) ==
    /\ Handling(c) /\ Alive(c) /\ "IN" \notin Revs
    /\ out[c] /\ full[c]
    /\ Update(c, evs[c] \ {"OUT"}, Level[c])
    /\ lpc' = Return(batch')
    /\ UNCHANGED <<peers, out, disconn, age, evfd, timer, conns, cur, hand, tasks,
                   posted, sent, workers, shut>>

\* connect.cc:121 fails with EAGAIN: the output waits for the next edge.
WriteBlocked(c) ==
    /\ Handling(c) /\ Alive(c) /\ "IN" \notin Revs
    /\ out[c] /\ full[c]
    /\ lpc' = Return(batch')
    /\ UNCHANGED <<ep, peers, connect, evfd, timer, conns, cur, hand, tasks, posted,
                   sent, workers, shut, fault>>

\* connect.cc:121 fails for good.  Nothing is erased and line 127 is not reached: the
\* channel still asks for OUT, and epoll is not told to look again.
WriteFails(c) ==
    /\ Handling(c) /\ Alive(c) /\ "IN" \notin Revs
    /\ out[c] /\ reset[c] = "reset"
    /\ reset' = [reset EXCEPT ![c] = "failed"]
    /\ lpc' = Return(batch')
    /\ UNCHANGED <<ep, unread, fin, full, connect, evfd, timer, conns, cur, hand, tasks,
                   posted, sent, workers, shut, fault>>

\* connect.cc:121 is the second send() on a connection that was reset, or the first
\* on one that was closed before: SIGPIPE ends the process.  The call is made with
\* an empty buffer too.
WriteKills(c) ==
    /\ LoopAt("dispatch") /\ Head(batch).ch = c
    /\ Alive(c) /\ "IN" \notin Revs
    /\ reset[c] \in {"failed", "pipe"}
    /\ fault' = "killed"
    /\ UNCHANGED <<ep, peers, connect, evfd, timer, conns, loop, tasks, posted, sent,
                   workers, shut>>

\* connect.cc:120 to 131: something or nothing is sent, the buffer is empty
\* afterwards, and the channel asks for input only.
WriteDone(c) ==
    /\ Handling(c) /\ Alive(c) /\ "IN" \notin Revs
    /\ \/ reset[c] = "no" /\ ~(out[c] /\ full[c])
       \/ reset[c] = "reset" /\ ~out[c]
    /\ reset' = [reset EXCEPT ![c] = IF @ = "reset" THEN "failed" ELSE @]
    /\ out' = [out EXCEPT ![c] = FALSE]
    /\ \E stuffed \in IF out[c] THEN BOOLEAN ELSE {full[c]} :
          /\ full' = [full EXCEPT ![c] = stuffed]
          /\ Update(c, evs[c] \ {"OUT"}, ConnLevel(unread[c], fin[c], stuffed))
    /\ lpc' = Return(batch')
    /\ UNCHANGED <<unread, fin, disconn, age, evfd, timer, conns, cur, hand, tasks,
                   posted, sent, workers, shut>>

----------------------------------------------------------------------------
(* eventloop::handle_weakup() *)

\* Lines 80 and 81: the eventfd is read before the mutex is taken.
ReadEventFd ==
    /\ Handling(Weak) /\ "IN" \in Revs
    /\ evfd' = FALSE
    /\ lpc' = "lock"
    /\ UNCHANGED <<ep, peers, connect, timer, conns, cur, hand, tasks, posted, sent,
                   workers, shut, fault>>

\* Line 83.
LockTasks ==
    /\ LoopAt("lock")
    /\ lpc' = "drain"
    /\ UNCHANGED <<ep, peers, connect, evfd, timer, conns, batch, cur, hand, tasks,
                   posted, sent, workers, shut, fault>>

\* Lines 84 to 86.
NextTask ==
    /\ LoopAt("drain") /\ tasks # <<>>
    /\ hand' = Head(tasks)
    /\ tasks' = Tail(tasks)
    /\ lpc' = "run"
    /\ UNCHANGED <<ep, peers, connect, evfd, timer, conns, batch, cur, posted, sent,
                   workers, shut, fault>>

\* Line 87 on a connection that lives: connect::send_in_loop() appends to the
\* output buffer and asks for OUT.  If the program exits it exits in there.
RunTask ==
    LET c == hand[2]
    IN  /\ LoopAt("run") /\ Alive(c)
        /\ out' = [out EXCEPT ![c] = TRUE]
        /\ Update(c, evs[c] \cup {"OUT"}, Level[c])
        /\ IF fault' = "none" THEN lpc' = "drain" /\ hand' = NoTask
                              ELSE UNCHANGED <<lpc, hand>>
        /\ UNCHANGED <<peers, disconn, age, evfd, timer, conns, batch, cur, tasks,
                       posted, sent, workers, shut>>

\* The connection was freed after its worker posted the task.
RunTaskOfFreed ==
    /\ LoopAt("run") /\ ~Alive(hand[2])
    /\ fault' = "dangling"
    /\ UNCHANGED <<ep, peers, connect, evfd, timer, conns, loop, tasks, posted, sent,
                   workers, shut>>

\* Mutant of EndDrain: if for while, the mutex is released after any task.
EndDrainEarly ==
    /\ LoopAt("drain")
    /\ lpc' = Return(batch)
    /\ UNCHANGED <<ep, peers, connect, evfd, timer, conns, batch, cur, hand, tasks,
                   posted, sent, workers, shut, fault>>

\* Lines 84 and 89: the queue is empty, the mutex is released.
EndDrain ==
    /\ LoopAt("drain") /\ tasks = <<>>
    /\ lpc' = Return(batch)
    /\ UNCHANGED <<ep, peers, connect, evfd, timer, conns, batch, cur, hand, tasks,
                   posted, sent, workers, shut, fault>>

----------------------------------------------------------------------------
(* eventloop::handle_timer() of a sub loop *)

\* Mutants: fd + 1 for the next element; an erase() that does not move it.
NextFd(map, fd) == IF map = {} THEN End ELSE fd + 1
StayPut(map, fd) == IF fd = 0 /\ map # {} THEN CHOOSE c \in map : \A d \in map : c <= d
                    ELSE IF \E c \in map : c > fd THEN fd ELSE End

\* Iterators of _conns, which is ordered by file descriptor.
After(map, fd) ==
    LET later == {c \in map : c > fd}
    IN  IF later = {} THEN End ELSE CHOOSE c \in later : \A d \in later : c <= d

Begin(map) == After(map, 0)

\* Mutant of HandleTimer: the timer is not armed again.
HandleTimerOnce ==
    /\ Handling(Timer) /\ "IN" \in Revs
    /\ cur' = Begin(conns)
    /\ lpc' = "scan"
    /\ UNCHANGED <<ep, peers, connect, evfd, timer, conns, hand, tasks, posted, sent,
                   workers, shut, fault>>

\* Lines 93 to 103: the timer is armed again, the walk begins.
HandleTimer ==
    /\ Handling(Timer) /\ "IN" \in Revs
    /\ timer' = "armed"
    /\ cur' = Begin(conns)
    /\ lpc' = "scan"
    /\ UNCHANGED <<ep, peers, connect, evfd, conns, hand, tasks, posted, sent, workers,
                   shut, fault>>

\* Line 104 is false: ++it.
ScanKeep ==
    /\ LoopAt("scan") /\ cur # End /\ age[cur] <= MaxAge
    /\ cur' = After(conns, cur)
    /\ UNCHANGED <<ep, peers, connect, evfd, timer, conns, lpc, batch, hand, tasks,
                   posted, sent, workers, shut, fault>>

\* Lines 105 to 110 and then the ++it of line 103, on the iterator erase()
\* returned.  Incrementing end() stays at end() for ever in an empty map, and
\* in any other lands on one of the connections that are left.
ScanReap ==
    /\ LoopAt("scan") /\ cur # End /\ age[cur] > MaxAge
    /\ conns' = conns \ {cur}
    /\ LET erased == After(conns, cur)
       IN  \/ erased # End /\ cur' = After(conns, erased) /\ UNCHANGED lpc
           \/ erased = End /\ cur' \in conns' /\ UNCHANGED lpc
           \/ erased = End /\ conns' = {} /\ cur' = End /\ lpc' = "hung"
    /\ UNCHANGED <<jobs, wconn>>
    /\ ReleaseConn(cur, ep)
    /\ UNCHANGED <<peers, connect, evfd, timer, batch, hand, tasks, posted, sent, wpc,
                   shut, fault>>

EndScan ==
    /\ LoopAt("scan") /\ cur = End
    /\ lpc' = Return(batch)
    /\ UNCHANGED <<ep, peers, connect, evfd, timer, conns, batch, cur, hand, tasks,
                   posted, sent, workers, shut, fault>>

----------------------------------------------------------------------------
HandleEvent ==
    \/ ReadEventFd \/ HandleTimer \/ HandleNothing(Weak) \/ HandleNothing(Timer)
    \/ \E c \in Conns : OnMsg(c) \/ OnMsgClosed(c) \/ WriteBlocked(c) \/ WriteDone(c)
                            \/ WriteFails(c) \/ WriteKills(c) \/ HandleFreed(c)

LoopStep ==
    \/ ReadShutDown \/ EpollWait \/ HandleEvent
    \/ LockTasks \/ NextTask \/ RunTask \/ RunTaskOfFreed \/ EndDrain
    \/ ScanKeep \/ ScanReap \/ EndScan

WorkerStep(w) ==
    TakeJob(w) \/ FindDisconnected(w) \/ FindConnected(w) \/ PushTask(w) \/ WakeLoop(w)

Environment ==
    \/ TimerExpire
    \/ \E c \in Conns : Establish(c) \/ PeerSend(c) \/ PeerClose(c) \/ PeerReset(c)
                            \/ PeerDrain(c)

Next ==
    \/ LoopStep
    \/ \E w \in Workers : WorkerStep(w)
    \/ SetShutDown \/ WakeForShutDown
    \/ Environment

\* The threads run; peers, the clock and the caller of shut_down() need not.
Fairness ==
    /\ WF_vars(LoopStep)
    /\ \A w \in Workers : WF_vars(WorkerStep(w))
    /\ WF_vars(WakeForShutDown)

Spec == Init /\ [][Next]_vars /\ Fairness

----------------------------------------------------------------------------
(* Properties *)

InBatch(ch) == \E i \in 1..Len(batch) : batch[i].ch = ch

\* Number of posted tasks the loop has begun to run.
Begun == posted - Len(tasks)

\* Every variable has its type.
TypeOK ==
    /\ ep \in [reg : [Channels -> SUBSET Events], ready : SUBSET Channels]
    /\ evs \in [Conns -> SUBSET Events] /\ inEp \in [Conns -> BOOLEAN]
    /\ evfd \in BOOLEAN /\ timer \in {"armed", "expired"}
    /\ unread \in [Conns -> Nat] /\ age \in [Conns -> 0..MaxAge + 1]
    /\ fin \in [Conns -> BOOLEAN] /\ full \in [Conns -> BOOLEAN]
    /\ out \in [Conns -> BOOLEAN] /\ disconn \in [Conns -> BOOLEAN]
    /\ reset \in [Conns -> {"no", "reset", "failed", "pipe"}] /\ swallowed \subseteq Conns
    /\ conns \subseteq Conns /\ lpc \in LoopPcs
    /\ batch \in Seq([ch : Channels, own : SUBSET Events, revs : SUBSET Events])
    /\ cur \in {End} \cup Conns
    /\ tasks \in Seq(Nat \X Conns) /\ hand \in {NoTask} \cup (Nat \X Conns)
    /\ posted \in Nat /\ sent \in 0..MaxMsgs /\ jobs \in Seq(Conns)
    /\ wpc \in [Workers -> {"idle", "send", "push", "wake"}]
    /\ wconn \in [Workers -> {0} \cup Conns]
    /\ shut \in {"no", "flag", "done"} /\ fault \in {"none", "exit", "dangling", "killed"}

\* The walk of handle_timer() never stands on an erased element: cur is in the
\* map or end(), although erase() and ++it both move it (lines 103 to 108).
IteratorValid == lpc = "scan" => cur \in {End} \cup conns

\* No wakeup of a posted task is lost: while tasks wait, the loop is about to
\* empty the queue, or a worker is about to write the eventfd, or it is
\* readable; and a readable eventfd is always on the ready list, although
\* poller.cc:60 may have the loop ignore it when it is reported.
TaskWakesLoop ==
    /\ tasks # <<>> => \/ evfd
                       \/ \E w \in Workers : wpc[w] = "wake"
                       \/ lpc \in {"lock", "drain", "run"}
    /\ evfd => InReady(ep, Weak)

\* A failed send() left output in the buffer (connect.cc:121 to 126).
WriteFailed(c) == out[c] /\ reset[c] = "failed"

\* No input is forgotten: a registered connection with something to read (or
\* whose peer has closed) is on the ready list or among the channels still to
\* be handled, although it is registered edge-triggered and poller.cc:60 may
\* have writecb() called for it.  There are two exceptions.  If output is stuck in
\* a full send buffer its next edge reports the input too; if send() failed on a
\* connection that was reset there is no next edge, and only the timer is left.
InputNotForgotten ==
    \A c \in Conns :
        ep.reg[c] # {} /\ (unread[c] > 0 \/ fin[c]) =>
            \/ InReady(ep, c) \/ InBatch(c)
            \/ out[c] /\ full[c] /\ "OUT" \in ep.reg[c]
            \/ WriteFailed(c)

\* No output is forgotten, with the two exceptions of the code: a registered
\* connection with a reply in its buffer asks for OUT, and is on the ready list, or
\* among the channels still to be handled, or its send buffer is full and will have
\* an edge; unless on_msg() used up the event (channel.cc:75) or send() failed.
\* And OUT is asked for only while there is output.
OutputNotForgotten ==
    \A c \in Conns : ep.reg[c] # {} =>
        /\ out[c] <=> "OUT" \in ep.reg[c]
        /\ out[c] => InReady(ep, c) \/ InBatch(c) \/ full[c] \/ c \in swallowed \/ WriteFailed(c)

\* The one-shot timer is not lost before a reply was written: once expired it is on
\* the ready list or still to be handled.  Later poller.cc:60 may dispatch its only
\* edge as a write, and nothing arms it again (eventloop.cc:97).
TimerNotForgotten ==
    timer = "expired" /\ Begun = 0 => InReady(ep, Timer) \/ InBatch(Timer)

\* After on_close() nothing more happens to a connection: the kernel does not
\* know it, and no event of it is left to be handled.
ClosedIsQuiet ==
    \A c \in Conns : disconn[c] => ep.reg[c] = {} /\ ~InReady(ep, c) /\ ~InBatch(c)

\* epoll_ctl() fails, and the program exits, only for a connection whose peer
\* has closed: never for one that is idle, timed out or in use.
ExitsOnlyAfterClose ==
    fault = "exit" => disconn[hand[2]] /\ fin[hand[2]]

\* The loop runs nothing any more.
Ended == lpc \in {"exited", "hung"} \/ fault # "none"

\* shut_down() stops the loop, even one that is blocked in epoll_wait() when
\* the flag is set, unless handle_timer() hangs or the program ends before.
ShutDownStopsLoop == (shut # "no") ~> Ended

\* The queue of posted tasks is an executor with the loop as its only slot.
\* It closes when the loop ends, one way or the other.
Abstract == INSTANCE Executor
    WITH Slots    <- {Loop},
         accepted <- posted,
         begun    <- Begun,
         hand     <- [s \in {Loop} |-> hand[1]],
         closed   <- Ended

ImplementsExecutor == Abstract!Spec

\* What the comments of the code say, and the code does not do.

\* channel.hh:39: _revs are the events that happened on the channel's own fd.
RevsAreOwn == \A i \in 1..Len(batch) : batch[i].revs = batch[i].own

\* channel.cc:69: where EPOLLRDHUP is not asked for, the end of a connection is seen by
\* EPOLLIN and a read() that returns 0.  So that event must come.
ResetIsReported ==
    \A c \in Conns : ep.reg[c] # {} /\ reset[c] # "no" => InReady(ep, c) \/ InBatch(c)

\* channel.hh:37: _in_ep says whether the channel has been added to the epoll,
\* so that MOD is used on a channel that has and ADD on one that has not.
InEpAccurate == \A c \in Conns : Alive(c) => (inEp[c] <=> ep.reg[c] # {})
=============================================================================
