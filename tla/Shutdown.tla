------------------------------ MODULE Shutdown ------------------------------
(***************************************************************************)
(* SIGINT or SIGTERM while the server runs (main.cc, echosvr.cc:61,        *)
(* tcpsvr.cc:113, threadpool.cc:46): the handler runs in whatever thread   *)
(* the kernel picks, which does nothing else from then on, and stops,      *)
(* joins and deletes what the other threads use, taking the logger's mutex *)
(* for each line it prints.  signal() masks the signal being handled only: *)
(* the other one may come to the same thread and run the handler anew on   *)
(* top of the first, to which nothing ever returns.                        *)
(*                                                                         *)
(* What threads do otherwise is reduced to the mutexes they take and to    *)
(* how they end.  The server is the one of main.cc:47-48, which the        *)
(* repository has commented out.                                           *)
(***************************************************************************)
EXTENDS Naturals, Sequences, FiniteSets

CONSTANTS
    Main,        \* the thread of main(), which runs the main loop
    IoThds,      \* _thd_pool: its threads, in the order of _thds; each runs
                 \* one sub loop and names its _mutex
    WorkThds,    \* _wrok_pool, likewise
    ActThds,     \* the threads of the actors, which are never joined
    MaxSignals,  \* bound on the signals that arrive
    None

VARIABLES
    pc,      \* where each thread is, see Init
    want,    \* the mutex it waits for in lock()
    owner,   \* who holds each mutex
    stop,    \* threadpool::_stop of each pool
    halted,  \* the threads whose eventloop::_shut_down is set
    joiner,  \* who joins the threads of each pool
    joined,  \* the threads of the pools that were joined
    server,  \* the global echosvr: "null", "up", "dying" when its work pool
             \* is being destroyed, "deleted"
    hpc,     \* the line of the handler each thread is at, in the latest of
             \* its calls, 0 if in none
    signals, \* the number of signals that came
    nested,  \* the threads that took both
    status,  \* "running", or how the process ended: "exit" (line 22),
             \* "return" (line 51), "abort", "null", "freed" (undefined)
    missed   \* history: the threads about to sleep when their pool was
             \* notified, or asleep when who was to notify it was interrupted

\* What only a handler changes, what a signal does, and how the server ends.
handled == <<stop, halted, joiner, joined>>
taken   == <<hpc, signals, nested>>
vars    == <<pc, want, owner, handled, server, taken, status, missed>>

Elements(s) == {s[i] : i \in DOMAIN s}
Io      == Elements(IoThds)
Workers == Elements(WorkThds)
Threads == {Main} \cup Io \cup Workers \cup ActThds

ASSUME ThreadsAssumption ==
    /\ MaxSignals \in Nat
    /\ IsFiniteSet(Threads)
    /\ Cardinality(Io) = Len(IoThds) /\ Cardinality(Workers) = Len(WorkThds)
    /\ Main \notin Io \cup Workers /\ Io \cap Workers = {}
    /\ ActThds \cap ({Main} \cup Io \cup Workers) = {}
    /\ (Threads \cup {None}) \cap {"log", "svr", "io", "work"} = {}
    /\ None \notin Threads

Pools   == {"io", "work"}
Thds(p) == IF p = "io" THEN IoThds ELSE WorkThds
Pool(t) == IF t \in Io THEN "io" ELSE "work"

\* The mutexes: the logger's, tcpsvr's, those of the pools and of the loops.
Mutexes == {"log", "svr"} \cup Pools \cup Io

\* "boot": main() before line 47 has assigned echosvr, whose constructor has
\*   started the pools' threads by then;
\* "run": in a loop, for a worker in a task, for an actor's thread as long as
\*   the process lives; "left": main() after line 48;
\* "spinning": handle_timer() has incremented past the end and goes on for
\*   ever (eventloop.cc:103);
\* "lock", "block", "waiting": threadpool.cc:16, about to sleep with the mutex,
\*   and asleep.
Init ==
    /\ pc = [t \in Threads |-> IF t = Main THEN "boot" ELSE IF t \in Workers THEN "lock" ELSE "run"]
    /\ want = [t \in Threads |-> None] /\ owner = [m \in Mutexes |-> None]
    /\ stop = [p \in Pools |-> FALSE] /\ halted = {}
    /\ joiner = [p \in Pools |-> None] /\ joined = {}
    /\ server = "null" /\ hpc = [t \in Threads |-> 0] /\ signals = 0 /\ nested = {}
    /\ status = "running" /\ missed = {}

Running  == status = "running"
Held(t)  == {m \in Mutexes : owner[m] = t}

\* t goes on with what it does: it is not in the handler.
Free(t)  == Running /\ server # "deleted" /\ hpc[t] = 0
At(t, l) == Free(t) /\ pc[t] = l
Goto(t, l) == pc' = [pc EXCEPT ![t] = l]

-----------------------------------------------------------------------------
(* Threads with their mutexes. *)

\* print() locks the logger's mutex (logger.cc:28); connections are entered
\* and erased under tcpsvr's, jobs added under the pool's, replies posted
\* under the loop's.  Under a loop's and tcpsvr's, ~connect() and
\* send_in_loop() print.
Outermost(t) ==
    {"log"} \cup (IF pc[t] = "boot" \/ t \in ActThds THEN {}
                  ELSE IF t = Main THEN {"svr"}
                  ELSE IF t \in Io THEN {"svr", "work", t}
                  ELSE Io)

Lockable(t) ==
    IF Held(t) = {} THEN Outermost(t)
    ELSE IF t \notin Workers /\ Held(t) \subseteq {"svr", t} THEN {"log"}
    ELSE {}

\* t does something and is not held up.
Acts(t) == Free(t) /\ pc[t] \in {"boot", "run"} /\ want[t] = None

\* lock(): t has the mutex if it is free, and waits for it if not.
Lock(t) ==
    /\ Acts(t)
    /\ \E m \in Lockable(t) :
          IF owner[m] = None
          THEN owner' = [owner EXCEPT ![m] = t] /\ want' = want
          ELSE want' = [want EXCEPT ![t] = m] /\ owner' = owner
    /\ UNCHANGED <<pc, handled, server, taken, status, missed>>

Acquire(t) ==
    /\ Free(t) /\ want[t] # None /\ owner[want[t]] = None
    /\ owner' = [owner EXCEPT ![want[t]] = t]
    /\ want' = [want EXCEPT ![t] = None]
    /\ UNCHANGED <<pc, handled, server, taken, status, missed>>

\* Who a notification can wake: not a sleeper who is in the handler.
Waiting(p) == {u \in Elements(Thds(p)) : pc[u] = "waiting" /\ hpc[u] = 0}

\* The innermost first.  A job that was added is notified to a worker.
Release(t, m) ==
    /\ Acts(t)
    /\ owner[m] = t /\ (m = "log" \/ owner["log"] # t)
    /\ owner' = [owner EXCEPT ![m] = None]
    /\ IF m = "work" /\ Waiting("work") # {}
       THEN \E u \in Waiting("work") : Goto(u, "lock")
       ELSE pc' = pc
    /\ UNCHANGED <<want, handled, server, taken, status, missed>>

-----------------------------------------------------------------------------
(* How threads begin and end. *)

\* echosvr = new echosvr(...)
Publish ==
    /\ Acts(Main) /\ pc[Main] = "boot" /\ Held(Main) = {}
    /\ Goto(Main, "run")
    /\ server' = "up"
    /\ UNCHANGED <<want, owner, handled, taken, status, missed>>

\* A task ends, or a loop finds _shut_down set; its thread looks at _stop
\* (threadpool.cc:13).
EndRun(t) ==
    /\ Acts(t) /\ pc[t] = "run" /\ Held(t) = {}
    /\ t \in Workers \cup halted
    /\ Goto(t, IF t = Main THEN "left" ELSE IF stop[Pool(t)] THEN "exited" ELSE "lock")
    /\ UNCHANGED <<want, owner, handled, server, taken, status, missed>>

\* A sub loop reaps its last connection.
Spin(t) ==
    /\ Acts(t) /\ t \in Io /\ pc[t] = "run" /\ Held(t) = {}
    /\ Goto(t, "spinning")
    /\ UNCHANGED <<want, owner, handled, server, taken, status, missed>>

MainReturns ==
    /\ Running /\ hpc[Main] = 0 /\ pc[Main] = "left"
    /\ status' = "return"
    /\ UNCHANGED <<pc, want, owner, handled, server, taken, missed>>

\* With the mutex: the predicate of the wait, and the test behind it.  There
\* may be a job, but no second loop for an I/O thread.
Predicate(t) ==
    /\ At(t, "lock") /\ owner[Pool(t)] = None
    /\ \/ /\ stop[Pool(t)]
          /\ Goto(t, "exited") /\ owner' = owner
       \/ /\ ~stop[Pool(t)] /\ t \in Workers
          /\ Goto(t, "run") /\ owner' = owner
       \/ /\ ~stop[Pool(t)]
          /\ Goto(t, "block") /\ owner' = [owner EXCEPT ![Pool(t)] = t]
    /\ UNCHANGED <<want, handled, server, taken, status, missed>>

\* Mutant of Block: wait() returns without the mutex of the pool.
BlockLocked(t) ==
    /\ At(t, "block")
    /\ Goto(t, "waiting")
    /\ UNCHANGED <<want, owner, handled, server, taken, status, missed>>

Block(t) ==
    /\ At(t, "block")
    /\ Goto(t, "waiting")
    /\ owner' = [owner EXCEPT ![Pool(t)] = None]
    /\ UNCHANGED <<want, handled, server, taken, status, missed>>

\* A thread that goes on when the server is gone, or its work pool.
UseDeleted(t) ==
    /\ Running /\ hpc[t] = 0 /\ pc[t] \notin {"left", "waiting", "exited"}
    /\ \/ server = "deleted" /\ t \notin ActThds
       \/ server = "dying" /\ t \in Io \cup Workers
    /\ status' = "freed"
    /\ UNCHANGED <<pc, want, owner, handled, server, taken, missed>>

-----------------------------------------------------------------------------
(* The handler. *)

\* Mutant of Handler: the loops are stopped before the work pool.
HandlerTcpFirst ==
    << "log", "unlog",
       "halt main", "log", "unlog", "halt subs", "log", "unlog",
       "test io", "stop io", "notify io", "join io", "log", "unlog",
       "test work", "stop work", "notify work", "join work", "log", "unlog",
       "test work", "stop work", "notify work", "join work",
       "destroy cond", "destroy thds", "log", "unlog", "exit" >>

Handler ==
    << "log", "unlog",                                          \* main.cc:17
       "test work", "stop work", "notify work", "join work",    \* echosvr.cc:63
       "log", "unlog",                                          \* echosvr.cc:64
       "halt main", "log", "unlog", "halt subs", "log", "unlog",\* tcpsvr.cc:114-119
       "test io", "stop io", "notify io", "join io",            \* tcpsvr.cc:120
       "log", "unlog",                                          \* tcpsvr.cc:121
       "test work", "stop work", "notify work", "join work",    \* threadpool.cc:34
       "destroy cond", "destroy thds",                          \* main.cc:20
       "log", "unlog", "exit" >>                                \* main.cc:21-22

\* The lines of threadpool::shut_down() (46-55), for each pool.
Test   == [io |-> "test io", work |-> "test work"]
Stop   == [io |-> "stop io", work |-> "stop work"]
Notify == [io |-> "notify io", work |-> "notify work"]
Join   == [io |-> "join io", work |-> "join work"]

InHandler(t) == Running /\ hpc[t] # 0
HandlerAt(t, l) == InHandler(t) /\ Handler[hpc[t]] = l
Advance(t, n) == hpc' = [hpc EXCEPT ![t] = @ + n] /\ UNCHANGED <<signals, nested>>
End(how) == status' = how

\* The threads that took a signal: the handler never returns to them.
Interrupted == {t \in Threads : hpc[t] # 0}

\* The kernel gives a signal to any thread, also to one that handles the other.
Signal(t) ==
    /\ Running /\ signals < MaxSignals /\ t \notin nested /\ pc[t] # "exited"
    /\ hpc' = [hpc EXCEPT ![t] = 1] /\ signals' = signals + 1
    /\ nested' = IF hpc[t] = 0 THEN nested ELSE nested \cup {t}
    /\ want' = [want EXCEPT ![t] = None]   \* it will never have it
    /\ missed' = missed \cup {u \in Io \cup Workers :
                     HandlerAt(t, Notify[Pool(u)]) /\ pc[u] \in {"block", "waiting"}}
    /\ UNCHANGED <<pc, owner, handled, server, status>>

HandlerPrint(t) ==
    /\ \/ HandlerAt(t, "log") /\ owner["log"] = None /\ owner' = [owner EXCEPT !["log"] = t]
       \/ HandlerAt(t, "unlog") /\ owner' = [owner EXCEPT !["log"] = None]
    /\ Advance(t, 1)
    /\ UNCHANGED <<pc, want, handled, server, status, missed>>

\* What the lines of the handler use of the server.
UsesWork == {"test work", "stop work", "notify work", "join work", "destroy cond"}
UsesTcp  == {"halt main", "halt subs", "test io", "stop io", "notify io", "join io"}
HasWork  == server = "up"
HasTcp   == server \in {"up", "dying"}
Has(p)   == IF p = "io" THEN HasTcp ELSE HasWork

\* Lines 19 and 20 with the server missing, or deleted by another handler.
HandlerUses(t) ==
    /\ InHandler(t)
    /\ \/ Handler[hpc[t]] \in UsesWork /\ ~HasWork
       \/ Handler[hpc[t]] \in UsesTcp /\ ~HasTcp
    /\ End(IF server = "null" THEN "null" ELSE "freed")
    /\ UNCHANGED <<pc, want, owner, handled, server, taken, missed>>

\* threadpool::shut_down() returns at once if _stop is set already.
TestPool(t, p) ==
    /\ HandlerAt(t, Test[p]) /\ Has(p)
    /\ Advance(t, IF stop[p] THEN 4 ELSE 1)
    /\ UNCHANGED <<pc, want, owner, handled, server, status, missed>>

StopPool(t, p) ==
    /\ HandlerAt(t, Stop[p]) /\ Has(p)
    /\ stop' = [stop EXCEPT ![p] = TRUE]
    /\ Advance(t, 1)
    /\ UNCHANGED <<pc, want, owner, halted, joiner, joined, server, status, missed>>

\* Mutant of NotifyPool: shut_down() notifies before it sets _stop.
NotifyPoolTooEarly(t, p) ==
    /\ HandlerAt(t, Notify[p]) /\ Has(p)
    /\ Advance(t, 1)
    /\ UNCHANGED <<pc, want, owner, handled, server, status, missed>>

NotifyPool(t, p) ==
    /\ HandlerAt(t, Notify[p]) /\ Has(p)
    /\ pc' = [u \in Threads |-> IF u \in Waiting(p) THEN "lock" ELSE pc[u]]
    /\ missed' = missed \cup {u \in Elements(Thds(p)) : pc[u] = "block"}
    /\ Advance(t, 1)
    /\ UNCHANGED <<want, owner, handled, server, status>>

\* The i-th thread of a pool is the first that is not in done.
NextToJoin(p, i, done) ==
    i \in DOMAIN Thds(p) /\ Thds(p)[i] \notin done /\ \A k \in 1..(i - 1) : Thds(p)[k] \in done

\* t is in the join() of u.
Joins(t, u) ==
    \E p \in Pools : /\ HandlerAt(t, Join[p]) /\ joiner[p] = t
                     /\ \E i \in DOMAIN Thds(p) : NextToJoin(p, i, joined) /\ Thds(p)[i] = u

\* Mutant of JoinPool: a thread that finds itself in _thds does not join it.
JoinPoolButSelf(t, p) ==
    /\ HandlerAt(t, Join[p]) /\ Has(p)
    /\ \/ /\ Elements(Thds(p)) \subseteq joined \cup {t}
          /\ Advance(t, 1) /\ UNCHANGED <<joiner, joined>>
       \/ \E i \in DOMAIN Thds(p) :
             /\ NextToJoin(p, i, joined \cup {t}) /\ pc[Thds(p)[i]] = "exited"
             /\ joined' = joined \cup {Thds(p)[i]} /\ UNCHANGED <<joiner, taken>>
    /\ UNCHANGED <<pc, want, owner, stop, halted, server, status, missed>>

\* One thread after the other.  std::thread::join() throws, which nothing
\* catches, if it is called for a thread that another has joined or is joining,
\* and if the caller would wait for itself.
JoinPool(t, p) ==
    /\ HandlerAt(t, Join[p]) /\ Has(p)
    /\ \/ /\ joiner[p] = None /\ Thds(p) # <<>>
          /\ joiner' = [joiner EXCEPT ![p] = t] /\ UNCHANGED <<joined, taken, status>>
       \/ /\ \/ joiner[p] \notin {t, None}
             \/ Joins(t, t) \/ \E u \in Threads : Joins(t, u) /\ Joins(u, t)
          /\ End("abort") /\ UNCHANGED <<joiner, joined, taken>>
       \/ \E u \in Threads :
             /\ Joins(t, u) /\ pc[u] = "exited"
             /\ joined' = joined \cup {u} /\ UNCHANGED <<joiner, taken, status>>
       \/ /\ Elements(Thds(p)) \subseteq joined /\ (joiner[p] = t \/ Thds(p) = <<>>)
          /\ Advance(t, 1) /\ UNCHANGED <<joiner, joined, status>>
    /\ UNCHANGED <<pc, want, owner, stop, halted, server, missed>>

\* _shut_down of a loop and its wakeup; the loops are halted one after the
\* other, which makes no difference to them.
Halt(t) ==
    /\ HasTcp
    /\ \/ HandlerAt(t, "halt main") /\ halted' = halted \cup {Main}
       \/ HandlerAt(t, "halt subs") /\ halted' = halted \cup Io
    /\ Advance(t, 1)
    /\ UNCHANGED <<pc, want, owner, stop, joiner, joined, server, status, missed>>

\* The members of the work pool are destroyed from the last: its condition
\* waits until nobody sleeps on it, who took a signal there included.
DestroyCond(t) ==
    /\ HandlerAt(t, "destroy cond") /\ HasWork
    /\ \A u \in Workers : pc[u] # "waiting"
    /\ server' = "dying" /\ Advance(t, 1)
    /\ UNCHANGED <<pc, want, owner, handled, status, missed>>

\* _thds is the first of them: a thread that was not joined aborts.  Then goes
\* tcpsvr, which never deletes its pool.
DestroyThds(t) ==
    /\ HandlerAt(t, "destroy thds")
    /\ \/ /\ Workers \subseteq joined
          /\ server' = "deleted" /\ Advance(t, 1) /\ UNCHANGED status
       \/ /\ ~(Workers \subseteq joined)
          /\ End("abort") /\ UNCHANGED <<server, taken>>
    /\ UNCHANGED <<pc, want, owner, handled, missed>>

Exit(t) ==
    /\ HandlerAt(t, "exit")
    /\ End("exit")
    /\ UNCHANGED <<pc, want, owner, handled, server, taken, missed>>

-----------------------------------------------------------------------------
HandlerStep(t) ==
    \/ HandlerPrint(t) \/ HandlerUses(t) \/ Halt(t)
    \/ DestroyCond(t) \/ DestroyThds(t) \/ Exit(t)
    \/ \E p \in Pools : TestPool(t, p) \/ StopPool(t, p) \/ NotifyPool(t, p) \/ JoinPool(t, p)

Next ==
    \/ Publish \/ MainReturns
    \/ \E t \in Threads :
          \/ Lock(t) \/ Acquire(t) \/ EndRun(t) \/ Spin(t) \/ UseDeleted(t)
          \/ \E m \in Mutexes : Release(t, m)
          \/ Signal(t) \/ HandlerStep(t)
    \/ \E t \in Io \cup Workers : Predicate(t) \/ Block(t)

Spec == Init /\ [][Next]_vars

-----------------------------------------------------------------------------
(* Properties. *)

Types ==
    /\ pc \in [Threads -> {"boot", "run", "spinning", "left", "lock", "block", "waiting", "exited"}]
    /\ want \in [Threads -> Mutexes \cup {None}]
    /\ owner \in [Mutexes -> Threads \cup {None}]
    /\ stop \in [Pools -> BOOLEAN] /\ halted \subseteq {Main} \cup Io
    /\ joiner \in [Pools -> Threads \cup {None}] /\ joined \subseteq Io \cup Workers
    /\ server \in {"null", "up", "dying", "deleted"}
    /\ hpc \in [Threads -> 0..Len(Handler)]
    /\ signals \in 0..MaxSignals /\ nested \subseteq Threads
    /\ status \in {"running", "exit", "return", "abort", "null", "freed"}
    /\ missed \subseteq Io \cup Workers

Exited(ts) == \A t \in ts : pc[t] = "exited"

\* Types; who was joined has exited; who sleeps, has exited or only waits for a
\* lock holds no mutex of his pool, and a thread in between the predicate and
\* the sleep does.
TypeOK ==
    /\ Types
    /\ Exited(joined)
    /\ \A t \in Threads \ Interrupted : pc[t] \notin {"boot", "run"} => Held(t) \subseteq Pools
    /\ \A t \in Io \cup Workers : pc[t] = "block" <=> owner[Pool(t)] = t /\ pc[t] # "run"

\* After one signal the parts stop in the order of their use: no worker is
\* left that could post to a loop that is told to stop, none nor a loop's thread
\* that could use the pool or the server while it is destroyed, and nobody uses
\* it afterwards except the main thread, if the signal went to an actor's.
StopsInOrder ==
    signals = 1 =>
        /\ halted # {} => Exited(Workers)
        /\ server \in {"dying", "deleted"} => Exited(Io \cup Workers)
        /\ status = "freed" => Interrupted \subseteq ActThds /\ pc[Main] = "run"

\* The process ends with exit(0) after one signal only if the kernel gave it to
\* a thread of no pool, and every thread of the pools has been joined; in a
\* thread of a pool the handler joins itself.
CleanEnd ==
    status = "exit" /\ signals = 1 =>
        Interrupted \subseteq {Main} \cup ActThds /\ joined = Io \cup Workers

\* t cannot go on without m.
Wants(t, m) ==
    IF hpc[t] # 0 THEN HandlerAt(t, "log") /\ m = "log"
    ELSE want[t] = m \/ (pc[t] = "lock" /\ m = Pool(t))

\* t destroys the condition u sleeps on.
Destroys(t, u) == HandlerAt(t, "destroy cond") /\ u \in Workers /\ pc[u] = "waiting"

\* u sleeps on a pool that was stopped, and no handler is about to notify it.
Asleep(u) ==
    /\ u \in Io \cup Workers /\ pc[u] = "waiting" /\ hpc[u] = 0 /\ stop[Pool(u)]
    /\ \A t \in Threads : ~HandlerAt(t, Notify[Pool(u)])

Spins(u) == pc[u] = "spinning" /\ hpc[u] = 0

Waiters ==
    Interrupted \cup {t \in Threads : want[t] # None \/ pc[t] \in {"lock", "waiting", "spinning"}}

\* Everyone in ts waits for a mutex, the end or the waking of another, or goes
\* on for ever.
Hang(ts) ==
    /\ ts # {}
    /\ \A t \in ts :
          \/ \E m \in Mutexes : owner[m] \in ts /\ Wants(t, m)
          \/ \E u \in ts : Joins(t, u) /\ ~Joins(u, t) /\ pc[u] # "exited"
          \/ \E u \in ts : Destroys(t, u)
          \/ Asleep(t) \/ Spins(t)

\* The threads, the handler's included, never wait for each other in a circle,
\* except through a thread that was interrupted with a mutex, two that were
\* both interrupted, one that was about to sleep when a pool was notified or
\* slept when who was to notify it was interrupted, a loop that spins in
\* handle_timer(), or a worker interrupted in its sleep that destroys what it
\* sleeps on.  Nothing else can keep the handler from ending the process, by
\* exit or by abort: print() is called under the other mutexes but takes none
\* of them, and nobody sleeps who could have been told to stop.
HangHasCause ==
    Running => \A ts \in SUBSET Waiters : Hang(ts) =>
        \/ \E t \in ts \cap Interrupted : Held(t) # {} \/ Destroys(t, t)
        \/ \E t, u \in ts \cap Interrupted : t # u
        \/ ts \cap missed # {}
        \/ \E t \in ts : Spins(t)
=============================================================================
