----------------------------- MODULE ThreadPool -----------------------------
(***************************************************************************)
(* last::net::threadpool (net/threadpool.cc): worker threads over a mutex, *)
(* a condition variable, a queue and the atomic flag _stop.                *)
(*                                                                         *)
(* A step is what one thread does between two points at which the others   *)
(* can tell the difference: evaluating the predicate of wait() and giving  *)
(* up the mutex to block are two steps, because shut_down() writes _stop   *)
(* without the mutex.  Tasks are numbered in the order of their push.      *)
(***************************************************************************)
EXTENDS Naturals, Sequences, FiniteSets

CONSTANTS
    Workers,     \* the threads of _thds
    Submitters,  \* threads that call add()
    MaxTasks,    \* bound on the number of calls of add()
    NoOne        \* the mutex has no owner

ASSUME WorkersAssumption    == IsFiniteSet(Workers) /\ Workers # {}
ASSUME SubmittersAssumption == IsFiniteSet(Submitters)
ASSUME MaxTasksAssumption   == MaxTasks \in Nat
ASSUME NoOneAssumption      == NoOne \notin Workers

VARIABLES
    queue,   \* _queue
    stop,    \* _stop
    mutex,   \* the worker that holds _mutex, or NoOne
    wpc,     \* where each worker is
    task,    \* the task each worker runs, 0 when it runs none
    spc,     \* where each submitter is inside add()
    opc,     \* where the owner of the pool is: shut_down(), then ~threadpool()
    added,   \* number of tasks pushed so far
    late     \* history: tasks taken from the queue after stop was set

vars == <<queue, stop, mutex, wpc, task, spc, opc, added, late>>

WorkerPcs ==
    { "head",     \* line 13, about to read _stop
      "lock",     \* wants the mutex: line 16, or inside wait() after a wakeup
      "check",    \* holds the mutex, about to evaluate the predicate, line 18
      "block",    \* holds the mutex, the predicate was false, about to block
      "waiting",  \* blocked on the condition variable
      "test",     \* holds the mutex, wait() returned, line 21
      "pop",      \* holds the mutex, lines 24 and 25
      "running",  \* line 28
      "exited" }

OwnerPcs ==
    { "open",       \* has not called shut_down()
      "set",        \* line 50
      "notify",     \* line 51
      "join",       \* lines 52 to 54
      "joined",     \* shut_down() has returned
      "destroyed" } \* ~threadpool() has returned, the members are gone

Holding == {"check", "block", "test", "pop"}
Waiting == {w \in Workers : wpc[w] = "waiting"}
Taken   == added - Len(queue)

Init ==
    /\ queue = <<>>
    /\ stop = FALSE
    /\ mutex = NoOne
    /\ wpc = [w \in Workers |-> "head"]
    /\ task = [w \in Workers |-> 0]
    /\ spc = [s \in Submitters |-> "idle"]
    /\ opc = "open"
    /\ added = 0
    /\ late = 0

----------------------------------------------------------------------------
(* add() *)

\* Mutant of Push: notify only when the queue was empty.
PushNotifyingIfEmpty(s) ==
    /\ spc[s] = "idle" /\ opc # "destroyed" /\ added < MaxTasks /\ mutex = NoOne
    /\ added' = added + 1
    /\ queue' = Append(queue, added + 1)
    /\ spc' = IF queue = <<>> THEN [spc EXCEPT ![s] = "notify"] ELSE spc
    /\ UNCHANGED <<stop, mutex, wpc, task, opc, late>>

\* Lines 37 to 40: the push, under the mutex.  add() does not look at _stop;
\* nobody calls it on a pool that is destroyed.
Push(s) ==
    /\ spc[s] = "idle"
    /\ opc # "destroyed"
    /\ added < MaxTasks
    /\ mutex = NoOne
    /\ added' = added + 1
    /\ queue' = Append(queue, added + 1)
    /\ spc' = [spc EXCEPT ![s] = "notify"]
    /\ UNCHANGED <<stop, mutex, wpc, task, opc, late>>

\* Line 41: notify_one(), after the mutex was released.
NotifyOne(s) ==
    /\ spc[s] = "notify"
    /\ spc' = [spc EXCEPT ![s] = "idle"]
    /\ \/ Waiting = {} /\ UNCHANGED wpc
       \/ \E w \in Waiting : wpc' = [wpc EXCEPT ![w] = "lock"]
    /\ UNCHANGED <<queue, stop, mutex, task, opc, added, late>>

----------------------------------------------------------------------------
(* The worker thread *)

\* Line 13.
ReadStop(w) ==
    /\ wpc[w] = "head"
    /\ wpc' = [wpc EXCEPT ![w] = IF stop THEN "exited" ELSE "lock"]
    /\ UNCHANGED <<queue, stop, mutex, task, spc, opc, added, late>>

\* Mutant of Acquire: wait() comes back without the mutex.
AcquireUnlocked(w) ==
    /\ wpc[w] = "lock"
    /\ mutex' = w
    /\ wpc' = [wpc EXCEPT ![w] = "check"]
    /\ UNCHANGED <<queue, stop, task, spc, opc, added, late>>

\* Line 16, and the re-acquisition inside wait().
Acquire(w) ==
    /\ wpc[w] = "lock"
    /\ mutex = NoOne
    /\ mutex' = w
    /\ wpc' = [wpc EXCEPT ![w] = "check"]
    /\ UNCHANGED <<queue, stop, task, spc, opc, added, late>>

\* Line 18.  The queue cannot change before the mutex is released, _stop can.
CheckPredicate(w) ==
    /\ wpc[w] = "check"
    /\ wpc' = [wpc EXCEPT ![w] = IF stop \/ queue # <<>> THEN "test" ELSE "block"]
    /\ UNCHANGED <<queue, stop, mutex, task, spc, opc, added, late>>

\* Mutant of Block: the worker sleeps with the mutex.
BlockLocked(w) ==
    /\ wpc[w] = "block"
    /\ wpc' = [wpc EXCEPT ![w] = "waiting"]
    /\ UNCHANGED <<queue, stop, mutex, task, spc, opc, added, late>>

\* wait() releases the mutex and blocks, in one step.
Block(w) ==
    /\ wpc[w] = "block"
    /\ mutex' = NoOne
    /\ wpc' = [wpc EXCEPT ![w] = "waiting"]
    /\ UNCHANGED <<queue, stop, task, spc, opc, added, late>>

\* A condition variable may wake a thread nobody notified.
SpuriousWakeup(w) ==
    /\ wpc[w] = "waiting"
    /\ wpc' = [wpc EXCEPT ![w] = "lock"]
    /\ UNCHANGED <<queue, stop, mutex, task, spc, opc, added, late>>

\* Mutant of Test: line 21 without the look at _stop.
TestEmptyOnly(w) ==
    /\ wpc[w] = "test"
    /\ wpc' = [wpc EXCEPT ![w] = IF queue = <<>> THEN "exited" ELSE "pop"]
    /\ mutex' = IF queue = <<>> THEN NoOne ELSE mutex
    /\ UNCHANGED <<queue, stop, task, spc, opc, added, late>>

\* Lines 21 to 23: the second look at _stop; returning releases the mutex.
Test(w) ==
    /\ wpc[w] = "test"
    /\ \/ /\ stop \/ queue = <<>>
          /\ wpc' = [wpc EXCEPT ![w] = "exited"]
          /\ mutex' = NoOne
       \/ /\ ~stop /\ queue # <<>>
          /\ wpc' = [wpc EXCEPT ![w] = "pop"]
          /\ UNCHANGED mutex
    /\ UNCHANGED <<queue, stop, task, spc, opc, added, late>>

Take(w, taken, rest) ==
    /\ wpc[w] = "pop"
    /\ task' = [task EXCEPT ![w] = taken]
    /\ queue' = rest
    /\ mutex' = NoOne
    /\ wpc' = [wpc EXCEPT ![w] = "running"]
    /\ late' = IF stop THEN late + 1 ELSE late
    /\ UNCHANGED <<stop, spc, opc, added>>

\* Mutants of Pop: front() without pop(); a stack for the queue.
PopKeepingFront(w) == Take(w, Head(queue), queue)
PopBack(w) == Take(w, queue[Len(queue)], SubSeq(queue, 1, Len(queue) - 1))

\* Lines 24 to 26: take the front and release the mutex.
Pop(w) == Take(w, Head(queue), Tail(queue))

\* Line 28 returns.
Finish(w) ==
    /\ wpc[w] = "running"
    /\ task' = [task EXCEPT ![w] = 0]
    /\ wpc' = [wpc EXCEPT ![w] = "head"]
    /\ UNCHANGED <<queue, stop, mutex, spc, opc, added, late>>

----------------------------------------------------------------------------
(* shut_down() and ~threadpool(), called by the thread that owns the pool *)

\* Lines 47 to 49 on an open pool.
CallShutDown ==
    /\ opc = "open"
    /\ ~stop
    /\ opc' = "set"
    /\ UNCHANGED <<queue, stop, mutex, wpc, task, spc, added, late>>

\* Line 50, without the mutex.
SetStop ==
    /\ opc = "set"
    /\ stop' = TRUE
    /\ opc' = "notify"
    /\ UNCHANGED <<queue, mutex, wpc, task, spc, added, late>>

\* Mutant of NotifyAll: notify_one().
NotifyOnlyOne ==
    /\ opc = "notify"
    /\ opc' = "join"
    /\ \/ Waiting = {} /\ UNCHANGED wpc
       \/ \E w \in Waiting : wpc' = [wpc EXCEPT ![w] = "lock"]
    /\ UNCHANGED <<queue, stop, mutex, task, spc, added, late>>

\* Line 51.
NotifyAll ==
    /\ opc = "notify"
    /\ wpc' = [w \in Workers |-> IF wpc[w] = "waiting" THEN "lock" ELSE wpc[w]]
    /\ opc' = "join"
    /\ UNCHANGED <<queue, stop, mutex, task, spc, added, late>>

\* Lines 52 to 54: the joins return when every worker has exited.
Join ==
    /\ opc = "join"
    /\ \A w \in Workers : wpc[w] = "exited"
    /\ opc' = "joined"
    /\ UNCHANGED <<queue, stop, mutex, wpc, task, spc, added, late>>

\* Lines 33 to 35 after shut_down(): line 47 finds _stop set and returns, and
\* the mutex, the queue and the condition variable are destroyed.  The owner
\* deletes the pool once no thread is left inside add().
Destroy ==
    /\ opc = "joined"
    /\ stop
    /\ \A s \in Submitters : spc[s] = "idle"
    /\ opc' = "destroyed"
    /\ UNCHANGED <<queue, stop, mutex, wpc, task, spc, added, late>>

----------------------------------------------------------------------------
WorkerStep(w) ==
    ReadStop(w) \/ Acquire(w) \/ CheckPredicate(w) \/ Block(w) \/ Test(w) \/ Pop(w)

OwnerStep == CallShutDown \/ SetStop \/ NotifyAll \/ Join \/ Destroy

Next ==
    \/ \E s \in Submitters : Push(s) \/ NotifyOne(s)
    \/ \E w \in Workers : WorkerStep(w) \/ SpuriousWakeup(w) \/ Finish(w)
    \/ OwnerStep

\* Threads are scheduled, and one that finds the mutex free gets it.  Nothing
\* is assumed of the callers (Push, CallShutDown, Destroy), of spurious
\* wakeups, nor of the tasks: a pool also runs tasks that never return.
Fairness ==
    /\ \A w \in Workers : WF_vars(WorkerStep(w))
    /\ \A s \in Submitters : WF_vars(NotifyOne(s))
    /\ WF_vars(SetStop \/ NotifyAll \/ Join)

TasksEnd == \A w \in Workers : WF_vars(Finish(w))

Spec     == Init /\ [][Next]_vars /\ Fairness
FairSpec == Spec /\ TasksEnd

----------------------------------------------------------------------------
(* Properties *)

\* Every variable has its type; the mutex is held only by a worker that is
\* between an acquisition and the matching release (lines 16 to 26).
TypeOK ==
    /\ queue \in Seq(Nat)
    /\ stop \in BOOLEAN
    /\ mutex \in {NoOne} \cup {w \in Workers : wpc[w] \in Holding}
    /\ wpc \in [Workers -> WorkerPcs]
    /\ task \in [Workers -> Nat]
    /\ spc \in [Submitters -> {"idle", "notify"}]
    /\ opc \in OwnerPcs
    /\ added \in Nat
    /\ late \in Nat

\* Two workers are never both between lines 16 and 26: wait() takes the mutex
\* again before it returns, so what one saw of the queue stays true until it
\* pops or blocks.
LockDiscipline == \A w \in Workers : wpc[w] \in Holding => mutex = w

\* No task is lost or run twice: the queue holds exactly the tasks added last,
\* in order, and the tasks being run are distinct ones taken before them
\* (lines 24 and 25 against line 39).
NoTaskTwice ==
    /\ Len(queue) <= added
    /\ \A i \in 1..Len(queue) : queue[i] = Taken + i
    /\ \A w \in Workers : task[w] <= Taken
    /\ \A v, w \in Workers : v # w /\ task[v] = task[w] => task[v] = 0

\* No wakeup of add() is lost: while a worker sleeps on an open pool, each
\* queued task is matched by a notify_one() still to come (line 41) or by a
\* worker that is awake and will look at the queue (lines 13 to 25).
Awake == {w \in Workers : wpc[w] \in {"head", "lock", "check", "test", "pop"}}
Notifying == {s \in Submitters : spc[s] = "notify"}

WakeupCovered ==
    ~stop /\ Waiting # {} => Len(queue) <= Cardinality(Awake) + Cardinality(Notifying)

\* After _stop is set, at most one more task is taken from the queue, however
\* many workers there are: only the worker that holds the mutex past line 21.
AtMostOneLateTake == late <= 1

\* shut_down() returns if the tasks do, provided no worker is between a false
\* predicate (line 18) and the block when _stop is set (line 50).
ShutDownReturnsUnlessRaced ==
    TasksEnd => ((opc = "notify" /\ \A w \in Workers : wpc[w] # "block")
                    ~> (opc \in {"joined", "destroyed"}))

\* The pool is an executor whose slots are its workers.  It is closed when
\* _stop is set and no worker is past line 21.
Closed == stop /\ \A w \in Workers : wpc[w] # "pop"

Abstract == INSTANCE Executor
    WITH Slots <- Workers, accepted <- added, begun <- Taken, hand <- task, closed <- Closed

ImplementsExecutor == Abstract!Spec

\* What the comments of the code say, and the code does not do.

\* threadpool.cc:20, above the return of the worker: tasks that are still in
\* the queue are run before the thread exits.
DrainBeforeExit ==
    [][\A w \in Workers : wpc[w] = "test" /\ wpc'[w] = "exited" => queue = <<>>]_vars

\* echosvr.cc:62, above the call of shut_down(): it stops the worker threads.
\* If every task returns, so does shut_down().
ShutDownReturns == (opc = "set") ~> (opc \in {"joined", "destroyed"})
=============================================================================
