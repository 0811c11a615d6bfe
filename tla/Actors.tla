------------------------------- MODULE Actors --------------------------------
(***************************************************************************)
(* The actor runtime (actor/actor.cc, mgr.cc, mgr.hh) as main() uses it:   *)
(* detached threads that each create an actor and run a session on one,    *)
(* the main thread that sends tasks to the shortest queue, and the         *)
(* destruction of the manager when main() returns.                         *)
(*                                                                         *)
(* An actor is named by the thread that created it.  The vector of actors  *)
(* is not guarded by any mutex; tasks of one actor are numbered in the     *)
(* order in which its queue accepted them.                                 *)
(***************************************************************************)
EXTENDS Naturals, Sequences, FiniteSets

CONSTANTS
    Threads,    \* the threads of mgr::create()
    NoOne,      \* no thread, no actor
    MaxTasks    \* how many tasks main() sends

ASSUME ThreadsAssumption  == IsFiniteSet(Threads) /\ NoOne \notin Threads
ASSUME MaxTasksAssumption == MaxTasks \in Nat

VARIABLES
    slot,      \* the storage of the vector mgr::_actors[def::actor]
    size,      \* its size: the elements after it are no longer there
    end,       \* the size each thread read at the start of push_back()
    tpc,       \* where each thread is
    seat,      \* the actor whose session each thread runs
    task,      \* the task each thread deals with, 0 when none
    queue,     \* _queue of each actor
    mutex,     \* the thread that holds _mutex of each actor
    stop,      \* _stop of each actor
    accepted,  \* number of tasks pushed to each actor
    mpc,       \* where the main thread is
    idx,       \* idx of mgr::send()
    at,        \* i of mgr::send(), and the next actor ~mgr() destroys
    left,      \* load() on the left of the comparison
    to,        \* the actor being dispatched to
    sent,      \* number of tasks sent
    gone,      \* actors that were destroyed
    fault,     \* "none"; "race", "empty", "dangling": what undefined behaviour it met
    seen,      \* history: the loads mgr::send() has read for each i
    raced      \* history: a thread pushed while another was between push and start

creation == <<slot, size, end, raced>>
sessions == <<tpc, seat, task>>
actors   == <<queue, mutex, stop, accepted>>
main     == <<mpc, idx, at, left, to, sent, gone, seen>>
vars == <<creation, sessions, actors, main, fault>>

Creating == {"push",    \* mgr.hh:30, about to read the end of the vector
             "store",   \* mgr.hh:30, about to store the element and the new end
             "pick"}    \* mgr.hh:31, about to start the last element

Session ==
    { "head",     \* actor.cc:43, about to read _stop
      "lock",     \* wants the mutex: line 46, or inside wait() after a wakeup
      "check",    \* holds the mutex, about to evaluate the predicate, line 48
      "block",    \* holds the mutex, the predicate was false, about to block
      "waiting",  \* blocked on the condition variable
      "test",     \* holds the mutex, wait() returned, line 50
      "pop",      \* holds the mutex, lines 53 and 54
      "dealing",  \* line 56
      "exited" }

Holding == {"check", "block", "test", "pop"}

Sending == {"left", "right", "dispatch"}     \* main() inside mgr::send(), in _actors
Destroying == {"stop", "notify_all", "free"} \* main() inside ~mgr()

Sleepers(a) == {c \in Threads : seat[c] = a /\ tpc[c] = "waiting"}
Taken(a)    == accepted[a] - Len(queue[a])
Hand(a)     == [c \in Threads |-> IF seat[c] = a THEN task[c] ELSE 0]
Closed(a)   == stop[a] /\ \A c \in Threads : ~(seat[c] = a /\ tpc[c] = "pop")

Init ==
    /\ slot = <<>> /\ size = 0
    /\ end = [c \in Threads |-> 0]
    /\ tpc = [c \in Threads |-> "push"]
    /\ seat = [c \in Threads |-> NoOne]
    /\ task = [c \in Threads |-> 0]
    /\ queue = [a \in Threads |-> <<>>]
    /\ mutex = [a \in Threads |-> NoOne]
    /\ stop = [a \in Threads |-> FALSE]
    /\ accepted = [a \in Threads |-> 0]
    /\ mpc = "idle" /\ idx = 1 /\ at = 1 /\ left = 0 /\ to = NoOne
    /\ sent = 0 /\ gone = {}
    /\ fault = "none"
    /\ seen = <<>> /\ raced = FALSE

\* Undefined behaviour is the end of what the model says of the program, and
\* so is the return of main(), which takes the detached threads with it.
Running == fault = "none" /\ mpc # "returned"

MainAt(pc) == Running /\ mpc = pc

----------------------------------------------------------------------------
(* mgr::create() *)

CreatorAt(c, pc) == Running /\ mpc \notin Destroying /\ tpc[c] = pc

\* push_back() reads the end of the vector.
ReadEnd(c) ==
    /\ CreatorAt(c, "push")
    /\ end' = [end EXCEPT ![c] = size]
    /\ tpc' = [tpc EXCEPT ![c] = "store"]
    /\ UNCHANGED <<slot, size, raced, seat, task, actors, main, fault>>

\* push_back() stores the element and the new end.  What others pushed since
\* it read the end is overwritten or cut off.
Store(c) ==
    /\ CreatorAt(c, "store")
    /\ size' = end[c] + 1
    /\ slot' = IF size' <= Len(slot) THEN [slot EXCEPT ![size'] = c] ELSE Append(slot, c)
    /\ tpc' = [tpc EXCEPT ![c] = "pick"]
    /\ raced' = (raced \/ \E d \in Threads \ {c} : tpc[d] \in {"store", "pick"})
    /\ UNCHANGED <<end, seat, task, actors, main, fault>>

\* Two threads in the vector, one of them writing: the other outcome is that
\* one follows a pointer into storage that push_back() has just replaced.
Torn(c) ==
    /\ CreatorAt(c, "store")
    /\ \/ mpc \in Sending
       \/ \E d \in Threads \ {c} : tpc[d] \in {"store", "pick"}
    /\ fault' = "race"
    /\ UNCHANGED <<creation, sessions, actors, main>>

Seat(c, a) ==
    /\ CreatorAt(c, "pick")
    /\ seat' = [seat EXCEPT ![c] = a]
    /\ tpc' = [tpc EXCEPT ![c] = "head"]
    /\ UNCHANGED <<creation, task, actors, main, fault>>

\* Mutant of Start: front() for the last element.
StartFirst(c) == Seat(c, slot[1])

\* mgr.hh:31: start() of the last element, which need not be the thread's own.
Start(c) == Seat(c, slot[size])

\* ~mgr() is at work on the vector the thread still uses.
CreateInDying(c) ==
    /\ Running /\ mpc \in Destroying /\ tpc[c] \in Creating
    /\ fault' = "dangling"
    /\ UNCHANGED <<creation, sessions, actors, main>>

----------------------------------------------------------------------------
(* actor::session() *)

SessionAt(c, pc) == Running /\ tpc[c] = pc /\ seat[c] \notin gone

Goto(c, pc) == tpc' = [tpc EXCEPT ![c] = pc]
Release(c)  == mutex' = [mutex EXCEPT ![seat[c]] = NoOne]

\* Line 43.
ReadStop(c) ==
    /\ SessionAt(c, "head")
    /\ Goto(c, IF stop[seat[c]] THEN "exited" ELSE "lock")
    /\ UNCHANGED <<creation, seat, task, actors, main, fault>>

\* Line 46, and the re-acquisition inside wait().
Acquire(c) ==
    /\ SessionAt(c, "lock") /\ mutex[seat[c]] = NoOne
    /\ mutex' = [mutex EXCEPT ![seat[c]] = c]
    /\ Goto(c, "check")
    /\ UNCHANGED <<creation, seat, task, queue, stop, accepted, main, fault>>

\* Lines 47 to 49: unlike the pool's, this predicate is false once _stop is set.
CheckPredicate(c) ==
    /\ SessionAt(c, "check")
    /\ Goto(c, IF ~stop[seat[c]] /\ queue[seat[c]] # <<>> THEN "test" ELSE "block")
    /\ UNCHANGED <<creation, seat, task, actors, main, fault>>

\* Mutant of Block: the session sleeps with the mutex.
BlockLocked(c) ==
    /\ SessionAt(c, "block")
    /\ Goto(c, "waiting")
    /\ UNCHANGED <<creation, seat, task, actors, main, fault>>

\* wait() releases the mutex and blocks, in one step.
Block(c) ==
    /\ SessionAt(c, "block")
    /\ Release(c)
    /\ Goto(c, "waiting")
    /\ UNCHANGED <<creation, seat, task, queue, stop, accepted, main, fault>>

SpuriousWakeup(c) ==
    /\ SessionAt(c, "waiting")
    /\ Goto(c, "lock")
    /\ UNCHANGED <<creation, seat, task, actors, main, fault>>

\* Lines 50 to 52: returning releases the mutex.
Test(c) ==
    /\ SessionAt(c, "test")
    /\ \/ /\ stop[seat[c]] \/ queue[seat[c]] = <<>>
          /\ Goto(c, "exited")
          /\ Release(c)
       \/ /\ ~stop[seat[c]] /\ queue[seat[c]] # <<>>
          /\ Goto(c, "pop")
          /\ UNCHANGED mutex
    /\ UNCHANGED <<creation, seat, task, queue, stop, accepted, main, fault>>

Take(c, rest) ==
    /\ SessionAt(c, "pop")
    /\ task' = [task EXCEPT ![c] = Head(queue[seat[c]])]
    /\ queue' = [queue EXCEPT ![seat[c]] = rest]
    /\ Release(c)
    /\ Goto(c, "dealing")
    /\ UNCHANGED <<creation, seat, stop, accepted, main, fault>>

\* Mutant of Pop: front() without pop().
PopKeepingFront(c) == Take(c, queue[seat[c]])

\* Lines 53 to 55: take the front and release the mutex.
Pop(c) == Take(c, Tail(queue[seat[c]]))

\* Line 56: deal() returns.  It uses no member of the actor.
Deal(c) ==
    /\ Running /\ tpc[c] = "dealing"
    /\ task' = [task EXCEPT ![c] = 0]
    /\ Goto(c, "head")
    /\ UNCHANGED <<creation, seat, actors, main, fault>>

\* The actor was destroyed under its session.
SessionOfFreed(c) ==
    /\ Running /\ seat[c] \in gone
    /\ tpc[c] \in Session \ {"dealing", "waiting", "exited"}
    /\ fault' = "dangling"
    /\ UNCHANGED <<creation, sessions, actors, main>>

----------------------------------------------------------------------------
(* mgr::send() and actor::dispatch(), called by main() *)

\* mgr.cc:10 and 11.
Send ==
    /\ MainAt("idle") /\ sent < MaxTasks
    /\ idx' = 1 /\ at' = 1 /\ seen' = <<>>
    /\ mpc' = "left"
    /\ UNCHANGED <<creation, sessions, actors, left, to, sent, gone, fault>>

\* mgr.cc:12 and 13, the load of the i-th actor, without its mutex.
ReadLeft ==
    /\ MainAt("left") /\ at <= size
    /\ left' = Len(queue[slot[at]])
    /\ seen' = Append(seen, left')
    /\ mpc' = "right"
    /\ UNCHANGED <<creation, sessions, actors, idx, at, to, sent, gone, fault>>

Compare(better) ==
    /\ MainAt("right")
    /\ idx' = IF better THEN at ELSE idx
    /\ at' = at + 1
    /\ mpc' = "left"
    /\ UNCHANGED <<creation, sessions, actors, left, to, sent, gone, seen, fault>>

\* Mutant of ReadRight: the longest queue.
ReadRightLongest == Compare(left > Len(queue[slot[idx]]))

\* mgr.cc:13 and 14, the load of the best actor so far, read anew.
ReadRight == Compare(left < Len(queue[slot[idx]]))

\* mgr.cc:12 is false.
EndSearch ==
    /\ MainAt("left") /\ at > size
    /\ mpc' = "dispatch"
    /\ UNCHANGED <<creation, sessions, actors, idx, at, left, to, sent, gone, seen, fault>>

\* mgr.cc:17 on an empty vector: nothing was pushed yet.
NoSuchActor ==
    /\ MainAt("dispatch") /\ slot = <<>>
    /\ fault' = "empty"
    /\ UNCHANGED <<creation, sessions, actors, main>>

Enqueue(a) ==
    /\ MainAt("dispatch") /\ slot # <<>>
    /\ accepted' = [accepted EXCEPT ![a] = @ + 1]
    /\ queue' = [queue EXCEPT ![a] = Append(@, accepted[a] + 1)]
    /\ to' = a
    /\ sent' = sent + 1
    /\ mpc' = "notify"
    /\ UNCHANGED <<creation, sessions, mutex, stop, idx, at, left, gone, seen, fault>>

\* Mutant of Dispatch: the push without the mutex.
DispatchUnlocked == Enqueue(slot[idx])

\* mgr.cc:17 and actor.cc:20 to 23: the push, under the mutex.
Dispatch == slot # <<>> /\ mutex[slot[idx]] = NoOne /\ Enqueue(slot[idx])

\* actor.cc:24: notify_one(), after the mutex was released.
NotifyOne ==
    /\ MainAt("notify")
    /\ mpc' = "idle"
    /\ IF Sleepers(to) = {} THEN UNCHANGED tpc
                            ELSE \E c \in Sleepers(to) : Goto(c, "lock")
    /\ UNCHANGED <<creation, seat, task, actors, idx, at, left, to, sent, gone, seen, fault>>

----------------------------------------------------------------------------
(* main() returns: ~mgr() destroys the actors from the first to the last *)

Return ==
    /\ MainAt("idle") /\ sent = MaxTasks
    /\ at' = 1
    /\ mpc' = IF size = 0 THEN "returned" ELSE "stop"
    /\ UNCHANGED <<creation, sessions, actors, idx, left, to, sent, gone, seen, fault>>

\* actor.cc:27 to 30, without the mutex.
SetStop ==
    /\ MainAt("stop")
    /\ stop' = [stop EXCEPT ![slot[at]] = TRUE]
    /\ mpc' = "notify_all"
    /\ UNCHANGED <<creation, sessions, queue, mutex, accepted, idx, at, left, to, sent,
                   gone, seen, fault>>

\* actor.cc:31.
NotifyAll ==
    /\ MainAt("notify_all")
    /\ tpc' = [c \in Threads |-> IF c \in Sleepers(slot[at]) THEN "lock" ELSE tpc[c]]
    /\ mpc' = "free"
    /\ UNCHANGED <<creation, seat, task, actors, idx, at, left, to, sent, gone, seen, fault>>

\* The members of the actor are destroyed.  Destroying a condition variable
\* waits for the threads that sleep on it (glibc), here for ever.
Free ==
    /\ MainAt("free") /\ Sleepers(slot[at]) = {}
    /\ gone' = gone \cup {slot[at]}
    /\ at' = at + 1
    /\ mpc' = IF at = size THEN "returned" ELSE "stop"
    /\ UNCHANGED <<creation, sessions, actors, idx, left, to, sent, seen, fault>>

----------------------------------------------------------------------------
ThreadStep(c) ==
    \/ ReadEnd(c) \/ Store(c) \/ Start(c)
    \/ ReadStop(c) \/ Acquire(c) \/ CheckPredicate(c) \/ Block(c) \/ Test(c) \/ Pop(c)
    \/ Deal(c)

MainStep ==
    \/ Send \/ ReadLeft \/ ReadRight \/ EndSearch \/ Dispatch \/ NotifyOne
    \/ Return \/ SetStop \/ NotifyAll \/ Free

Undefined ==
    \/ NoSuchActor
    \/ \E c \in Threads : Torn(c) \/ CreateInDying(c) \/ SessionOfFreed(c)

Next ==
    \/ MainStep
    \/ \E c \in Threads : ThreadStep(c) \/ SpuriousWakeup(c)
    \/ Undefined

\* Threads are scheduled and get a mutex that is free; deal() returns.
Fairness == WF_vars(MainStep) /\ \A c \in Threads : WF_vars(ThreadStep(c))

Spec == Init /\ [][Next]_vars /\ Fairness

----------------------------------------------------------------------------
(* Properties *)

\* Every variable has its type; the mutex of an actor is held only by a thread
\* in a session of that actor, between an acquisition and its release.
TypeOK ==
    /\ slot \in Seq(Threads) /\ size \in 0..Len(slot) /\ end \in [Threads -> Nat]
    /\ tpc \in [Threads -> Creating \cup Session]
    /\ seat \in [Threads -> Threads \cup {NoOne}] /\ task \in [Threads -> Nat]
    /\ queue \in [Threads -> Seq(Nat)] /\ stop \in [Threads -> BOOLEAN]
    /\ accepted \in [Threads -> Nat]
    /\ mutex \in [Threads -> Threads \cup {NoOne}]
    /\ \A a \in Threads : mutex[a] # NoOne =>
            seat[mutex[a]] = a /\ tpc[mutex[a]] \in Holding
    /\ mpc \in {"idle", "notify", "returned"} \cup Sending \cup Destroying
    /\ idx \in Nat /\ at \in Nat /\ left \in Nat /\ sent \in 0..MaxTasks
    /\ to \in Threads \cup {NoOne} /\ gone \subseteq Threads
    /\ fault \in {"none", "race", "empty", "dangling"}
    /\ seen \in Seq(Nat) /\ raced \in BOOLEAN

\* mgr::send() picks well although it reads the loads one by one, without a
\* mutex, while sessions take tasks and threads push actors: when it
\* dispatches, the queue it chose is no longer than any other was when that
\* one's load was read (mgr.cc:12 to 16).
ShortestQueue ==
    mpc = "dispatch" /\ slot # <<>> =>
        \A i \in 1..Len(seen) : Len(queue[slot[idx]]) <= seen[i]

\* A thread runs the session of the actor it created, unless another one
\* pushed while it was between its push and its start (mgr.hh:30 and 31).
OwnSession == ~raced => \A c \in Threads : seat[c] \in {NoOne, c}

\* A task sent to an actor that has a session is taken, unless the actor is
\* stopped or the program ends first: no notify of dispatch() is lost
\* (actor.cc:24), whether one session serves the actor or several do.
TasksAreTaken ==
    \A a \in Threads :
        (queue[a] # <<>> /\ \E c \in Threads : seat[c] = a)
            ~> (queue[a] = <<>> \/ stop[a] \/ ~Running)

\* The queue of each actor is an executor, whose slots are the threads that
\* run a session of it: however many the creation race gives it, tasks are
\* begun once and in order, and none after the stop takes effect.  That a
\* waiting task is begun (the fairness of Executor) depends on there being a
\* session: TasksAreTaken.
Abstract(a) == INSTANCE Executor
    WITH Slots    <- Threads,
         accepted <- accepted[a],
         begun    <- Taken(a),
         hand     <- Hand(a),
         closed   <- Closed(a)

ActorsAreExecutors ==
    /\ \A a \in Threads : Abstract(a)!Init
    /\ [][\A a \in Threads : [Abstract(a)!Next]_(Abstract(a)!vars)]_vars
=============================================================================
