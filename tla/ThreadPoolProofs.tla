-------------------------- MODULE ThreadPoolProofs --------------------------
(***************************************************************************)
(* Theorems about ThreadPool for every set of workers and submitters.      *)
(* Each invariant is proved from the ones before it.                       *)
(***************************************************************************)
EXTENDS ThreadPool, FiniteSetTheorems, TLAPS

\* What the holder of the mutex knows of the queue stays true until it
\* releases the mutex, because only the holder and Push change the queue.
HolderSees ==
    \A w \in Workers :
        /\ wpc[w] = "pop" => queue # <<>>
        /\ wpc[w] = "block" => queue = <<>>
        /\ wpc[w] = "test" => stop \/ queue # <<>>

TypeInv == TypeOK /\ LockDiscipline /\ HolderSees

\* Every variable keeps its type and two workers are never both inside the
\* critical section of lines 16 to 26.
LEMMA TypeInvStep == TypeInv /\ [Next]_vars => TypeInv'
<1> SUFFICES ASSUME TypeInv, [Next]_vars PROVE TypeInv'
  OBVIOUS
<1> USE NoOneAssumption DEF TypeInv, TypeOK, LockDiscipline, HolderSees, WorkerPcs, OwnerPcs, Holding
<1>1. ASSUME NEW s \in Submitters, Push(s) PROVE TypeInv'
  BY <1>1 DEF Push
<1>2. ASSUME NEW s \in Submitters, NotifyOne(s) PROVE TypeInv'
  BY <1>2 DEF NotifyOne, Waiting
<1>3. ASSUME NEW w \in Workers, ReadStop(w) PROVE TypeInv'
  BY <1>3 DEF ReadStop
<1>4. ASSUME NEW w \in Workers, Acquire(w) PROVE TypeInv'
  BY <1>4 DEF Acquire
<1>5. ASSUME NEW w \in Workers, CheckPredicate(w) PROVE TypeInv'
  BY <1>5 DEF CheckPredicate
<1>6. ASSUME NEW w \in Workers, Block(w) PROVE TypeInv'
  BY <1>6 DEF Block
<1>7. ASSUME NEW w \in Workers, SpuriousWakeup(w) PROVE TypeInv'
  BY <1>7 DEF SpuriousWakeup
<1>8. ASSUME NEW w \in Workers, Test(w) PROVE TypeInv'
  BY <1>8 DEF Test
<1>9. ASSUME NEW w \in Workers, Pop(w) PROVE TypeInv'
  BY <1>9 DEF Pop, Take
<1>10. ASSUME NEW w \in Workers, Finish(w) PROVE TypeInv'
  BY <1>10 DEF Finish
<1>11. CASE OwnerStep
  BY <1>11 DEF OwnerStep, CallShutDown, SetStop, NotifyAll, Join, Destroy
<1>12. CASE UNCHANGED vars
  BY <1>12 DEF vars
<1> QED
  BY <1>1, <1>2, <1>3, <1>4, <1>5, <1>6, <1>7, <1>8, <1>9, <1>10, <1>11, <1>12
     DEF Next, WorkerStep

LEMMA TypeInvAlways == Spec => []TypeInv
<1>1. Init => TypeInv
  <2> SUFFICES ASSUME Init PROVE TypeInv
    OBVIOUS
  <2>1. queue \in Seq(Nat) /\ task \in [Workers -> Nat]
    BY DEF Init
  <2>2. wpc \in [Workers -> WorkerPcs] /\ \A w \in Workers : wpc[w] = "head"
    BY DEF Init, WorkerPcs
  <2>3. TypeOK
    BY <2>1, <2>2, NoOneAssumption DEF Init, TypeOK, OwnerPcs
  <2> QED
    BY <2>2, <2>3 DEF TypeInv, LockDiscipline, HolderSees, Holding
<1> QED
  BY <1>1, TypeInvStep, PTL DEF Spec

\* Every variable keeps its type, for any number of workers and submitters.
THEOREM TypeCorrect == Spec => []TypeOK
<1>1. TypeInv => TypeOK
  BY DEF TypeInv
<1> QED
  BY <1>1, TypeInvAlways, PTL

\* At most one worker at a time is inside the critical section of
\* threadpool.cc:16-26: whoever is there owns the mutex.
THEOREM OneHolder == Spec => []LockDiscipline
<1>1. TypeInv => LockDiscipline
  BY DEF TypeInv
<1> QED
  BY <1>1, TypeInvAlways, PTL

----------------------------------------------------------------------------
(* The queue and the tasks in hand *)

\* NoTaskTwice is inductive together with: a worker has a task in hand exactly
\* while it is at line 28.
InHand == \A w \in Workers : task[w] # 0 <=> wpc[w] = "running"

QueueInv == NoTaskTwice /\ InHand

\* Taking the front of the queue shifts it by one.
LEMMA TailFacts ==
    ASSUME NEW q \in Seq(Nat), q # <<>>
    PROVE  /\ Len(q) \in Nat /\ Len(q) > 0
           /\ Head(q) = q[1]
           /\ Tail(q) \in Seq(Nat)
           /\ Len(Tail(q)) = Len(q) - 1
           /\ \A i \in 1..Len(Tail(q)) : Tail(q)[i] = q[i + 1]
  OBVIOUS

LEMMA AppendFacts ==
    ASSUME NEW q \in Seq(Nat), NEW n \in Nat
    PROVE  /\ Append(q, n) \in Seq(Nat)
           /\ Len(Append(q, n)) = Len(q) + 1
           /\ \A i \in 1..Len(q) : Append(q, n)[i] = q[i]
           /\ Append(q, n)[Len(q) + 1] = n
  OBVIOUS

\* Steps that leave the queue and the hands alone leave QueueInv alone.
LEMMA QueueInvStep == TypeInv /\ QueueInv /\ [Next]_vars => QueueInv'
<1> SUFFICES ASSUME TypeInv, QueueInv, [Next]_vars PROVE QueueInv'
  OBVIOUS
<1> USE DEF QueueInv
<1>0. /\ queue \in Seq(Nat) /\ Len(queue) \in Nat /\ added \in Nat
      /\ wpc \in [Workers -> WorkerPcs] /\ task \in [Workers -> Nat]
  BY DEF TypeInv, TypeOK
<1>1. ASSUME UNCHANGED <<queue, task, added>>,
             \A w \in Workers : wpc'[w] = "running" <=> wpc[w] = "running"
      PROVE  QueueInv'
  BY <1>1 DEF NoTaskTwice, InHand, Taken
<1>2. ASSUME NEW s \in Submitters, Push(s) PROVE QueueInv'
  <2>1. /\ queue' = Append(queue, added + 1) /\ added' = added + 1
        /\ UNCHANGED <<task, wpc>>
    BY <1>2 DEF Push
  <2>2. Len(queue') = Len(queue) + 1 /\ Taken' = Taken
    BY <1>0, <2>1, AppendFacts DEF Taken
  <2>3. \A i \in 1..Len(queue') : queue'[i] = Taken' + i
    <3> TAKE i \in 1..Len(queue')
    <3>1. CASE i \in 1..Len(queue)
      BY <3>1, <1>0, <2>1, <2>2, AppendFacts DEF NoTaskTwice
    <3>2. CASE i = Len(queue) + 1
      BY <3>2, <1>0, <2>1, <2>2, AppendFacts DEF Taken
    <3> QED
      BY <3>1, <3>2, <2>2, <1>0
  <2>4. NoTaskTwice'
    BY <2>1, <2>2, <2>3, <1>0 DEF NoTaskTwice
  <2> QED
    BY <2>1, <2>4 DEF InHand
<1>3. ASSUME NEW s \in Submitters, NotifyOne(s) PROVE QueueInv'
  BY <1>3, <1>1, <1>0 DEF NotifyOne, Waiting
<1>4. ASSUME NEW w \in Workers,
             ReadStop(w) \/ Acquire(w) \/ CheckPredicate(w) \/ Block(w)
               \/ Test(w) \/ SpuriousWakeup(w)
      PROVE  QueueInv'
  BY <1>4, <1>1, <1>0 DEF ReadStop, Acquire, CheckPredicate, Block, Test, SpuriousWakeup
<1>5. ASSUME NEW w \in Workers, Pop(w) PROVE QueueInv'
  <2>1. /\ wpc[w] = "pop" /\ queue # <<>>
        /\ queue' = Tail(queue) /\ task' = [task EXCEPT ![w] = Head(queue)]
        /\ wpc' = [wpc EXCEPT ![w] = "running"] /\ added' = added
    BY <1>5 DEF Pop, Take, TypeInv, HolderSees
  <2>2. /\ Len(queue') = Len(queue) - 1 /\ Len(queue) > 0
        /\ Taken' = Taken + 1 /\ Taken \in Nat
    BY <1>0, <2>1, TailFacts DEF Taken, NoTaskTwice
  <2>3. Head(queue) = Taken + 1
    BY <1>0, <2>1, <2>2, TailFacts DEF NoTaskTwice
  <2>4. \A i \in 1..Len(queue') : queue'[i] = Taken' + i
    <3> TAKE i \in 1..Len(queue')
    <3>1. queue'[i] = queue[i + 1]
      BY <1>0, <2>1, TailFacts
    <3>2. i + 1 \in 1..Len(queue) /\ i \in Nat
      BY <1>0, <2>2
    <3> QED
      BY <3>1, <3>2, <2>2 DEF NoTaskTwice
  <2>5. \A v \in Workers : v # w => task'[v] = task[v] /\ wpc'[v] = wpc[v]
    BY <2>1, <1>0
  <2>6. task'[w] = Taken + 1 /\ wpc'[w] = "running"
    BY <2>1, <2>3, <1>0
  <2>7. NoTaskTwice'
    BY <2>1, <2>2, <2>4, <2>5, <2>6, <1>0 DEF NoTaskTwice
  <2> QED
    BY <2>2, <2>5, <2>6, <2>7 DEF InHand
<1>6. ASSUME NEW w \in Workers, Finish(w) PROVE QueueInv'
  <2>1. /\ task' = [task EXCEPT ![w] = 0] /\ wpc' = [wpc EXCEPT ![w] = "head"]
        /\ UNCHANGED <<queue, added>>
    BY <1>6 DEF Finish
  <2>2. NoTaskTwice'
    BY <2>1, <1>0 DEF NoTaskTwice, Taken
  <2> QED
    BY <2>1, <2>2, <1>0 DEF InHand
<1>7. CASE OwnerStep
  BY <1>7, <1>1, <1>0 DEF OwnerStep, CallShutDown, SetStop, NotifyAll, Join, Destroy
<1>8. CASE UNCHANGED vars
  BY <1>8, <1>1 DEF vars
<1> QED
  BY <1>2, <1>3, <1>4, <1>5, <1>6, <1>7, <1>8 DEF Next, WorkerStep

\* No task is lost, run twice or run out of order, whatever the number of
\* workers and submitters (threadpool.cc:39 against 24 and 25).
THEOREM EveryTaskOnce == Spec => []NoTaskTwice
<1>1. Init => QueueInv
  BY DEF Init, QueueInv, NoTaskTwice, InHand, Taken
<1>2. QueueInv => NoTaskTwice
  BY DEF QueueInv
<1> QED
  BY <1>1, <1>2, QueueInvStep, TypeInvAlways, PTL DEF Spec

----------------------------------------------------------------------------
(* Tasks taken after the stop *)

\* While _stop is clear nothing was late; once a task was, no worker is past
\* line 21, and none gets there again.
LateInv ==
    /\ AtMostOneLateTake
    /\ ~stop => late = 0
    /\ late # 0 => \A w \in Workers : wpc[w] # "pop"

LEMMA LateInvStep == TypeInv /\ LateInv /\ [Next]_vars => LateInv'
<1> SUFFICES ASSUME TypeInv, LateInv, [Next]_vars PROVE LateInv'
  OBVIOUS
<1> USE DEF LateInv, AtMostOneLateTake
<1>0. late \in Nat /\ stop \in BOOLEAN /\ wpc \in [Workers -> WorkerPcs]
  BY DEF TypeInv, TypeOK
<1>1. ASSUME UNCHANGED late, stop => stop',
             \A w \in Workers : wpc'[w] = "pop" => wpc[w] = "pop" \/ ~stop
      PROVE  LateInv'
  BY <1>1, <1>0
<1>2. ASSUME NEW s \in Submitters, Push(s) \/ NotifyOne(s) PROVE LateInv'
  BY <1>2, <1>1, <1>0 DEF Push, NotifyOne, Waiting
<1>3. ASSUME NEW w \in Workers,
             ReadStop(w) \/ Acquire(w) \/ CheckPredicate(w) \/ Block(w)
               \/ Test(w) \/ SpuriousWakeup(w) \/ Finish(w)
      PROVE  LateInv'
  BY <1>3, <1>1, <1>0
     DEF ReadStop, Acquire, CheckPredicate, Block, Test, SpuriousWakeup, Finish
<1>4. ASSUME NEW w \in Workers, Pop(w) PROVE LateInv'
  <2>1. late = 0 /\ late' = (IF stop THEN 1 ELSE 0) /\ stop' = stop
    BY <1>4, <1>0 DEF Pop, Take
  <2>2. ASSUME NEW v \in Workers PROVE wpc'[v] # "pop"
    <3>1. mutex = w
      BY <1>4 DEF Pop, Take, TypeInv, LockDiscipline, Holding
    <3>2. v # w => wpc[v] # "pop"
      BY <3>1 DEF TypeInv, LockDiscipline, Holding
    <3> QED
      BY <3>2, <1>4, <1>0 DEF Pop, Take
  <2> QED
    BY <2>1, <2>2
<1>5. CASE OwnerStep
  BY <1>5, <1>1, <1>0 DEF OwnerStep, CallShutDown, SetStop, NotifyAll, Join, Destroy
<1>6. CASE UNCHANGED vars
  BY <1>6, <1>1 DEF vars
<1> QED
  BY <1>2, <1>3, <1>4, <1>5, <1>6 DEF Next, WorkerStep

\* However many workers the pool has, at most one task is taken after _stop is
\* set: everything else in the queue is dropped (threadpool.cc:21).
THEOREM OneLateTake == Spec => []AtMostOneLateTake
<1>1. Init => LateInv
  BY DEF Init, LateInv, AtMostOneLateTake
<1>2. LateInv => AtMostOneLateTake
  BY DEF LateInv
<1> QED
  BY <1>1, <1>2, LateInvStep, TypeInvAlways, PTL DEF Spec

----------------------------------------------------------------------------
(* Wakeups *)

LEMMA CardinalityFacts ==
    ASSUME NEW S, IsFiniteSet(S)
    PROVE  /\ Cardinality(S) \in Nat
           /\ \A x : x \notin S => Cardinality(S \cup {x}) = Cardinality(S) + 1
           /\ \A x \in S : Cardinality(S \ {x}) = Cardinality(S) - 1
BY FS_CardinalityType, FS_AddElement, FS_RemoveElement

LEMMA WakeupStep == TypeInv /\ WakeupCovered /\ [Next]_vars => WakeupCovered'
<1> SUFFICES ASSUME TypeInv, WakeupCovered, [Next]_vars PROVE WakeupCovered'
  OBVIOUS
<1> USE DEF WakeupCovered
<1>0. /\ queue \in Seq(Nat) /\ Len(queue) \in Nat /\ stop \in BOOLEAN
      /\ wpc \in [Workers -> WorkerPcs] /\ spc \in [Submitters -> {"idle", "notify"}]
  BY DEF TypeInv, TypeOK
<1>a. IsFiniteSet(Awake) /\ IsFiniteSet(Awake')
  BY FS_Subset, WorkersAssumption DEF Awake
<1>n. IsFiniteSet(Notifying) /\ IsFiniteSet(Notifying')
  BY FS_Subset, SubmittersAssumption DEF Notifying
<1>c. /\ Cardinality(Awake) \in Nat /\ Cardinality(Awake') \in Nat
      /\ Cardinality(Notifying) \in Nat /\ Cardinality(Notifying') \in Nat
  BY <1>a, <1>n, CardinalityFacts
\* Steps of a worker that stays awake, and steps of the owner.
<1>1. ASSUME UNCHANGED <<queue, spc>>, stop' = stop, Awake' = Awake, Waiting' = Waiting
      PROVE  WakeupCovered'
  BY <1>1 DEF Notifying
\* A worker joins the ones that are awake.
<1>2. ASSUME UNCHANGED <<queue, spc, stop>>, NEW w \in Workers, w \notin Awake,
             Awake' = Awake \cup {w}, Waiting' \subseteq Waiting
      PROVE  WakeupCovered'
  <2>1. Cardinality(Awake') = Cardinality(Awake) + 1 /\ Notifying' = Notifying
    BY <1>2, <1>a, CardinalityFacts DEF Notifying
  <2> QED
    BY <2>1, <1>2, <1>c, <1>0
<1>3. ASSUME Len(queue') = 0 PROVE WakeupCovered'
  BY <1>3, <1>c
<1>4. ASSUME NEW s \in Submitters, Push(s) PROVE WakeupCovered'
  <2>1. /\ s \notin Notifying /\ Notifying' = Notifying \cup {s}
        /\ Awake' = Awake /\ Waiting' = Waiting /\ stop' = stop
    BY <1>4, <1>0 DEF Push, Notifying, Awake, Waiting
  <2>2. Cardinality(Notifying') = Cardinality(Notifying) + 1
    BY <2>1, <1>n, CardinalityFacts
  <2>3. Len(queue') = Len(queue) + 1
    BY <1>4, <1>0 DEF Push, TypeInv, TypeOK
  <2> QED
    BY <2>1, <2>2, <2>3, <1>c, <1>0
<1>5. ASSUME NEW s \in Submitters, NotifyOne(s) PROVE WakeupCovered'
  <2>1. /\ s \in Notifying /\ Notifying' = Notifying \ {s}
        /\ UNCHANGED <<queue, stop>>
    BY <1>5, <1>0 DEF NotifyOne, Notifying
  <2>2. CASE Waiting = {} /\ UNCHANGED wpc
    BY <2>2 DEF Waiting
  <2>3. ASSUME NEW w \in Waiting, wpc' = [wpc EXCEPT ![w] = "lock"]
        PROVE  WakeupCovered'
    <3>1. w \in Workers /\ w \notin Awake /\ Awake' = Awake \cup {w}
      BY <2>3, <1>0 DEF Waiting, Awake
    <3>2. /\ Cardinality(Awake') = Cardinality(Awake) + 1
          /\ Cardinality(Notifying') = Cardinality(Notifying) - 1
      BY <2>1, <3>1, <1>a, <1>n, CardinalityFacts
    <3> QED
      BY <2>1, <2>3, <3>2, <1>c, <1>0
  <2> QED
    BY <1>5, <2>2, <2>3 DEF NotifyOne
<1>6. ASSUME NEW w \in Workers, ReadStop(w) \/ Acquire(w) PROVE WakeupCovered'
  <2>1. CASE stop /\ ReadStop(w)
    BY <2>1 DEF ReadStop
  <2>2. CASE ~stop \/ Acquire(w)
    <3>1. Awake' = Awake /\ Waiting' = Waiting
      BY <2>2, <1>6, <1>0 DEF ReadStop, Acquire, Awake, Waiting
    <3> QED
      BY <3>1, <1>1, <1>6 DEF ReadStop, Acquire
  <2> QED
    BY <2>1, <2>2, <1>6
<1>7. ASSUME NEW w \in Workers, CheckPredicate(w) PROVE WakeupCovered'
  <2>1. CASE queue = <<>>
    BY <2>1, <1>3, <1>7 DEF CheckPredicate
  <2>2. CASE queue # <<>>
    <3>1. Awake' = Awake /\ Waiting' = Waiting
      BY <2>2, <1>7, <1>0 DEF CheckPredicate, Awake, Waiting
    <3> QED
      BY <3>1, <1>1, <1>7 DEF CheckPredicate
  <2> QED
    BY <2>1, <2>2
<1>8. ASSUME NEW w \in Workers, Block(w) PROVE WakeupCovered'
  BY <1>8, <1>3 DEF Block, TypeInv, HolderSees
<1>9. ASSUME NEW w \in Workers, SpuriousWakeup(w) PROVE WakeupCovered'
  <2>1. /\ w \notin Awake /\ Awake' = Awake \cup {w} /\ Waiting' \subseteq Waiting
        /\ UNCHANGED <<queue, spc, stop>>
    BY <1>9, <1>0 DEF SpuriousWakeup, Awake, Waiting
  <2> QED
    BY <2>1, <1>2
<1>10. ASSUME NEW w \in Workers, Test(w) PROVE WakeupCovered'
  <2>1. CASE stop
    BY <2>1, <1>10 DEF Test
  <2>2. CASE ~stop
    <3>1. queue # <<>>
      BY <1>10, <2>2 DEF Test, TypeInv, HolderSees
    <3>2. Awake' = Awake /\ Waiting' = Waiting
      BY <2>2, <3>1, <1>10, <1>0 DEF Test, Awake, Waiting
    <3> QED
      BY <3>2, <1>1, <1>10 DEF Test
  <2> QED
    BY <2>1, <2>2
<1>11. ASSUME NEW w \in Workers, Pop(w) PROVE WakeupCovered'
  <2>1. w \in Awake /\ Awake' = Awake \ {w} /\ Waiting' = Waiting
    BY <1>11, <1>0 DEF Pop, Take, Awake, Waiting
  <2>2. Cardinality(Awake') = Cardinality(Awake) - 1
    BY <2>1, <1>a, CardinalityFacts
  <2>3. Len(queue') = Len(queue) - 1
    BY <1>11, <1>0, TailFacts DEF Pop, Take, TypeInv, HolderSees
  <2>4. UNCHANGED <<stop, Notifying>>
    BY <1>11 DEF Pop, Take, Notifying
  <2> QED
    BY <2>1, <2>2, <2>3, <2>4, <1>c, <1>0
<1>12. ASSUME NEW w \in Workers, Finish(w) PROVE WakeupCovered'
  <2>1. /\ w \notin Awake /\ Awake' = Awake \cup {w} /\ Waiting' \subseteq Waiting
        /\ UNCHANGED <<queue, spc, stop>>
    BY <1>12, <1>0 DEF Finish, Awake, Waiting
  <2> QED
    BY <2>1, <1>2
<1>13. CASE SetStop
  BY <1>13 DEF SetStop
<1>14. CASE NotifyAll
  <2>1. Waiting' = {}
    BY <1>14 DEF NotifyAll, Waiting
  <2> QED
    BY <2>1
<1>15. CASE CallShutDown \/ Join \/ Destroy \/ UNCHANGED vars
  BY <1>15, <1>1 DEF CallShutDown, Join, Destroy, vars, Awake, Waiting
<1> QED
  BY <1>4, <1>5, <1>6, <1>7, <1>8, <1>9, <1>10, <1>11, <1>12, <1>13, <1>14, <1>15
     DEF Next, WorkerStep, OwnerStep

\* No wakeup of add() is lost on an open pool, although notify_one() is called
\* outside the mutex and may find nobody asleep (threadpool.cc:41).
THEOREM NoLostWakeup == Spec => []WakeupCovered
<1>1. Init => WakeupCovered
  BY DEF Init, WakeupCovered, Waiting
<1> QED
  BY <1>1, WakeupStep, TypeInvAlways, PTL DEF Spec

----------------------------------------------------------------------------
(* The pool implements the executor *)

LEMMA RefinesInit == Init => Abstract!Init
<1> SUFFICES ASSUME Init PROVE Abstract!Init
  OBVIOUS
<1>1. Taken = 0
  <2>1. Len(queue) = 0 /\ added = 0
    BY DEF Init
  <2> QED
    BY <2>1 DEF Taken
<1>2. Closed = FALSE
  <2>1. ~stop
    BY DEF Init
  <2> QED
    BY <2>1 DEF Closed
<1> QED
  BY <1>1, <1>2 DEF Init, Abstract!Init

LEMMA RefinesStep == TypeInv /\ QueueInv /\ [Next]_vars => [Abstract!Next]_Abstract!vars
<1> SUFFICES ASSUME TypeInv, QueueInv, [Next]_vars PROVE [Abstract!Next]_Abstract!vars
  OBVIOUS
<1>0. /\ queue \in Seq(Nat) /\ Len(queue) \in Nat /\ added \in Nat /\ stop \in BOOLEAN
      /\ wpc \in [Workers -> WorkerPcs] /\ task \in [Workers -> Nat]
  BY DEF TypeInv, TypeOK
\* A step that pops nothing, ends no task and closes nothing is a stutter.
<1>1. ASSUME UNCHANGED <<queue, added, task, stop>>,
             \A w \in Workers : stop => (wpc'[w] = "pop" <=> wpc[w] = "pop")
      PROVE  UNCHANGED Abstract!vars
  BY <1>1 DEF Abstract!vars, Taken, Closed
<1>2. ASSUME NEW s \in Submitters, Push(s) PROVE Abstract!Accept
  <2>1. Len(queue') = Len(queue) + 1 /\ added' = added + 1
    BY <1>2, <1>0, AppendFacts DEF Push
  <2>2. Taken' = Taken
    BY <2>1, <1>0 DEF Taken
  <2> QED
    BY <2>1, <2>2, <1>2 DEF Push, Abstract!Accept, Closed
<1>3. ASSUME NEW s \in Submitters, NotifyOne(s) PROVE UNCHANGED Abstract!vars
  BY <1>3, <1>1, <1>0 DEF NotifyOne, Waiting
<1>4. ASSUME NEW w \in Workers,
             ReadStop(w) \/ Acquire(w) \/ CheckPredicate(w) \/ Block(w)
               \/ Test(w) \/ SpuriousWakeup(w)
      PROVE  UNCHANGED Abstract!vars
  BY <1>4, <1>1, <1>0 DEF ReadStop, Acquire, CheckPredicate, Block, Test, SpuriousWakeup
<1>5. ASSUME NEW w \in Workers, Pop(w) PROVE Abstract!Begin(w)
  <2>1. ~Closed /\ task[w] = 0 /\ queue # <<>>
    BY <1>5 DEF Pop, Take, Closed, QueueInv, InHand, TypeInv, HolderSees
  <2>2. /\ Len(queue') = Len(queue) - 1 /\ Len(queue) > 0 /\ Head(queue) = queue[1]
        /\ added' = added
    BY <1>5, <2>1, <1>0, TailFacts DEF Pop, Take
  <2>3. Taken' = Taken + 1 /\ Taken < added /\ Head(queue) = Taken + 1
    BY <2>2, <1>0 DEF Taken, QueueInv, NoTaskTwice
  <2>4. Closed' \in BOOLEAN
    BY DEF Closed
  <2> QED
    BY <2>1, <2>2, <2>3, <2>4, <1>5 DEF Abstract!Begin, Pop, Take
<1>6. ASSUME NEW w \in Workers, Finish(w) PROVE Abstract!Finish(w)
  <2>1. task[w] # 0
    BY <1>6 DEF Finish, QueueInv, InHand
  <2>2. UNCHANGED <<added, Taken, Closed>>
    BY <1>6, <1>0 DEF Finish, Taken, Closed
  <2> QED
    BY <2>1, <2>2, <1>6 DEF Abstract!Finish, Finish
<1>7. CASE SetStop
  <2>1. CASE \E w \in Workers : wpc[w] = "pop"
    BY <2>1, <1>7 DEF SetStop, Closed, Taken, Abstract!vars
  <2>2. CASE \A w \in Workers : wpc[w] # "pop"
    BY <2>2, <1>7, <1>0 DEF SetStop, Closed, Taken, Abstract!Next, Abstract!Close, Abstract!vars
  <2> QED
    BY <2>1, <2>2
<1>8. CASE CallShutDown \/ NotifyAll \/ Join \/ Destroy \/ UNCHANGED vars
  BY <1>8, <1>1, <1>0 DEF CallShutDown, NotifyAll, Join, Destroy, vars
<1> QED
  BY <1>2, <1>3, <1>4, <1>5, <1>6, <1>7, <1>8
     DEF Next, WorkerStep, OwnerStep, Abstract!Next

\* Every behaviour of the pool is one of the abstract executor, for any number
\* of workers and submitters: tasks begin once, in order, by idle workers, and
\* none begins after the pool closed.
THEOREM PoolIsAnExecutor == Spec => Abstract!Init /\ [][Abstract!Next]_Abstract!vars
<1>1. Init => QueueInv
  BY DEF Init, QueueInv, NoTaskTwice, InHand, Taken
<1> QED
  BY <1>1, RefinesInit, RefinesStep, QueueInvStep, TypeInvAlways, PTL DEF Spec
=============================================================================
