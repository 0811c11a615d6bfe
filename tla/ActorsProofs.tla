---------------------------- MODULE ActorsProofs -----------------------------
(***************************************************************************)
(* Theorems about Actors for every set of creating threads and every       *)
(* number of tasks, whatever the unguarded vector of actors goes through.  *)
(***************************************************************************)
EXTENDS Actors, TLAPS

\* The vector and the threads that create: a thread that is about to store
\* finds the storage long enough, one about to start finds an element.
CreationInv ==
    /\ slot \in Seq(Threads) /\ size \in 0..Len(slot)
    /\ end \in [Threads -> Nat] /\ raced \in BOOLEAN
    /\ tpc \in [Threads -> Creating \cup Session]
    /\ seat \in [Threads -> Threads \cup {NoOne}]
    /\ \A c \in Threads :
        /\ seat[c] = NoOne <=> tpc[c] \in Creating
        /\ tpc[c] = "store" => end[c] <= Len(slot)
        /\ tpc[c] = "pick" => size > 0

\* The mutex of an actor is held by the one thread in its critical section,
\* which may rely on what it saw of the queue.
SessionInv ==
    /\ task \in [Threads -> Nat] /\ queue \in [Threads -> Seq(Nat)]
    /\ stop \in [Threads -> BOOLEAN] /\ accepted \in [Threads -> Nat]
    /\ mutex \in [Threads -> Threads \cup {NoOne}]
    /\ \A a \in Threads :
            mutex[a] # NoOne => seat[mutex[a]] = a /\ tpc[mutex[a]] \in Holding
    /\ \A c \in Threads :
        /\ tpc[c] \in Holding => mutex[seat[c]] = c
        /\ tpc[c] = "pop" => queue[seat[c]] # <<>>

\* The indices main() uses refer to elements that are stored.
MainInv ==
    /\ mpc \in {"idle", "notify", "returned"} \cup Sending \cup Destroying
    /\ idx \in Nat /\ at \in Nat /\ left \in Nat /\ sent \in 0..MaxTasks
    /\ to \in Threads \cup {NoOne} /\ gone \subseteq Threads
    /\ fault \in {"none", "race", "empty", "dangling"} /\ seen \in Seq(Nat)
    /\ idx >= 1 /\ at >= 1 /\ (idx = 1 \/ idx <= Len(slot))
    /\ mpc \in Sending => sent < MaxTasks
    /\ mpc = "right" => at <= Len(slot)
    /\ mpc = "notify" => to \in Threads
    /\ mpc \in Destroying => at <= size

TypeInv == CreationInv /\ SessionInv /\ MainInv

\* Storing an element leaves the storage a sequence that reaches the new size.
LEMMA StoreFacts ==
    ASSUME NEW s \in Seq(Threads), NEW n \in Nat, n <= Len(s), NEW c \in Threads,
           NEW t, t = IF n + 1 <= Len(s) THEN [s EXCEPT ![n + 1] = c] ELSE Append(s, c)
    PROVE  /\ t \in Seq(Threads) /\ Len(t) \in Nat /\ Len(s) <= Len(t) /\ n + 1 <= Len(t)
           /\ t[n + 1] = c
           /\ \A i \in 1..Len(s) : i # n + 1 => t[i] = s[i]
           /\ \A i \in 1..Len(t) : i \in 1..Len(s) \/ i = n + 1
<1>1. CASE n + 1 <= Len(s)
  BY <1>1
<1>2. CASE n = Len(s)
  BY <1>2
<1> QED
  BY <1>1, <1>2

\* What a step of the vector does to it.
LEMMA StoreStep ==
    ASSUME CreationInv, NEW c \in Threads, Store(c)
    PROVE  /\ tpc[c] = "store" /\ tpc' = [tpc EXCEPT ![c] = "pick"]
           /\ slot' \in Seq(Threads) /\ Len(slot') \in Nat /\ Len(slot) <= Len(slot')
           /\ size' = end[c] + 1 /\ size' \in 1..Len(slot') /\ slot'[size'] = c
           /\ \A i \in 1..Len(slot) : i # size' => slot'[i] = slot[i]
           /\ \A i \in 1..Len(slot') : i \in 1..Len(slot) \/ i = size'
           /\ UNCHANGED <<end, seat, task, actors, main, fault>>
<1>1. /\ end[c] \in Nat /\ end[c] <= Len(slot) /\ slot \in Seq(Threads)
      /\ size' = end[c] + 1 /\ tpc[c] = "store"
      /\ slot' = IF end[c] + 1 <= Len(slot) THEN [slot EXCEPT ![end[c] + 1] = c]
                                            ELSE Append(slot, c)
  BY DEF CreationInv, Store, CreatorAt
<1>2. /\ slot' \in Seq(Threads) /\ Len(slot') \in Nat
      /\ Len(slot) <= Len(slot') /\ end[c] + 1 <= Len(slot')
      /\ slot'[end[c] + 1] = c
      /\ \A i \in 1..Len(slot) : i # end[c] + 1 => slot'[i] = slot[i]
      /\ \A i \in 1..Len(slot') : i \in 1..Len(slot) \/ i = end[c] + 1
  BY <1>1, StoreFacts
<1> QED
  BY <1>1, <1>2 DEF Store

\* A thread starts an actor that is stored.
LEMMA StartStep ==
    ASSUME CreationInv, NEW c \in Threads, Start(c)
    PROVE  /\ tpc[c] = "pick" /\ size \in 1..Len(slot)
           /\ slot[size] \in Threads /\ slot[size] # NoOne
           /\ tpc' = [tpc EXCEPT ![c] = "head"] /\ seat' = [seat EXCEPT ![c] = slot[size]]
           /\ UNCHANGED <<creation, task, actors, main, fault>>
<1>1. tpc[c] = "pick" /\ size \in 1..Len(slot) /\ slot \in Seq(Threads)
  BY DEF Start, Seat, CreatorAt, CreationInv
<1>2. slot[size] \in Threads /\ slot[size] # NoOne
  BY <1>1, ThreadsAssumption
<1> QED
  BY <1>1, <1>2 DEF Start, Seat

\* The step of a session that moves only within actor::session().
SessionMove(c) ==
    /\ tpc[c] \in Session /\ seat[c] \in Threads
    /\ \E pc \in Session : tpc' = [tpc EXCEPT ![c] = pc]
    /\ UNCHANGED <<creation, seat>>

SessionAction(c) ==
    \/ ReadStop(c) \/ Acquire(c) \/ CheckPredicate(c) \/ Block(c) \/ SpuriousWakeup(c)
    \/ Test(c) \/ Pop(c) \/ Deal(c)

LEMMA SessionMoves ==
    ASSUME CreationInv, NEW c \in Threads, SessionAction(c)
    PROVE  SessionMove(c) /\ UNCHANGED <<main, fault>>
BY DEF CreationInv, SessionAction, SessionMove, ReadStop, Acquire, CheckPredicate, Block,
       SpuriousWakeup, Test, Pop, Take, Deal, SessionAt, Goto, Session, Creating

\* The steps of main() move no thread, except the two that notify.
LEMMA MainMoves ==
    ASSUME MainStep \/ Undefined \/ UNCHANGED vars
    PROVE  /\ UNCHANGED <<creation, seat, task>>
           /\ NotifyOne \/ NotifyAll \/ UNCHANGED tpc
BY DEF MainStep, Undefined, Send, ReadLeft, ReadRight, Compare, EndSearch, Dispatch, Enqueue,
       Return, SetStop, NotifyOne, NotifyAll, Free, NoSuchActor, Torn, CreateInDying,
       SessionOfFreed, creation, sessions, actors, main, vars

LEMMA WakeupMoves ==
    ASSUME CreationInv, NotifyOne \/ NotifyAll
    PROVE  /\ tpc' \in [Threads -> Creating \cup Session]
           /\ \A c \in Threads : tpc'[c] = tpc[c] \/ (tpc[c] = "waiting" /\ tpc'[c] = "lock")
           /\ UNCHANGED <<creation, seat, task, actors>>
BY DEF CreationInv, NotifyOne, NotifyAll, Sleepers, Goto, Session

\* main() dispatches to an actor that is stored.
LEMMA DispatchTo ==
    ASSUME CreationInv, MainInv, Dispatch
    PROVE  /\ idx \in 1..Len(slot) /\ slot[idx] \in Threads /\ mutex[slot[idx]] = NoOne
           /\ mpc = "dispatch" /\ mpc' = "notify"
           /\ UNCHANGED <<creation, sessions, mutex, stop>>
<1>1. slot \in Seq(Threads) /\ slot # <<>> /\ idx \in Nat /\ idx >= 1
  BY DEF Dispatch, CreationInv, MainInv
<1>2. idx = 1 \/ idx <= Len(slot)
  BY DEF MainInv
<1>3. idx \in 1..Len(slot) /\ slot[idx] \in Threads
  BY <1>1, <1>2
<1> QED
  BY <1>3 DEF Dispatch, Enqueue, MainAt

LEMMA CreationStep == CreationInv /\ [Next]_vars => CreationInv'
<1> SUFFICES ASSUME CreationInv, [Next]_vars PROVE CreationInv'
  OBVIOUS
<1>1. ASSUME NEW c \in Threads, ReadEnd(c) PROVE CreationInv'
  BY <1>1 DEF ReadEnd, CreatorAt, CreationInv, Creating, Session
<1>2. ASSUME NEW c \in Threads, Store(c) PROVE CreationInv'
  <2>1. slot' \in Seq(Threads) /\ size' \in 0..Len(slot')
    BY <1>2, StoreStep
  <2>2. end' \in [Threads -> Nat] /\ raced' \in BOOLEAN
    BY <1>2 DEF Store, CreationInv
  <2>3. /\ tpc' \in [Threads -> Creating \cup Session]
        /\ seat' \in [Threads -> Threads \cup {NoOne}]
    BY <1>2, StoreStep DEF CreationInv, Creating
  <2>4. ASSUME NEW d \in Threads
        PROVE  /\ seat'[d] = NoOne <=> tpc'[d] \in Creating
               /\ tpc'[d] = "store" => end'[d] <= Len(slot')
               /\ tpc'[d] = "pick" => size' > 0
    <3>1. /\ end' = end /\ seat' = seat /\ tpc[c] = "store"
          /\ tpc' = [tpc EXCEPT ![c] = "pick"]
          /\ Len(slot') \in Nat /\ Len(slot) <= Len(slot') /\ size' \in 1..Len(slot')
      BY <1>2, StoreStep
    <3>2. end[d] \in Nat /\ Len(slot) \in Nat
      BY DEF CreationInv
    <3> QED
      BY <3>1, <3>2 DEF CreationInv, Creating
  <2> QED
    BY <2>1, <2>2, <2>3, <2>4 DEF CreationInv
<1>3. ASSUME NEW c \in Threads, Start(c) PROVE CreationInv'
  <2>1. /\ slot[size] \in Threads /\ slot[size] # NoOne
        /\ tpc' = [tpc EXCEPT ![c] = "head"] /\ seat' = [seat EXCEPT ![c] = slot[size]]
        /\ UNCHANGED creation
    BY <1>3, StartStep
  <2>2. UNCHANGED <<slot, size, end, raced>>
    BY <2>1 DEF creation
  <2>3. /\ tpc' \in [Threads -> Creating \cup Session]
        /\ seat' \in [Threads -> Threads \cup {NoOne}]
    BY <2>1 DEF CreationInv, Session
  <2>4. \A d \in Threads : seat'[d] = NoOne <=> tpc'[d] \in Creating
    BY <2>1 DEF CreationInv, Creating
  <2>5. \A d \in Threads : tpc'[d] \in Creating => tpc'[d] = tpc[d]
    BY <2>1 DEF CreationInv, Creating
  <2> QED
    BY <2>2, <2>3, <2>4, <2>5 DEF CreationInv, Creating
<1>4. ASSUME NEW c \in Threads, SessionAction(c) PROVE CreationInv'
  BY <1>4, SessionMoves, ThreadsAssumption
     DEF SessionMove, CreationInv, creation, Creating, Session
<1>5. CASE MainStep \/ Undefined \/ UNCHANGED vars
  <2>1. CASE UNCHANGED tpc
    BY <2>1, <1>5, MainMoves DEF CreationInv, creation
  <2>2. CASE NotifyOne \/ NotifyAll
    BY <2>2, WakeupMoves DEF CreationInv, creation, Creating
  <2> QED
    BY <2>1, <2>2, <1>5, MainMoves
<1> QED
  BY <1>1, <1>2, <1>3, <1>4, <1>5 DEF Next, ThreadStep, SessionAction

LEMMA SessionStep == CreationInv /\ SessionInv /\ MainInv /\ [Next]_vars => SessionInv'
<1> SUFFICES ASSUME CreationInv, SessionInv, MainInv, [Next]_vars PROVE SessionInv'
  OBVIOUS
<1>0. /\ tpc \in [Threads -> Creating \cup Session]
      /\ seat \in [Threads -> Threads \cup {NoOne}]
      /\ \A c \in Threads : seat[c] = NoOne <=> tpc[c] \in Creating
  BY DEF CreationInv
\* Nobody enters or leaves a critical section.
<1>1. ASSUME UNCHANGED <<queue, mutex, accepted>>,
             task' \in [Threads -> Nat], stop' \in [Threads -> BOOLEAN],
             \A c \in Threads : \/ tpc'[c] = tpc[c] /\ seat'[c] = seat[c]
                                \/ tpc[c] \notin Holding /\ tpc'[c] \notin Holding
      PROVE  SessionInv'
  <2>1. ASSUME NEW a \in Threads, mutex'[a] # NoOne
        PROVE  seat'[mutex'[a]] = a /\ tpc'[mutex'[a]] \in Holding
    <3>1. /\ mutex[a] \in Threads /\ mutex'[a] = mutex[a]
          /\ seat[mutex[a]] = a /\ tpc[mutex[a]] \in Holding
      BY <2>1, <1>1 DEF SessionInv
    <3> QED
      BY <3>1, <1>1
  <2>2. \A c \in Threads : tpc'[c] \in Holding => tpc'[c] = tpc[c] /\ seat'[c] = seat[c]
    BY <1>1
  <2>3. \A c \in Threads : /\ tpc'[c] \in Holding => mutex'[seat'[c]] = c
                           /\ tpc'[c] = "pop" => queue'[seat'[c]] # <<>>
    BY <2>2, <1>1 DEF SessionInv, Holding
  <2> QED
    BY <2>1, <2>3, <1>1 DEF SessionInv
<1>2. ASSUME NEW c \in Threads, ReadEnd(c) \/ Store(c) \/ Start(c) PROVE SessionInv'
  <2>1. /\ tpc[c] \in Creating
        /\ UNCHANGED <<task, actors>>
        /\ \E pc \in {"store", "pick", "head"} : tpc' = [tpc EXCEPT ![c] = pc]
        /\ seat' = seat \/ \E a \in Threads : seat' = [seat EXCEPT ![c] = a]
    BY <1>2, StoreStep, StartStep DEF ReadEnd, CreatorAt, Creating
  <2>2. \A d \in Threads : \/ tpc'[d] = tpc[d] /\ seat'[d] = seat[d]
                           \/ tpc[d] \notin Holding /\ tpc'[d] \notin Holding
    BY <2>1, <1>0 DEF Creating, Holding
  <2>3. /\ UNCHANGED <<queue, mutex, accepted>>
        /\ task' \in [Threads -> Nat] /\ stop' \in [Threads -> BOOLEAN]
    BY <2>1 DEF actors, SessionInv
  <2> QED
    BY <2>2, <2>3, <1>1
<1>3. ASSUME NEW c \in Threads, ReadStop(c) \/ SpuriousWakeup(c) \/ Deal(c)
      PROVE  SessionInv'
  <2>1. task' \in [Threads -> Nat] /\ UNCHANGED <<seat, actors>>
    BY <1>3 DEF ReadStop, SpuriousWakeup, Deal, SessionInv
  <2>2. \A d \in Threads : tpc'[d] = tpc[d] \/ (tpc[d] \notin Holding /\ tpc'[d] \notin Holding)
    BY <1>3, <1>0 DEF ReadStop, SpuriousWakeup, Deal, SessionAt, Goto, Holding
  <2> QED
    BY <2>1, <2>2, <1>1 DEF actors, SessionInv
<1>4. ASSUME NEW c \in Threads, Acquire(c) PROVE SessionInv'
  <2>1. seat[c] \in Threads /\ tpc[c] = "lock" /\ mutex[seat[c]] = NoOne
    BY <1>4, <1>0 DEF Acquire, SessionAt, Creating
  <2>2. /\ tpc' = [tpc EXCEPT ![c] = "check"] /\ mutex' = [mutex EXCEPT ![seat[c]] = c]
        /\ UNCHANGED <<seat, task, queue, stop, accepted>>
    BY <1>4 DEF Acquire, Goto
  <2> QED
    BY <2>1, <2>2, <1>0, ThreadsAssumption DEF SessionInv, Holding
<1>5. ASSUME NEW c \in Threads, CheckPredicate(c) PROVE SessionInv'
  <2>1. /\ tpc[c] = "check" /\ UNCHANGED <<seat, task, actors>>
        /\ \E pc \in {"test", "block"} : tpc' = [tpc EXCEPT ![c] = pc]
    BY <1>5 DEF CheckPredicate, SessionAt, Goto
  <2> QED
    BY <2>1, <1>0, ThreadsAssumption DEF SessionInv, Holding, actors
\* The thread releases the mutex and leaves the critical section.
<1>6. ASSUME NEW c \in Threads, tpc[c] \in Holding, seat[c] \in Threads, Release(c),
             NEW pc \in {"waiting", "exited", "dealing"}, tpc' = [tpc EXCEPT ![c] = pc],
             task' \in [Threads -> Nat], queue' \in [Threads -> Seq(Nat)],
             \A a \in Threads : a # seat[c] => queue'[a] = queue[a],
             UNCHANGED <<seat, stop, accepted>>
      PROVE  SessionInv'
  <2>1. mutex' = [mutex EXCEPT ![seat[c]] = NoOne]
    BY <1>6 DEF Release
  <2>2. \A d \in Threads : d # c /\ tpc[d] \in Holding => seat[d] # seat[c]
    BY <1>6 DEF SessionInv
  <2>3. /\ mutex' \in [Threads -> Threads \cup {NoOne}]
        /\ \A a \in Threads : mutex'[a] # NoOne => a # seat[c] /\ mutex'[a] = mutex[a]
    BY <2>1 DEF SessionInv
  <2>4. \A a \in Threads :
            mutex'[a] # NoOne => seat'[mutex'[a]] = a /\ tpc'[mutex'[a]] \in Holding
    BY <2>3, <1>6, <1>0 DEF SessionInv
  <2>5. \A d \in Threads : tpc'[d] \in Holding => d # c /\ tpc'[d] = tpc[d]
    BY <1>6, <1>0 DEF Holding
  <2>6. \A d \in Threads : /\ tpc'[d] \in Holding => mutex'[seat'[d]] = d
                           /\ tpc'[d] = "pop" => queue'[seat'[d]] # <<>>
    <3> TAKE d \in Threads
    <3>1. CASE tpc'[d] \notin Holding
      BY <3>1 DEF Holding
    <3>2. CASE tpc'[d] \in Holding
      <4>1. d # c /\ tpc'[d] = tpc[d] /\ seat'[d] = seat[d] /\ seat[d] # seat[c]
        BY <3>2, <2>2, <2>5, <1>6
      <4>2. seat[d] \in Threads
        BY <4>1, <3>2, <1>0 DEF Holding, Creating
      <4> QED
        BY <4>1, <4>2, <3>2, <2>1, <1>6 DEF SessionInv
    <3> QED
      BY <3>1, <3>2
  <2> QED
    BY <2>3, <2>4, <2>6, <1>6 DEF SessionInv
<1>7. ASSUME NEW c \in Threads, Block(c) PROVE SessionInv'
  <2>1. tpc[c] \in Holding /\ seat[c] \in Threads
    BY <1>7, <1>0 DEF Block, SessionAt, Holding, Creating
  <2> QED
    BY <1>7, <1>6, <2>1 DEF Block, Goto, SessionInv
<1>8. ASSUME NEW c \in Threads, Test(c) PROVE SessionInv'
  <2>1. tpc[c] = "test" /\ tpc[c] \in Holding /\ seat[c] \in Threads
    BY <1>8, <1>0 DEF Test, SessionAt, Holding, Creating
  <2>2. CASE Goto(c, "exited") /\ Release(c)
    BY <2>2, <1>8, <1>6, <2>1 DEF Test, Goto, SessionInv
  <2>3. CASE queue[seat[c]] # <<>> /\ Goto(c, "pop") /\ UNCHANGED mutex
    BY <2>3, <1>8, <2>1, <1>0, ThreadsAssumption DEF Test, Goto, SessionInv, Holding
  <2> QED
    BY <2>2, <2>3, <1>8 DEF Test
<1>9. ASSUME NEW c \in Threads, Pop(c) PROVE SessionInv'
  <2>1. tpc[c] = "pop" /\ tpc[c] \in Holding /\ seat[c] \in Threads
    BY <1>9, <1>0 DEF Pop, Take, SessionAt, Holding, Creating
  <2>2. queue[seat[c]] \in Seq(Nat) /\ queue[seat[c]] # <<>>
    BY <2>1 DEF SessionInv
  <2>3. Tail(queue[seat[c]]) \in Seq(Nat) /\ Head(queue[seat[c]]) \in Nat
    BY <2>2
  <2>4. /\ task' \in [Threads -> Nat] /\ queue' \in [Threads -> Seq(Nat)]
        /\ \A a \in Threads : a # seat[c] => queue'[a] = queue[a]
    BY <2>3, <1>9 DEF Pop, Take, SessionInv
  <2> QED
    BY <1>9, <1>6, <2>1, <2>4 DEF Pop, Take, Goto
<1>10. CASE Dispatch
  <2>1. /\ slot[idx] \in Threads /\ mutex[slot[idx]] = NoOne
        /\ UNCHANGED <<creation, sessions, mutex, stop>>
    BY <1>10, DispatchTo
  <2>2. accepted[slot[idx]] + 1 \in Nat /\ queue[slot[idx]] \in Seq(Nat)
    BY <2>1 DEF SessionInv
  <2>3. /\ Append(queue[slot[idx]], accepted[slot[idx]] + 1) \in Seq(Nat)
        /\ Append(queue[slot[idx]], accepted[slot[idx]] + 1) # <<>>
    BY <2>2
  <2>4. /\ accepted' \in [Threads -> Nat] /\ queue' \in [Threads -> Seq(Nat)]
        /\ \A a \in Threads : queue'[a] = queue[a] \/ queue'[a] # <<>>
    BY <1>10, <2>2, <2>3 DEF Dispatch, Enqueue, SessionInv
  <2>5. \A c \in Threads : tpc[c] \in Holding => seat[c] \in Threads
    BY <1>0 DEF Holding, Creating
  <2> QED
    BY <2>1, <2>4, <2>5 DEF SessionInv, sessions, Holding
<1>11. CASE NotifyOne \/ NotifyAll
  <2>1. \A c \in Threads : tpc'[c] = tpc[c] \/ (tpc[c] \notin Holding /\ tpc'[c] \notin Holding)
    BY <1>11, WakeupMoves DEF Holding
  <2> QED
    BY <1>11, <2>1, <1>1, WakeupMoves DEF actors, SessionInv
<1>12. CASE SetStop
  <2>1. stop' \in [Threads -> BOOLEAN]
    BY <1>12 DEF SetStop, SessionInv
  <2> QED
    BY <1>12, <2>1, <1>1 DEF SetStop, SessionInv, sessions
<1>13. CASE \/ Send \/ ReadLeft \/ ReadRight \/ EndSearch \/ Return \/ Free \/ Undefined
            \/ UNCHANGED vars
  <2>1. UNCHANGED <<sessions, actors>>
    BY <1>13 DEF Send, ReadLeft, ReadRight, Compare, EndSearch, Return, Free, Undefined,
                 NoSuchActor, Torn, CreateInDying, SessionOfFreed, vars
  <2> QED
    BY <2>1, <1>1 DEF sessions, actors, SessionInv
<1> QED
  BY <1>2, <1>3, <1>4, <1>5, <1>7, <1>8, <1>9, <1>10, <1>11, <1>12, <1>13
     DEF Next, ThreadStep, MainStep

LEMMA MainStepInv == CreationInv /\ SessionInv /\ MainInv /\ [Next]_vars => MainInv'
<1> SUFFICES ASSUME CreationInv, SessionInv, MainInv, [Next]_vars PROVE MainInv'
  OBVIOUS
<1>0. slot \in Seq(Threads) /\ Len(slot) \in Nat /\ size \in 0..Len(slot)
  BY DEF CreationInv
<1>1. ASSUME UNCHANGED <<main, fault>>, Len(slot') \in Nat, Len(slot) <= Len(slot'),
             mpc \in Destroying => size' = size
      PROVE  MainInv'
  BY <1>1, <1>0 DEF MainInv, main, Destroying
<1>2. ASSUME NEW c \in Threads, Store(c) PROVE MainInv'
  <2>1. /\ UNCHANGED <<main, fault>> /\ Len(slot') \in Nat /\ Len(slot) <= Len(slot')
        /\ mpc \notin Destroying
    BY <1>2, StoreStep DEF Store, CreatorAt
  <2> QED
    BY <2>1, <1>1
<1>3. ASSUME NEW c \in Threads, ReadEnd(c) \/ Start(c) \/ SessionAction(c) PROVE MainInv'
  <2>1. UNCHANGED <<slot, size, main, fault>>
    BY <1>3, StartStep, SessionMoves DEF ReadEnd, creation, SessionMove
  <2> QED
    BY <2>1, <1>0, <1>1
<1>4. CASE UNCHANGED vars
  BY <1>4, <1>0, <1>1 DEF vars, creation
<1>5. CASE Undefined
  <2>1. fault' \in {"none", "race", "empty", "dangling"} /\ UNCHANGED <<creation, main>>
    BY <1>5 DEF Undefined, NoSuchActor, Torn, CreateInDying, SessionOfFreed
  <2> QED
    BY <2>1 DEF MainInv, creation, main
<1>6. CASE Send \/ EndSearch \/ Return \/ NotifyOne \/ SetStop \/ NotifyAll
  <2>1. UNCHANGED <<slot, size, left, to, sent, gone, fault>>
    BY <1>6 DEF Send, EndSearch, Return, NotifyOne, SetStop, NotifyAll, creation
  <2>2. CASE Send
    BY <2>1, <2>2 DEF Send, MainInv, Sending, Destroying
  <2>3. CASE EndSearch \/ NotifyOne
    BY <2>1, <2>3 DEF EndSearch, NotifyOne, MainAt, MainInv, Sending, Destroying
  <2>4. CASE Return
    BY <2>1, <2>4, <1>0 DEF Return, MainInv, Sending, Destroying
  <2>5. CASE SetStop \/ NotifyAll
    BY <2>1, <2>5 DEF SetStop, NotifyAll, MainAt, MainInv, Sending, Destroying
  <2> QED
    BY <1>6, <2>2, <2>3, <2>4, <2>5
<1>7. CASE ReadLeft
  <2>1. slot[at] \in Threads /\ at <= Len(slot)
    BY <1>7, <1>0 DEF ReadLeft, MainInv
  <2>2. Len(queue[slot[at]]) \in Nat
    BY <2>1, <1>7 DEF SessionInv
  <2> QED
    BY <1>7, <2>1, <2>2 DEF ReadLeft, MainAt, MainInv, Sending, Destroying, creation
<1>8. CASE ReadRight
  BY <1>8 DEF ReadRight, Compare, MainAt, MainInv, Sending, Destroying, creation
<1>9. CASE Dispatch
  <2>1. slot[idx] \in Threads
    BY <1>9, DispatchTo
  <2>2. sent' \in 0..MaxTasks
    BY <1>9, MaxTasksAssumption DEF Dispatch, Enqueue, MainAt, MainInv, Sending
  <2> QED
    BY <1>9, <2>1, <2>2 DEF Dispatch, Enqueue, MainInv, Sending, Destroying, creation
<1>10. CASE Free
  BY <1>10, <1>0 DEF Free, MainAt, MainInv, Sending, Destroying, creation
<1> QED
  BY <1>2, <1>3, <1>4, <1>5, <1>6, <1>7, <1>8, <1>9, <1>10
     DEF Next, ThreadStep, MainStep, SessionAction

LEMMA InitTypes == Init => TypeInv
<1> SUFFICES ASSUME Init PROVE TypeInv
  OBVIOUS
<1>1. /\ slot \in Seq(Threads) /\ seen \in Seq(Nat) /\ Len(slot) = 0
      /\ queue \in [Threads -> Seq(Nat)]
  BY DEF Init
<1>2. CreationInv
  <2>a. size = 0 /\ raced = FALSE
    BY DEF Init
  <2>b. end \in [Threads -> Nat] /\ seat \in [Threads -> Threads \cup {NoOne}]
    BY DEF Init
  <2>1. size \in 0..Len(slot)
    BY <2>a, <1>1
  <2>2. tpc \in [Threads -> Creating \cup Session]
    BY DEF Init, Creating
  <2>3. \A c \in Threads : seat[c] = NoOne /\ tpc[c] = "push"
    BY DEF Init
  <2> QED
    BY <1>1, <2>a, <2>b, <2>1, <2>2, <2>3 DEF CreationInv, Creating
<1>3. SessionInv
  BY <1>1 DEF Init, SessionInv, Holding
<1>4. MainInv
  BY <1>1, MaxTasksAssumption DEF Init, MainInv, Sending, Destroying
<1> QED
  BY <1>2, <1>3, <1>4 DEF TypeInv

LEMMA TypeInvAlways == Spec => []TypeInv
<1>1. TypeInv /\ [Next]_vars => TypeInv'
  BY CreationStep, SessionStep, MainStepInv DEF TypeInv
<1> QED
  BY <1>1, InitTypes, PTL DEF Spec

\* Every variable keeps its type, and the mutex of an actor is held only by a
\* thread in its critical section (actor.cc:46-55), whichever threads the
\* creation race (mgr.hh:30 and 31) has made serve it.
THEOREM TypeCorrect == Spec => []TypeOK
<1>1. TypeInv => TypeOK
  BY DEF TypeInv, CreationInv, SessionInv, MainInv, TypeOK
<1> QED
  BY <1>1, TypeInvAlways, PTL

----------------------------------------------------------------------------
(* Whose session a thread runs *)

\* Unless threads raced, the last element is that of the thread that is about
\* to start it.
OwnInv ==
    /\ OwnSession
    /\ ~raced => \A c \in Threads : tpc[c] = "pick" => slot[size] = c

LEMMA OwnStep == CreationInv /\ OwnInv /\ [Next]_vars => OwnInv'
<1> SUFFICES ASSUME CreationInv, OwnInv, [Next]_vars PROVE OwnInv'
  OBVIOUS
<1> USE DEF OwnInv, OwnSession
<1>0. tpc \in [Threads -> Creating \cup Session] /\ seat \in [Threads -> Threads \cup {NoOne}]
  BY DEF CreationInv
<1>1. ASSUME UNCHANGED <<slot, size, seat, raced>>,
             \A c \in Threads : tpc'[c] = "pick" => tpc[c] = "pick"
      PROVE  OwnInv'
  BY <1>1
<1>2. ASSUME NEW c \in Threads, ReadEnd(c) PROVE OwnInv'
  BY <1>2, <1>1, <1>0 DEF ReadEnd, CreatorAt
<1>3. ASSUME NEW c \in Threads, Store(c) PROVE OwnInv'
  <2>1. seat' = seat /\ slot'[size'] = c /\ tpc' = [tpc EXCEPT ![c] = "pick"]
    BY <1>3, StoreStep
  <2>2. ~raced' => ~raced /\ \A d \in Threads \ {c} : tpc[d] # "pick"
    BY <1>3 DEF Store
  <2> QED
    BY <2>1, <2>2, <1>0
<1>4. ASSUME NEW c \in Threads, Start(c) PROVE OwnInv'
  <2>1. /\ tpc[c] = "pick" /\ tpc' = [tpc EXCEPT ![c] = "head"]
        /\ seat' = [seat EXCEPT ![c] = slot[size]]
        /\ UNCHANGED <<slot, size, raced>>
    BY <1>4, StartStep DEF creation
  <2> QED
    BY <2>1, <1>0
<1>5. ASSUME NEW c \in Threads, SessionAction(c) PROVE OwnInv'
  <2>1. UNCHANGED <<slot, size, seat, raced>>
    BY <1>5, SessionMoves DEF SessionMove, creation
  <2>2. \A d \in Threads : tpc'[d] = "pick" => tpc[d] = "pick"
    BY <1>5, <1>0, SessionMoves DEF SessionMove, Session
  <2> QED
    BY <2>1, <2>2, <1>1
<1>6. CASE MainStep \/ Undefined \/ UNCHANGED vars
  <2>1. UNCHANGED <<slot, size, seat, raced>>
    BY <1>6, MainMoves DEF creation
  <2>2. \A d \in Threads : tpc'[d] = "pick" => tpc[d] = "pick"
    BY <1>6, MainMoves, WakeupMoves
  <2> QED
    BY <2>1, <2>2, <1>1
<1> QED
  BY <1>2, <1>3, <1>4, <1>5, <1>6 DEF Next, ThreadStep, SessionAction

\* However many threads create actors, one runs the session of another's actor
\* only if some thread pushed between the push and the start of another.
THEOREM OwnSessionUnlessRaced == Spec => []OwnSession
<1>1. Init => OwnInv
  BY DEF Init, OwnInv, OwnSession
<1>2. OwnInv => OwnSession
  BY DEF OwnInv
<1>3. TypeInv => CreationInv
  BY DEF TypeInv
<1> QED
  BY <1>1, <1>2, <1>3, OwnStep, TypeInvAlways, PTL DEF Spec

----------------------------------------------------------------------------
(* The queue of an actor and the tasks in hand *)

InOrder(a) ==
    /\ Len(queue[a]) <= accepted[a]
    /\ \A i \in 1..Len(queue[a]) : queue[a][i] = Taken(a) + i

QueueInv ==
    /\ \A a \in Threads : InOrder(a)
    /\ \A c \in Threads : task[c] # 0 <=> tpc[c] = "dealing"

LEMMA TailFacts ==
    ASSUME NEW q \in Seq(Nat), q # <<>>
    PROVE  /\ Len(q) \in Nat /\ Len(q) > 0
           /\ Head(q) = q[1]
           /\ Tail(q) \in Seq(Nat)
           /\ Len(Tail(q)) = Len(q) - 1
           /\ \A i \in 1..Len(Tail(q)) : Tail(q)[i] = q[i + 1]
  OBVIOUS

LEMMA AppendFacts ==
    ASSUME NEW q \in Seq(Nat), NEW n \in Nat
    PROVE  /\ Append(q, n) \in Seq(Nat)
           /\ Len(Append(q, n)) = Len(q) + 1
           /\ \A i \in 1..Len(q) : Append(q, n)[i] = q[i]
           /\ Append(q, n)[Len(q) + 1] = n
  OBVIOUS

\* A dispatch gives the next number of the actor to its queue.
LEMMA DispatchStep ==
    ASSUME TypeInv, QueueInv, Dispatch, NEW a, a = slot[idx]
    PROVE  /\ a \in Threads /\ InOrder(a)'
           /\ accepted'[a] = accepted[a] + 1 /\ Taken(a)' = Taken(a)
           /\ \A b \in Threads : b # a => queue'[b] = queue[b] /\ accepted'[b] = accepted[b]
           /\ UNCHANGED <<creation, sessions, mutex, stop>>
<1>1. a \in Threads /\ UNCHANGED <<creation, sessions, mutex, stop>>
  BY DispatchTo DEF TypeInv
<1>2. /\ queue \in [Threads -> Seq(Nat)] /\ accepted \in [Threads -> Nat]
      /\ queue[a] \in Seq(Nat) /\ accepted[a] \in Nat /\ Len(queue[a]) \in Nat
  BY <1>1 DEF TypeInv, SessionInv
<1>3. /\ queue'[a] = Append(queue[a], accepted[a] + 1) /\ accepted'[a] = accepted[a] + 1
      /\ \A b \in Threads : b # a => queue'[b] = queue[b] /\ accepted'[b] = accepted[b]
  BY <1>1, <1>2 DEF Dispatch, Enqueue
<1>4. /\ Len(queue'[a]) = Len(queue[a]) + 1
      /\ \A i \in 1..Len(queue[a]) : queue'[a][i] = queue[a][i]
      /\ queue'[a][Len(queue[a]) + 1] = accepted[a] + 1
  BY <1>2, <1>3, AppendFacts
<1>5. Taken(a)' = Taken(a)
  BY <1>2, <1>3, <1>4 DEF Taken
<1>6. Len(queue'[a]) <= accepted'[a]
  BY <1>1, <1>2, <1>3, <1>4 DEF QueueInv, InOrder
<1>7. ASSUME NEW i \in 1..Len(queue'[a]) PROVE queue'[a][i] = Taken(a)' + i
  <2>1. CASE i \in 1..Len(queue[a])
    BY <2>1, <1>1, <1>4, <1>5 DEF QueueInv, InOrder
  <2>2. CASE i = Len(queue[a]) + 1
    BY <2>2, <1>2, <1>4, <1>5 DEF Taken
  <2> QED
    BY <2>1, <2>2, <1>2, <1>4
<1> QED
  BY <1>1, <1>3, <1>5, <1>6, <1>7 DEF InOrder

\* A pop takes the oldest task of the actor the thread serves.
LEMMA PopStep ==
    ASSUME TypeInv, QueueInv, NEW c \in Threads, Pop(c), NEW a, a = seat[c]
    PROVE  /\ a \in Threads /\ InOrder(a)' /\ tpc[c] = "pop"
           /\ Taken(a)' = Taken(a) + 1 /\ Taken(a) \in Nat /\ Taken(a) < accepted[a]
           /\ task' = [task EXCEPT ![c] = Taken(a) + 1]
           /\ tpc' = [tpc EXCEPT ![c] = "dealing"]
           /\ \A b \in Threads : b # a => queue'[b] = queue[b]
           /\ UNCHANGED <<creation, seat, stop, accepted, main, fault>>
<1>1. tpc[c] = "pop" /\ a \in Threads
  BY DEF Pop, Take, SessionAt, TypeInv, CreationInv, Creating
<1>2. /\ queue \in [Threads -> Seq(Nat)] /\ accepted[a] \in Nat
      /\ queue[a] \in Seq(Nat) /\ queue[a] # <<>>
  BY <1>1 DEF TypeInv, SessionInv
<1>3. /\ queue'[a] = Tail(queue[a]) /\ task' = [task EXCEPT ![c] = Head(queue[a])]
      /\ tpc' = [tpc EXCEPT ![c] = "dealing"]
      /\ \A b \in Threads : b # a => queue'[b] = queue[b]
      /\ UNCHANGED <<creation, seat, stop, accepted, main, fault>>
  BY <1>1, <1>2 DEF Pop, Take, Goto
<1>4. /\ Len(queue[a]) \in Nat /\ Len(queue[a]) > 0 /\ Head(queue[a]) = queue[a][1]
      /\ Len(queue'[a]) = Len(queue[a]) - 1
      /\ \A i \in 1..Len(queue'[a]) : queue'[a][i] = queue[a][i + 1]
  BY <1>2, <1>3, TailFacts
<1>5. /\ Len(queue[a]) <= accepted[a]
      /\ \A i \in 1..Len(queue[a]) : queue[a][i] = Taken(a) + i
  BY <1>1 DEF QueueInv, InOrder
<1>6. /\ Taken(a)' = Taken(a) + 1 /\ Taken(a) \in Nat /\ Taken(a) < accepted[a]
      /\ Head(queue[a]) = Taken(a) + 1
  <2>1. Taken(a) = accepted[a] - Len(queue[a]) /\ Taken(a)' = accepted[a] - Len(queue'[a])
    BY <1>3 DEF Taken
  <2>2. Taken(a)' = Taken(a) + 1 /\ Taken(a) \in Nat /\ Taken(a) < accepted[a]
    <3>1. Len(queue[a]) <= accepted[a] /\ accepted[a] \in Nat /\ Len(queue[a]) \in Nat
      BY <1>2, <1>4, <1>5
    <3> QED
      BY <2>1, <1>4, <3>1
  <2>3. 1 \in 1..Len(queue[a])
    BY <1>4
  <2>4. queue[a][1] = Taken(a) + 1
    BY <2>3, <1>5
  <2> QED
    BY <2>2, <2>4, <1>4
<1>7. ASSUME NEW i \in 1..Len(queue'[a]) PROVE queue'[a][i] = Taken(a)' + i
  <2>1. i + 1 \in 1..Len(queue[a]) /\ i \in Nat
    BY <1>4
  <2>2. queue'[a][i] = queue[a][i + 1]
    BY <1>4
  <2>3. queue[a][i + 1] = Taken(a) + (i + 1)
    BY <2>1, <1>5
  <2> QED
    BY <2>1, <2>2, <2>3, <1>6
<1>8. InOrder(a)'
  BY <1>2, <1>3, <1>4, <1>5, <1>7 DEF InOrder
<1> QED
  BY <1>1, <1>3, <1>6, <1>8

LEMMA QueueStep == TypeInv /\ QueueInv /\ [Next]_vars => QueueInv'
<1> SUFFICES ASSUME TypeInv, QueueInv, [Next]_vars PROVE QueueInv'
  OBVIOUS
<1>0. /\ tpc \in [Threads -> Creating \cup Session] /\ task \in [Threads -> Nat]
      /\ CreationInv
  BY DEF TypeInv, CreationInv, SessionInv
<1>1. ASSUME UNCHANGED <<queue, accepted, task>>,
             \A c \in Threads : tpc'[c] = "dealing" <=> tpc[c] = "dealing"
      PROVE  QueueInv'
  BY <1>1 DEF QueueInv, InOrder, Taken
<1>2. ASSUME NEW c \in Threads, ReadEnd(c) \/ Store(c) \/ Start(c) PROVE QueueInv'
  <2>1. /\ tpc[c] \in Creating /\ UNCHANGED <<task, actors>>
        /\ \E pc \in {"store", "pick", "head"} : tpc' = [tpc EXCEPT ![c] = pc]
    BY <1>0, <1>2, StoreStep, StartStep DEF ReadEnd, CreatorAt, Creating
  <2>2. \A d \in Threads : tpc'[d] = "dealing" <=> tpc[d] = "dealing"
    BY <2>1, <1>0 DEF Creating
  <2> QED
    BY <2>1, <2>2, <1>1 DEF actors
<1>3. ASSUME NEW c \in Threads,
             ReadStop(c) \/ Acquire(c) \/ CheckPredicate(c) \/ Block(c) \/ SpuriousWakeup(c)
               \/ Test(c)
      PROVE  QueueInv'
  <2>1. UNCHANGED <<queue, accepted, task>>
    BY <1>3 DEF ReadStop, Acquire, CheckPredicate, Block, SpuriousWakeup, Test, actors
  <2>2. \A d \in Threads : tpc'[d] = "dealing" <=> tpc[d] = "dealing"
    BY <1>3, <1>0 DEF ReadStop, Acquire, CheckPredicate, Block, SpuriousWakeup, Test,
                      SessionAt, Goto
  <2> QED
    BY <2>1, <2>2, <1>1
<1>4. ASSUME NEW c \in Threads, Pop(c) PROVE QueueInv'
  <2>1. \A a \in Threads : InOrder(a)'
    BY <1>4, PopStep DEF QueueInv, InOrder, Taken
  <2>2. \A d \in Threads : task'[d] # 0 <=> tpc'[d] = "dealing"
    BY <1>4, <1>0, PopStep DEF QueueInv
  <2> QED
    BY <2>1, <2>2 DEF QueueInv
<1>5. ASSUME NEW c \in Threads, Deal(c) PROVE QueueInv'
  <2>1. /\ task' = [task EXCEPT ![c] = 0] /\ tpc' = [tpc EXCEPT ![c] = "head"]
        /\ UNCHANGED <<queue, accepted>>
    BY <1>5 DEF Deal, Goto, actors
  <2> QED
    BY <2>1, <1>0 DEF QueueInv, InOrder, Taken
<1>6. CASE Dispatch
  <2>1. \A a \in Threads : InOrder(a)'
    BY <1>6, DispatchStep DEF QueueInv, InOrder, Taken
  <2>2. UNCHANGED <<task, tpc>>
    BY <1>6, DispatchStep DEF sessions
  <2> QED
    BY <2>1, <2>2 DEF QueueInv
<1>7. CASE NotifyOne \/ NotifyAll
  BY <1>7, <1>0, <1>1, WakeupMoves DEF actors
<1>8. CASE \/ Send \/ ReadLeft \/ ReadRight \/ EndSearch \/ Return \/ SetStop \/ Free
           \/ Undefined \/ UNCHANGED vars
  <2>1. UNCHANGED <<queue, accepted, task, tpc>>
    BY <1>8 DEF Send, ReadLeft, ReadRight, Compare, EndSearch, Return, SetStop, Free, Undefined,
                NoSuchActor, Torn, CreateInDying, SessionOfFreed, vars, sessions, actors
  <2> QED
    BY <2>1, <1>1
<1> QED
  BY <1>2, <1>3, <1>4, <1>5, <1>6, <1>7, <1>8 DEF Next, ThreadStep, MainStep

LEMMA QueueInit == Init => QueueInv
<1> SUFFICES ASSUME Init PROVE QueueInv
  OBVIOUS
<1>1. \A a \in Threads : Len(queue[a]) = 0 /\ accepted[a] = 0
  BY DEF Init
<1>2. \A c \in Threads : task[c] = 0 /\ tpc[c] = "push"
  BY DEF Init
<1> QED
  BY <1>1, <1>2 DEF QueueInv, InOrder

----------------------------------------------------------------------------
(* The queue mgr::send() chooses *)

Load(i) == Len(queue[slot[i]])

\* The actor of a thread that has not stored it is not in the vector and its
\* queue is empty: an element that is overwritten gets no longer.
FreshInv ==
    \A c \in Threads : tpc[c] \in {"push", "store"} =>
        queue[c] = <<>> /\ \A i \in 1..Len(slot) : slot[i] # c

\* What the search knows between its reads.
SearchInv ==
    /\ mpc \in {"left", "dispatch"} => Len(seen) = at - 1
    /\ mpc = "right" => Len(seen) = at /\ seen[at] = left /\ Load(at) <= left
    /\ mpc \in Sending => at - 1 <= Len(slot) /\ \A i \in 1..(at - 1) : Load(idx) <= seen[i]

LEMMA FreshStep == TypeInv /\ QueueInv /\ FreshInv /\ [Next]_vars => FreshInv'
<1> SUFFICES ASSUME TypeInv, QueueInv, FreshInv, [Next]_vars PROVE FreshInv'
  OBVIOUS
<1>0. /\ tpc \in [Threads -> Creating \cup Session] /\ CreationInv
      /\ queue \in [Threads -> Seq(Nat)]
  BY DEF TypeInv, CreationInv, SessionInv
<1>1. ASSUME UNCHANGED <<queue, slot>>,
             \A c \in Threads : tpc'[c] \in {"push", "store"} => tpc[c] \in {"push", "store"}
      PROVE  FreshInv'
  BY <1>1 DEF FreshInv
<1>2. ASSUME NEW c \in Threads, ReadEnd(c) \/ Start(c) PROVE FreshInv'
  <2>1. UNCHANGED <<queue, slot>>
    BY <1>2 DEF ReadEnd, Start, Seat, actors, creation
  <2>2. \A d \in Threads : tpc'[d] \in {"push", "store"} => tpc[d] \in {"push", "store"}
    BY <1>2, <1>0 DEF ReadEnd, Start, Seat, CreatorAt
  <2> QED
    BY <2>1, <2>2, <1>1
<1>3. ASSUME NEW c \in Threads, Store(c) PROVE FreshInv'
  <2>1. /\ tpc' = [tpc EXCEPT ![c] = "pick"] /\ queue' = queue
        /\ Len(slot') \in Nat /\ size' \in 1..Len(slot') /\ slot'[size'] = c
        /\ \A i \in 1..Len(slot) : i # size' => slot'[i] = slot[i]
        /\ \A i \in 1..Len(slot') : i \in 1..Len(slot) \/ i = size'
    BY <1>3, <1>0, StoreStep DEF actors
  <2>2. ASSUME NEW d \in Threads, tpc'[d] \in {"push", "store"}
        PROVE  queue'[d] = <<>> /\ \A i \in 1..Len(slot') : slot'[i] # d
    <3>1. d # c /\ tpc[d] \in {"push", "store"}
      BY <2>1, <2>2, <1>0
    <3> QED
      BY <2>1, <3>1 DEF FreshInv
  <2> QED
    BY <2>2 DEF FreshInv
<1>4. ASSUME NEW c \in Threads, SessionAction(c) PROVE FreshInv'
  <2>1. /\ slot' = slot /\ tpc[c] \in Session /\ seat[c] \in Threads
        /\ \E pc \in Session : tpc' = [tpc EXCEPT ![c] = pc]
    BY <1>4, <1>0, SessionMoves DEF SessionMove, creation
  <2>2. \A d \in Threads : tpc'[d] \in {"push", "store"} => tpc[d] \in {"push", "store"} /\ d # c
    BY <2>1, <1>0 DEF Session
  <2>3. queue' = queue \/ Pop(c)
    BY <1>4 DEF SessionAction, ReadStop, Acquire, CheckPredicate, Block, SpuriousWakeup, Test, Deal,
                actors
  <2>4. CASE Pop(c)
    \* The queue it pops is not empty, so it is not that of a fresh actor.
    <3>1. queue[seat[c]] # <<>> /\ \A b \in Threads : b # seat[c] => queue'[b] = queue[b]
      BY <2>4, PopStep DEF TypeInv, SessionInv
    <3> QED
      BY <2>1, <2>2, <3>1 DEF FreshInv
  <2> QED
    BY <2>1, <2>2, <2>3, <2>4, <1>1
<1>5. CASE Dispatch
  <2>1. /\ idx \in 1..Len(slot) /\ UNCHANGED <<slot, tpc>>
    BY <1>5, DispatchTo DEF TypeInv, creation, sessions
  <2>2. \A b \in Threads : b # slot[idx] => queue'[b] = queue[b]
    BY <1>5, DispatchStep
  <2> QED
    BY <2>1, <2>2 DEF FreshInv
<1>6. CASE NotifyOne \/ NotifyAll
  BY <1>6, <1>0, <1>1, WakeupMoves DEF actors, creation
<1>7. CASE \/ Send \/ ReadLeft \/ ReadRight \/ EndSearch \/ Return \/ SetStop \/ Free
           \/ Undefined \/ UNCHANGED vars
  <2>1. UNCHANGED <<queue, slot, tpc>>
    BY <1>7 DEF Send, ReadLeft, ReadRight, Compare, EndSearch, Return, SetStop, Free, Undefined,
                NoSuchActor, Torn, CreateInDying, SessionOfFreed, vars, sessions, actors, creation
  <2> QED
    BY <2>1, <1>1
<1> QED
  BY <1>2, <1>3, <1>4, <1>5, <1>6, <1>7 DEF Next, ThreadStep, MainStep, SessionAction

\* No step of a thread makes the queue of an element longer.
LEMMA LoadsShrink ==
    ASSUME TypeInv, QueueInv, FreshInv, NEW c \in Threads, ThreadStep(c) \/ SpuriousWakeup(c)
    PROVE  /\ Len(slot) <= Len(slot') /\ Len(slot') \in Nat
           /\ \A i \in 1..Len(slot) : Load(i) \in Nat /\ Load(i)' \in Nat /\ Load(i)' <= Load(i)
           /\ UNCHANGED main
<1>0. /\ queue \in [Threads -> Seq(Nat)] /\ CreationInv /\ slot \in Seq(Threads)
      /\ \A i \in 1..Len(slot) : slot[i] \in Threads
  BY DEF TypeInv, CreationInv, SessionInv
<1>1. \A b \in Threads : queue[b] \in Seq(Nat) /\ Len(queue[b]) \in Nat
  BY <1>0
<1>2. CASE UNCHANGED <<queue, slot>> /\ UNCHANGED main
  BY <1>0, <1>1, <1>2 DEF Load
<1>3. CASE Store(c)
  <2>1. /\ tpc[c] = "store" /\ UNCHANGED queue /\ UNCHANGED main
        /\ Len(slot) <= Len(slot') /\ Len(slot') \in Nat /\ slot'[size'] = c
        /\ \A i \in 1..Len(slot) : i # size' => slot'[i] = slot[i]
    BY <1>3, <1>0, StoreStep DEF actors
  <2>2. Len(queue[c]) = 0
    BY <2>1 DEF FreshInv
  <2>3. ASSUME NEW i \in 1..Len(slot)
        PROVE  Load(i) \in Nat /\ Load(i)' \in Nat /\ Load(i)' <= Load(i)
    <3>1. Len(queue[slot[i]]) \in Nat
      BY <1>0, <1>1
    <3>2. slot'[i] = slot[i] \/ slot'[i] = c
      BY <2>1
    <3> QED
      BY <2>1, <2>2, <3>1, <3>2 DEF Load
  <2> QED
    BY <2>1, <2>3
<1>4. CASE Pop(c)
  <2>1. /\ queue[seat[c]] # <<>> /\ seat[c] \in Threads /\ UNCHANGED slot /\ UNCHANGED main
        /\ \A b \in Threads : b # seat[c] => queue'[b] = queue[b]
    BY <1>4, PopStep DEF TypeInv, SessionInv, creation
  <2>2. queue'[seat[c]] = Tail(queue[seat[c]])
    BY <1>4, <1>0, <2>1 DEF Pop, Take
  <2>3. /\ Len(Tail(queue[seat[c]])) = Len(queue[seat[c]]) - 1 /\ Len(queue[seat[c]]) > 0
        /\ Len(queue[seat[c]]) \in Nat
    BY <1>1, <2>1, TailFacts
  <2>4. ASSUME NEW b \in Threads
        PROVE  Len(queue'[b]) \in Nat /\ Len(queue'[b]) <= Len(queue[b])
    <3>1. CASE b = seat[c]
      <4>1. Len(queue'[b]) = Len(queue[b]) - 1
        BY <2>2, <2>3, <3>1
      <4>2. Len(queue[b]) \in Nat /\ Len(queue[b]) > 0
        BY <2>3, <3>1
      <4> QED
        BY <4>1, <4>2
    <3>2. CASE b # seat[c]
      <4>1. queue'[b] = queue[b] /\ Len(queue[b]) \in Nat
        BY <1>1, <2>1, <3>2
      <4> QED
        BY <4>1
    <3> QED
      BY <3>1, <3>2
  <2> QED
    BY <1>0, <1>1, <2>1, <2>4 DEF Load
<1>5. CASE ReadEnd(c) \/ Start(c) \/ SessionAction(c)
  <2>1. (UNCHANGED <<queue, slot>> /\ UNCHANGED main) \/ Pop(c)
    BY <1>5 DEF ReadEnd, Start, Seat, SessionAction, ReadStop, Acquire, CheckPredicate, Block,
                SpuriousWakeup, Test, Deal, actors, creation
  <2> QED
    BY <2>1, <1>2, <1>4
<1> QED
  BY <1>3, <1>5 DEF ThreadStep, SessionAction

LEMMA SearchStep ==
    TypeInv /\ QueueInv /\ FreshInv /\ SearchInv /\ [Next]_vars => SearchInv'
<1> SUFFICES ASSUME TypeInv, QueueInv, FreshInv, SearchInv, [Next]_vars PROVE SearchInv'
  OBVIOUS
<1>0. /\ at \in Nat /\ at >= 1 /\ idx \in Nat /\ idx >= 1 /\ left \in Nat /\ seen \in Seq(Nat)
      /\ idx = 1 \/ idx <= Len(slot)
      /\ mpc = "right" => at <= Len(slot)
      /\ Len(slot) \in Nat /\ size <= Len(slot) /\ size \in Nat
      /\ \A i \in 1..Len(seen) : seen[i] \in Nat
  BY DEF TypeInv, MainInv, CreationInv
<1>1. \A i \in 1..Len(slot) : Load(i) \in Nat
  BY DEF TypeInv, CreationInv, SessionInv, Load
<1>2. ASSUME NEW c \in Threads, ThreadStep(c) \/ SpuriousWakeup(c) PROVE SearchInv'
  <2>1. UNCHANGED <<mpc, idx, at, left, seen>> /\ Len(slot) <= Len(slot') /\ Len(slot') \in Nat
    BY <1>2, LoadsShrink DEF main
  <2>2. \A i \in 1..Len(slot) :
            /\ Len(queue[slot[i]]) \in Nat /\ Len(queue'[slot'[i]]) \in Nat
            /\ Len(queue'[slot'[i]]) <= Len(queue[slot[i]])
    BY <1>2, LoadsShrink DEF Load
  <2>3. ASSUME mpc = "right" PROVE Load(at)' <= left
    <3>1. at \in 1..Len(slot) /\ Len(queue[slot[at]]) <= left
      BY <2>3, <1>0 DEF SearchInv, Load
    <3>2. Len(queue'[slot'[at]]) <= left
      BY <2>2, <3>1, <1>0
    <3> QED
      BY <2>1, <3>2 DEF Load
  <2>4. ASSUME mpc \in Sending, NEW i \in 1..(at - 1) PROVE Load(idx)' <= seen[i]
    <3>1. i \in 1..Len(seen) /\ idx \in 1..Len(slot) /\ Len(queue[slot[idx]]) <= seen[i]
      BY <2>4, <1>0 DEF SearchInv, Sending, Load
    <3>2. Len(queue'[slot'[idx]]) <= seen[i]
      BY <2>2, <3>1, <1>0
    <3> QED
      BY <2>1, <3>2 DEF Load
  <2> QED
    BY <2>1, <2>3, <2>4, <1>0 DEF SearchInv
<1>3. CASE ReadLeft
  <2>1. /\ mpc = "left" /\ mpc' = "right" /\ at <= size /\ left' = Load(at)
        /\ seen' = Append(seen, left') /\ UNCHANGED <<queue, slot, idx, at>>
    BY <1>3 DEF ReadLeft, MainAt, Load, actors, creation
  <2>2. Load(at) \in Nat /\ Len(seen) = at - 1
    BY <2>1, <1>0, <1>1 DEF SearchInv
  <2>3. Len(seen') = at /\ seen'[at] = left' /\ \A i \in 1..(at - 1) : seen'[i] = seen[i]
    BY <2>1, <2>2, <1>0, AppendFacts
  <2>4. \A i \in 1..(at - 1) : Load(idx) <= seen[i]
    BY <2>1 DEF SearchInv, Sending
  <2> QED
    BY <2>1, <2>2, <2>3, <2>4, <1>0 DEF SearchInv, Load
<1>4. CASE ReadRight
  <2>1. /\ mpc = "right" /\ mpc' = "left" /\ at' = at + 1 /\ UNCHANGED <<queue, slot, seen>>
        /\ idx' = IF left < Load(idx) THEN at ELSE idx
    BY <1>4 DEF ReadRight, Compare, MainAt, Load, actors, creation
  <2>2. /\ Len(seen) = at /\ seen[at] = left /\ Load(at) <= left /\ at <= Len(slot)
        /\ \A i \in 1..(at - 1) : Load(idx) <= seen[i]
    BY <2>1, <1>0 DEF SearchInv, Sending
  <2>3. Load(idx) \in Nat /\ Load(at) \in Nat
    BY <1>0, <1>1, <2>2
  <2>4. Load(idx)' <= left /\ Load(idx)' <= Load(idx) /\ Load(idx)' \in Nat
    BY <2>1, <2>2, <2>3, <1>0 DEF Load
  <2>5. ASSUME NEW i \in 1..at PROVE Load(idx)' <= seen[i]
    BY <2>2, <2>3, <2>4, <1>0
  <2> QED
    BY <2>1, <2>2, <2>5, <1>0 DEF SearchInv
<1>5. CASE EndSearch
  BY <1>5 DEF EndSearch, MainAt, SearchInv, Sending, Load, actors, creation
<1>6. CASE Send
  <2>1. at' = 1 /\ Len(seen') = 0 /\ mpc' = "left" /\ UNCHANGED slot
    BY <1>6 DEF Send, creation
  <2> QED
    BY <2>1, <1>0 DEF SearchInv
<1>7. CASE Dispatch \/ NotifyOne \/ Return \/ SetStop \/ NotifyAll \/ Free
  <2>1. mpc' \notin Sending
    BY <1>7 DEF Dispatch, Enqueue, NotifyOne, Return, SetStop, NotifyAll, Free, Sending
  <2> QED
    BY <2>1 DEF SearchInv, Sending
<1>8. CASE Undefined \/ UNCHANGED vars
  <2>1. UNCHANGED <<mpc, at, idx, left, seen, slot, queue>>
    BY <1>8 DEF Undefined, NoSuchActor, Torn, CreateInDying, SessionOfFreed, vars, creation, main,
                actors
  <2> QED
    BY <2>1 DEF SearchInv, Load
<1> QED
  BY <1>2, <1>3, <1>4, <1>5, <1>6, <1>7, <1>8 DEF Next, MainStep

\* mgr::send() chooses well for any number of actors, although it reads the
\* loads without a mutex while threads store actors and take tasks
\* (mgr.cc:10-17): until the dispatch a queue only gets shorter.
THEOREM ChoosesShortest == Spec => []ShortestQueue
<1>1. Init => QueueInv /\ FreshInv /\ SearchInv
  <2> SUFFICES ASSUME Init PROVE FreshInv /\ SearchInv
    BY QueueInit
  <2>1. Len(slot) = 0 /\ mpc = "idle" /\ \A c \in Threads : queue[c] = <<>>
    BY DEF Init
  <2> QED
    BY <2>1 DEF FreshInv, SearchInv, Sending
<1>2. TypeInv /\ SearchInv => ShortestQueue
  BY DEF TypeInv, MainInv, SearchInv, Sending, ShortestQueue, Load
<1> QED
  BY <1>1, <1>2, QueueStep, FreshStep, SearchStep, TypeInvAlways, PTL DEF Spec

----------------------------------------------------------------------------
(* The queue of each actor implements the executor *)

LEMMA RefinesInit == Init => \A a \in Threads : Abstract(a)!Init
<1> SUFFICES ASSUME Init, NEW a \in Threads PROVE Abstract(a)!Init
  OBVIOUS
<1>1. accepted[a] = 0 /\ Taken(a) = 0
  <2>1. Len(queue[a]) = 0 /\ accepted[a] = 0
    BY DEF Init
  <2> QED
    BY <2>1 DEF Taken
<1>2. Closed(a) = FALSE
  <2>1. ~stop[a]
    BY DEF Init
  <2> QED
    BY <2>1 DEF Closed
<1>3. Hand(a) = [c \in Threads |-> 0]
  BY DEF Init, Hand
<1> QED
  BY <1>1, <1>2, <1>3 DEF Abstract!Init

LEMMA RefinesStep ==
    ASSUME TypeInv, QueueInv, [Next]_vars, NEW a \in Threads
    PROVE  [Abstract(a)!Next]_(Abstract(a)!vars)
<1>0. /\ tpc \in [Threads -> Creating \cup Session] /\ task \in [Threads -> Nat]
      /\ seat \in [Threads -> Threads \cup {NoOne}] /\ stop \in [Threads -> BOOLEAN]
      /\ accepted \in [Threads -> Nat] /\ CreationInv
      /\ \A c \in Threads : task[c] # 0 <=> tpc[c] = "dealing"
  BY DEF TypeInv, CreationInv, SessionInv, QueueInv
\* A step that takes no task, ends none and stops nothing is a stutter.
<1>1. ASSUME UNCHANGED <<queue, accepted, task, stop>>,
             \A c \in Threads :
                /\ task[c] # 0 => seat'[c] = seat[c]
                /\ stop[a] => (seat'[c] = a /\ tpc'[c] = "pop" <=> seat[c] = a /\ tpc[c] = "pop")
      PROVE  UNCHANGED Abstract(a)!vars
  <2>1. Hand(a)' = Hand(a)
    BY <1>1, <1>0 DEF Hand
  <2>2. Closed(a)' = Closed(a)
    BY <1>1 DEF Closed
  <2>3. Taken(a)' = Taken(a)
    BY <1>1 DEF Taken
  <2> QED
    BY <1>1, <2>1, <2>2, <2>3 DEF Abstract!vars
<1>2. ASSUME NEW c \in Threads, ReadEnd(c) \/ Store(c) \/ Start(c)
      PROVE  UNCHANGED Abstract(a)!vars
  <2>1. /\ tpc[c] \in Creating /\ UNCHANGED <<task, actors>>
        /\ \E pc \in {"store", "pick", "head"} : tpc' = [tpc EXCEPT ![c] = pc]
        /\ \A d \in Threads \ {c} : seat'[d] = seat[d]
    BY <1>0, <1>2, StoreStep, StartStep DEF ReadEnd, CreatorAt, Creating
  <2>2. task[c] = 0 /\ tpc[c] # "pop" /\ tpc'[c] # "pop"
    BY <2>1, <1>0 DEF Creating
  <2>3. \A d \in Threads \ {c} : tpc'[d] = tpc[d]
    BY <2>1, <1>0
  <2> QED
    BY <2>1, <2>2, <2>3, <1>1 DEF actors
<1>3. ASSUME NEW c \in Threads,
             ReadStop(c) \/ Acquire(c) \/ CheckPredicate(c) \/ Block(c) \/ SpuriousWakeup(c)
               \/ Test(c)
      PROVE  UNCHANGED Abstract(a)!vars
  <2>1. UNCHANGED <<queue, accepted, task, stop, seat>>
    BY <1>3 DEF ReadStop, Acquire, CheckPredicate, Block, SpuriousWakeup, Test, actors
  <2>2. \A d \in Threads :
            stop[a] => (seat[d] = a /\ tpc'[d] = "pop" <=> seat[d] = a /\ tpc[d] = "pop")
    BY <1>3, <1>0 DEF ReadStop, Acquire, CheckPredicate, Block, SpuriousWakeup, Test,
                      SessionAt, Goto
  <2> QED
    BY <2>1, <2>2, <1>1
<1>4. ASSUME NEW c \in Threads, Pop(c), seat[c] = a PROVE Abstract(a)!Begin(c)
  <2>1. /\ Taken(a)' = Taken(a) + 1 /\ Taken(a) < accepted[a] /\ tpc[c] = "pop"
        /\ task' = [task EXCEPT ![c] = Taken(a) + 1] /\ UNCHANGED <<seat, stop, accepted>>
    BY <1>4, PopStep
  <2>2. Hand(a)[c] = 0 /\ Hand(a)' = [Hand(a) EXCEPT ![c] = Taken(a) + 1]
    BY <2>1, <1>0, <1>4 DEF Hand
  <2>3. ~Closed(a) /\ Closed(a)' \in BOOLEAN
    BY <2>1, <1>4 DEF Closed
  <2> QED
    BY <2>1, <2>2, <2>3 DEF Abstract!Begin
<1>5. ASSUME NEW c \in Threads, Pop(c), seat[c] # a PROVE UNCHANGED Abstract(a)!vars
  <2>1. /\ queue'[a] = queue[a] /\ tpc' = [tpc EXCEPT ![c] = "dealing"]
        /\ \A d \in Threads \ {c} : task'[d] = task[d]
        /\ UNCHANGED <<seat, stop, accepted>>
    BY <1>5, <1>0, PopStep
  <2>2. Hand(a)' = Hand(a)
    BY <2>1, <1>5 DEF Hand
  <2>3. Closed(a)' = Closed(a)
    BY <2>1, <1>0, <1>5 DEF Closed
  <2>4. Taken(a)' = Taken(a)
    BY <2>1 DEF Taken
  <2> QED
    BY <2>1, <2>2, <2>3, <2>4 DEF Abstract!vars
<1>6. ASSUME NEW c \in Threads, Deal(c)
      PROVE  Abstract(a)!Finish(c) \/ UNCHANGED Abstract(a)!vars
  <2>1. /\ tpc[c] = "dealing" /\ task[c] # 0 /\ task' = [task EXCEPT ![c] = 0]
        /\ tpc' = [tpc EXCEPT ![c] = "head"] /\ UNCHANGED <<seat, queue, accepted, stop>>
    BY <1>6, <1>0 DEF Deal, Goto, actors, creation
  <2>2. Taken(a)' = Taken(a) /\ Closed(a)' = Closed(a)
    BY <2>1, <1>0 DEF Taken, Closed
  <2>3. CASE seat[c] = a
    BY <2>1, <2>2, <2>3, <1>0 DEF Hand, Abstract!Finish
  <2>4. CASE seat[c] # a
    <3>1. Hand(a)' = Hand(a)
      BY <2>1, <2>4, <1>0 DEF Hand
    <3> QED
      BY <2>1, <2>2, <3>1 DEF Abstract!vars
  <2> QED
    BY <2>3, <2>4
<1>7. CASE Dispatch
  <2>1. UNCHANGED <<seat, task, tpc, stop>>
    BY <1>7, DispatchStep DEF sessions
  <2>2. Hand(a)' = Hand(a) /\ Closed(a)' = Closed(a)
    BY <2>1 DEF Hand, Closed
  <2>3. CASE slot[idx] = a
    BY <2>2, <2>3, <1>7, DispatchStep DEF Abstract!Next, Abstract!Accept
  <2>4. CASE slot[idx] # a
    <3>1. queue'[a] = queue[a] /\ accepted'[a] = accepted[a]
      BY <2>4, <1>7, DispatchStep
    <3> QED
      BY <2>2, <3>1 DEF Abstract!vars, Taken
  <2> QED
    BY <2>3, <2>4
<1>8. CASE SetStop
  <2>1. /\ UNCHANGED <<seat, task, tpc, queue, accepted>>
        /\ stop'[a] = stop[a] \/ (~stop[a] /\ stop'[a] = TRUE)
    BY <1>8, <1>0 DEF SetStop, sessions
  <2>2. Hand(a)' = Hand(a) /\ Taken(a)' = Taken(a)
    BY <2>1 DEF Hand, Taken
  <2>3. Closed(a)' = Closed(a) \/ (~Closed(a) /\ Closed(a)' = TRUE)
    BY <2>1, <1>0 DEF Closed
  <2> QED
    BY <2>1, <2>2, <2>3 DEF Abstract!Next, Abstract!Close, Abstract!vars
<1>9. CASE NotifyOne \/ NotifyAll
  BY <1>9, <1>0, <1>1, WakeupMoves DEF actors
<1>10. CASE \/ Send \/ ReadLeft \/ ReadRight \/ EndSearch \/ Return \/ Free
            \/ Undefined \/ UNCHANGED vars
  <2>1. UNCHANGED <<queue, accepted, task, tpc, seat, stop>>
    BY <1>10 DEF Send, ReadLeft, ReadRight, Compare, EndSearch, Return, Free, Undefined,
                 NoSuchActor, Torn, CreateInDying, SessionOfFreed, vars, sessions, actors
  <2> QED
    BY <2>1, <1>1
<1> QED
  BY <1>2, <1>3, <1>4, <1>5, <1>6, <1>7, <1>8, <1>9, <1>10
     DEF Next, ThreadStep, MainStep, Abstract!Next

\* Whatever the creation race made of the vector, the queue of each actor is
\* an executor whose slots are the threads in its session: tasks are begun
\* once and in order by idle threads, none after the stop took effect
\* (actor.cc:19-31 and 41-57).
THEOREM ActorsExecute == Spec => ActorsAreExecutors
<1>1. TypeInv /\ QueueInv /\ [Next]_vars
        => [\A a \in Threads : [Abstract(a)!Next]_(Abstract(a)!vars)]_vars
  BY RefinesStep
<1> QED
  BY <1>1, QueueInit, RefinesInit, QueueStep, TypeInvAlways, PTL DEF Spec, ActorsAreExecutors
=============================================================================
