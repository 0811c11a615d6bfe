--------------------------- MODULE ShutdownProofs ---------------------------
(***************************************************************************)
(* Theorems about Shutdown for all pools of threads, all threads of actors *)
(* and any number of signals.                                              *)
(***************************************************************************)
EXTENDS Shutdown, TLAPS

(* The lines of the handler. *)

\* Where each call of the handler stands (main.cc:16-22).
LEMMA HandlerLines ==
    /\ Len(Handler) = 29
    /\ \A n \in 1..29 :
          /\ Handler[n] = "log" <=> n \in {1, 7, 10, 13, 19, 27}
          /\ Handler[n] = "unlog" <=> n \in {2, 8, 11, 14, 20, 28}
          /\ Handler[n] = "test work" <=> n \in {3, 21}
          /\ Handler[n] = "stop work" <=> n \in {4, 22}
          /\ Handler[n] = "notify work" <=> n \in {5, 23}
          /\ Handler[n] = "join work" <=> n \in {6, 24}
          /\ Handler[n] = "halt main" <=> n = 9
          /\ Handler[n] = "halt subs" <=> n = 12
          /\ Handler[n] = "test io" <=> n = 15
          /\ Handler[n] = "stop io" <=> n = 16
          /\ Handler[n] = "notify io" <=> n = 17
          /\ Handler[n] = "join io" <=> n = 18
          /\ Handler[n] = "destroy cond" <=> n = 25
          /\ Handler[n] = "destroy thds" <=> n = 26
          /\ Handler[n] = "exit" <=> n = 29
<1>1. Len(Handler) = 29
  BY DEF Handler
<1>2. ASSUME NEW n \in 1..29
      PROVE \/ n = 1 \/ n = 2 \/ n = 3 \/ n = 4 \/ n = 5 \/ n = 6 \/ n = 7 \/ n = 8
            \/ n = 9 \/ n = 10 \/ n = 11 \/ n = 12 \/ n = 13 \/ n = 14 \/ n = 15 \/ n = 16
            \/ n = 17 \/ n = 18 \/ n = 19 \/ n = 20 \/ n = 21 \/ n = 22 \/ n = 23 \/ n = 24
            \/ n = 25 \/ n = 26 \/ n = 27 \/ n = 28 \/ n = 29
  OBVIOUS
<1>3. /\ Handler[1] = "log" /\ Handler[2] = "unlog" /\ Handler[3] = "test work"
      /\ Handler[4] = "stop work" /\ Handler[5] = "notify work" /\ Handler[6] = "join work"
      /\ Handler[7] = "log" /\ Handler[8] = "unlog" /\ Handler[9] = "halt main"
      /\ Handler[10] = "log" /\ Handler[11] = "unlog" /\ Handler[12] = "halt subs"
      /\ Handler[13] = "log" /\ Handler[14] = "unlog" /\ Handler[15] = "test io"
      /\ Handler[16] = "stop io" /\ Handler[17] = "notify io" /\ Handler[18] = "join io"
      /\ Handler[19] = "log" /\ Handler[20] = "unlog" /\ Handler[21] = "test work"
      /\ Handler[22] = "stop work" /\ Handler[23] = "notify work" /\ Handler[24] = "join work"
      /\ Handler[25] = "destroy cond" /\ Handler[26] = "destroy thds" /\ Handler[27] = "log"
      /\ Handler[28] = "unlog" /\ Handler[29] = "exit"
  BY DEF Handler
<1>4. ASSUME NEW n \in 1..29
      PROVE /\ Handler[n] = "log" <=> n \in {1, 7, 10, 13, 19, 27}
            /\ Handler[n] = "unlog" <=> n \in {2, 8, 11, 14, 20, 28}
  <2>1. Handler[n] = "log" <=> n = 1 \/ n = 7 \/ n = 10 \/ n = 13 \/ n = 19 \/ n = 27
    BY <1>2, <1>3
  <2>2. Handler[n] = "unlog" <=> n = 2 \/ n = 8 \/ n = 11 \/ n = 14 \/ n = 20 \/ n = 28
    BY <1>2, <1>3
  <2> QED
    BY <2>1, <2>2
<1>5. ASSUME NEW n \in 1..29
      PROVE /\ Handler[n] = "test work" <=> n \in {3, 21}
            /\ Handler[n] = "stop work" <=> n \in {4, 22}
            /\ Handler[n] = "notify work" <=> n \in {5, 23}
            /\ Handler[n] = "join work" <=> n \in {6, 24}
  BY <1>2, <1>3
<1>6. ASSUME NEW n \in 1..29
      PROVE /\ Handler[n] = "halt main" <=> n = 9
            /\ Handler[n] = "halt subs" <=> n = 12
            /\ Handler[n] = "test io" <=> n = 15
            /\ Handler[n] = "stop io" <=> n = 16
            /\ Handler[n] = "notify io" <=> n = 17
  BY <1>2, <1>3
<1>7. ASSUME NEW n \in 1..29
      PROVE /\ Handler[n] = "join io" <=> n = 18
            /\ Handler[n] = "destroy cond" <=> n = 25
            /\ Handler[n] = "destroy thds" <=> n = 26
            /\ Handler[n] = "exit" <=> n = 29
  BY <1>2, <1>3
<1> QED
  BY <1>1, <1>4, <1>5, <1>6, <1>7

\* The same, for the lines of shut_down() of a pool.
LEMMA PoolLines ==
    ASSUME NEW p \in Pools, NEW n \in 1..29
    PROVE  /\ Handler[n] = Test[p] <=> n \in (IF p = "io" THEN {15} ELSE {3, 21})
           /\ Handler[n] = Stop[p] <=> n \in (IF p = "io" THEN {16} ELSE {4, 22})
           /\ Handler[n] = Notify[p] <=> n \in (IF p = "io" THEN {17} ELSE {5, 23})
           /\ Handler[n] = Join[p] <=> n \in (IF p = "io" THEN {18} ELSE {6, 24})
<1>1. CASE p = "io"
  <2>1. /\ Test[p] = "test io" /\ Stop[p] = "stop io" /\ Notify[p] = "notify io"
        /\ Join[p] = "join io"
    BY <1>1 DEF Test, Stop, Notify, Join
  <2>2. /\ Handler[n] = "test io" <=> n = 15
        /\ Handler[n] = "stop io" <=> n = 16
        /\ Handler[n] = "notify io" <=> n = 17
        /\ Handler[n] = "join io" <=> n = 18
    BY HandlerLines
  <2> QED
    BY <1>1, <2>1, <2>2
<1>2. CASE p = "work"
  <2>1. /\ Test[p] = "test work" /\ Stop[p] = "stop work" /\ Notify[p] = "notify work"
        /\ Join[p] = "join work"
    BY <1>2 DEF Test, Stop, Notify, Join
  <2>2. /\ Handler[n] = "test work" <=> n \in {3, 21}
        /\ Handler[n] = "stop work" <=> n \in {4, 22}
        /\ Handler[n] = "notify work" <=> n \in {5, 23}
        /\ Handler[n] = "join work" <=> n \in {6, 24}
    BY HandlerLines
  <2> QED
    BY <1>2, <2>1, <2>2
<1> QED
  BY <1>1, <1>2 DEF Pools

\* A thread in the handler is at one of its lines.
LEMMA AtALine ==
    ASSUME Types, NEW t \in Threads
    PROVE  hpc[t] \in 0..29 /\ (hpc[t] # 0 => hpc[t] \in 1..29)
<1>1. Len(Handler) = 29
  BY HandlerLines
<1> QED
  BY <1>1 DEF Types

\* Every pool's threads are among the threads, and its name is one of Pools.
LEMMA PoolThreads ==
    /\ \A t \in Io \cup Workers : t \in Threads /\ t # Main /\ t \notin ActThds
    /\ \A t \in Threads : Pool(t) \in Pools /\ Pool(t) \in Mutexes
    /\ \A t \in Threads : t \notin {"log", "svr", "io", "work"} /\ t # None
    /\ \A p \in Pools : Elements(Thds(p)) \subseteq Io \cup Workers
    /\ \A t \in Io \cup Workers : t \in Elements(Thds(Pool(t)))
    /\ \A p \in Pools : \A i \in DOMAIN Thds(p) : Thds(p)[i] \in Io \cup Workers
    /\ "log" \in Mutexes
<1>1. \A p \in Pools : Elements(Thds(p)) \subseteq Io \cup Workers
  BY DEF Thds, Io, Workers
<1>2. \A p \in Pools : \A i \in DOMAIN Thds(p) : Thds(p)[i] \in Elements(Thds(p))
  BY DEF Elements
<1>3. \A t \in Io \cup Workers : t \in Elements(Thds(Pool(t)))
  BY DEF Thds, Pool, Io, Workers
<1>4. \A t \in Threads : Pool(t) \in Pools /\ Pool(t) \in Mutexes
  BY DEF Pool, Pools, Mutexes
<1>5. \A t \in Io \cup Workers : t \in Threads /\ t # Main /\ t \notin ActThds
  BY ThreadsAssumption DEF Threads
<1>6. \A t \in Threads : t \notin {"log", "svr", "io", "work"} /\ t # None
  BY ThreadsAssumption
<1>7. "log" \in Mutexes
  BY DEF Mutexes
<1> QED
  BY <1>1, <1>2, <1>3, <1>4, <1>5, <1>6, <1>7

-----------------------------------------------------------------------------
(* The types, and the mutexes *)

\* A handler goes on to one of its lines, and its thread stays in it.
LEMMA Advances ==
    ASSUME Types, NEW t \in Threads, NEW n \in {1, 4}, hpc[t] # 0, hpc[t] + n <= 29,
           Advance(t, n)
    PROVE  /\ hpc' \in [Threads -> 0..Len(Handler)]
           /\ hpc'[t] = hpc[t] + n
           /\ \A u \in Threads : u # t => hpc'[u] = hpc[u]
           /\ Interrupted' = Interrupted
           /\ UNCHANGED <<signals, nested>>
<1>1. hpc \in [Threads -> 0..29] /\ Len(Handler) = 29
  BY HandlerLines DEF Types
<1>2. hpc' = [hpc EXCEPT ![t] = hpc[t] + n] /\ UNCHANGED <<signals, nested>>
  BY DEF Advance
<1>3. hpc[t] + n \in 1..29
  BY <1>1
<1>4. /\ hpc' \in [Threads -> 0..29]
      /\ hpc'[t] = hpc[t] + n
      /\ \A u \in Threads : u # t => hpc'[u] = hpc[u]
  BY <1>1, <1>2, <1>3
<1>5. \A u \in Threads : hpc'[u] # 0 <=> hpc[u] # 0
  BY <1>1, <1>3, <1>4
<1> QED
  BY <1>1, <1>2, <1>4, <1>5 DEF Interrupted

\* What a step of a handler changes and what it leaves alone.
LEMMA HandlerEffect ==
    ASSUME Types, NEW t \in Threads, HandlerStep(t)
    PROVE  /\ hpc[t] \in 1..29 /\ status = "running"
           /\ UNCHANGED <<want, signals, nested>>
           /\ \A m \in Mutexes : owner'[m] = owner[m] \/ (m = "log" /\ owner'[m] \in {t, None})
           /\ \A u \in Threads : pc'[u] = pc[u] \/ (pc[u] = "waiting" /\ pc'[u] = "lock" /\ hpc[u] = 0)
           /\ joined \subseteq joined'
           /\ \A u \in joined' \ joined : pc[u] = "exited" /\ pc' = pc
           /\ \A u \in Threads : u # t => hpc'[u] = hpc[u]
           /\ Interrupted' = Interrupted
           /\ Types'
<1> DEFINE Effect ==
      /\ UNCHANGED <<want, signals, nested>>
      /\ \A m \in Mutexes : owner'[m] = owner[m] \/ (m = "log" /\ owner'[m] \in {t, None})
      /\ \A u \in Threads : pc'[u] = pc[u] \/ (pc[u] = "waiting" /\ pc'[u] = "lock" /\ hpc[u] = 0)
      /\ joined \subseteq joined'
      /\ \A u \in joined' \ joined : pc[u] = "exited" /\ pc' = pc
      /\ \A u \in Threads : u # t => hpc'[u] = hpc[u]
      /\ Interrupted' = Interrupted
      /\ Types'
<1>1. hpc[t] \in 1..29 /\ status = "running"
  <2>1. InHandler(t)
    BY DEF HandlerStep, HandlerPrint, HandlerUses, Halt, DestroyCond, DestroyThds, Exit,
       TestPool, StopPool, NotifyPool, JoinPool, HandlerAt
  <2> QED
    BY <2>1, AtALine DEF InHandler, Running
<1> DEFINE Moves ==
      /\ hpc' \in [Threads -> 0..Len(Handler)]
      /\ \A u \in Threads : u # t => hpc'[u] = hpc[u]
      /\ Interrupted' = Interrupted
      /\ UNCHANGED <<signals, nested>>
<1>2. ASSUME Advance(t, 1), hpc[t] # 29 PROVE Moves
  <2>1. hpc[t] # 0 /\ hpc[t] + 1 <= 29
    BY <1>1, <1>2
  <2> QED
    BY <1>2, <2>1, Advances
<1>3. ASSUME Advance(t, 4), hpc[t] < 26 PROVE Moves
  <2>1. hpc[t] # 0 /\ hpc[t] + 4 <= 29
    BY <1>1, <1>3
  <2> QED
    BY <1>3, <2>1, Advances
<1>4. ASSUME UNCHANGED taken PROVE Moves
  BY <1>4 DEF taken, Types, Interrupted
<1> HIDE DEF Moves
<1>5. ASSUME HandlerPrint(t) PROVE Effect
  <2>1. hpc[t] # 29
    BY <1>1, <1>5, HandlerLines DEF HandlerPrint, HandlerAt
  <2>2. Moves
    BY <1>2, <1>5, <2>1 DEF HandlerPrint
  <2>3. UNCHANGED <<pc, want, handled, server, status, missed>>
    BY <1>5 DEF HandlerPrint
  <2>4. owner' = [owner EXCEPT !["log"] = t] \/ owner' = [owner EXCEPT !["log"] = None]
    BY <1>5 DEF HandlerPrint
  <2>5. owner' \in [Mutexes -> Threads \cup {None}]
    BY <2>4 DEF Types
  <2>6. \A m \in Mutexes : owner'[m] = owner[m] \/ (m = "log" /\ owner'[m] \in {t, None})
    BY <2>4 DEF Types
  <2> QED
    BY <2>2, <2>3, <2>5, <2>6 DEF Moves, Types, handled
<1>6. ASSUME HandlerUses(t) PROVE Effect
  <2>1. Moves /\ UNCHANGED <<pc, want, owner, handled, server, missed>>
    BY <1>4, <1>6 DEF HandlerUses
  <2>2. status' \in {"null", "freed"}
    BY <1>6 DEF HandlerUses, End
  <2> QED
    BY <2>1, <2>2 DEF Moves, Types, handled
<1>7. ASSUME Halt(t) PROVE Effect
  <2>1. hpc[t] # 29
    BY <1>1, <1>7, HandlerLines DEF Halt, HandlerAt
  <2>2. Moves
    BY <1>2, <1>7, <2>1 DEF Halt
  <2> QED
    BY <1>7, <2>2 DEF Halt, Moves, Types
<1>8. ASSUME DestroyCond(t) PROVE Effect
  <2>1. hpc[t] # 29
    BY <1>1, <1>8, HandlerLines DEF DestroyCond, HandlerAt
  <2>2. Moves
    BY <1>2, <1>8, <2>1 DEF DestroyCond
  <2> QED
    BY <1>8, <2>2 DEF DestroyCond, Moves, Types, handled
<1>9. ASSUME DestroyThds(t) PROVE Effect
  <2>1. hpc[t] # 29
    BY <1>1, <1>9, HandlerLines DEF DestroyThds, HandlerAt
  <2>2. Moves
    BY <1>2, <1>4, <1>9, <2>1 DEF DestroyThds
  <2>3. /\ UNCHANGED <<pc, want, owner, handled, missed>>
        /\ server' \in {server, "deleted"} /\ status' \in {status, "abort"}
    BY <1>9 DEF DestroyThds, End
  <2> QED
    BY <2>2, <2>3 DEF Moves, Types, handled
<1>10. ASSUME Exit(t) PROVE Effect
  <2>1. Moves
    BY <1>4, <1>10 DEF Exit
  <2> QED
    BY <1>10, <2>1 DEF Exit, Moves, Types, End, handled
<1>11. ASSUME NEW p \in Pools, TestPool(t, p) PROVE Effect
  <2>1. hpc[t] \in {3, 15, 21}
    BY <1>1, <1>11, PoolLines DEF TestPool, HandlerAt
  <2>2. Moves
    BY <1>2, <1>3, <1>11, <2>1 DEF TestPool
  <2> QED
    BY <1>11, <2>2 DEF TestPool, Moves, Types, handled
<1>12. ASSUME NEW p \in Pools, StopPool(t, p) PROVE Effect
  <2>1. hpc[t] \in {4, 16, 22}
    BY <1>1, <1>12, PoolLines DEF StopPool, HandlerAt
  <2>2. Moves
    BY <1>2, <1>12, <2>1 DEF StopPool
  <2> QED
    BY <1>12, <2>2 DEF StopPool, Moves, Types
<1>13. ASSUME NEW p \in Pools, NotifyPool(t, p) PROVE Effect
  <2>1. hpc[t] \in {5, 17, 23}
    BY <1>1, <1>13, PoolLines DEF NotifyPool, HandlerAt
  <2>2. Moves
    BY <1>2, <1>13, <2>1 DEF NotifyPool
  <2>3. \A u \in Threads : pc'[u] = pc[u] \/ (pc[u] = "waiting" /\ pc'[u] = "lock" /\ hpc[u] = 0)
    BY <1>13 DEF NotifyPool, Waiting
  <2>4. pc' \in [Threads -> {"boot", "run", "spinning", "left", "lock", "block", "waiting", "exited"}]
    BY <1>13 DEF NotifyPool, Types
  <2>5. missed' \subseteq Io \cup Workers
    BY <1>13, PoolThreads DEF NotifyPool, Types
  <2> QED
    BY <1>13, <2>2, <2>3, <2>4, <2>5 DEF NotifyPool, Moves, Types, handled
<1>14. ASSUME NEW p \in Pools, JoinPool(t, p) PROVE Effect
  <2>1. hpc[t] # 29
    BY <1>1, <1>14, PoolLines DEF JoinPool, HandlerAt
  <2>2. Moves
    BY <1>2, <1>4, <1>14, <2>1 DEF JoinPool
  <2>3. \A u \in Threads : Joins(t, u) => u \in Io \cup Workers
    BY PoolThreads DEF Joins
  <2>4. UNCHANGED <<pc, want, owner, stop, halted, server, missed>>
    BY <1>14 DEF JoinPool
  <2>5. /\ joiner' \in [Pools -> Threads \cup {None}]
        /\ status' \in {"running", "abort"}
    BY <1>1, <1>14 DEF JoinPool, End, Types
  <2>6. joined' = joined \/ \E u \in Threads : Joins(t, u) /\ pc[u] = "exited" /\ joined' = joined \cup {u}
    BY <1>14 DEF JoinPool
  <2> QED
    BY <2>2, <2>3, <2>4, <2>5, <2>6 DEF Moves, Types
<1> QED
  BY <1>1, <1>5, <1>6, <1>7, <1>8, <1>9, <1>10, <1>11, <1>12, <1>13, <1>14 DEF HandlerStep

\* What a signal changes.
LEMMA SignalEffect ==
    ASSUME Types, NEW t \in Threads, Signal(t)
    PROVE  /\ Types'
           /\ status = "running" /\ pc[t] # "exited"
           /\ hpc' = [hpc EXCEPT ![t] = 1] /\ hpc'[t] = 1
           /\ \A u \in Threads : u # t => hpc'[u] = hpc[u]
           /\ Interrupted' = Interrupted \cup {t}
           /\ signals' = signals + 1 /\ signals \in Nat
           /\ nested' = IF hpc[t] = 0 THEN nested ELSE nested \cup {t}
           /\ want' = [want EXCEPT ![t] = None]
           /\ missed' = missed \cup {u \in Io \cup Workers :
                            HandlerAt(t, Notify[Pool(u)]) /\ pc[u] \in {"block", "waiting"}}
           /\ UNCHANGED <<pc, owner, stop, halted, joiner, joined, server, status>>
<1>1. /\ status = "running" /\ pc[t] # "exited" /\ signals < MaxSignals
      /\ hpc' = [hpc EXCEPT ![t] = 1]
      /\ signals' = signals + 1
      /\ nested' = IF hpc[t] = 0 THEN nested ELSE nested \cup {t}
      /\ want' = [want EXCEPT ![t] = None]
      /\ missed' = missed \cup {u \in Io \cup Workers :
                       HandlerAt(t, Notify[Pool(u)]) /\ pc[u] \in {"block", "waiting"}}
      /\ UNCHANGED <<pc, owner, stop, halted, joiner, joined, server, status>>
  BY DEF Signal, Running, handled
<1>2. hpc \in [Threads -> 0..29] /\ Len(Handler) = 29
  BY HandlerLines DEF Types
<1>3. /\ hpc' \in [Threads -> 0..29] /\ hpc'[t] = 1
      /\ \A u \in Threads : u # t => hpc'[u] = hpc[u]
  BY <1>1, <1>2
<1>4. Interrupted' = Interrupted \cup {t}
  BY <1>3 DEF Interrupted
<1>5. signals' \in 0..MaxSignals /\ signals \in Nat
  BY <1>1, ThreadsAssumption DEF Types
<1>6. missed' \subseteq Io \cup Workers /\ nested' \subseteq Threads
  BY <1>1 DEF Types
<1>7. want' \in [Threads -> Mutexes \cup {None}]
  BY <1>1 DEF Types
<1>8. Types'
  BY <1>1, <1>2, <1>3, <1>5, <1>6, <1>7 DEF Types
<1> QED
  BY <1>1, <1>3, <1>4, <1>5, <1>8

LEMMA TypesStep == Types /\ [Next]_vars => Types'
<1> SUFFICES ASSUME Types, [Next]_vars PROVE Types'
  OBVIOUS
<1> USE DEF handled, taken
<1>1. CASE Publish
  BY <1>1 DEF Publish, Acts, Free, Running, Goto, Types
<1>2. CASE MainReturns
  BY <1>2 DEF MainReturns, Running, Types
<1>3. ASSUME NEW t \in Threads, Lock(t) PROVE Types'
  <2>1. PICK m \in Lockable(t) :
            IF owner[m] = None
            THEN owner' = [owner EXCEPT ![m] = t] /\ want' = want
            ELSE want' = [want EXCEPT ![t] = m] /\ owner' = owner
    BY <1>3 DEF Lock
  <2>2. m \in Mutexes
    BY <2>1 DEF Lockable, Outermost, Mutexes, Pools
  <2>3. UNCHANGED <<pc, handled, server, taken, status, missed>>
    BY <1>3 DEF Lock
  <2> QED
    BY <2>1, <2>2, <2>3 DEF Types
<1>4. ASSUME NEW t \in Threads, Acquire(t) PROVE Types'
  BY <1>4 DEF Acquire, Types
<1>5. ASSUME NEW t \in Threads, EndRun(t) \/ Spin(t) PROVE Types'
  BY <1>5 DEF EndRun, Spin, Goto, Types
<1>6. ASSUME NEW t \in Threads, UseDeleted(t) PROVE Types'
  BY <1>6 DEF UseDeleted, Types
<1>7. ASSUME NEW t \in Threads, NEW m \in Mutexes, Release(t, m) PROVE Types'
  BY <1>7 DEF Release, Goto, Types
<1>8. ASSUME NEW t \in Threads, Signal(t) PROVE Types'
  BY <1>8, SignalEffect
<1>9. ASSUME NEW t \in Io \cup Workers, Predicate(t) PROVE Types'
  BY <1>9, PoolThreads DEF Predicate, Goto, Types
<1>10. ASSUME NEW t \in Io \cup Workers, Block(t) PROVE Types'
  BY <1>10, PoolThreads DEF Block, Goto, Types
<1>11. ASSUME NEW t \in Threads, HandlerStep(t) PROVE Types'
  BY <1>11, HandlerEffect
<1>12. CASE UNCHANGED vars
  BY <1>12 DEF vars, Types
<1> QED
  BY <1>1, <1>2, <1>3, <1>4, <1>5, <1>6, <1>7, <1>8, <1>9, <1>10, <1>11, <1>12
     DEF Next

\* Who holds a mutex and is not in the handler can give it back: he is not
\* asleep, he has a pool's only on the way to sleep, and if he waits for another
\* it is the logger's, which is the innermost.  The handler holds at most the
\* logger's beside what its thread had.
LockOrder ==
    /\ \A m \in Mutexes, t \in Threads : owner[m] = t =>
          /\ m # "log" \/ hpc[t] = 0 =>
                 pc[t] \in {"boot", "run", "block"} /\ (pc[t] = "block" => m = Pool(t))
          /\ hpc[t] = 0 => want[t] \in {None, "log"} /\ (m = "log" => want[t] = None)
    /\ \A t \in Threads :
          /\ want[t] # None => pc[t] \in {"boot", "run"} /\ hpc[t] = 0
          /\ pc[t] = "block" => owner[Pool(t)] = t
          /\ pc[t] = "boot" => t = Main

LEMMA LockOrderStep == Types /\ LockOrder /\ [Next]_vars => LockOrder'
<1> SUFFICES ASSUME Types, LockOrder, [Next]_vars PROVE LockOrder'
  OBVIOUS
<1> USE DEF handled, taken
<1>0. /\ \A t \in Threads : Pool(t) \in Mutexes /\ Pool(t) # "log"
      /\ \A t \in Threads : t \notin {"log", "svr", "io", "work"} /\ t # None
      /\ "log" \in Mutexes
      /\ \A t \in Io \cup Workers : t \in Threads /\ t # Main
  BY PoolThreads DEF Pool
<1>1. CASE Publish
  BY <1>0, <1>1 DEF Publish, Acts, Goto, Held, Types, LockOrder
<1>2. CASE MainReturns
  BY <1>2 DEF MainReturns, LockOrder
<1>3. ASSUME NEW t \in Threads, Lock(t) PROVE LockOrder'
  <2>1. PICK m \in Lockable(t) :
            IF owner[m] = None
            THEN owner' = [owner EXCEPT ![m] = t] /\ want' = want
            ELSE want' = [want EXCEPT ![t] = m] /\ owner' = owner
    BY <1>3 DEF Lock
  <2>2. /\ pc' = pc /\ hpc' = hpc /\ hpc[t] = 0 /\ want[t] = None /\ pc[t] \in {"boot", "run"}
    BY <1>3 DEF Lock, Acts, Free
  <2>3. m \in Mutexes
    BY <2>1 DEF Lockable, Outermost, Mutexes, Pools
  <2>4. ASSUME NEW k \in Mutexes, owner[k] = t PROVE m = "log" /\ owner["log"] # t
    <3>1. k \in Held(t)
      BY <2>4 DEF Held
    <3>2. t \notin Workers /\ Held(t) \subseteq {"svr", t} /\ m = "log"
      BY <2>1, <3>1 DEF Lockable
    <3>3. "log" \notin Held(t)
      BY <1>0, <3>2
    <3> QED
      BY <1>0, <3>2, <3>3 DEF Held
  <2>5. CASE owner[m] = None
    <3>1. owner' = [owner EXCEPT ![m] = t] /\ want' = want
      BY <2>1, <2>5
    <3> QED
      BY <1>0, <2>2, <2>3, <2>5, <3>1 DEF Types, LockOrder
  <2>6. CASE owner[m] # None
    <3>1. want' = [want EXCEPT ![t] = m] /\ owner' = owner
      BY <2>1, <2>6
    <3> QED
      BY <1>0, <2>2, <2>3, <2>4, <3>1 DEF Types, LockOrder
  <2> QED
    BY <2>5, <2>6
<1>4. ASSUME NEW t \in Threads, Acquire(t) PROVE LockOrder'
  BY <1>0, <1>4 DEF Acquire, Types, LockOrder
<1>5. ASSUME NEW t \in Threads, EndRun(t) \/ Spin(t) PROVE LockOrder'
  BY <1>0, <1>5 DEF EndRun, Spin, Acts, Goto, Held, Types, LockOrder
<1>6. ASSUME NEW t \in Threads, UseDeleted(t) PROVE LockOrder'
  BY <1>6 DEF UseDeleted, LockOrder
<1>7. ASSUME NEW t \in Threads, NEW m \in Mutexes, Release(t, m) PROVE LockOrder'
  BY <1>0, <1>7 DEF Release, Acts, Free, Goto, Waiting, Types, LockOrder
<1>8. ASSUME NEW t \in Threads, Signal(t) PROVE LockOrder'
  <2>1. /\ UNCHANGED <<pc, owner>> /\ want' = [want EXCEPT ![t] = None]
        /\ hpc'[t] = 1 /\ \A u \in Threads : u # t => hpc'[u] = hpc[u]
    BY <1>8, SignalEffect
  <2> QED
    BY <2>1 DEF Types, LockOrder
<1>9. ASSUME NEW t \in Io \cup Workers, Predicate(t) PROVE LockOrder'
  BY <1>0, <1>9 DEF Predicate, At, Free, Goto, Types, LockOrder
<1>10. ASSUME NEW t \in Io \cup Workers, Block(t) PROVE LockOrder'
  BY <1>0, <1>10 DEF Block, At, Free, Goto, Types, LockOrder
<1>11. ASSUME NEW t \in Threads, HandlerStep(t) PROVE LockOrder'
  <2>1. /\ want' = want /\ hpc[t] # 0 /\ hpc'[t] # 0
        /\ \A m \in Mutexes : owner'[m] = owner[m] \/ (m = "log" /\ owner'[m] \in {t, None})
        /\ \A u \in Threads : pc'[u] = pc[u] \/ (pc[u] = "waiting" /\ pc'[u] = "lock")
        /\ \A u \in Threads : u # t => hpc'[u] = hpc[u]
    <3>1. hpc[t] \in 1..29 /\ Interrupted' = Interrupted
      BY <1>11, HandlerEffect
    <3>2. hpc[t] # 0 /\ hpc'[t] # 0
      BY <3>1 DEF Interrupted
    <3> QED
      BY <1>11, <3>2, HandlerEffect
  <2> QED
    BY <1>0, <2>1 DEF Types, LockOrder
<1>12. CASE UNCHANGED vars
  BY <1>12 DEF vars, LockOrder
<1> QED
  BY <1>1, <1>2, <1>3, <1>4, <1>5, <1>6, <1>7, <1>8, <1>9, <1>10, <1>11, <1>12
     DEF Next

-----------------------------------------------------------------------------
(* Threads that have ended, and threads in the handler *)

\* Nothing happens any more when the process has ended, and only a handler
\* changes what a handler changes.
LEMMA OtherStep ==
    ASSUME Types, [Next]_vars,
           \A t \in Threads : ~HandlerStep(t) /\ ~Signal(t)
    PROVE  /\ UNCHANGED <<handled, taken, missed>>
           /\ status = "running" \/ UNCHANGED vars
           /\ Interrupted' = Interrupted
<1> USE DEF handled, taken
<1>1. hpc' = hpc => Interrupted' = Interrupted
  BY DEF Interrupted
<1>2. CASE Publish \/ MainReturns
  BY <1>1, <1>2 DEF Publish, MainReturns, Acts, Free, Running
<1>3. ASSUME NEW t \in Threads,
             Lock(t) \/ Acquire(t) \/ EndRun(t) \/ Spin(t) \/ UseDeleted(t)
      PROVE  UNCHANGED <<handled, taken, missed>> /\ status = "running"
  BY <1>3 DEF Lock, Acquire, EndRun, Spin, UseDeleted, Acts, Free, Running
<1>4. ASSUME NEW t \in Threads, NEW m \in Mutexes, Release(t, m)
      PROVE  UNCHANGED <<handled, taken, missed>> /\ status = "running"
  BY <1>4 DEF Release, Acts, Free, Running
<1>5. ASSUME NEW t \in Io \cup Workers, Predicate(t) \/ Block(t)
      PROVE  UNCHANGED <<handled, taken, missed>> /\ status = "running"
  BY <1>5 DEF Predicate, Block, At, Free, Running
<1>6. CASE UNCHANGED vars
  BY <1>1, <1>6 DEF vars
<1> QED
  BY <1>1, <1>2, <1>3, <1>4, <1>5, <1>6 DEF Next

\* A thread that has left its loop does not come back.
LEMMA ExitedStays ==
    ASSUME Types, [Next]_vars, NEW u \in Threads, pc[u] = "exited"
    PROVE  pc'[u] = "exited"
<1>1. CASE Publish
  BY <1>1 DEF Publish, Goto, Types
<1>2. CASE MainReturns
  BY <1>2 DEF MainReturns
<1>3. ASSUME NEW t \in Threads, Lock(t) \/ Acquire(t) \/ UseDeleted(t) \/ Signal(t)
      PROVE  pc'[u] = "exited"
  BY <1>3 DEF Lock, Acquire, UseDeleted, Signal
<1>4. ASSUME NEW t \in Threads, EndRun(t) \/ Spin(t) PROVE pc'[u] = "exited"
  BY <1>4 DEF EndRun, Spin, Goto, Types
<1>5. ASSUME NEW t \in Threads, NEW m \in Mutexes, Release(t, m) PROVE pc'[u] = "exited"
  BY <1>5 DEF Release, Goto, Waiting, Types
<1>6. ASSUME NEW t \in Io \cup Workers, Predicate(t) \/ Block(t) PROVE pc'[u] = "exited"
  BY <1>6 DEF Predicate, Block, At, Goto, Types
<1>7. ASSUME NEW t \in Threads, HandlerStep(t) PROVE pc'[u] = "exited"
  <2>1. pc'[u] = pc[u] \/ (pc[u] = "waiting" /\ pc'[u] = "lock")
    BY <1>7, HandlerEffect
  <2> QED
    BY <2>1
<1>8. CASE UNCHANGED vars
  BY <1>8 DEF vars
<1> QED
  BY <1>1, <1>2, <1>3, <1>4, <1>5, <1>6, <1>7, <1>8 DEF Next

\* Who was joined has exited, and who is in the handler has not.  The main
\* thread is in no pool, and not before line 48 once there is a server; no
\* handler comes past echosvr.cc:63 without one.
Ends ==
    /\ Exited(joined)
    /\ \A t \in Threads : hpc[t] # 0 => pc[t] # "exited"
    /\ pc[Main] \in {"boot", "run", "left"}
    /\ server # "null" => pc[Main] # "boot"
    /\ server = "null" => \A t \in Threads : hpc[t] <= 3

LEMMA EndsStep == Types /\ LockOrder /\ Ends /\ [Next]_vars => Ends'
<1> SUFFICES ASSUME Types, LockOrder, Ends, [Next]_vars PROVE Ends'
  OBVIOUS
<1> USE DEF handled, taken
<1>1. Exited(joined)'
  <2>1. ASSUME NEW t \in Threads, HandlerStep(t) PROVE \A u \in joined' : pc'[u] = "exited"
    <3>1. /\ \A u \in joined' \ joined : pc[u] = "exited" /\ pc' = pc
          /\ joined \subseteq Threads
      BY <2>1, HandlerEffect DEF Types, Threads
    <3>2. \A u \in joined : pc'[u] = "exited"
      BY <3>1, ExitedStays DEF Ends, Exited
    <3> QED
      BY <3>1, <3>2
  <2>2. ASSUME joined' = joined PROVE \A u \in joined' : pc'[u] = "exited"
    <3>1. joined \subseteq Threads
      BY DEF Types, Threads
    <3> QED
      BY <2>2, <3>1, ExitedStays DEF Ends, Exited
  <2>3. joined' = joined \/ \E t \in Threads : HandlerStep(t)
    BY OtherStep, SignalEffect
  <2> QED
    BY <2>1, <2>2, <2>3 DEF Exited
<1>2. ASSUME NEW t \in Threads, hpc'[t] # 0 PROVE pc'[t] # "exited"
  <2>1. CASE Publish \/ MainReturns \/ UNCHANGED vars
    BY <1>2, <2>1 DEF Publish, MainReturns, vars, Acts, Free, Goto, Types, Ends
  <2>2. ASSUME NEW u \in Threads, Lock(u) \/ Acquire(u) \/ EndRun(u) \/ Spin(u) \/ UseDeleted(u)
        PROVE  pc'[t] # "exited"
    BY <1>2, <2>2 DEF Lock, Acquire, EndRun, Spin, UseDeleted, Acts, Free, Goto, Types, Ends
  <2>3. ASSUME NEW u \in Threads, NEW m \in Mutexes, Release(u, m) PROVE pc'[t] # "exited"
    BY <1>2, <2>3 DEF Release, Goto, Types, Ends
  <2>4. ASSUME NEW u \in Threads, Signal(u) PROVE pc'[t] # "exited"
    BY <1>2, <2>4, SignalEffect DEF Ends
  <2>5. ASSUME NEW u \in Io \cup Workers, Predicate(u) \/ Block(u) PROVE pc'[t] # "exited"
    BY <1>2, <2>5 DEF Predicate, Block, At, Free, Goto, Types, Ends
  <2>6. ASSUME NEW u \in Threads, HandlerStep(u) PROVE pc'[t] # "exited"
    <3>1. Interrupted' = Interrupted /\ (pc'[t] = pc[t] \/ pc'[t] = "lock")
      BY <2>6, HandlerEffect
    <3>2. hpc[t] # 0
      BY <1>2, <3>1 DEF Interrupted
    <3> QED
      BY <3>1, <3>2 DEF Ends
  <2> QED
    BY <2>1, <2>2, <2>3, <2>4, <2>5, <2>6 DEF Next
<1>3. pc'[Main] \in {"boot", "run", "left"} /\ (server' # "null" => pc'[Main] # "boot")
  <2>0. Main \in Threads /\ Main \notin Io \cup Workers
    BY ThreadsAssumption DEF Threads
  <2>1. CASE Publish
    BY <2>0, <2>1 DEF Publish, Goto, Types
  <2>2. CASE MainReturns \/ UNCHANGED vars
    BY <2>2 DEF MainReturns, vars, Ends
  <2>3. ASSUME NEW t \in Threads, Lock(t) \/ Acquire(t) \/ UseDeleted(t)
        PROVE  UNCHANGED <<pc, server>>
    BY <2>3 DEF Lock, Acquire, UseDeleted
  <2>4. ASSUME NEW t \in Threads, EndRun(t) \/ Spin(t)
        PROVE  server' = server /\ pc'[Main] \in {pc[Main], "left"}
    BY <2>0, <2>4 DEF EndRun, Spin, Goto, Types
  <2>5. ASSUME NEW t \in Threads, NEW m \in Mutexes, Release(t, m)
        PROVE  server' = server /\ pc'[Main] = pc[Main]
    <3>1. Waiting("work") \subseteq Io \cup Workers
      BY PoolThreads DEF Waiting, Pools
    <3> QED
      BY <2>0, <2>5, <3>1 DEF Release, Goto, Types
  <2>6. ASSUME NEW t \in Threads, Signal(t) PROVE UNCHANGED <<pc, server>>
    BY <2>6, SignalEffect
  <2>7. ASSUME NEW t \in Io \cup Workers, Predicate(t) \/ Block(t)
        PROVE  server' = server /\ pc'[Main] = pc[Main]
    BY <2>0, <2>7 DEF Predicate, Block, Goto, Types
  <2>8. ASSUME NEW t \in Threads, HandlerStep(t)
        PROVE  pc'[Main] = pc[Main] /\ (server = "null" => server' = "null")
    <3>1. pc'[Main] = pc[Main]
      BY <2>0, <2>8, HandlerEffect DEF Ends
    <3>2. server = "null" => server' = "null"
      <4> SUFFICES ASSUME server = "null" PROVE server' = "null"
        OBVIOUS
      <4>1. ~DestroyThds(t)
        <5>1. hpc[t] \in 1..29 /\ hpc[t] <= 3
          BY <2>8, HandlerEffect DEF Ends
        <5>2. hpc[t] \in 1..29 /\ hpc[t] # 26
          BY <5>1
        <5> QED
          BY <5>2, HandlerLines DEF DestroyThds, HandlerAt
      <4> QED
        BY <2>8, <4>1 DEF HandlerStep, HandlerPrint, HandlerUses, Halt, DestroyCond, Exit, TestPool,
           StopPool, NotifyPool, JoinPool, HasWork
    <3> QED
      BY <3>1, <3>2
  <2> QED
    BY <2>1, <2>2, <2>3, <2>4, <2>5, <2>6, <2>7, <2>8 DEF Next, Ends
<1>4. ASSUME server' = "null", NEW t \in Threads PROVE hpc'[t] <= 3
  <2>1. server = "null"
    <3>1. ASSUME NEW u \in Threads, HandlerStep(u) PROVE server' # "null" \/ server' = server
      BY <3>1 DEF HandlerStep, HandlerPrint, HandlerUses, Halt, DestroyCond, DestroyThds, Exit,
         TestPool, StopPool, NotifyPool, JoinPool
    <3>2. ASSUME NEW u \in Threads, Signal(u) PROVE server' = server
      BY <3>2 DEF Signal
    <3>3. ASSUME NEW u \in Threads, Lock(u) \/ Acquire(u) \/ EndRun(u) \/ Spin(u) \/ UseDeleted(u)
          PROVE  server' = server
      BY <3>3 DEF Lock, Acquire, EndRun, Spin, UseDeleted
    <3>4. ASSUME NEW u \in Threads, NEW m \in Mutexes, Release(u, m) PROVE server' = server
      BY <3>4 DEF Release
    <3>5. ASSUME NEW u \in Io \cup Workers, Predicate(u) \/ Block(u) PROVE server' = server
      BY <3>5 DEF Predicate, Block
    <3>6. CASE Publish \/ MainReturns \/ UNCHANGED vars
      BY <1>4, <3>6 DEF Publish, MainReturns, vars
    <3> QED
      BY <1>4, <3>1, <3>2, <3>3, <3>4, <3>5, <3>6 DEF Next
  <2>2. \A u \in Threads : hpc[u] <= 3 /\ hpc[u] \in Nat
    <3>1. \A u \in Threads : hpc[u] \in 0..29
      BY AtALine
    <3> QED
      BY <2>1, <3>1 DEF Ends
  <2>3. ASSUME NEW u \in Threads, HandlerStep(u) PROVE hpc'[t] <= 3
    <3>1. hpc[u] \in 1..29 /\ hpc[u] \in 1..3 /\ hpc[u] # 26 /\ hpc[u] # 29
      <4>1. hpc[u] \in 1..29 /\ hpc[u] <= 3
        BY <2>2, <2>3, HandlerEffect
      <4> QED
        BY <4>1
    <3>2. HandlerPrint(u) \/ HandlerUses(u)
      <4>1. ~DestroyThds(u) /\ ~Exit(u)
        BY <3>1, HandlerLines DEF DestroyThds, Exit, HandlerAt
      <4> QED
        BY <2>1, <2>3, <4>1 DEF HandlerStep, Halt, DestroyCond, TestPool, StopPool, NotifyPool,
           JoinPool, Has, HasWork, HasTcp
    <3>3. CASE HandlerPrint(u)
      <4>1. hpc[u] \in {1, 2}
        <5>1. hpc[u] \in {1, 7, 10, 13, 19, 27} \cup {2, 8, 11, 14, 20, 28}
          BY <3>1, <3>3, HandlerLines DEF HandlerPrint, HandlerAt
        <5> QED
          BY <3>1, <5>1
      <4>2. hpc' = [hpc EXCEPT ![u] = hpc[u] + 1] /\ hpc \in [Threads -> 0..Len(Handler)]
        BY <3>3 DEF HandlerPrint, Advance, Types
      <4> QED
        BY <2>2, <4>1, <4>2
    <3>4. CASE HandlerUses(u)
      BY <2>2, <3>4 DEF HandlerUses
    <3> QED
      BY <3>2, <3>3, <3>4
  <2>4. ASSUME NEW u \in Threads, Signal(u) PROVE hpc'[t] <= 3
    <3>1. hpc'[u] = 1 /\ \A v \in Threads : v # u => hpc'[v] = hpc[v]
      BY <2>4, SignalEffect
    <3> QED
      BY <2>2, <3>1
  <2>5. CASE \A u \in Threads : ~HandlerStep(u) /\ ~Signal(u)
    BY <2>2, <2>5, OtherStep
  <2> QED
    BY <2>3, <2>4, <2>5
<1> QED
  BY <1>1, <1>2, <1>3, <1>4 DEF Ends, Exited

TypeInv == Types /\ LockOrder /\ Ends

LEMMA InitTypeInv == Init => TypeInv
<1> SUFFICES ASSUME Init PROVE TypeInv
  OBVIOUS
<1>0. Main \in Threads /\ Main \notin Workers
  BY ThreadsAssumption DEF Threads
<1>1. Types
  <2>1. 0 \in 0..Len(Handler) /\ 0 \in 0..MaxSignals
    <3>1. Len(Handler) = 29
      BY HandlerLines
    <3> QED
      BY <3>1, ThreadsAssumption
  <2> QED
    BY <2>1 DEF Init, Types
<1>2. \A t \in Threads : pc[t] # "exited" /\ pc[t] # "block" /\ (pc[t] = "boot" => t = Main)
  BY DEF Init
<1>3. LockOrder
  BY <1>2, ThreadsAssumption DEF Init, LockOrder
<1>4. Ends
  BY <1>0, <1>2 DEF Init, Ends, Exited
<1> QED
  BY <1>1, <1>3, <1>4 DEF TypeInv

LEMMA TypeInvAlways == Spec => []TypeInv
<1>1. TypeInv /\ [Next]_vars => TypeInv'
  BY TypesStep, LockOrderStep, EndsStep DEF TypeInv
<1> QED
  BY <1>1, InitTypeInv, PTL DEF Spec

\* Types, the bound on signals, that who was joined has exited, and the
\* mutexes: outside the handler only a thread that runs or is about to sleep
\* holds one.
THEOREM TypeCorrect == Spec => []TypeOK
<1>1. TypeInv => TypeOK
  <2> SUFFICES ASSUME TypeInv PROVE TypeOK
    OBVIOUS
  <2>1. ASSUME NEW t \in Threads \ Interrupted, pc[t] \notin {"boot", "run"}
        PROVE  Held(t) \subseteq Pools
    <3>1. t \in Threads /\ hpc[t] = 0
      BY DEF Interrupted
    <3> QED
      BY <2>1, <3>1 DEF TypeInv, LockOrder, Held, Pool, Pools
  <2>2. ASSUME NEW t \in Io \cup Workers
        PROVE  pc[t] = "block" <=> owner[Pool(t)] = t /\ pc[t] # "run"
    <3>1. t \in Threads /\ t # Main /\ Pool(t) \in Mutexes /\ Pool(t) # "log"
      BY PoolThreads DEF Pool
    <3> QED
      BY <3>1 DEF TypeInv, LockOrder, Types
  <2> QED
    BY <2>1, <2>2 DEF TypeInv, Ends, TypeOK
<1> QED
  BY <1>1, TypeInvAlways, PTL

-----------------------------------------------------------------------------
(* One signal *)

\* Who took both signals is in the handler; one signal is one thread in the
\* handler, once.
Counted ==
    /\ signals = 0 => Interrupted = {} /\ nested = {}
    /\ signals = 1 => nested = {} /\ \E t \in Threads : Interrupted = {t}

LEMMA CountedAlways == Spec => []Counted
<1>1. Init => Counted
  BY DEF Init, Counted, Interrupted
<1>2. TypeInv /\ Counted /\ [Next]_vars => Counted'
  <2> SUFFICES ASSUME TypeInv, Counted, [Next]_vars PROVE Counted'
    OBVIOUS
  <2> USE DEF TypeInv
  <2>1. ASSUME UNCHANGED <<signals, nested>>, Interrupted' = Interrupted PROVE Counted'
    BY <2>1 DEF Counted
  <2>2. ASSUME NEW t \in Threads, HandlerStep(t) PROVE Counted'
    BY <2>1, <2>2, HandlerEffect
  <2>3. ASSUME NEW t \in Threads, Signal(t) PROVE Counted'
    <3>1. /\ signals' = signals + 1 /\ signals \in Nat
          /\ Interrupted' = Interrupted \cup {t}
          /\ nested' = IF hpc[t] = 0 THEN nested ELSE nested \cup {t}
      BY <2>3, SignalEffect
    <3>2. CASE signals = 0
      <4>1. hpc[t] = 0
        BY <3>2 DEF Counted, Interrupted
      <4> QED
        BY <3>1, <3>2, <4>1 DEF Counted
    <3>3. CASE signals # 0
      BY <3>1, <3>3 DEF Counted
    <3> QED
      BY <3>2, <3>3
  <2>4. CASE \A t \in Threads : ~HandlerStep(t) /\ ~Signal(t)
    BY <2>1, <2>4, OtherStep DEF taken
  <2> QED
    BY <2>2, <2>3, <2>4
<1> QED
  BY <1>1, <1>2, TypeInvAlways, PTL DEF Spec

\* While t is the only thread that took a signal, and no second one, or none
\* did, the line t is at tells what has been stopped, joined and deleted.  Only
\* the main thread can still use what is deleted.
DoneBy(t) ==
    /\ stop["work"] => hpc[t] > 4
    /\ hpc[t] > 6 => Workers \subseteq joined
    /\ halted # {} => hpc[t] > 9
    /\ stop["io"] => hpc[t] > 16
    /\ hpc[t] > 18 => Io \subseteq joined
    /\ server \in {"dying", "deleted"} => hpc[t] > 25
    /\ server = "deleted" => hpc[t] > 26
    /\ status = "exit" => hpc[t] > 28
    /\ status = "freed" => t \in ActThds /\ hpc[t] # 0 /\ pc[Main] = "run"

Alone(t)   == Interrupted \subseteq {t} /\ nested = {}
OneHandler == \A t \in Threads : Alone(t) => DoneBy(t)

\* A handler that is alone does its lines one after the other.
LEMMA AloneStep ==
    ASSUME TypeInv, NEW t \in Threads, DoneBy(t), HandlerStep(t)
    PROVE  DoneBy(t)'
<1>1. hpc[t] \in 1..29 /\ hpc \in [Threads -> 0..29] /\ status = "running"
  <2>1. Len(Handler) = 29
    BY HandlerLines
  <2> QED
    BY <2>1, HandlerEffect DEF TypeInv, Types
<1>2. ASSUME Advance(t, 1) PROVE hpc'[t] = hpc[t] + 1
  BY <1>1, <1>2 DEF Advance
<1>3. ASSUME Advance(t, 4) PROVE hpc'[t] = hpc[t] + 4
  BY <1>1, <1>3 DEF Advance
<1>4. CASE HandlerPrint(t)
  <2>1. hpc[t] \in {1, 7, 10, 13, 19, 27} \cup {2, 8, 11, 14, 20, 28}
    BY <1>1, <1>4, HandlerLines DEF HandlerPrint, HandlerAt
  <2>2. hpc'[t] = hpc[t] + 1
    BY <1>2, <1>4 DEF HandlerPrint
  <2>3. UNCHANGED <<stop, halted, joined, server, status>>
    BY <1>4 DEF HandlerPrint, handled
  <2>4. hpc[t] \notin {6, 18}
    BY <2>1
  <2> QED
    BY <1>1, <2>2, <2>3, <2>4 DEF DoneBy
<1>5. CASE HandlerUses(t)
  <2>1. \/ Handler[hpc[t]] \in UsesWork /\ ~HasWork
        \/ Handler[hpc[t]] \in UsesTcp /\ ~HasTcp
    BY <1>5 DEF HandlerUses
  <2>2. hpc[t] \notin {26, 27, 28, 29}
    <3>1. Handler[hpc[t]] \notin {"destroy thds", "log", "unlog", "exit"}
      BY <2>1 DEF UsesWork, UsesTcp
    <3> QED
      BY <1>1, <3>1, HandlerLines
  <2>3. ~(hpc[t] > 25)
    BY <1>1, <2>2
  <2>4. server = "null"
    BY <2>1, <2>3 DEF DoneBy, TypeInv, Types, HasWork, HasTcp
  <2>5. status' = "null" /\ UNCHANGED <<stop, halted, joined, server, hpc>>
    BY <1>5, <2>4 DEF HandlerUses, End, handled, taken
  <2> QED
    BY <2>5 DEF DoneBy
<1>6. CASE Halt(t)
  <2>1. hpc[t] \in {9, 12}
    BY <1>1, <1>6, HandlerLines DEF Halt, HandlerAt
  <2>2. hpc'[t] = hpc[t] + 1
    BY <1>2, <1>6 DEF Halt
  <2>3. UNCHANGED <<stop, joined, server, status>>
    BY <1>6 DEF Halt
  <2> QED
    BY <1>1, <2>1, <2>2, <2>3 DEF DoneBy
<1>7. CASE DestroyCond(t)
  <2>1. hpc[t] = 25
    BY <1>1, <1>7, HandlerLines DEF DestroyCond, HandlerAt
  <2>2. hpc'[t] = hpc[t] + 1
    BY <1>2, <1>7 DEF DestroyCond
  <2>3. UNCHANGED <<stop, halted, joined, status>> /\ server' = "dying"
    BY <1>7 DEF DestroyCond, handled
  <2> QED
    BY <1>1, <2>1, <2>2, <2>3 DEF DoneBy
<1>8. CASE DestroyThds(t)
  <2>1. hpc[t] = 26
    BY <1>1, <1>8, HandlerLines DEF DestroyThds, HandlerAt
  <2>2. UNCHANGED <<stop, halted, joined>>
    BY <1>8 DEF DestroyThds, handled
  <2>3. CASE server' = "deleted" /\ Advance(t, 1) /\ UNCHANGED status
    <3>1. hpc'[t] = 27
      BY <1>2, <2>1, <2>3
    <3> QED
      BY <1>1, <2>1, <2>2, <2>3, <3>1 DEF DoneBy
  <2>4. CASE status' = "abort" /\ UNCHANGED <<server, taken>>
    BY <2>2, <2>4 DEF DoneBy, taken
  <2> QED
    BY <1>8, <2>3, <2>4 DEF DestroyThds, End
<1>9. CASE Exit(t)
  <2>1. hpc[t] = 29
    BY <1>1, <1>9, HandlerLines DEF Exit, HandlerAt
  <2> QED
    BY <1>9, <2>1 DEF Exit, End, DoneBy, handled, taken
<1>10. ASSUME NEW p \in Pools, TestPool(t, p) PROVE DoneBy(t)'
  <2>1. /\ hpc[t] \in (IF p = "io" THEN {15} ELSE {3, 21})
        /\ UNCHANGED <<stop, halted, joined, server, status>>
    BY <1>1, <1>10, PoolLines DEF TestPool, HandlerAt, handled
  <2>2. CASE stop[p]
    <3>1. hpc[t] = 21
      BY <2>1, <2>2 DEF DoneBy, Pools
    <3>2. hpc'[t] = 25
      BY <1>3, <1>10, <2>2, <3>1 DEF TestPool
    <3> QED
      BY <1>1, <2>1, <3>1, <3>2 DEF DoneBy
  <2>3. CASE ~stop[p]
    <3>1. hpc'[t] = hpc[t] + 1
      BY <1>2, <1>10, <2>3 DEF TestPool
    <3>2. hpc[t] \notin {6, 18}
      BY <2>1
    <3> QED
      BY <1>1, <2>1, <3>1, <3>2 DEF DoneBy
  <2> QED
    BY <2>2, <2>3
<1>11. ASSUME NEW p \in Pools, StopPool(t, p) PROVE DoneBy(t)'
  <2>1. hpc[t] \in (IF p = "io" THEN {16} ELSE {4, 22})
    BY <1>1, <1>11, PoolLines DEF StopPool, HandlerAt
  <2>2. hpc'[t] = hpc[t] + 1
    BY <1>2, <1>11 DEF StopPool
  <2>3. stop' = [stop EXCEPT ![p] = TRUE] /\ stop \in [Pools -> BOOLEAN]
    BY <1>11 DEF StopPool, TypeInv, Types
  <2>4. stop'["work"] => hpc'[t] > 4
    BY <1>1, <2>1, <2>2, <2>3 DEF DoneBy, Pools
  <2>5. stop'["io"] => hpc'[t] > 16
    BY <1>1, <2>1, <2>2, <2>3 DEF DoneBy, Pools
  <2>6. UNCHANGED <<halted, joined, server, status>>
    BY <1>11 DEF StopPool
  <2>7. hpc[t] \notin {6, 18}
    BY <2>1
  <2> QED
    BY <1>1, <2>2, <2>4, <2>5, <2>6, <2>7 DEF DoneBy
<1>12. ASSUME NEW p \in Pools, NotifyPool(t, p) PROVE DoneBy(t)'
  <2>1. hpc[t] \in (IF p = "io" THEN {17} ELSE {5, 23})
    BY <1>1, <1>12, PoolLines DEF NotifyPool, HandlerAt
  <2>2. hpc'[t] = hpc[t] + 1
    BY <1>2, <1>12 DEF NotifyPool
  <2>3. UNCHANGED <<stop, halted, joined, server, status>>
    BY <1>12 DEF NotifyPool, handled
  <2>4. hpc[t] \notin {6, 18}
    BY <2>1
  <2> QED
    BY <1>1, <2>2, <2>3, <2>4 DEF DoneBy
<1>13. ASSUME NEW p \in Pools, JoinPool(t, p) PROVE DoneBy(t)'
  <2>1. /\ hpc[t] \in (IF p = "io" THEN {18} ELSE {6, 24})
        /\ UNCHANGED <<stop, halted, server>>
    BY <1>1, <1>13, PoolLines DEF JoinPool, HandlerAt
  <2>2. CASE Elements(Thds(p)) \subseteq joined /\ Advance(t, 1) /\ UNCHANGED <<joined, status>>
    <3>1. hpc'[t] = hpc[t] + 1
      BY <1>2, <2>2
    <3>2. (IF p = "io" THEN Io ELSE Workers) \subseteq joined
      BY <2>2 DEF Thds, Io, Workers
    <3> QED
      BY <1>1, <2>1, <2>2, <3>1, <3>2 DEF DoneBy
  <2>3. CASE hpc' = hpc /\ joined \subseteq joined' /\ status' \in {"running", "abort"}
    BY <1>1, <2>1, <2>3 DEF DoneBy
  <2> QED
    BY <1>1, <1>13, <2>2, <2>3 DEF JoinPool, End, taken
<1> QED
  BY <1>4, <1>5, <1>6, <1>7, <1>8, <1>9, <1>10, <1>11, <1>12, <1>13 DEF HandlerStep

\* The only handler is in no thread of a pool if it has joined the pools: such a
\* thread does not exit while it is in the handler.
LEMMA OfNoPool ==
    ASSUME TypeInv, NEW t \in Threads, DoneBy(t), hpc[t] > 18
    PROVE  t \in {Main} \cup ActThds /\ Exited(Io \cup Workers) /\ joined = Io \cup Workers
<1>0. hpc[t] \in Nat /\ hpc[t] # 0
  BY AtALine DEF TypeInv
<1>1. Io \subseteq joined /\ Workers \subseteq joined
  BY <1>0 DEF DoneBy
<1>2. joined = Io \cup Workers /\ Exited(Io \cup Workers)
  BY <1>1 DEF TypeInv, Types, Ends, Exited
<1>3. pc[t] # "exited"
  BY <1>0 DEF TypeInv, Ends
<1> QED
  BY <1>2, <1>3 DEF Exited, Threads

LEMMA OneHandlerStep == TypeInv /\ OneHandler /\ [Next]_vars => OneHandler'
<1> SUFFICES ASSUME TypeInv, OneHandler, [Next]_vars, NEW t \in Threads, Alone(t)'
             PROVE  DoneBy(t)'
  BY DEF OneHandler
<1>0. hpc[t] \in Nat
  BY AtALine DEF TypeInv
<1>1. ASSUME NEW u \in Threads, HandlerStep(u) PROVE DoneBy(t)'
  <2>1. Alone(t) /\ u \in Interrupted
    <3>1. Interrupted' = Interrupted /\ nested' = nested /\ hpc[u] \in 1..29
      BY <1>1, HandlerEffect DEF TypeInv
    <3> QED
      BY <3>1 DEF Alone, Interrupted
  <2>2. u = t /\ DoneBy(t)
    BY <2>1 DEF Alone, OneHandler
  <2> QED
    BY <1>1, <2>2, AloneStep
<1>2. ASSUME NEW u \in Threads, Signal(u) PROVE DoneBy(t)'
  <2>1. /\ hpc'[u] = 1 /\ Interrupted' = Interrupted \cup {u}
        /\ nested' = IF hpc[u] = 0 THEN nested ELSE nested \cup {u}
        /\ status = "running"
        /\ UNCHANGED <<pc, stop, halted, joined, server, status>>
    BY <1>2, SignalEffect DEF TypeInv
  <2>2. u = t /\ hpc[t] = 0 /\ nested = {} /\ Interrupted \subseteq {t}
    BY <2>1 DEF Alone
  <2>3. DoneBy(t)
    BY <2>2 DEF OneHandler, Alone
  <2> QED
    BY <2>1, <2>2, <2>3 DEF DoneBy
<1>3. ASSUME \A u \in Threads : ~HandlerStep(u) /\ ~Signal(u) PROVE DoneBy(t)'
  <2>1. /\ UNCHANGED <<stop, halted, joined, hpc>>
        /\ status = "running" \/ UNCHANGED vars
        /\ Alone(t)
    <3>1. Interrupted' = Interrupted /\ UNCHANGED <<handled, taken>>
      BY <1>3, OtherStep DEF TypeInv
    <3> QED
      BY <1>3, <3>1, OtherStep DEF TypeInv, Alone, handled, taken
  <2>2. DoneBy(t)
    BY <2>1 DEF OneHandler
  <2>3. CASE UNCHANGED vars
    BY <2>2, <2>3 DEF vars, handled, taken, DoneBy
  <2>4. CASE Publish
    <3>1. server' = "up" /\ status' = status /\ status = "running"
      BY <2>4 DEF Publish, Acts, Free, Running
    <3> QED
      BY <2>1, <2>2, <3>1 DEF DoneBy
  <2>5. CASE MainReturns
    <3>1. status' = "return" /\ server' = server
      BY <2>5 DEF MainReturns
    <3> QED
      BY <2>1, <2>2, <3>1 DEF DoneBy
  <2>6. ASSUME NEW u \in Threads, UseDeleted(u) PROVE DoneBy(t)'
    <3>1. /\ hpc[u] = 0 /\ pc[u] \notin {"left", "waiting", "exited"}
          /\ \/ server = "deleted" /\ u \notin ActThds
             \/ server = "dying" /\ u \in Io \cup Workers
          /\ UNCHANGED <<pc, server>> /\ status' = "freed"
      BY <2>6 DEF UseDeleted
    <3>2. hpc[t] > 18
      BY <1>0, <2>2, <3>1 DEF DoneBy
    <3>3. t \in {Main} \cup ActThds /\ Exited(Io \cup Workers)
      BY <2>2, <3>2, OfNoPool
    <3>4. u \notin Io \cup Workers
      BY <3>1, <3>3 DEF Exited
    <3>5. u = Main /\ server = "deleted"
      BY <3>1, <3>4 DEF Threads
    <3>6. hpc[t] # 0
      BY <1>0, <3>2
    <3>7. t # Main /\ pc[Main] = "run"
      BY <3>1, <3>5, <3>6 DEF TypeInv, Ends
    <3> QED
      BY <2>1, <2>2, <3>1, <3>3, <3>6, <3>7 DEF DoneBy
  <2>7. CASE UNCHANGED <<server, status>> /\ status = "running"
    BY <2>1, <2>2, <2>7 DEF DoneBy
  <2>8. ASSUME NEW u \in Threads, Lock(u) \/ Acquire(u) \/ EndRun(u) \/ Spin(u) PROVE DoneBy(t)'
    BY <2>7, <2>8 DEF Lock, Acquire, EndRun, Spin, Acts, Free, Running
  <2>9. ASSUME NEW u \in Threads, NEW m \in Mutexes, Release(u, m) PROVE DoneBy(t)'
    BY <2>7, <2>9 DEF Release, Acts, Free, Running
  <2>10. ASSUME NEW u \in Io \cup Workers, Predicate(u) \/ Block(u) PROVE DoneBy(t)'
    BY <2>7, <2>10 DEF Predicate, Block, At, Free, Running
  <2> QED
    BY <1>3, <2>3, <2>4, <2>5, <2>6, <2>8, <2>9, <2>10 DEF Next
<1> QED
  BY <1>1, <1>2, <1>3

LEMMA OneHandlerAlways == Spec => []OneHandler
<1>1. Init => OneHandler
  <2> SUFFICES ASSUME Init, NEW t \in Threads PROVE DoneBy(t)
    BY DEF OneHandler
  <2>1. hpc[t] = 0 /\ ~stop["work"] /\ ~stop["io"] /\ halted = {} /\ server = "null"
        /\ status = "running"
    BY DEF Init, Pools
  <2> QED
    BY <2>1 DEF DoneBy
<1> QED
  BY <1>1, OneHandlerStep, TypeInvAlways, PTL DEF Spec

\* After one signal its thread has done what its line tells.
LEMMA OneSignal ==
    ASSUME TypeInv, Counted, OneHandler, signals = 1
    PROVE  \E t \in Threads : Interrupted = {t} /\ hpc[t] \in 1..29 /\ DoneBy(t)
<1>1. PICK t \in Threads : Interrupted = {t} /\ nested = {}
  BY DEF Counted
<1>2. hpc[t] \in 1..29
  BY <1>1, AtALine DEF TypeInv, Interrupted
<1> QED
  BY <1>1, <1>2 DEF OneHandler, Alone

\* After one signal the workers have ended before a loop is told to stop
\* (echosvr.cc:63-66), every thread of the pools before the server is destroyed
\* (main.cc:19-20, threadpool.cc:33-35), and nobody uses it afterwards unless
\* the signal went to an actor's thread and the main thread is in its loop.
THEOREM OrderOfShutdown == Spec => []StopsInOrder
<1>1. TypeInv /\ Counted /\ OneHandler => StopsInOrder
  <2> SUFFICES ASSUME TypeInv, Counted, OneHandler, signals = 1
               PROVE  /\ halted # {} => Exited(Workers)
                      /\ server \in {"dying", "deleted"} => Exited(Io \cup Workers)
                      /\ status = "freed" => Interrupted \subseteq ActThds /\ pc[Main] = "run"
    BY DEF StopsInOrder
  <2>1. PICK t \in Threads : Interrupted = {t} /\ hpc[t] \in 1..29 /\ DoneBy(t)
    BY OneSignal
  <2>2. halted # {} => Workers \subseteq joined
    BY <2>1 DEF DoneBy
  <2>3. ASSUME server \in {"dying", "deleted"} PROVE Exited(Io \cup Workers)
    <3>1. hpc[t] > 18
      BY <2>1, <2>3 DEF DoneBy
    <3> QED
      BY <2>1, <3>1, OfNoPool
  <2>4. status = "freed" => Interrupted \subseteq ActThds /\ pc[Main] = "run"
    BY <2>1 DEF DoneBy
  <2> QED
    BY <2>2, <2>3, <2>4 DEF TypeInv, Ends, Exited
<1> QED
  BY <1>1, TypeInvAlways, CountedAlways, OneHandlerAlways, PTL

\* After one signal the process reaches exit(0) (main.cc:22) only in the main
\* thread or in an actor's, with every thread of the pools joined.
THEOREM ExitIsClean == Spec => []CleanEnd
<1>1. TypeInv /\ Counted /\ OneHandler => CleanEnd
  <2> SUFFICES ASSUME TypeInv, Counted, OneHandler, status = "exit", signals = 1
               PROVE  Interrupted \subseteq {Main} \cup ActThds /\ joined = Io \cup Workers
    BY DEF CleanEnd
  <2>1. PICK t \in Threads : Interrupted = {t} /\ hpc[t] \in 1..29 /\ DoneBy(t)
    BY OneSignal
  <2>2. hpc[t] > 18
    BY <2>1 DEF DoneBy
  <2> QED
    BY <2>1, <2>2, OfNoPool
<1> QED
  BY <1>1, TypeInvAlways, CountedAlways, OneHandlerAlways, PTL

-----------------------------------------------------------------------------
(* Who can be stuck *)

NotifyLines(u) == IF Pool(u) = "io" THEN {17} ELSE {5, 23}

\* Who is asleep in a pool that was stopped, or about to sleep there, is still
\* to be notified (threadpool.cc:51), unless that came too early for him or was
\* cut off by another signal.
Notified ==
    \A u \in Io \cup Workers :
        stop[Pool(u)] /\ pc[u] \in {"block", "waiting"} /\ hpc[u] = 0 =>
            u \in missed \/ \E t \in Threads : hpc[t] \in NotifyLines(u)

\* Who is at a line that notifies is at Notify, and the other way round.
LEMMA AtNotify ==
    ASSUME NEW n \in 1..29, NEW u \in Threads
    PROVE  Handler[n] = Notify[Pool(u)] <=> n \in NotifyLines(u)
BY PoolLines, PoolThreads DEF NotifyLines

\* A step with which nobody is stopped, falls asleep or leaves the line that
\* notifies.
LEMMA NotifiedKept ==
    ASSUME Types, Notified, UNCHANGED <<stop, missed>>,
           \A u \in Io \cup Workers :
              pc'[u] \in {"block", "waiting"} /\ hpc'[u] = 0 =>
                  hpc[u] = 0 /\ (pc[u] \in {"block", "waiting"} \/ ~stop[Pool(u)]),
           \A t \in Threads : hpc[t] \in {5, 17, 23} => hpc'[t] = hpc[t]
    PROVE  Notified'
<1> SUFFICES ASSUME NEW u \in Io \cup Workers, stop'[Pool(u)], pc'[u] \in {"block", "waiting"},
                    hpc'[u] = 0, u \notin missed'
             PROVE  \E t \in Threads : hpc'[t] \in NotifyLines(u)
  BY DEF Notified, NotifyLines, Pool
<1>1. stop[Pool(u)] /\ pc[u] \in {"block", "waiting"} /\ hpc[u] = 0 /\ u \notin missed
  OBVIOUS
<1>2. PICK t \in Threads : hpc[t] \in NotifyLines(u)
  BY <1>1 DEF Notified
<1> QED
  BY <1>2 DEF NotifyLines

LEMMA HandlerNotified ==
    ASSUME Types, Notified, NEW t \in Threads, HandlerStep(t)
    PROVE  Notified'
<1>1. hpc[t] \in 1..29 /\ hpc \in [Threads -> 0..29]
  <2>1. Len(Handler) = 29
    BY HandlerLines
  <2> QED
    BY <2>1, HandlerEffect DEF Types
<1>2. /\ \A u \in Threads : u # t => hpc'[u] = hpc[u]
      /\ \A u \in Threads : hpc'[u] = 0 <=> hpc[u] = 0
      /\ \A u \in Io \cup Workers : pc'[u] \in {"block", "waiting"} => pc'[u] = pc[u]
  <2>1. Io \cup Workers \subseteq Threads
    BY DEF Threads
  <2>2. Interrupted' = Interrupted
    BY HandlerEffect
  <2>3. \A u \in Threads : hpc'[u] = 0 <=> hpc[u] = 0
    BY <2>2 DEF Interrupted
  <2> QED
    BY <2>1, <2>3, HandlerEffect
<1>3. ASSUME UNCHANGED <<stop, missed>>, hpc[t] \notin {5, 17, 23} PROVE Notified'
  <2>1. Io \cup Workers \subseteq Threads
    BY DEF Threads
  <2> QED
    BY <1>2, <1>3, <2>1, NotifiedKept
<1>4. CASE HandlerPrint(t) \/ Halt(t) \/ DestroyCond(t) \/ DestroyThds(t) \/ Exit(t)
  <2>1. Handler[hpc[t]] \notin {"notify io", "notify work"}
    BY <1>4 DEF HandlerPrint, Halt, DestroyCond, DestroyThds, Exit, HandlerAt
  <2>2. hpc[t] \notin {5, 17, 23}
    BY <1>1, <2>1, HandlerLines
  <2>3. UNCHANGED <<stop, missed>>
    BY <1>4 DEF HandlerPrint, Halt, DestroyCond, DestroyThds, Exit, handled
  <2> QED
    BY <1>3, <2>2, <2>3
<1>5. CASE HandlerUses(t)
  <2>1. UNCHANGED <<pc, stop, missed, hpc>>
    BY <1>5 DEF HandlerUses, handled, taken
  <2> QED
    BY <2>1, NotifiedKept
<1>6. ASSUME NEW p \in Pools, TestPool(t, p) \/ JoinPool(t, p) PROVE Notified'
  <2>1. hpc[t] \in {15, 3, 21} \cup {18, 6, 24}
    BY <1>1, <1>6, PoolLines DEF TestPool, JoinPool, HandlerAt
  <2>2. hpc[t] \notin {5, 17, 23} /\ UNCHANGED <<stop, missed>>
    BY <1>6, <2>1 DEF TestPool, JoinPool, handled
  <2> QED
    BY <1>3, <2>2
<1>7. ASSUME NEW p \in Pools, StopPool(t, p) PROVE Notified'
  <2>1. hpc[t] \in (IF p = "io" THEN {16} ELSE {4, 22})
    BY <1>1, <1>7, PoolLines DEF StopPool, HandlerAt
  <2>2. UNCHANGED <<pc, missed>> /\ stop' = [stop EXCEPT ![p] = TRUE] /\ stop \in [Pools -> BOOLEAN]
    BY <1>7 DEF StopPool, Types
  <2>3. hpc'[t] \in (IF p = "io" THEN {17} ELSE {5, 23})
    <3>1. hpc'[t] = hpc[t] + 1
      BY <1>1, <1>7 DEF StopPool, Advance
    <3> QED
      BY <2>1, <3>1
  <2> SUFFICES ASSUME NEW u \in Io \cup Workers, stop'[Pool(u)],
                      pc[u] \in {"block", "waiting"}, hpc[u] = 0, u \notin missed
               PROVE  \E v \in Threads : hpc'[v] \in NotifyLines(u)
    BY <1>2, <2>2, PoolThreads DEF Notified, NotifyLines, Pool
  <2>4. CASE Pool(u) = p
    BY <2>3, <2>4 DEF NotifyLines
  <2>5. CASE Pool(u) # p
    <3>1. stop[Pool(u)]
      BY <2>2, <2>5, PoolThreads
    <3>2. PICK v \in Threads : hpc[v] \in NotifyLines(u)
      BY <3>1 DEF Notified
    <3>3. v # t
      BY <2>1, <3>2 DEF NotifyLines
    <3> QED
      BY <1>2, <3>2, <3>3
  <2> QED
    BY <2>4, <2>5
<1>8. ASSUME NEW p \in Pools, NotifyPool(t, p) PROVE Notified'
  <2>1. hpc[t] \in (IF p = "io" THEN {17} ELSE {5, 23})
    BY <1>1, <1>8, PoolLines DEF NotifyPool, HandlerAt
  <2>2. /\ stop' = stop
        /\ pc' = [u \in Threads |-> IF u \in Waiting(p) THEN "lock" ELSE pc[u]]
        /\ missed' = missed \cup {u \in Elements(Thds(p)) : pc[u] = "block"}
    BY <1>8 DEF NotifyPool, handled
  <2> SUFFICES ASSUME NEW u \in Io \cup Workers, stop[Pool(u)],
                      pc'[u] \in {"block", "waiting"}, hpc[u] = 0, u \notin missed'
               PROVE  \E v \in Threads : hpc'[v] \in NotifyLines(u)
    BY <1>2, <2>2, PoolThreads DEF Notified, NotifyLines, Pool
  <2>3. u \in Threads /\ u \in Elements(Thds(Pool(u)))
    BY PoolThreads
  <2>4. pc[u] = pc'[u] /\ u \notin missed
    BY <1>2, <2>2
  <2>5. Pool(u) # p
    BY <2>2, <2>3, <2>4 DEF Waiting
  <2>6. PICK v \in Threads : hpc[v] \in NotifyLines(u)
    BY <2>4 DEF Notified
  <2>7. v # t
    BY <2>1, <2>5, <2>6 DEF NotifyLines, Pool, Pools
  <2> QED
    BY <1>2, <2>6, <2>7
<1> QED
  BY <1>4, <1>5, <1>6, <1>7, <1>8 DEF HandlerStep

\* A signal may cut off a handler that was to notify.
LEMMA SignalNotified ==
    ASSUME Types, Notified, NEW t \in Threads, Signal(t)
    PROVE  Notified'
<1>1. /\ hpc'[t] = 1 /\ \A u \in Threads : u # t => hpc'[u] = hpc[u]
      /\ UNCHANGED <<pc, stop>> /\ status = "running"
      /\ missed' = missed \cup {u \in Io \cup Workers :
                       HandlerAt(t, Notify[Pool(u)]) /\ pc[u] \in {"block", "waiting"}}
  BY SignalEffect
<1> SUFFICES ASSUME NEW u \in Io \cup Workers, stop'[Pool(u)], pc'[u] \in {"block", "waiting"},
                    hpc'[u] = 0, u \notin missed'
             PROVE  \E v \in Threads : hpc'[v] \in NotifyLines(u)
  BY DEF Notified, NotifyLines, Pool
<1>2. u \in Threads /\ u # t
  BY <1>1, PoolThreads
<1>3. stop[Pool(u)] /\ pc[u] \in {"block", "waiting"} /\ hpc[u] = 0 /\ u \notin missed
  BY <1>1, <1>2
<1>4. PICK v \in Threads : hpc[v] \in NotifyLines(u)
  BY <1>3 DEF Notified
<1>5. v # t
  <2> SUFFICES ASSUME v = t PROVE FALSE
    OBVIOUS
  <2>1. hpc[t] \in NotifyLines(u) /\ hpc[t] \in 1..29
    BY <1>4 DEF NotifyLines
  <2>2. Handler[hpc[t]] = Notify[Pool(u)]
    BY <1>2, <2>1, AtNotify
  <2>3. HandlerAt(t, Notify[Pool(u)])
    BY <1>1, <2>1, <2>2 DEF HandlerAt, InHandler, Running
  <2> QED
    BY <1>1, <1>3, <2>3
<1> QED
  BY <1>1, <1>4, <1>5

LEMMA NotifiedStep == Types /\ Notified /\ [Next]_vars => Notified'
<1> SUFFICES ASSUME Types, Notified, [Next]_vars PROVE Notified'
  OBVIOUS
<1> USE DEF handled, taken
<1>1. CASE Publish
  BY <1>1, NotifiedKept DEF Publish, Goto, Types
<1>2. ASSUME NEW t \in Threads, Lock(t) \/ Acquire(t) \/ UseDeleted(t) PROVE Notified'
  BY <1>2, NotifiedKept DEF Lock, Acquire, UseDeleted
<1>3. CASE MainReturns \/ UNCHANGED vars
  BY <1>3, NotifiedKept DEF MainReturns, vars
<1>4. ASSUME NEW t \in Threads, EndRun(t) \/ Spin(t) PROVE Notified'
  <2>1. UNCHANGED <<stop, hpc, missed>>
    BY <1>4 DEF EndRun, Spin
  <2>2. \A u \in Threads : pc'[u] = pc[u] \/ pc'[u] \in {"left", "exited", "lock", "spinning"}
    BY <1>4 DEF EndRun, Spin, Goto, Types
  <2> QED
    BY <2>1, <2>2, NotifiedKept DEF Threads
<1>5. ASSUME NEW t \in Threads, NEW m \in Mutexes, Release(t, m) PROVE Notified'
  <2>1. UNCHANGED <<stop, hpc, missed>>
    BY <1>5 DEF Release
  <2>2. \A u \in Threads : pc'[u] = pc[u] \/ pc'[u] = "lock"
    BY <1>5 DEF Release, Goto, Types
  <2> QED
    BY <2>1, <2>2, NotifiedKept DEF Threads
<1>6. ASSUME NEW t \in Threads, Signal(t) PROVE Notified'
  BY <1>6, SignalNotified
<1>7. ASSUME NEW t \in Io \cup Workers, Predicate(t) PROVE Notified'
  <2>1. UNCHANGED <<stop, hpc, missed>>
    BY <1>7 DEF Predicate
  <2>2. \A u \in Threads : pc'[u] = pc[u] \/ (u = t /\ (pc'[u] = "block" => ~stop[Pool(t)]))
    BY <1>7 DEF Predicate, Goto, Types
  <2>3. pc'[t] # "waiting"
    BY <1>7 DEF Predicate, Goto, Types, Threads
  <2> QED
    BY <2>1, <2>2, <2>3, NotifiedKept DEF Threads
<1>8. ASSUME NEW t \in Io \cup Workers, Block(t) PROVE Notified'
  BY <1>8, NotifiedKept DEF Block, At, Goto, Types
<1>9. ASSUME NEW t \in Threads, HandlerStep(t) PROVE Notified'
  BY <1>9, HandlerNotified
<1> QED
  BY <1>1, <1>2, <1>3, <1>4, <1>5, <1>6, <1>7, <1>8, <1>9 DEF Next

LEMMA NotifiedAlways == Spec => []Notified
<1>1. Init => Notified
  BY DEF Init, Notified, Pool, Pools
<1>2. TypeInv /\ Notified /\ [Next]_vars => Notified'
  BY NotifiedStep DEF TypeInv
<1> QED
  BY <1>1, <1>2, TypeInvAlways, PTL DEF Spec

\* Nobody is in a circle of waits who holds a mutex and was not interrupted: he
\* could only wait for the logger's, and who has that waits for nothing.
LEMMA NoHolder ==
    ASSUME TypeInv, NEW ts \in SUBSET Waiters, Hang(ts),
           \A t \in ts \cap Interrupted : Held(t) = {},
           NEW m \in Mutexes, owner[m] \in ts
    PROVE  FALSE
<1>1. ASSUME NEW k \in Mutexes, owner[k] \in ts
      PROVE  /\ owner[k] \in Threads /\ hpc[owner[k]] = 0
             /\ pc[owner[k]] \in {"boot", "run", "block"}
             /\ want[owner[k]] = "log" /\ k # "log"
  <2>1. owner[k] \in Threads /\ owner[k] \in Waiters
    BY <1>1 DEF Waiters, Interrupted
  <2>2. k \in Held(owner[k])
    BY DEF Held
  <2>3. owner[k] \notin Interrupted /\ hpc[owner[k]] = 0
    BY <1>1, <2>1, <2>2 DEF Interrupted
  <2>4. /\ pc[owner[k]] \in {"boot", "run", "block"}
        /\ want[owner[k]] \in {None, "log"}
        /\ k = "log" => want[owner[k]] = None
    BY <2>1, <2>3 DEF TypeInv, LockOrder
  <2>5. want[owner[k]] # None
    BY <2>1, <2>3, <2>4 DEF Waiters
  <2> QED
    BY <2>1, <2>3, <2>4, <2>5
<1> DEFINE h == owner[m]
<1>2. h \in ts /\ hpc[h] = 0 /\ pc[h] \in {"boot", "run", "block"} /\ want[h] = "log"
  BY <1>1
<1> HIDE DEF h
<1>3. /\ ~Asleep(h) /\ ~Spins(h)
      /\ \A u \in ts : ~Joins(h, u) /\ ~Destroys(h, u)
  BY <1>2 DEF Asleep, Spins, Joins, Destroys, HandlerAt, InHandler
<1>4. PICK k \in Mutexes : owner[k] \in ts /\ Wants(h, k)
  BY <1>2, <1>3 DEF Hang
<1>5. k = "log"
  BY <1>2, <1>4 DEF Wants
<1> QED
  BY <1>1, <1>4, <1>5

\* Whatever mutexes, ends of threads and notifications the threads wait for, they
\* hang only if a signal came to a thread with a mutex, to two threads, to a
\* worker that sleeps on what its handler destroys or to the notifier of a pool,
\* if a thread was about to sleep when its pool was notified, or in the endless
\* walk of handle_timer() (threadpool.cc:16, 46-54, logger.cc:28,
\* eventloop.cc:103).
THEOREM HangsHaveCauses == Spec => []HangHasCause
<1>1. TypeInv /\ Notified => HangHasCause
  <2> SUFFICES ASSUME TypeInv, Notified, Running, NEW ts \in SUBSET Waiters, Hang(ts),
                      \A t \in ts \cap Interrupted : Held(t) = {} /\ ~Destroys(t, t),
                      \A t, u \in ts \cap Interrupted : t = u,
                      ts \cap missed = {},
                      \A t \in ts : ~Spins(t)
               PROVE  FALSE
    BY DEF HangHasCause
  <2>1. \A m \in Mutexes : owner[m] \notin ts
    BY NoHolder
  <2>2. ASSUME NEW t \in ts PROVE ~Asleep(t)
    <3> SUFFICES ASSUME Asleep(t) PROVE FALSE
      OBVIOUS
    <3>1. t \in Io \cup Workers /\ t \in Threads /\ stop[Pool(t)] /\ pc[t] = "waiting" /\ hpc[t] = 0
      BY PoolThreads DEF Asleep
    <3>2. PICK u \in Threads : hpc[u] \in NotifyLines(t)
      BY <2>2, <3>1 DEF Notified
    <3>3. hpc[u] \in 1..29 /\ hpc[u] # 0
      BY <3>2 DEF NotifyLines
    <3>4. Handler[hpc[u]] = Notify[Pool(t)]
      BY <3>1, <3>2, <3>3, AtNotify
    <3>5. HandlerAt(u, Notify[Pool(t)])
      BY <3>3, <3>4 DEF HandlerAt, InHandler
    <3> QED
      BY <3>5 DEF Asleep
  <2>3. ASSUME NEW t \in ts
        PROVE  \E u \in ts : (Joins(t, u) /\ ~Joins(u, t)) \/ Destroys(t, u)
    BY <2>1, <2>2, <2>3 DEF Hang
  <2>4. ASSUME NEW t \in ts PROVE t \in Interrupted
    <3>1. InHandler(t)
      BY <2>3, <2>4 DEF Joins, Destroys, HandlerAt
    <3>2. t \in Threads
      BY <2>4 DEF Waiters, Interrupted
    <3> QED
      BY <3>1, <3>2 DEF InHandler, Interrupted
  <2>5. PICK t \in ts : TRUE
    BY DEF Hang
  <2>6. PICK u \in ts : (Joins(t, u) /\ ~Joins(u, t)) \/ Destroys(t, u)
    BY <2>3, <2>5
  <2>7. u = t
    BY <2>4, <2>5, <2>6
  <2> QED
    BY <2>4, <2>5, <2>6, <2>7
<1> QED
  BY <1>1, TypeInvAlways, NotifiedAlways, PTL
=============================================================================
