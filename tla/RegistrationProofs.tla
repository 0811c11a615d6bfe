------------------------- MODULE RegistrationProofs -------------------------
(***************************************************************************)
(* Theorems about Registration for any number of connections, descriptors  *)
(* and sub loops.                                                          *)
(***************************************************************************)
EXTENDS Registration, Least

(* Iterators *)

\* ++it reaches a later element of the loop's map, or end().
LEMMA AfterIsLater ==
    ASSUME NEW l, NEW f
    PROVE  After(l, f) = End \/ (After(l, f) \in Keys(l) /\ After(l, f) > f)
<1> DEFINE later == {g \in Keys(l) : g > f}
<1>1. CASE later = {}
  BY <1>1 DEF After
<1>2. CASE later # {}
  <2>1. later \in SUBSET Nat
    BY FdsAssumption DEF Keys
  <2>2. \E g \in later : \A h \in later : g <= h
    BY <1>2, <2>1, LeastNatural
  <2>3. After(l, f) = CHOOSE g \in later : \A h \in later : g <= h
    BY <1>2 DEF After
  <2> QED
    BY <2>2, <2>3
<1> QED
  BY <1>1, <1>2

LEMMA KeysAreFds == \A l : Keys(l) \subseteq Fds /\ \A f \in Keys(l) : lmap[f] # None
BY DEF Keys

-----------------------------------------------------------------------------
(* The invariant *)

\* Every reference to a connection is to one that was accepted, and is filed
\* under its descriptor.
Filed ==
    /\ \A c \in Conns : fd[c] # 0 <=> peer[c] = "accepted"
    /\ mpc # "idle" <=> new # None
    /\ new # None => fd[new] # 0
    /\ \A f \in Fds : /\ lmap[f] # None => fd[lmap[f]] = f
                      /\ svr[f] # None => fd[svr[f]] = f
    /\ \A c \in held : fd[c] # 0
    /\ \A l \in Loops : on[l] # None => fd[on[l]] # 0 /\ Home(on[l]) = l

InHandler == {"read", "msg", "close", "close_lock", "close_erase"}

\* A thread handles a connection exactly in its handler, and its walk stands on
\* a connection of its map, or at the end.
Placed ==
    \A l \in Loops :
        /\ on[l] # None <=> lpc[l] \in InHandler
        /\ lpc[l] \in {"close", "close_lock", "close_erase"} => on[l] \in disconn
        /\ lpc[l] \in Walking => it[l] \in Keys(l) \/ (lpc[l] = "scan" /\ it[l] = End)
        /\ lpc[l] \in Walking \ {"scan"} => age[lmap[it[l]]] > MaxAge

\* No two connections have the same descriptor at the same time.
FdsAreOwn == \A c, d \in Conns : Open(c) /\ Open(d) /\ fd[c] = fd[d] => c = d

TypeInv == TypeOK /\ Filed /\ Placed /\ FdsAreOwn

-----------------------------------------------------------------------------
(* Types, and who holds the mutex *)

\* What the main thread and a loop's handler are about.
LEMMA Subjects ==
    ASSUME TypeInv
    PROVE  /\ mpc # "idle" => new \in Conns /\ fd[new] \in Fds
           /\ \A l \in Loops :
                 /\ lpc[l] \in InHandler => on[l] \in Conns /\ fd[on[l]] \in Fds
                 /\ lpc[l] \in Walking /\ it[l] # End => lmap[it[l]] \in Conns /\ it[l] \in Fds
<1>1. mpc # "idle" => new \in Conns /\ fd[new] \in Fds
  BY DEF TypeInv, TypeOK, Types, Filed
<1>2. ASSUME NEW l \in Loops, lpc[l] \in InHandler PROVE on[l] \in Conns /\ fd[on[l]] \in Fds
  BY <1>2 DEF TypeInv, TypeOK, Types, Filed, Placed
<1>3. ASSUME NEW l \in Loops, lpc[l] \in Walking, it[l] # End
      PROVE  lmap[it[l]] \in Conns /\ it[l] \in Fds
  BY <1>3 DEF TypeInv, TypeOK, Types, Placed, Keys
<1> QED
  BY <1>1, <1>2, <1>3

LEMMA Names == Main \notin Loops /\ None \notin Loops /\ Main # None
<1>1. Loops \subseteq Nat
  BY ThdCountAssumption DEF Loops
<1> QED
  BY <1>1, NamesAssumption

\* The main thread's steps.
LEMMA MainTypes == TypeInv /\ MainStep => TypeOK'
<1> SUFFICES ASSUME TypeInv, MainStep PROVE TypeOK'
  OBVIOUS
<1> USE DEF MainPcs
<1>0. TypeOK /\ Types /\ (mpc # "idle" => new \in Conns /\ fd[new] \in Fds)
  BY Subjects DEF TypeInv, TypeOK
<1>1. CASE AcceptFails
  BY <1>0, <1>1 DEF AcceptFails, peers, connect, maps, main, loops, history, Types, TypeOK
<1>2. ASSUME NEW c \in Conns, Accept(c) PROVE TypeOK'
  <2>1. FreeFds \subseteq Fds
    BY DEF FreeFds
  <2> QED
    BY <1>0, <1>2, <2>1 DEF Accept, MainAt, connect, maps, loops, history, Types, TypeOK
<1>3. CASE Register
  BY <1>0, <1>3 DEF Register, MainAt, MainTo, peers, maps, loops, history, Types, TypeOK
<1>4. CASE SetInEp
  BY <1>0, <1>4 DEF SetInEp, MainAt, MainTo, peers, connect, maps, loops, history, Types, TypeOK
<1>5. CASE SetCloseCb
  BY <1>0, <1>5 DEF SetCloseCb, SetCallback, MainAt, MainTo, peers, maps, loops, history, Types, TypeOK
<1>6. CASE SetMsgCb
  BY <1>0, <1>6 DEF SetMsgCb, SetCallback, MainAt, MainTo, peers, maps, loops, history, Types, TypeOK
<1>7. CASE Lock
  BY <1>0, <1>7, Names DEF Lock, MainAt, MainTo, peers, connect, loops, history, Types, TypeOK
<1>8. CASE InsertInLoop
  BY <1>0, <1>8, Names DEF InsertInLoop, MainAt, MainTo, peers, connect, loops, history, Types, TypeOK
<1>9. CASE InsertInServer
  BY <1>0, <1>9 DEF InsertInServer, MainAt, MainTo, peers, connect, loops, history, Types, TypeOK
<1>10. CASE Leave
  BY <1>0, <1>10 DEF Leave, MainAt, peers, connect, maps, loops, history, Types, TypeOK
<1> QED
  BY <1>1, <1>2, <1>3, <1>4, <1>5, <1>6, <1>7, <1>8, <1>9, <1>10 DEF MainStep

\* The steps of a loop's handlers.
LEMMA HandlerTypes == ASSUME TypeInv, NEW l \in Loops, HandleEvent(l) PROVE TypeOK'
<1> USE DEF LoopPcs
<1>0. TypeOK /\ Types /\ (lpc[l] \in InHandler => on[l] \in Conns /\ fd[on[l]] \in Fds)
  BY Subjects DEF TypeInv, TypeOK
<1>1. ASSUME NEW c \in Conns, TakeEvent(l, c) PROVE TypeOK'
  BY <1>0, <1>1 DEF TakeEvent, LoopAt, Goto, peers, maps, main, history, Types, TypeOK
<1>2. CASE ReadInput(l)
  BY <1>0, <1>2 DEF ReadInput, ConnAt, LoopAt, MoveTo, Return, Goto, connect, maps, main, history, Types, TypeOK
<1>3. CASE ReadEnd(l)
  BY <1>0, <1>3 DEF ReadEnd, ConnAt, LoopAt, MoveTo, Goto, InHandler, maps, main, history, Types, TypeOK
<1>4. CASE ReadEndTooEarly(l)
  BY <1>0, <1>4 DEF ReadEndTooEarly, peers, connect, maps, main, loops, history, Types, TypeOK
<1>5. CASE HandleMsg(l)
  <2>1. on[l] \in Conns /\ lpc[l] = "msg"
    BY <1>0, <1>5 DEF HandleMsg, ConnAt, LoopAt, InHandler
  <2>2. 0 \in 0..(MaxAge + 1)
    BY BoundsAssumption
  <2> QED
    BY <1>0, <1>5, <2>1, <2>2 DEF HandleMsg, Return, Goto, peers, maps, main, history, Types, TypeOK
<1>6. CASE TestCloseCb(l)
  BY <1>0, <1>6 DEF TestCloseCb, ConnAt, LoopAt, MoveTo, Return, Goto, peers, connect, maps, main, history, Types, TypeOK
<1>7. CASE CloseLock(l)
  BY <1>0, <1>7, Names DEF CloseLock, LockServer, LoopAt, MoveTo, Goto, peers, connect, main, history, Types, TypeOK
<1>8. CASE CloseErase(l)
  BY <1>0, <1>8, Names DEF CloseErase, EraseFromServer, LoopAt, Return, Goto, peers, connect, main, history, Types, TypeOK
<1>9. CASE UseFreed(l)
  BY <1>0, <1>9 DEF UseFreed, peers, connect, maps, main, loops, history, Types, TypeOK
<1> QED
  BY <1>1, <1>2, <1>3, <1>4, <1>5, <1>6, <1>7, <1>8, <1>9 DEF HandleEvent

\* The steps of handle_timer().
LEMMA WalkTypes == ASSUME TypeInv, NEW l \in Loops, Walk(l) PROVE TypeOK'
<1> USE DEF LoopPcs
<1>0. TypeOK /\ Types /\ (lpc[l] \in Walking /\ it[l] # End => lmap[it[l]] \in Conns)
  BY Subjects DEF TypeInv, TypeOK
<1>1. \A f : After(l, f) \in Fds \cup {End}
  BY AfterIsLater, KeysAreFds
<1>2. CASE HandleTimer(l)
  BY <1>0, <1>1, <1>2 DEF HandleTimer, LoopAt, WalkTo, Goto, peers, connect, maps, main, history, Types, TypeOK
<1>8. CASE LoseTimer(l)
  BY <1>0, <1>8 DEF LoseTimer, peers, connect, maps, main, history, Types, TypeOK
<1>3. CASE ScanKeep(l)
  BY <1>0, <1>1, <1>3 DEF ScanKeep, LoopAt, WalkTo, Goto, End, peers, connect, maps, main, history, Types, TypeOK
<1>4. CASE ScanTimeOut(l)
  BY <1>0, <1>4 DEF ScanTimeOut, LoopAt, MoveTo, Goto, peers, connect, maps, main, history, Types, TypeOK
<1>5. CASE ReapLock(l)
  BY <1>0, <1>5, Names DEF ReapLock, LockServer, LoopAt, MoveTo, Goto, peers, connect, main, history, Types, TypeOK
<1>6. CASE ReapErase(l)
  <2>1. lmap[it[l]] \in Conns
    BY <1>0, <1>6 DEF ReapErase, LoopAt, Walking, TypeInv, Placed, Keys, Types
  <2>2. overtaken' \subseteq Conns
    BY <1>0, <1>6, <2>1 DEF ReapErase, Types
  <2> QED
    BY <1>0, <1>6, <2>2, Names DEF ReapErase, EraseFromServer, LoopAt, MoveTo, Goto, peers,
       connect, main, Types, TypeOK
<1>7. CASE Reap(l)
  <2>1. lmap' \in [Fds -> Conns \cup {None}]
    BY <1>0, <1>7 DEF Reap, Types
  <2>2. PICK pc \in {"scan", "hung"}, f \in Fds \cup {End} : WalkTo(l, pc, f)
    BY <1>1, <1>7, KeysAreFds DEF Reap
  <2> QED
    BY <1>0, <1>7, <2>1, <2>2 DEF Reap, LoopAt, WalkTo, Goto, peers, connect, main, history, Types, TypeOK
<1> QED
  BY <1>2, <1>3, <1>4, <1>5, <1>6, <1>7, <1>8 DEF Walk

\* Peers, workers and the clock.
LEMMA EnvironmentTypes == TypeInv /\ Environment => TypeOK'
<1> SUFFICES ASSUME TypeInv, Environment PROVE TypeOK'
  OBVIOUS
<1>0. TypeOK /\ Types /\ MaxMsgs \in Nat /\ MaxAge \in Nat
  BY BoundsAssumption DEF TypeInv, TypeOK
<1>1. ASSUME NEW c \in Conns, Connect(c) PROVE TypeOK'
  BY <1>0, <1>1 DEF Connect, connect, maps, main, loops, history, Types, TypeOK
<1>2. ASSUME NEW c \in Conns, PeerSend(c) PROVE TypeOK'
  BY <1>0, <1>2 DEF PeerSend, Signal, maps, main, loops, history, Types, TypeOK
<1>3. ASSUME NEW c \in Conns, PeerClose(c) PROVE TypeOK'
  BY <1>0, <1>3 DEF PeerClose, Signal, maps, main, loops, history, Types, TypeOK
<1>4. ASSUME NEW c \in Conns, EndJobs(c) PROVE TypeOK'
  BY <1>0, <1>4 DEF EndJobs, peers, connect, maps, main, loops, history, Types, TypeOK
<1>6. ASSUME NEW c \in Conns, Reply(c) PROVE TypeOK'
  <2>1. Home(c) \in Loops
    <3>1. fd[c] \in Nat
      <4>1. fd[c] \in Fds \cup {0}
        BY <1>0 DEF Types
      <4>2. Fds \subseteq Nat /\ 0 \in Nat
        BY FdsAssumption
      <4> QED
        BY <4>1, <4>2
    <3> QED
      BY <3>1, ThdCountAssumption DEF Home, Loops
  <2> QED
    BY <1>0, <1>6, <2>1 DEF Reply, peers, connect, maps, main, loops, Types, TypeOK
<1>5. ASSUME NEW l \in Loops, TimerExpire(l) PROVE TypeOK'
  <2>1. age' \in [Conns -> 0..(MaxAge + 1)]
    BY <1>0, <1>5 DEF TimerExpire, Types
  <2> QED
    BY <1>0, <1>5, <2>1 DEF TimerExpire, peers, maps, main, history, Types, TypeOK
<1> QED
  BY <1>1, <1>2, <1>3, <1>4, <1>5, <1>6 DEF Environment

LEMMA TypesStep == TypeInv /\ [Next]_vars => TypeOK'
<1> SUFFICES ASSUME TypeInv, [Next]_vars PROVE TypeOK'
  OBVIOUS
<1>1. ASSUME NEW l \in Loops, Torn(l) PROVE TypeOK'
  BY <1>1 DEF Torn, peers, connect, maps, main, loops, TypeInv, history, Types, TypeOK
<1>2. CASE UNCHANGED vars
  BY <1>2 DEF vars, peers, connect, maps, main, loops, TypeInv, history, Types, TypeOK
<1> QED
  BY <1>1, <1>2, MainTypes, HandlerTypes, WalkTypes, EnvironmentTypes DEF Next

-----------------------------------------------------------------------------
(* References *)

\* The connection that is accepted has no descriptor and nothing refers to it;
\* it gets one that no open connection has.
LEMMA AcceptIsFresh ==
    ASSUME TypeInv, NEW c \in Conns, Accept(c)
    PROVE  /\ mpc = "idle" /\ new = None /\ fd[c] = 0
           /\ mpc' = "register" /\ new' = c
           /\ c \notin held /\ (\A l \in Loops : on[l] # c)
           /\ \A f \in Fds : lmap[f] # c /\ svr[f] # c
           /\ \E f \in FreeFds : f \in Fds /\ f # 0 /\ fd' = [fd EXCEPT ![c] = f]
<1>1. mpc = "idle" /\ new = None /\ fd[c] = 0
  BY NamesAssumption DEF Accept, MainAt, TypeInv, TypeOK, Types, Filed
<1>2. c \notin held /\ (\A l \in Loops : on[l] # c) /\ (\A f \in Fds : lmap[f] # c /\ svr[f] # c)
  BY <1>1, FdsAssumption, NamesAssumption DEF TypeInv, TypeOK, Types, Filed
<1>3. PICK f \in FreeFds : fd' = [fd EXCEPT ![c] = f]
  BY DEF Accept
<1>4. f \in Fds /\ f # 0
  BY <1>3, FdsAssumption DEF FreeFds
<1> QED
  BY <1>1, <1>2, <1>3, <1>4 DEF Accept

LEMMA MainFiled == TypeInv /\ MainStep => Filed'
<1> SUFFICES ASSUME TypeInv, MainStep PROVE Filed'
  OBVIOUS
<1>0. Types /\ Filed /\ None \notin Conns /\ 0 \notin Fds /\ (mpc # "idle" => new \in Conns /\ fd[new] \in Fds)
  BY Subjects, NamesAssumption, FdsAssumption DEF TypeInv, TypeOK
<1>1. CASE AcceptFails
  BY <1>0, <1>1 DEF AcceptFails, peers, maps, main, loops, Filed, Home
<1>2. ASSUME NEW c \in Conns, Accept(c) PROVE Filed'
  <2>1. PICK f \in FreeFds : f \in Fds /\ f # 0 /\ fd' = [fd EXCEPT ![c] = f]
    BY <1>2, AcceptIsFresh
  <2>2. peer' = [peer EXCEPT ![c] = "accepted"] /\ UNCHANGED <<held, lmap, svr, on>>
    BY <1>2 DEF Accept, maps, loops
  <2>3. \A d \in Conns : d # c => fd'[d] = fd[d] /\ peer'[d] = peer[d]
    BY <1>0, <2>1, <2>2 DEF Types
  <2>4. fd'[c] = f /\ peer'[c] = "accepted"
    BY <1>0, <2>1, <2>2 DEF Types
  <2>5. \A d \in Conns : fd'[d] # 0 <=> peer'[d] = "accepted"
    BY <1>0, <2>1, <2>3, <2>4 DEF Filed
  <2>6. \A g \in Fds : /\ lmap[g] # None => fd'[lmap[g]] = g
                       /\ svr[g] # None => fd'[svr[g]] = g
    BY <1>0, <1>2, <2>3, AcceptIsFresh DEF Filed, Types
  <2>7. \A d \in held : fd'[d] # 0
    BY <1>0, <1>2, <2>3, AcceptIsFresh DEF Filed, Types
  <2>8. \A l \in Loops : on[l] # None => fd'[on[l]] # 0 /\ fd'[on[l]] % ThdCount = l
    BY <1>0, <1>2, <2>3, AcceptIsFresh DEF Filed, Types, Home
  <2> QED
    BY <1>0, <1>2, <2>1, <2>2, <2>4, <2>5, <2>6, <2>7, <2>8, AcceptIsFresh DEF Filed, Home
<1>3. CASE Register
  BY <1>0, <1>3 DEF Register, MainAt, MainTo, peers, maps, loops, Filed, Home
<1>4. CASE SetInEp
  BY <1>0, <1>4 DEF SetInEp, MainAt, MainTo, peers, maps, loops, Filed, Home
<1>5. CASE SetCloseCb
  BY <1>0, <1>5 DEF SetCloseCb, SetCallback, MainAt, MainTo, peers, maps, loops, Filed, Home
<1>6. CASE SetMsgCb
  BY <1>0, <1>6 DEF SetMsgCb, SetCallback, MainAt, MainTo, peers, maps, loops, Filed, Home
<1>7. CASE Lock
  BY <1>0, <1>7 DEF Lock, MainAt, MainTo, peers, loops, Filed, Home
<1>8. CASE InsertInLoop
  BY <1>0, <1>8 DEF InsertInLoop, MainAt, MainTo, peers, loops, Types, Filed, Home
<1>9. CASE InsertInServer
  BY <1>0, <1>9 DEF InsertInServer, MainAt, MainTo, peers, loops, Types, Filed, Home
<1>10. CASE Leave
  BY <1>0, <1>10 DEF Leave, MainAt, peers, maps, loops, Filed, Home
<1> QED
  BY <1>1, <1>2, <1>3, <1>4, <1>5, <1>6, <1>7, <1>8, <1>9, <1>10 DEF MainStep

LEMMA HandlerFiled == ASSUME TypeInv, NEW l \in Loops, HandleEvent(l) PROVE Filed'
<1>0. Types /\ Filed /\ None \notin Conns /\ 0 \notin Fds
      /\ (lpc[l] \in InHandler => on[l] \in Conns /\ fd[on[l]] \in Fds)
  BY Subjects, NamesAssumption, FdsAssumption DEF TypeInv, TypeOK
<1>1. ASSUME NEW c \in Conns, TakeEvent(l, c) PROVE Filed'
  BY <1>0, <1>1 DEF TakeEvent, Open, peers, maps, main, Types, Filed, Home
<1>2. CASE ReadInput(l)
  BY <1>0, <1>2 DEF ReadInput, MoveTo, Return, maps, main, Types, Filed, Home
<1>3. CASE ReadEnd(l)
  BY <1>0, <1>3 DEF ReadEnd, MoveTo, maps, main, Filed, Home
<1>4. CASE ReadEndTooEarly(l)
  BY <1>0, <1>4 DEF ReadEndTooEarly, peers, maps, main, loops, Filed, Home
<1>5. CASE HandleMsg(l)
  <2>1. on[l] \in Conns /\ fd[on[l]] # 0
    BY <1>0, <1>5 DEF HandleMsg, ConnAt, LoopAt, InHandler
  <2> QED
    BY <1>0, <1>5, <2>1 DEF HandleMsg, Return, peers, maps, main, Types, Filed, Home
<1>6. CASE TestCloseCb(l)
  BY <1>0, <1>6 DEF TestCloseCb, MoveTo, Return, peers, maps, main, Types, Filed, Home
<1>7. CASE CloseLock(l)
  BY <1>0, <1>7 DEF CloseLock, LockServer, MoveTo, peers, main, Filed, Home
<1>8. CASE CloseErase(l)
  BY <1>0, <1>8 DEF CloseErase, EraseFromServer, Return, peers, main, Types, Filed, Home
<1>9. CASE UseFreed(l)
  BY <1>0, <1>9 DEF UseFreed, peers, maps, main, loops, Filed, Home
<1> QED
  BY <1>1, <1>2, <1>3, <1>4, <1>5, <1>6, <1>7, <1>8, <1>9 DEF HandleEvent

LEMMA WalkFiled == ASSUME TypeInv, NEW l \in Loops, Walk(l) PROVE Filed'
<1>0. Types /\ Filed
  BY DEF TypeInv, TypeOK
<1>1. CASE HandleTimer(l) \/ LoseTimer(l) \/ ScanKeep(l)
  BY <1>0, <1>1 DEF HandleTimer, LoseTimer, ScanKeep, WalkTo, peers, maps, main, Filed, Home
<1>2. CASE ScanTimeOut(l) \/ ReapLock(l)
  BY <1>0, <1>2 DEF ScanTimeOut, ReapLock, LockServer, MoveTo, peers, maps, main, Filed, Home
<1>3. CASE ReapErase(l)
  BY <1>0, <1>3 DEF ReapErase, EraseFromServer, MoveTo, peers, main, Types, Filed, Home
<1>4. CASE Reap(l)
  <2>1. UNCHANGED <<svr, peers, main, held, on>>
    BY <1>4 DEF Reap, WalkTo
  <2>2. lmap' = [lmap EXCEPT ![it[l]] = None]
    BY <1>4 DEF Reap
  <2> QED
    BY <1>0, <2>1, <2>2 DEF peers, main, Types, Filed, Home
<1> QED
  BY <1>1, <1>2, <1>3, <1>4 DEF Walk

LEMMA FiledStep == TypeInv /\ [Next]_vars => Filed'
<1> SUFFICES ASSUME TypeInv, [Next]_vars PROVE Filed'
  OBVIOUS
<1>0. Types /\ Filed /\ 0 \notin Fds
  BY FdsAssumption DEF TypeInv, TypeOK
<1>1. CASE Environment
  <2>1. ASSUME NEW c \in Conns, Connect(c) PROVE Filed'
    BY <1>0, <2>1 DEF Connect, maps, main, loops, Types, Filed, Home
  <2>2. ASSUME NEW c \in Conns, PeerSend(c) \/ PeerClose(c) \/ Reply(c) \/ EndJobs(c) PROVE Filed'
    BY <1>0, <2>2 DEF PeerSend, PeerClose, Reply, EndJobs, peers, maps, main, loops, Filed, Home
  <2>3. ASSUME NEW l \in Loops, TimerExpire(l) PROVE Filed'
    BY <1>0, <2>3 DEF TimerExpire, peers, maps, main, loops, Filed, Home
  <2> QED
    BY <1>1, <2>1, <2>2, <2>3 DEF Environment
<1>2. ASSUME NEW l \in Loops, Torn(l) PROVE Filed'
  BY <1>0, <1>2 DEF Torn, peers, maps, main, loops, Filed, Home
<1>3. CASE UNCHANGED vars
  BY <1>0, <1>3 DEF vars, peers, maps, main, loops, Filed, Home
<1> QED
  BY <1>1, <1>2, <1>3, MainFiled, HandlerFiled, WalkFiled DEF Next

-----------------------------------------------------------------------------
(* Where a handler and a walk stand *)

\* The connection in a map is the only open one with its number.
LEMMA InsertedIsOwn ==
    ASSUME TypeInv, mpc # "idle", NEW c \in Conns, lmap[fd[new]] = c \/ svr[fd[new]] = c
    PROVE  c = new
<1>1. new \in Conns /\ fd[new] \in Fds /\ fd[new] # 0 /\ c # None
  BY Subjects, NamesAssumption, FdsAssumption DEF TypeInv, Filed
<1>2. fd[c] = fd[new]
  BY <1>1 DEF TypeInv, Filed
<1> QED
  BY <1>1, <1>2 DEF TypeInv, FdsAreOwn, Open, Referenced

LEMMA MainPlaced == TypeInv /\ MainStep => Placed'
<1> SUFFICES ASSUME TypeInv, MainStep PROVE Placed'
  OBVIOUS
<1>0. Types /\ Placed /\ None \notin Conns /\ (mpc # "idle" => new \in Conns /\ fd[new] \in Fds)
  BY Subjects, NamesAssumption DEF TypeInv, TypeOK
<1>1. UNCHANGED <<lpc, on, it, disconn, age>>
  BY DEF MainStep, AcceptFails, Accept, Register, SetInEp, SetCloseCb, SetMsgCb, SetCallback, Lock,
     InsertInLoop, InsertInServer, Leave, connect, loops
<1>2. CASE InsertInLoop
  <2>1. mpc = "loop_conns" /\ lmap' = [lmap EXCEPT ![fd[new]] = new]
    BY <1>2 DEF InsertInLoop, MainAt
  <2>2. \A f \in Fds : lmap'[f] = lmap[f] \/ (f = fd[new] /\ lmap'[f] = new /\ lmap[f] = None)
    BY <1>0, <2>1, InsertedIsOwn DEF Types
  <2>3. \A l : Keys(l) \subseteq Keys(l)' /\ \A f \in Keys(l) : lmap'[f] = lmap[f]
    BY <1>0, <2>2 DEF Keys
  <2> QED
    BY <1>0, <1>1, <2>3 DEF Placed, Walking
<1>3. CASE UNCHANGED lmap
  BY <1>0, <1>1, <1>3 DEF Placed, Keys
<1> QED
  BY <1>2, <1>3 DEF MainStep, AcceptFails, Accept, Register, SetInEp, SetCloseCb, SetMsgCb, SetCallback,
     Lock, InsertInServer, Leave, maps

LEMMA HandlerPlaced == ASSUME TypeInv, NEW l \in Loops, HandleEvent(l) PROVE Placed'
<1> USE DEF InHandler, Walking
<1>0. Types /\ Placed /\ None \notin Conns /\ (lpc[l] \in InHandler => on[l] \in Conns)
  BY Subjects, NamesAssumption DEF TypeInv, TypeOK
<1>1. UNCHANGED <<it, lmap>>
  BY DEF HandleEvent, TakeEvent, ReadInput, ReadEnd, ReadEndTooEarly, HandleMsg, TestCloseCb, CloseLock,
     LockServer, CloseErase, EraseFromServer, UseFreed, MoveTo, Return, loops, maps
<1>2. \A k : Keys(k)' = Keys(k)
  BY <1>1 DEF Keys
<1>3. ASSUME NEW c \in Conns, TakeEvent(l, c) PROVE Placed'
  BY <1>0, <1>1, <1>2, <1>3 DEF TakeEvent, LoopAt, Goto, Types, Placed
<1>4. CASE ReadInput(l)
  BY <1>0, <1>1, <1>2, <1>4 DEF ReadInput, ConnAt, LoopAt, MoveTo, Return, Goto, connect, Types, Placed
<1>5. CASE ReadEnd(l)
  <2>1. on[l] \in Conns
    BY <1>0, <1>5 DEF ReadEnd, ConnAt, LoopAt
  <2> QED
    BY <1>0, <1>1, <1>2, <1>5, <2>1 DEF ReadEnd, ConnAt, LoopAt, MoveTo, Goto, Types, Placed
<1>6. CASE ReadEndTooEarly(l)
  BY <1>0, <1>1, <1>2, <1>6 DEF ReadEndTooEarly, connect, loops, Placed
<1>7. CASE HandleMsg(l)
  <2>1. on[l] \in Conns /\ lpc[l] = "msg" /\ Home(on[l]) = l
    BY <1>0, <1>7 DEF HandleMsg, ConnAt, LoopAt, TypeInv, Filed
  <2>2. /\ age' = [age EXCEPT ![on[l]] = 0] /\ UNCHANGED disconn
        /\ lpc' = [lpc EXCEPT ![l] = "wait"] /\ on' = [on EXCEPT ![l] = None]
    BY <1>7 DEF HandleMsg, Return, Goto
  <2>3. \A k \in Loops : \A f \in Keys(k) : k # l => lmap[f] # on[l]
    BY <2>1 DEF Keys, TypeInv, Filed, Home
  <2> QED
    BY <1>0, <1>1, <1>2, <2>1, <2>2, <2>3 DEF Types, Placed
<1>8. CASE TestCloseCb(l)
  BY <1>0, <1>1, <1>2, <1>8 DEF TestCloseCb, ConnAt, LoopAt, MoveTo, Return, Goto, connect, Types, Placed
<1>9. CASE CloseLock(l)
  BY <1>0, <1>1, <1>2, <1>9 DEF CloseLock, LockServer, LoopAt, MoveTo, Goto, connect, Types, Placed
<1>10. CASE CloseErase(l)
  BY <1>0, <1>1, <1>2, <1>10 DEF CloseErase, EraseFromServer, LoopAt, Return, Goto, connect, Types, Placed
<1>11. CASE UseFreed(l)
  BY <1>0, <1>1, <1>2, <1>11 DEF UseFreed, connect, loops, Placed
<1> QED
  BY <1>3, <1>4, <1>5, <1>6, <1>7, <1>8, <1>9, <1>10, <1>11 DEF HandleEvent

LEMMA WalkPlaced == ASSUME TypeInv, NEW l \in Loops, Walk(l) PROVE Placed'
<1> USE DEF InHandler, Walking
<1>0. Types /\ Placed
  BY DEF TypeInv, TypeOK
<1>1. UNCHANGED <<on, disconn, age>>
  BY DEF Walk, HandleTimer, LoseTimer, ScanKeep, ScanTimeOut, ReapLock, LockServer, ReapErase, EraseFromServer, Reap,
     MoveTo, WalkTo, connect
<1>2. CASE HandleTimer(l)
  BY <1>0, <1>1, <1>2, AfterIsLater DEF HandleTimer, LoopAt, WalkTo, Goto, maps, Types, Placed, Keys
<1>8. CASE LoseTimer(l)
  BY <1>0, <1>8 DEF LoseTimer, connect, maps, Placed, Keys
<1>3. CASE ScanKeep(l)
  BY <1>0, <1>1, <1>3, AfterIsLater DEF ScanKeep, LoopAt, WalkTo, Goto, maps, Types, Placed, Keys
<1>4. CASE ScanTimeOut(l)
  BY <1>0, <1>1, <1>4 DEF ScanTimeOut, LoopAt, MoveTo, Goto, maps, Types, Placed, Keys
<1>5. CASE ReapLock(l)
  BY <1>0, <1>1, <1>5 DEF ReapLock, LockServer, LoopAt, MoveTo, Goto, Types, Placed, Keys
<1>6. CASE ReapErase(l)
  BY <1>0, <1>1, <1>6 DEF ReapErase, EraseFromServer, LoopAt, MoveTo, Goto, Types, Placed, Keys
<1>7. CASE Reap(l)
  <2>1. lpc[l] = "reap" /\ it[l] \in Keys(l) /\ lmap' = [lmap EXCEPT ![it[l]] = None]
    BY <1>0, <1>7 DEF Reap, LoopAt, Placed
  <2>2. Keys(l)' = Keys(l) \ {it[l]}
    BY <1>0, <2>1 DEF Keys, Types
  <2>3. \A k \in Loops : k # l => Keys(k)' = Keys(k) /\ \A f \in Keys(k) : lmap'[f] = lmap[f]
    BY <1>0, <2>1 DEF Keys, Types
  <2>4. PICK pc \in {"scan", "hung"}, f \in Keys(l)' \cup {End} : WalkTo(l, pc, f)
    <3>1. Keys(l) \subseteq Nat
      BY FdsAssumption DEF Keys
    <3>2. After(l, it[l]) # End => After(l, it[l]) > it[l] /\ After(l, it[l]) \in Keys(l)
      BY AfterIsLater
    <3>3. \A f \in Keys(l) : f > it[l] => After(l, f) \in Keys(l)' \cup {End}
      <4> TAKE f \in Keys(l)
      <4> HAVE f > it[l]
      <4>1. After(l, f) = End \/ (After(l, f) \in Keys(l) /\ After(l, f) > f)
        BY AfterIsLater
      <4>2. After(l, f) \in Keys(l) /\ After(l, f) > f => After(l, f) # it[l]
        BY <2>1, <3>1
      <4> QED
        BY <2>2, <4>1, <4>2
    <3> DEFINE erased == After(l, it[l])
               left   == Keys(l) \ {it[l]}
    <3>4. \/ erased # End /\ WalkTo(l, "scan", After(l, erased))
          \/ erased = End /\ \E f \in left : WalkTo(l, "scan", f)
          \/ erased = End /\ left = {} /\ WalkTo(l, "hung", End)
      BY <1>7 DEF Reap
    <3> QED
      BY <2>2, <3>2, <3>3, <3>4
  <2>5. lpc' = [lpc EXCEPT ![l] = pc] /\ it' = [it EXCEPT ![l] = f]
    BY <2>4 DEF WalkTo, Goto
  <2>6. ASSUME NEW k \in Loops, k # l
        PROVE  lpc'[k] = lpc[k] /\ it'[k] = it[k] /\ Keys(k)' = Keys(k)
               /\ (it[k] \in Keys(k) => lmap'[it[k]] = lmap[it[k]])
    BY <1>0, <2>3, <2>5, <2>6 DEF Types
  <2>7. lpc'[l] = pc /\ it'[l] = f
    BY <1>0, <2>5 DEF Types
  <2>8. lpc[l] = "reap" /\ on[l] = None
    BY <1>0, <2>1 DEF Placed
  <2> QED
    BY <1>0, <1>1, <2>4, <2>6, <2>7, <2>8 DEF Placed
<1> QED
  BY <1>2, <1>3, <1>4, <1>5, <1>6, <1>7, <1>8 DEF Walk

LEMMA PlacedStep == TypeInv /\ [Next]_vars => Placed'
<1> SUFFICES ASSUME TypeInv, [Next]_vars PROVE Placed'
  OBVIOUS
<1>0. Types /\ Placed
  BY DEF TypeInv, TypeOK
<1>1. CASE Environment
  <2>1. UNCHANGED <<lpc, on, it, disconn, lmap>>
    BY <1>1 DEF Environment, Connect, PeerSend, PeerClose, Reply, EndJobs, TimerExpire, connect, maps, loops
  <2>2. UNCHANGED age \/ \E l \in Loops : TimerExpire(l)
    BY <1>1 DEF Environment, Connect, PeerSend, PeerClose, Reply, EndJobs, connect
  <2>3. \A c \in Conns : age[c] > MaxAge => age'[c] > MaxAge
    <3>1. \A c \in Conns : age[c] \in Nat
      BY <1>0, BoundsAssumption DEF Types
    <3> QED
      BY <2>2, <3>1, BoundsAssumption DEF TimerExpire
  <2>4. \A l \in Loops : \A f \in Keys(l) : lmap[f] \in Conns
    BY <1>0 DEF Keys, Types
  <2> QED
    BY <1>0, <2>1, <2>3, <2>4 DEF Placed, Keys, Walking
<1>2. ASSUME NEW l \in Loops, Torn(l) PROVE Placed'
  BY <1>0, <1>2 DEF Torn, connect, maps, loops, Placed, Keys
<1>3. CASE UNCHANGED vars
  BY <1>0, <1>3 DEF vars, connect, maps, loops, Placed, Keys
<1> QED
  BY <1>1, <1>2, <1>3, MainPlaced, HandlerPlaced, WalkPlaced DEF Next

-----------------------------------------------------------------------------
(* Descriptors *)

LEMMA FdWritten == [Next]_vars => UNCHANGED fd \/ \E c \in Conns : Accept(c)
BY DEF Next, vars, main, MainStep, AcceptFails, Register, SetInEp, SetCloseCb, SetMsgCb, Lock,
   InsertInLoop, InsertInServer, Leave, MainTo, HandleEvent, TakeEvent, ReadInput, ReadEnd,
   ReadEndTooEarly, HandleMsg, TestCloseCb, CloseLock, LockServer, CloseErase, EraseFromServer,
   UseFreed, Walk, HandleTimer, LoseTimer, ScanKeep, ScanTimeOut, ReapLock, ReapErase, Reap, Torn,
   Environment, Connect, PeerSend, PeerClose, Reply, EndJobs, TimerExpire

\* Nobody but accept4() opens a descriptor.
LEMMA NoneReopens ==
    ASSUME TypeInv, [Next]_vars, NEW c \in Conns, Open(c)'
    PROVE  Open(c) \/ Accept(c)
<1> SUFFICES ASSUME ~Accept(c) PROVE Open(c)
  OBVIOUS
<1>0. Types /\ Filed /\ None \notin Conns /\ (mpc # "idle" => new \in Conns /\ fd[new] \in Fds)
  BY Subjects, NamesAssumption DEF TypeInv, TypeOK
<1>1. fd'[c] = fd[c] /\ fd[c] # 0 /\ fd[c] \in Fds
  <2>2. \A d \in Conns : Accept(d) => fd'[c] = fd[c]
    BY <1>0 DEF Accept, Types
  <2> QED
    BY <1>0, <2>2, FdWritten DEF Open, Types
<1>2. Referenced(c)'
  BY DEF Open
<1>3. CASE MainStep
  <2>1. UNCHANGED <<held, on, lpc>>
    BY <1>3 DEF MainStep, AcceptFails, Accept, Register, SetInEp, SetCloseCb, SetMsgCb, SetCallback, Lock,
       InsertInLoop, InsertInServer, Leave, loops
  <2>2. new' = new \/ new' # c
    BY <1>0, <1>3 DEF MainStep, AcceptFails, Accept, Register, SetInEp, SetCloseCb, SetMsgCb, Lock,
       InsertInLoop, InsertInServer, Leave, MainTo, main
  <2>3. UNCHANGED lmap \/ (mpc # "idle" /\ lmap' = [lmap EXCEPT ![fd[new]] = new])
    BY <1>3 DEF MainStep, AcceptFails, Accept, Register, SetInEp, SetCloseCb, SetMsgCb, SetCallback, Lock,
       InsertInLoop, InsertInServer, Leave, MainAt, maps
  <2>4. UNCHANGED svr \/ (mpc # "idle" /\ svr' = [svr EXCEPT ![fd[new]] = new])
    BY <1>3 DEF MainStep, AcceptFails, Accept, Register, SetInEp, SetCloseCb, SetMsgCb, SetCallback, Lock,
       InsertInLoop, InsertInServer, Leave, MainAt, maps
  <2>5. (lmap'[fd[c]] = c => lmap[fd[c]] = c \/ new = c) /\ (svr'[fd[c]] = c => svr[fd[c]] = c \/ new = c)
    BY <1>0, <1>1, <2>3, <2>4 DEF Types
  <2> QED
    BY <1>1, <1>2, <2>1, <2>2, <2>5 DEF Open, Referenced
<1>4. ASSUME NEW l \in Loops, HandleEvent(l) \/ Walk(l) PROVE Open(c)
  <2>1. UNCHANGED new
    BY <1>4 DEF HandleEvent, TakeEvent, ReadInput, ReadEnd, ReadEndTooEarly, HandleMsg, TestCloseCb,
       CloseLock, LockServer, CloseErase, EraseFromServer, UseFreed, Walk, HandleTimer, LoseTimer, ScanKeep,
       ScanTimeOut, ReapLock, ReapErase, Reap, main
  <2>2. UNCHANGED <<lmap, svr>> \/ CloseErase(l) \/ ReapErase(l) \/ Reap(l)
    BY <1>4 DEF HandleEvent, TakeEvent, ReadInput, ReadEnd, ReadEndTooEarly, HandleMsg, TestCloseCb,
       CloseLock, LockServer, UseFreed, Walk, HandleTimer, LoseTimer, ScanKeep, ScanTimeOut, ReapLock, maps
  <2>3. (lmap'[fd[c]] = c => lmap[fd[c]] = c) /\ (svr'[fd[c]] = c => svr[fd[c]] = c)
    BY <1>0, <1>1, <2>2 DEF CloseErase, ReapErase, EraseFromServer, Reap, Types
  <2>4. c \in held' => c \in held \/ Open(c)
    BY <1>4 DEF HandleEvent, TakeEvent, ReadInput, ReadEnd, ReadEndTooEarly, HandleMsg, TestCloseCb,
       ConnAt, CloseLock, LockServer, CloseErase, EraseFromServer, UseFreed, Walk, HandleTimer, LoseTimer, ScanKeep,
       ScanTimeOut, ReapLock, ReapErase, Reap
  <2>5. ASSUME NEW k \in Loops, on'[k] = c, lpc'[k] \in {"close_lock", "close_erase"}
        PROVE  Open(c) \/ (on[k] = c /\ lpc[k] \in {"close_lock", "close_erase"})
    <3>1. CASE k # l
      <4>1. \E pc : lpc' = [lpc EXCEPT ![l] = pc] \/ UNCHANGED lpc
        BY <1>4 DEF HandleEvent, TakeEvent, ReadInput, ReadEnd, ReadEndTooEarly, HandleMsg, TestCloseCb,
           CloseLock, LockServer, CloseErase, UseFreed, Walk, HandleTimer, LoseTimer, ScanKeep,
           ScanTimeOut, ReapLock, ReapErase, Reap, MoveTo, Return, WalkTo, Goto, loops
      <4>2. \E d : on' = [on EXCEPT ![l] = d] \/ UNCHANGED on
        BY <1>4 DEF HandleEvent, TakeEvent, ReadInput, ReadEnd, ReadEndTooEarly, HandleMsg, TestCloseCb,
           CloseLock, LockServer, CloseErase, UseFreed, Walk, HandleTimer, LoseTimer, ScanKeep,
           ScanTimeOut, ReapLock, ReapErase, Reap, MoveTo, Return, WalkTo, loops
      <4> QED
        BY <1>0, <2>5, <3>1, <4>1, <4>2 DEF Types
    <3>2. CASE k = l
      <4>1. CASE TestCloseCb(l)
        BY <1>0, <2>5, <3>2, <4>1 DEF TestCloseCb, ConnAt, MoveTo, Return, Goto, Types
      <4>2. CASE CloseLock(l)
        BY <1>0, <2>5, <3>2, <4>2 DEF CloseLock, LockServer, LoopAt, MoveTo, Goto, Types
      <4>3. CASE ReadEndTooEarly(l) \/ UseFreed(l) \/ LoseTimer(l)
        BY <2>5, <3>2, <4>3 DEF ReadEndTooEarly, UseFreed, LoseTimer, loops
      <4>4. ASSUME NEW pc \in {"read", "msg", "wait", "close", "scan", "reap_lock", "reap_erase", "reap", "hung"},
                   Goto(l, pc)
            PROVE  FALSE
        BY <1>0, <2>5, <3>2, <4>4 DEF Goto, Types
      <4> QED
        BY <1>4, <4>1, <4>2, <4>3, <4>4 DEF HandleEvent, TakeEvent, ReadInput, ReadEnd, HandleMsg,
           CloseErase, Walk, HandleTimer, ScanKeep, ScanTimeOut, ReapLock, LockServer, ReapErase, Reap,
           MoveTo, Return, WalkTo
    <3> QED
      BY <3>1, <3>2
  <2> QED
    BY <1>1, <1>2, <2>1, <2>3, <2>4, <2>5 DEF Open, Referenced
<1>5. CASE UNCHANGED <<new, lmap, svr, on, lpc>> /\ held' \subseteq held
  BY <1>1, <1>2, <1>5 DEF Open, Referenced
<1> QED
  BY <1>3, <1>4, <1>5 DEF Next, vars, Torn, Environment, Connect, PeerSend, PeerClose, Reply, EndJobs,
     TimerExpire, main, maps, loops

LEMMA FdsStep == TypeInv /\ [Next]_vars => FdsAreOwn'
<1> SUFFICES ASSUME TypeInv, [Next]_vars,
                    NEW c \in Conns, NEW d \in Conns, Open(c)', Open(d)', fd'[c] = fd'[d]
             PROVE  c = d
  BY DEF FdsAreOwn
<1>1. ASSUME NEW x \in Conns, NEW y \in Conns, x # y, Accept(x), Open(y) PROVE fd'[x] # fd'[y]
  <2>1. PICK f \in FreeFds : f \in Fds /\ fd' = [fd EXCEPT ![x] = f]
    BY <1>1, AcceptIsFresh
  <2> QED
    BY <1>1, <2>1 DEF FreeFds, TypeInv, TypeOK, Types
<1>2. CASE Accept(c) \/ Accept(d)
  <2>1. Accept(c) /\ Accept(d) => c = d
    BY DEF Accept
  <2> QED
    BY <1>1, <1>2, <2>1, NoneReopens
<1>3. CASE ~Accept(c) /\ ~Accept(d)
  <2>1. Open(c) /\ Open(d)
    BY <1>3, NoneReopens
  <2>2. fd'[c] = fd[c] /\ fd'[d] = fd[d]
    BY <1>3, FdWritten DEF Accept, TypeInv, TypeOK, Types
  <2> QED
    BY <2>1, <2>2 DEF TypeInv, FdsAreOwn
<1> QED
  BY <1>2, <1>3

LEMMA TypeInvInit == Init => TypeInv
<1> SUFFICES ASSUME Init PROVE TypeInv
  OBVIOUS
<1>1. Types
  BY BoundsAssumption DEF Init, Types, MainPcs, LoopPcs, End
<1>2. TypeOK
  BY <1>1, NamesAssumption, Names DEF Init, TypeOK
<1>3. Filed /\ Placed /\ FdsAreOwn
  BY DEF Init, Filed, Placed, InHandler, Walking, FdsAreOwn, Open
<1> QED
  BY <1>2, <1>3 DEF TypeInv

\* The inductive invariant.
THEOREM TypeInvAlways == Spec => []TypeInv
<1>1. TypeInv /\ [Next]_vars => TypeInv'
  BY TypesStep, FiledStep, PlacedStep, FdsStep DEF TypeInv
<1> QED
  BY <1>1, TypeInvInit, PTL DEF Spec

\* Every variable keeps its type, and tcpsvr::_mutex is held exactly by the one
\* thread that is in a section it guards (tcpsvr.cc:44, 58 and 109).
THEOREM TypeCorrect == Spec => []TypeOK
<1>1. TypeInv => TypeOK
  BY DEF TypeInv
<1> QED
  BY <1>1, TypeInvAlways, PTL

-----------------------------------------------------------------------------
(* The two maps *)

\* What a connection in the server's map or in a map of a loop has to do with
\* the main thread's and with a walk that is about to erase it.
Agreement ==
    /\ MapsAgree
    /\ mpc = "conns" => new \in {lmap[fd[new]]} \cup overtaken
    /\ \A l \in Loops :
          lpc[l] = "reap" => /\ svr[it[l]] \in {None} \cup overtaken
                             /\ new = lmap[it[l]] => new \in overtaken

LEMMA MainAgreement == TypeInv /\ Agreement /\ MainStep => Agreement'
<1> SUFFICES ASSUME TypeInv, Agreement, MainStep PROVE Agreement'
  OBVIOUS
<1>0. Types /\ (mpc # "idle" => new \in Conns /\ fd[new] \in Fds)
  BY Subjects DEF TypeInv, TypeOK
<1>1. UNCHANGED <<lpc, it, overtaken>>
  BY DEF MainStep, AcceptFails, Accept, Register, SetInEp, SetCloseCb, SetMsgCb, SetCallback, Lock,
     InsertInLoop, InsertInServer, Leave, loops, history
<1>2. \A l \in Loops : lpc[l] = "reap" => it[l] \in Fds /\ lmap[it[l]] # None /\ lmap[it[l]] \in Conns
  BY <1>0 DEF TypeInv, Placed, Walking, Keys, Types
<1>3. ASSUME NEW c \in Conns, Accept(c) PROVE Agreement'
  <2>1. UNCHANGED <<lmap, svr>> /\ mpc' = "register" /\ new' = c
    BY <1>3 DEF Accept, maps
  <2> QED
    BY <1>1, <1>2, <1>3, <2>1, AcceptIsFresh DEF Agreement, MapsAgree
<1>4. CASE InsertInLoop
  <2>1. mpc = "loop_conns" /\ lmap' = [lmap EXCEPT ![fd[new]] = new] /\ UNCHANGED <<svr, new, fd>>
    BY <1>4 DEF InsertInLoop, MainAt, MainTo
  <2>2. lmap'[fd[new]] = new /\ \A f \in Fds : f # fd[new] => lmap'[f] = lmap[f]
    BY <1>0, <2>1 DEF Types
  <2>3. svr[fd[new]] \in {None, new}
    BY <1>0, <2>1, InsertedIsOwn DEF Types
  <2>4. MapsAgree'
    BY <1>1, <2>1, <2>2, <2>3 DEF Agreement, MapsAgree
  <2>5. \A l \in Loops : lpc[l] = "reap" => lmap'[it[l]] = lmap[it[l]]
    BY <1>0, <1>2, <2>1, <2>2, InsertedIsOwn
  <2> QED
    BY <1>1, <2>1, <2>2, <2>4, <2>5 DEF Agreement
<1>5. CASE InsertInServer
  <2>1. mpc = "conns" /\ mpc' = "leave" /\ svr' = [svr EXCEPT ![fd[new]] = new] /\ UNCHANGED <<lmap, new, fd>>
    BY <1>5 DEF InsertInServer, MainAt, MainTo
  <2>2. svr'[fd[new]] = new /\ \A f \in Fds : f # fd[new] => svr'[f] = svr[f]
    BY <1>0, <2>1 DEF Types
  <2> QED
    BY <1>1, <1>2, <2>1, <2>2 DEF Agreement, MapsAgree
<1>6. CASE Leave
  BY <1>1, <1>2, <1>6 DEF Leave, maps, Agreement, MapsAgree
<1>7. CASE UNCHANGED <<lmap, svr, new, fd>> /\ (mpc' = mpc \/ mpc' # "conns")
  BY <1>1, <1>7 DEF Agreement, MapsAgree
<1> QED
  BY <1>3, <1>4, <1>5, <1>6, <1>7 DEF MainStep, AcceptFails, Register, SetInEp, SetCloseCb, SetMsgCb,
     SetCallback, Lock, MainTo, maps, main

LEMMA WalkAgreement == ASSUME TypeInv, Agreement, NEW l \in Loops, Walk(l) PROVE Agreement'
<1>0. Types /\ (mpc # "idle" => new \in Conns /\ fd[new] \in Fds)
  BY Subjects DEF TypeInv, TypeOK
<1>1. UNCHANGED <<mpc, new, fd>>
  BY DEF Walk, HandleTimer, LoseTimer, ScanKeep, ScanTimeOut, ReapLock, LockServer, ReapErase, EraseFromServer, Reap, main
<1>2. \A k \in Loops : lpc[k] \in Walking \ {"scan"} =>
                          it[k] \in Fds /\ it[k] % ThdCount = k /\ lmap[it[k]] # None
  BY <1>0 DEF TypeInv, Placed, Walking, Keys
<1>3. CASE HandleTimer(l) \/ LoseTimer(l) \/ ScanKeep(l)
  BY <1>0, <1>1, <1>3 DEF HandleTimer, LoseTimer, ScanKeep, LoopAt, WalkTo, Goto, maps, history, Types, Agreement, MapsAgree
<1>4. CASE ScanTimeOut(l)
  BY <1>0, <1>1, <1>4 DEF ScanTimeOut, LoopAt, MoveTo, Goto, maps, history, Types, Agreement, MapsAgree
<1>5. CASE ReapLock(l)
  BY <1>0, <1>1, <1>5 DEF ReapLock, LoopAt, LockServer, MoveTo, Goto, history, Types, Agreement, MapsAgree
<1>6. CASE ReapErase(l)
  <2>1. it[l] \in Fds /\ svr' = [svr EXCEPT ![it[l]] = None] /\ UNCHANGED <<lmap, it>>
        /\ lpc' = [lpc EXCEPT ![l] = "reap"]
    BY <1>2, <1>6 DEF ReapErase, LoopAt, Walking, EraseFromServer, MoveTo, Goto
  <2>2. overtaken \subseteq overtaken' /\ (new = lmap[it[l]] => new \in overtaken')
    BY <1>6 DEF ReapErase
  <2>3. svr'[it[l]] = None /\ \A f \in Fds : svr'[f] \in {svr[f], None}
    BY <1>0, <2>1 DEF Types
  <2>4. \A k \in Loops : k # l => lpc'[k] = lpc[k]
    BY <1>0, <2>1 DEF Types
  <2>5. MapsAgree' /\ (mpc' = "conns" => new' \in {lmap'[fd'[new']]} \cup overtaken')
    BY <1>1, <2>1, <2>2, <2>3 DEF Agreement, MapsAgree
  <2>6. ASSUME NEW k \in Loops, lpc'[k] = "reap"
        PROVE  svr'[it'[k]] \in {None} \cup overtaken' /\ (new' = lmap'[it'[k]] => new' \in overtaken')
    <3>1. CASE k = l
      BY <1>1, <2>1, <2>2, <2>3, <3>1
    <3>2. CASE k # l
      <4>1. lpc[k] = "reap" /\ it[k] \in Fds
        BY <1>2, <2>4, <2>6, <3>2 DEF Walking
      <4> QED
        BY <1>1, <2>1, <2>2, <2>3, <4>1 DEF Agreement
    <3> QED
      BY <3>1, <3>2
  <2> QED
    BY <2>5, <2>6 DEF Agreement
<1>7. CASE Reap(l)
  <2>1. lpc[l] = "reap" /\ it[l] \in Fds /\ lmap' = [lmap EXCEPT ![it[l]] = None] /\ UNCHANGED <<svr, overtaken>>
    BY <1>2, <1>7 DEF Reap, LoopAt, Walking, history
  <2>2. lmap'[it[l]] = None /\ \A f \in Fds : f # it[l] => lmap'[f] = lmap[f]
    BY <1>0, <2>1 DEF Types
  <2>3. svr[it[l]] \in {None} \cup overtaken /\ (new = lmap[it[l]] => new \in overtaken)
    BY <2>1 DEF Agreement
  <2>4. MapsAgree' /\ (mpc' = "conns" => new' \in {lmap'[fd'[new']]} \cup overtaken')
    BY <1>0, <1>1, <2>1, <2>2, <2>3 DEF Agreement, MapsAgree
  <2>5. \E pc \in {"scan", "hung"} : \E f : WalkTo(l, pc, f)
    BY <1>7 DEF Reap
  <2>6. lpc'[l] # "reap" /\ \A k \in Loops : k # l => lpc'[k] = lpc[k] /\ it'[k] = it[k]
    BY <1>0, <2>5 DEF WalkTo, Goto, Types
  <2>7. \A k \in Loops : k # l /\ lpc[k] = "reap" => it[k] # it[l] /\ it[k] \in Fds
    BY <1>2, <2>1 DEF Walking
  <2> QED
    BY <1>1, <2>1, <2>2, <2>4, <2>6, <2>7 DEF Agreement
<1> QED
  BY <1>3, <1>4, <1>5, <1>6, <1>7 DEF Walk

LEMMA AgreementStep == TypeInv /\ Agreement /\ [Next]_vars => Agreement'
<1> SUFFICES ASSUME TypeInv, Agreement, [Next]_vars PROVE Agreement'
  OBVIOUS
<1>0. Types
  BY DEF TypeInv, TypeOK
<1>1. ASSUME NEW l \in Loops, HandleEvent(l) PROVE Agreement'
  <2>1. UNCHANGED <<lmap, mpc, new, fd, it, overtaken>>
    BY <1>1 DEF HandleEvent, TakeEvent, ReadInput, ReadEnd, ReadEndTooEarly, HandleMsg, TestCloseCb,
       CloseLock, LockServer, CloseErase, EraseFromServer, UseFreed, MoveTo, Return, loops, maps, main, history
  <2>2. UNCHANGED svr \/ \E f : svr' = [svr EXCEPT ![f] = None]
    BY <1>1 DEF HandleEvent, TakeEvent, ReadInput, ReadEnd, ReadEndTooEarly, HandleMsg, TestCloseCb,
       CloseLock, LockServer, CloseErase, EraseFromServer, UseFreed, maps
  <2>3. \A f \in Fds : svr'[f] \in {svr[f], None}
    BY <1>0, <2>2 DEF Types
  <2>4. UNCHANGED lpc \/ \E pc \in LoopPcs \ {"reap"} : lpc' = [lpc EXCEPT ![l] = pc]
    BY <1>1 DEF HandleEvent, TakeEvent, ReadInput, ReadEnd, ReadEndTooEarly, HandleMsg, TestCloseCb,
       CloseLock, LockServer, CloseErase, UseFreed, MoveTo, Return, Goto, loops, LoopPcs
  <2>5. \A k \in Loops : lpc'[k] = "reap" => lpc[k] = "reap" /\ it[k] \in Fds
    BY <1>0, <2>4 DEF Types, TypeInv, Placed, Walking, Keys
  <2> QED
    BY <2>1, <2>3, <2>5 DEF Agreement, MapsAgree
<1>2. CASE UNCHANGED <<maps, main, lpc, it, overtaken>>
  BY <1>2 DEF maps, main, Agreement, MapsAgree
<1> QED
  BY <1>1, <1>2, MainAgreement, WalkAgreement DEF Next, Torn, vars, Environment, Connect, PeerSend,
     PeerClose, Reply, EndJobs, TimerExpire, loops, history

\* The server's map and the loops' maps agree at every moment, although several
\* threads write them and no lock covers both (tcpsvr.cc:44 to 47, 59 and 110,
\* eventloop.cc:108): what the server has under a number the loop has too,
\* unless the timer reaped it while it was being registered.
THEOREM MapsAlwaysAgree == Spec => []MapsAgree
<1>1. Init => Agreement
  BY NamesAssumption DEF Init, Agreement, MapsAgree
<1>2. Agreement => MapsAgree
  BY DEF Agreement
<1> QED
  BY <1>1, <1>2, TypeInvAlways, AgreementStep, PTL DEF Spec

-----------------------------------------------------------------------------
(* What leaves a map *)

\* Two connections the maps or a close have under one number are the same.
LEMMA FiledIsOwn ==
    ASSUME TypeInv, NEW c \in Conns, NEW d \in Conns,
           Referenced(c), Referenced(d), fd[c] = fd[d], fd[c] # 0
    PROVE  c = d
BY DEF TypeInv, FdsAreOwn, Open

LEMMA ErasedStep ==
    ASSUME TypeInv, [Next]_vars, NEW f \in Fds
    PROVE  /\ svr[f] # None /\ svr'[f] # svr[f] => svr[f] \in disconn \/ age[svr[f]] > MaxAge
           /\ lmap[f] # None /\ lmap'[f] # lmap[f] => age[lmap[f]] > MaxAge
<1>0. Types /\ f # 0 /\ (mpc # "idle" => new \in Conns /\ fd[new] \in Fds)
  BY Subjects, FdsAssumption DEF TypeInv, TypeOK
<1>1. ASSUME svr[f] # None PROVE svr[f] \in Conns /\ fd[svr[f]] = f /\ Referenced(svr[f])
  BY <1>0, <1>1 DEF TypeInv, Filed, Types, Referenced
<1>2. ASSUME lmap[f] # None PROVE lmap[f] \in Conns /\ fd[lmap[f]] = f /\ Referenced(lmap[f])
  BY <1>0, <1>2 DEF TypeInv, Filed, Types, Referenced
<1>3. CASE InsertInLoop
  BY <1>0, <1>2, <1>3, InsertedIsOwn DEF InsertInLoop, MainAt, Types
<1>4. CASE InsertInServer
  BY <1>0, <1>1, <1>4, InsertedIsOwn DEF InsertInServer, MainAt, Types
<1>5. ASSUME NEW l \in Loops, CloseErase(l)
      PROVE  UNCHANGED lmap /\ (svr[f] # None /\ svr'[f] # svr[f] => svr[f] \in disconn)
  <2>1. lpc[l] = "close_erase" /\ svr' = [svr EXCEPT ![fd[on[l]]] = None] /\ UNCHANGED lmap
    BY <1>5 DEF CloseErase, LoopAt, EraseFromServer
  <2>2. on[l] \in Conns /\ fd[on[l]] \in Fds /\ on[l] \in disconn /\ Referenced(on[l])
    BY <2>1, Subjects DEF InHandler, TypeInv, Placed, Referenced
  <2>3. svr[f] # None /\ f = fd[on[l]] => svr[f] = on[l]
    BY <1>0, <1>1, <2>2, FiledIsOwn
  <2> QED
    BY <1>0, <2>1, <2>2, <2>3 DEF Types
<1>6. ASSUME NEW l \in Loops, lpc[l] \in {"reap_erase", "reap"}
      PROVE  lmap[it[l]] # None /\ age[lmap[it[l]]] > MaxAge
  BY <1>6 DEF TypeInv, Placed, Walking, Keys
<1>7. ASSUME NEW l \in Loops, ReapErase(l)
      PROVE  UNCHANGED lmap /\ (svr[f] # None /\ svr'[f] # svr[f] => age[svr[f]] > MaxAge)
  <2>1. lpc[l] = "reap_erase" /\ svr' = [svr EXCEPT ![it[l]] = None] /\ UNCHANGED lmap
    BY <1>7 DEF ReapErase, LoopAt, EraseFromServer
  <2>2. svr[f] # None /\ f = it[l] => svr[f] = lmap[it[l]]
    BY <1>0, <1>1, <1>2, <1>6, <2>1, FiledIsOwn
  <2> QED
    BY <1>0, <1>6, <2>1, <2>2 DEF Types
<1>8. ASSUME NEW l \in Loops, Reap(l)
      PROVE  UNCHANGED svr /\ (lmap[f] # None /\ lmap'[f] # lmap[f] => age[lmap[f]] > MaxAge)
  BY <1>0, <1>6, <1>8 DEF Reap, LoopAt, Types
<1>9. CASE UNCHANGED <<lmap, svr>>
  BY <1>9
<1>10. ASSUME NEW l \in Loops, HandleEvent(l), ~CloseErase(l) PROVE UNCHANGED <<lmap, svr>>
  BY <1>10 DEF HandleEvent, TakeEvent, ReadInput, ReadEnd, ReadEndTooEarly, HandleMsg, TestCloseCb, CloseLock,
     LockServer, UseFreed, maps
<1>11. ASSUME NEW l \in Loops, Walk(l), ~ReapErase(l), ~Reap(l) PROVE UNCHANGED <<lmap, svr>>
  BY <1>11 DEF Walk, HandleTimer, LoseTimer, ScanKeep, ScanTimeOut, ReapLock, LockServer, maps
<1>12. ASSUME MainStep, ~InsertInLoop, ~InsertInServer PROVE UNCHANGED <<lmap, svr>>
  BY <1>12 DEF MainStep, AcceptFails, Accept, Register, SetInEp, SetCloseCb, SetMsgCb, SetCallback, Lock, Leave, maps
<1>13. ASSUME Environment \/ (\E l \in Loops : Torn(l)) \/ UNCHANGED vars PROVE UNCHANGED <<lmap, svr>>
  BY <1>13 DEF Environment, Connect, PeerSend, PeerClose, Reply, EndJobs, TimerExpire, Torn, vars, maps
<1> QED
  BY <1>3, <1>4, <1>5, <1>7, <1>8, <1>9, <1>10, <1>11, <1>12, <1>13 DEF Next

\* No connection leaves a map for nothing, although close, timeout and insertion
\* all go by the number (tcpsvr.cc:47, 59 and 110, eventloop.cc:108 and 115) and
\* numbers are used again: while a map or a close refers to a connection its
\* number is not free.
THEOREM NoneErasedForNothing == Spec => ErasedForCause
<1> DEFINE Cause(f) ==
             /\ svr[f] # None /\ svr'[f] # svr[f] => svr[f] \in disconn \/ age[svr[f]] > MaxAge
             /\ lmap[f] # None /\ lmap'[f] # lmap[f] => age[lmap[f]] > MaxAge
<1>1. TypeInv /\ [Next]_vars => [\A f \in Fds : Cause(f)]_vars
  BY ErasedStep
<1> QED
  BY <1>1, TypeInvAlways, PTL DEF Spec, ErasedForCause

-----------------------------------------------------------------------------
(* Input *)

\* The epoll watches a connection from its registration until its close.
Watched == \A c \in Conns : Open(c) => c \in reg \/ (new = c /\ mpc = "register") \/ c \in fin

InputInv == Watched /\ InputHasEvent

LEMMA MainInput == TypeInv /\ InputInv /\ MainStep => InputInv'
<1> SUFFICES ASSUME TypeInv, InputInv, MainStep, NEW c \in Conns, Open(c)'
             PROVE  /\ (c \in reg \/ (new = c /\ mpc = "register") \/ c \in fin)'
                    /\ (unread[c] > 0 => \/ new = c /\ mpc = "register"
                                         \/ c \in edge
                                         \/ \E l \in Loops : on[l] = c /\ lpc[l] = "read")'
  BY DEF InputInv, Watched, InputHasEvent
<1>1. UNCHANGED <<fin, unread, on, lpc>> /\ reg \subseteq reg' /\ edge \subseteq edge'
  BY DEF MainStep, AcceptFails, Accept, Register, SetInEp, SetCloseCb, SetMsgCb, SetCallback, Lock,
     InsertInLoop, InsertInServer, Leave, peers, connect, loops
<1>2. CASE Accept(c)
  BY <1>2 DEF Accept
<1>3. CASE Register /\ c = new
  <2>1. c \in reg' /\ (unread[c] > 0 => c \in edge')
    BY <1>3 DEF Register
  <2> QED
    BY <1>1, <2>1
<1>4. CASE ~Accept(c) /\ ~(Register /\ c = new)
  <2>1. Open(c)
    BY <1>4, NoneReopens DEF Next
  <2>2. new = c /\ mpc = "register" => new' = c /\ mpc' = "register"
    BY <1>4 DEF MainStep, AcceptFails, Accept, Register, SetInEp, SetCloseCb, SetMsgCb, Lock,
       InsertInLoop, InsertInServer, Leave, MainAt, main
  <2> QED
    BY <1>1, <2>1, <2>2 DEF InputInv, Watched, InputHasEvent
<1> QED
  BY <1>2, <1>3, <1>4

LEMMA HandlerInput == ASSUME TypeInv, InputInv, NEW l \in Loops, HandleEvent(l) \/ Walk(l) PROVE InputInv'
<1> SUFFICES ASSUME NEW c \in Conns, Open(c)'
             PROVE  /\ (c \in reg \/ (new = c /\ mpc = "register") \/ c \in fin)'
                    /\ (unread[c] > 0 => \/ new = c /\ mpc = "register"
                                         \/ c \in edge
                                         \/ \E k \in Loops : on[k] = c /\ lpc[k] = "read")'
  BY DEF InputInv, Watched, InputHasEvent
<1>0. Types
  BY DEF TypeInv, TypeOK
<1>1. UNCHANGED <<fin, new, mpc>>
  BY DEF HandleEvent, TakeEvent, ReadInput, ReadEnd, ReadEndTooEarly, HandleMsg, TestCloseCb,
     CloseLock, LockServer, CloseErase, EraseFromServer, UseFreed, Walk, HandleTimer, LoseTimer, ScanKeep,
     ScanTimeOut, ReapLock, ReapErase, Reap, peers, main
<1>2. Open(c)
  <2>1. ~Accept(c)
    BY <1>1 DEF Accept, MainAt
  <2> QED
    BY <2>1, NoneReopens DEF Next
<1>3. ASSUME NEW d \in Conns, TakeEvent(l, d)
      PROVE  /\ UNCHANGED <<reg, unread>> /\ edge' = edge \ {d}
             /\ on'[l] = d /\ lpc'[l] = "read"
             /\ \A k \in Loops : lpc[k] = "read" => on'[k] = on[k] /\ lpc'[k] = "read"
  BY <1>0, <1>3 DEF TakeEvent, LoopAt, Goto, peers, Types
<1>4. ASSUME ReadInput(l) \/ ReadEnd(l)
      PROVE  /\ reg' \cup fin = reg \cup fin /\ edge \ {on[l]} \subseteq edge'
             /\ unread' = [unread EXCEPT ![on[l]] = 0]
             /\ \A k \in Loops : k # l => on'[k] = on[k] /\ lpc'[k] = lpc[k]
  BY <1>0, <1>4 DEF ReadInput, ReadEnd, MoveTo, Return, Goto, connect, Types
<1>5. ASSUME ~\E d \in Conns : TakeEvent(l, d), ~(ReadInput(l) \/ ReadEnd(l))
      PROVE  /\ UNCHANGED <<reg, edge, unread>>
             /\ \A k \in Loops : lpc[k] = "read" => on'[k] = on[k] /\ lpc'[k] = "read"
  <2>1. UNCHANGED <<reg, edge, unread>>
    BY <1>5 DEF HandleEvent, ReadEndTooEarly, HandleMsg, TestCloseCb, CloseLock, LockServer, CloseErase,
       EraseFromServer, UseFreed, Walk, HandleTimer, LoseTimer, ScanKeep, ScanTimeOut, ReapLock, ReapErase, Reap,
       peers, connect
  <2>2. UNCHANGED <<on, lpc>> \/ (lpc[l] # "read" /\ \A k \in Loops : k # l => on'[k] = on[k] /\ lpc'[k] = lpc[k])
    <3>1. ASSUME NEW pc, Goto(l, pc) PROVE \A k \in Loops : k # l => lpc'[k] = lpc[k]
      BY <1>0, <3>1 DEF Goto, Types
    <3>2. ASSUME UNCHANGED on \/ on' = [on EXCEPT ![l] = None] PROVE \A k \in Loops : k # l => on'[k] = on[k]
      BY <1>0, <3>2 DEF Types
    <3> QED
      BY <1>5, <3>1, <3>2 DEF HandleEvent, ReadEndTooEarly, HandleMsg, TestCloseCb, CloseLock, LockServer,
         CloseErase, UseFreed, Walk, HandleTimer, LoseTimer, ScanKeep, ScanTimeOut, ReapLock, ReapErase, Reap,
         ConnAt, LoopAt, MoveTo, Return, WalkTo, loops
  <2> QED
    BY <2>1, <2>2
<1>6. c \in reg \/ (new = c /\ mpc = "register") \/ c \in fin
  BY <1>2 DEF InputInv, Watched
<1>7. unread[c] > 0 => \/ new = c /\ mpc = "register"
                       \/ c \in edge
                       \/ \E k \in Loops : on[k] = c /\ lpc[k] = "read"
  BY <1>2 DEF InputInv, InputHasEvent
<1>8. CASE \E d \in Conns : TakeEvent(l, d)
  BY <1>1, <1>3, <1>6, <1>7, <1>8
<1>9. CASE ReadInput(l) \/ ReadEnd(l)
  <2>1. unread'[c] > 0 => unread[c] > 0 /\ c # on[l]
    BY <1>0, <1>4, <1>9 DEF Types
  <2> QED
    BY <1>1, <1>4, <1>6, <1>7, <1>9, <2>1
<1> QED
  BY <1>1, <1>5, <1>6, <1>7, <1>8, <1>9

LEMMA InputStep == TypeInv /\ InputInv /\ [Next]_vars => InputInv'
<1> SUFFICES ASSUME TypeInv, InputInv, [Next]_vars PROVE InputInv'
  OBVIOUS
<1>0. Types
  BY DEF TypeInv, TypeOK
<1>1. CASE Environment
  <2>1. UNCHANGED <<reg, new, mpc, on, lpc>> /\ fin \subseteq fin' /\ edge \subseteq edge'
    BY <1>1 DEF Environment, Connect, PeerSend, PeerClose, Reply, EndJobs, TimerExpire, Signal, peers,
       connect, main, loops
  <2>2. ASSUME NEW c \in Conns, Open(c)' PROVE Open(c)
    <3>1. ~Accept(c)
      BY <2>1 DEF Accept, MainAt
    <3> QED
      BY <1>1, <2>2, <3>1, NoneReopens DEF Next
  <2>3. ASSUME NEW c \in Conns, Open(c), unread'[c] > 0
        PROVE  unread[c] > 0 \/ (new = c /\ mpc = "register") \/ c \in edge'
    <3>1. UNCHANGED unread \/ \E d \in Conns : PeerSend(d)
      BY <1>1 DEF Environment, Connect, PeerSend, PeerClose, Reply, EndJobs, TimerExpire, peers
    <3>2. ASSUME PeerSend(c) PROVE (new = c /\ mpc = "register") \/ c \in edge'
      BY <2>3, <3>2 DEF PeerSend, Reachable, Signal, InputInv, Watched
    <3>3. ASSUME NEW d \in Conns, d # c, PeerSend(d) PROVE unread'[c] = unread[c]
      BY <1>0, <3>3 DEF PeerSend, Types
    <3> QED
      BY <2>3, <3>1, <3>2, <3>3
  <2> QED
    BY <2>1, <2>2, <2>3 DEF InputInv, Watched, InputHasEvent
<1>2. CASE UNCHANGED <<peers, connect, held, maps, main, loops>>
  BY <1>2 DEF peers, connect, maps, main, loops, InputInv, Watched, InputHasEvent, Open, Referenced
<1> QED
  BY <1>1, <1>2, MainInput, HandlerInput DEF Next, Torn, vars

\* Input that comes at any moment, before the accept or in the middle of the
\* registration, is not lost with its edge: it waits for EPOLL_CTL_ADD
\* (poller.cc:31), has an event to report or is being read (connect.cc:65).
THEOREM InputAlwaysHasEvent == Spec => []InputHasEvent
<1>1. Init => InputInv
  BY DEF Init, InputInv, Watched, InputHasEvent, Open
<1>2. InputInv => InputHasEvent
  BY DEF InputInv
<1> QED
  BY <1>1, <1>2, TypeInvAlways, InputStep, PTL DEF Spec

=============================================================================
