--------------------------- MODULE EventLoopProofs ---------------------------
(***************************************************************************)
(* Theorems about EventLoop for any number of connections, workers and     *)
(* messages.                                                               *)
(***************************************************************************)
EXTENDS EventLoop, FiniteSetTheorems, Least

(* The invariant *)

\* What the kernel knows of a connection: it is registered from its
\* establishment to its close or its end, for the events its channel asks for.
KernelOf(c) ==
    /\ ep.reg[c] # {} => Alive(c) /\ ep.reg[c] = evs[c] /\ Established \subseteq evs[c]
    /\ InReady(ep, c) => ep.reg[c] # {}
    /\ Alive(c) => inEp[c] /\ (ep.reg[c] # {} \/ disconn[c])
    /\ out[c] => inEp[c]
    /\ disconn[c] => inEp[c] /\ fin[c] /\ ep.reg[c] = {}

\* The loop's own channels are registered for ever.
Kernel ==
    /\ ep.reg[Weak] = WeakEvents /\ ep.reg[Timer] = TimerEvents
    /\ \A c \in Conns : KernelOf(c)

\* A batch holds a channel once, and no connection that is closed.
Batch ==
    /\ lpc \in {"top", "wait"} => batch = <<>>
    /\ LoopAt("dispatch") => batch # <<>>
    /\ \A i, j \in 1..Len(batch) : batch[i].ch = batch[j].ch => i = j
    /\ \A c \in Conns : InBatch(c) => inEp[c] /\ ~disconn[c]

\* The queue holds the tasks pushed last, and the loop runs the one before them.
Hands ==
    /\ \A w \in Workers : wpc[w] = "idle" <=> wconn[w] = 0
    /\ Len(tasks) <= posted
    /\ \A i \in 1..Len(tasks) : tasks[i][1] = posted - Len(tasks) + i
    /\ lpc = "run" <=> hand # NoTask
    /\ hand # NoTask => hand[1] = posted - Len(tasks) /\ hand[1] > 0

LoopInv == TypeOK /\ IteratorValid /\ Kernel /\ Batch /\ Hands

-----------------------------------------------------------------------------
(* The epoll's operators *)

Ep == [reg : [Channels -> SUBSET Events], ready : SUBSET Channels]

LEMMA SignalEffect ==
    ASSUME NEW e \in Ep, NEW ch \in Channels, NEW ev
    PROVE  /\ Signal(e, ch, ev) \in Ep
           /\ Signal(e, ch, ev).reg = e.reg
           /\ \A d : InReady(Signal(e, ch, ev), d) <=> InReady(e, d) \/ (d = ch /\ ev \in e.reg[ch])
BY DEF Ep, Signal, MakeReady, InReady

LEMMA ControlEffect ==
    ASSUME NEW e \in Ep, NEW ch \in Channels, NEW mask \in SUBSET Events, NEW level
    PROVE  /\ Control(e, ch, mask, level) \in Ep
           /\ Control(e, ch, mask, level).reg = [e.reg EXCEPT ![ch] = mask]
           /\ \A d : InReady(Control(e, ch, mask, level), d)
                        <=> InReady(e, d) \/ (d = ch /\ level \cap mask # {})
<1> DEFINE registered == [e EXCEPT !.reg[ch] = mask]
<1>1. registered \in Ep /\ registered.reg = [e.reg EXCEPT ![ch] = mask] /\ registered.ready = e.ready
  BY DEF Ep
<1>2. MakeReady(registered, ch) = [registered EXCEPT !.ready = @ \cup {ch}]
  BY DEF MakeReady
<1>3. CASE level \cap mask # {}
  <2>1. Control(e, ch, mask, level) = MakeReady(registered, ch)
    BY <1>3 DEF Control
  <2> HIDE DEF registered
  <2> QED
    BY <1>1, <1>2, <1>3, <2>1 DEF Ep, InReady
<1>4. CASE level \cap mask = {}
  <2>1. Control(e, ch, mask, level) = registered
    BY <1>4 DEF Control
  <2> HIDE DEF registered
  <2> QED
    BY <1>1, <1>4, <2>1 DEF Ep, InReady
<1> QED
  BY <1>3, <1>4

LEMMA DeleteEffect ==
    ASSUME NEW e \in Ep, NEW ch \in Channels
    PROVE  /\ Delete(e, ch) \in Ep
           /\ Delete(e, ch).reg = [e.reg EXCEPT ![ch] = {}]
           /\ \A d : InReady(Delete(e, ch), d) <=> InReady(e, d) /\ d # ch
BY DEF Ep, Delete, InReady

LEMMA AfterWaitEffect ==
    ASSUME NEW e \in Ep, NEW levels
    PROVE  /\ AfterWait(e, levels) \in Ep
           /\ AfterWait(e, levels).reg = e.reg
           /\ \A d : InReady(AfterWait(e, levels), d) <=> d \in Reported(e, levels) /\ "ET" \notin e.reg[d]
BY DEF Ep, AfterWait, Reported, InReady

-----------------------------------------------------------------------------
(* Iterators, and the array of epoll_wait() *)

\* ++it reaches a later connection of the map, or end().
LEMMA AfterIsLater ==
    ASSUME NEW map \in SUBSET Conns, NEW fd
    PROVE  After(map, fd) = End \/ (After(map, fd) \in map /\ After(map, fd) > fd)
<1> DEFINE later == {c \in map : c > fd}
<1>1. CASE later = {}
  BY <1>1 DEF After
<1>2. CASE later # {}
  <2>1. later \in SUBSET Nat
    BY ConnsAssumption
  <2>2. \E c \in later : \A d \in later : c <= d
    BY <1>2, <2>1, LeastNatural
  <2>3. After(map, fd) = CHOOSE c \in later : \A d \in later : c <= d
    BY <1>2 DEF After
  <2> QED
    BY <2>2, <2>3
<1> QED
  BY <1>1, <1>2

\* The array holds every channel the kernel reports, once.
LEMMA WaitedBatch ==
    ASSUME TypeOK, EpollWait
    PROVE  /\ batch' \in Seq([ch : Channels, own : SUBSET Events, revs : SUBSET Events])
           /\ batch' # <<>>
           /\ \A i, j \in 1..Len(batch') : batch'[i].ch = batch'[j].ch => i = j
           /\ \A ch : InBatch(ch)' <=> ch \in Reported(ep, Level)
<1> DEFINE channels == Reported(ep, Level)
           own(ch)  == Level[ch] \cap ep.reg[ch]
           n        == Cardinality(channels)
<1>1. channels \subseteq Channels /\ \A ch \in channels : own(ch) \in SUBSET Events
  BY DEF Reported, TypeOK
<1>2. n \in Nat /\ n # 0
  <2>1. IsFiniteSet(Channels)
    <3>1. IsFiniteSet(Conns \cup {Weak})
      BY ConnsAssumption, FS_AddElement
    <3>2. IsFiniteSet((Conns \cup {Weak}) \cup {Timer})
      BY <3>1, FS_AddElement
    <3>3. Channels = (Conns \cup {Weak}) \cup {Timer}
      BY DEF Channels
    <3> QED
      BY <3>2, <3>3
  <2>2. IsFiniteSet(channels)
    BY <1>1, <2>1, FS_Subset
  <2>3. channels # {}
    BY DEF EpollWait
  <2> QED
    BY <2>2, <2>3, FS_CardinalityType, FS_EmptySet
<1>3. PICK array \in Bijection(1..n, channels) :
         batch' = [i \in 1..n |-> [ch |-> array[i], own |-> own(array[i]), revs |-> own(array[1])]]
  BY DEF EpollWait
<1> HIDE DEF channels, own, n
<1>4. /\ array \in [1..n -> channels]
      /\ \A i, j \in 1..n : array[i] = array[j] => i = j
      /\ \A ch \in channels : \E i \in 1..n : array[i] = ch
  BY DEF Bijection, Injection, Surjection, IsInjective
<1>5. 1 \in 1..n
  BY <1>2
<1>6. \A i \in 1..n : batch'[i] \in [ch : Channels, own : SUBSET Events, revs : SUBSET Events]
  BY <1>1, <1>3, <1>4, <1>5
<1>7. batch' \in Seq([ch : Channels, own : SUBSET Events, revs : SUBSET Events]) /\ Len(batch') = n
  <2>1. batch' \in [1..n -> [ch : Channels, own : SUBSET Events, revs : SUBSET Events]]
    BY <1>3, <1>6
  <2> QED
    BY <1>2, <2>1, FunctionIsSeq
<1>8. \A i \in 1..n : batch'[i].ch = array[i]
  BY <1>3
<1> QED
  BY <1>2, <1>4, <1>7, <1>8 DEF InBatch, channels

-----------------------------------------------------------------------------
(* Types *)

\* The calls that change what the kernel knows.
LEMMA UpdateTypes ==
    ASSUME TypeOK, NEW c \in Conns, NEW mask \in SUBSET Events, NEW level, Update(c, mask, level)
    PROVE  /\ evs' \in [Conns -> SUBSET Events] /\ inEp' \in [Conns -> BOOLEAN]
           /\ ep' \in Ep /\ fault' \in {"none", "exit", "dangling", "killed"} /\ swallowed' \subseteq Conns
<1>1. ep \in Ep /\ c \in Channels
  BY DEF TypeOK, Ep, Channels
<1> QED
  <2>1. ep' = ep \/ ep' = Control(ep, c, mask, level)
    BY DEF Update
  <2>2. ep' \in Ep
    <3>1. Control(ep, c, mask, level) \in Ep
      BY <1>1, ControlEffect
    <3> QED
      BY <1>1, <2>1, <3>1
  <2>3. fault' = fault \/ fault' = "exit"
    BY DEF Update
  <2>4. /\ evs' = [evs EXCEPT ![c] = mask] /\ inEp' = [inEp EXCEPT ![c] = TRUE]
        /\ swallowed' = swallowed \ {c}
    BY DEF Update
  <2> QED
    BY <2>2, <2>3, <2>4 DEF TypeOK

LEMMA ReleaseTypes ==
    ASSUME NEW c \in Conns, NEW kernel \in Ep, ReleaseConn(c, kernel)
    PROVE  ep' \in Ep
BY DeleteEffect DEF ReleaseConn, Channels

\* What remains of a batch when its first channel is handled.
LEMMA HandlingTypes ==
    ASSUME TypeOK, LoopInv, NEW ch, Handling(ch)
    PROVE  /\ batch \in Seq([ch : Channels, own : SUBSET Events, revs : SUBSET Events]) /\ batch # <<>>
           /\ batch' \in Seq([ch : Channels, own : SUBSET Events, revs : SUBSET Events])
           /\ batch' = Tail(batch) /\ lpc = "dispatch" /\ Running /\ Return(batch') \in LoopPcs
BY DEF Handling, LoopAt, LoopInv, Batch, TypeOK, Return, LoopPcs

LEMMA HandleEventTypes == LoopInv /\ HandleEvent => TypeOK'
<1> SUFFICES ASSUME LoopInv, HandleEvent PROVE TypeOK'
  OBVIOUS
<1> USE DEF Ep
<1>0. TypeOK /\ 0 \in Nat /\ 0 \in 0..MaxAge + 1
  BY BoundsAssumption DEF LoopInv
<1>1. CASE ReadEventFd
  <2>1. lpc' \in LoopPcs
    BY <1>1 DEF ReadEventFd, LoopPcs
  <2> QED
    BY <1>0, <1>1, <2>1, HandlingTypes DEF ReadEventFd, peers, connect, workers, TypeOK
<1>2. CASE HandleTimer
  <2>1. lpc' \in LoopPcs
    BY <1>2 DEF HandleTimer, LoopPcs
  <2>2. cur' \in {End} \cup Conns
    BY <1>0, <1>2, AfterIsLater DEF HandleTimer, Begin, TypeOK
  <2> QED
    BY <1>0, <1>2, <2>1, <2>2, HandlingTypes DEF HandleTimer, peers, connect, workers, TypeOK
<1>3. ASSUME NEW ch, HandleNothing(ch) PROVE TypeOK'
  BY <1>0, <1>3, HandlingTypes DEF HandleNothing, peers, connect, workers, TypeOK
<1>4. ASSUME NEW c \in Conns, HandleFreed(c) PROVE TypeOK'
  BY <1>0, <1>4, HandlingTypes DEF HandleFreed, peers, connect, workers, TypeOK
<1>5. ASSUME NEW c \in Conns, OnMsg(c) PROVE TypeOK'
  <2>1. PICK picked \in Nat : /\ jobs' = jobs \o [i \in 1..picked |-> c]
                              /\ age' = IF picked = 0 THEN age ELSE [age EXCEPT ![c] = 0]
    <3>1. (IF unread[c] = 0 THEN {0} ELSE 1..unread[c]) \subseteq Nat
      BY <1>0 DEF TypeOK
    <3> QED
      BY <1>5, <3>1 DEF OnMsg
  <2>2. jobs' \in Seq(Conns)
    <3>1. [i \in 1..picked |-> c] \in Seq(Conns)
      OBVIOUS
    <3> QED
      BY <1>0, <2>1, <3>1 DEF TypeOK
  <2>3. age' \in [Conns -> 0..MaxAge + 1]
    BY <1>0, <2>1 DEF TypeOK
  <2>4. unread' \in [Conns -> Nat]
    BY <1>0, <1>5 DEF OnMsg, LeftUnread, TypeOK
  <2> QED
    BY <1>0, <1>5, <2>2, <2>3, <2>4, HandlingTypes DEF OnMsg, TypeOK
<1>6. ASSUME NEW c \in Conns, OnMsgClosed(c) PROVE TypeOK'
  <2>1. ep' \in Ep
    BY <1>0, <1>6, DeleteEffect DEF OnMsgClosed, RemoveChannel, TypeOK, Channels
  <2> QED
    BY <1>0, <1>6, <2>1, HandlingTypes DEF OnMsgClosed, RemoveChannel, workers, TypeOK
<1>7. ASSUME NEW c \in Conns, WriteBlocked(c) PROVE TypeOK'
  BY <1>0, <1>7, HandlingTypes DEF WriteBlocked, peers, connect, workers, TypeOK
<1>10. ASSUME NEW c \in Conns, WriteFails(c) PROVE TypeOK'
  <2>1. reset' \in [Conns -> {"no", "reset", "failed", "pipe"}]
    BY <1>0, <1>10 DEF WriteFails, TypeOK
  <2> QED
    BY <1>0, <1>10, <2>1, HandlingTypes DEF WriteFails, connect, workers, TypeOK
<1>9. ASSUME NEW c \in Conns, WriteKills(c) PROVE TypeOK'
  BY <1>0, <1>9 DEF WriteKills, peers, connect, loop, workers, TypeOK
<1>8. ASSUME NEW c \in Conns, WriteDone(c) PROVE TypeOK'
  <2>1. PICK stuffed \in BOOLEAN : /\ full' = [full EXCEPT ![c] = stuffed]
                                   /\ Update(c, evs[c] \ {"OUT"}, ConnLevel(unread[c], fin[c], stuffed))
    BY <1>0, <1>8 DEF WriteDone, TypeOK
  <2>2. evs[c] \ {"OUT"} \in SUBSET Events
    BY <1>0 DEF TypeOK
  <2>3. /\ evs' \in [Conns -> SUBSET Events] /\ inEp' \in [Conns -> BOOLEAN]
        /\ ep' \in Ep /\ fault' \in {"none", "exit", "dangling", "killed"} /\ swallowed' \subseteq Conns
    BY <1>0, <2>1, <2>2, UpdateTypes
  <2> QED
    BY <1>0, <1>8, <2>1, <2>3, HandlingTypes DEF WriteDone, workers, TypeOK
<1> QED
  BY <1>1, <1>2, <1>3, <1>4, <1>5, <1>6, <1>7, <1>8, <1>9, <1>10 DEF HandleEvent

LEMMA LoopTypes == LoopInv /\ LoopStep => TypeOK'
<1> SUFFICES ASSUME LoopInv, LoopStep PROVE TypeOK'
  OBVIOUS
<1> USE DEF Ep, LoopPcs
<1>0. TypeOK
  BY DEF LoopInv
<1>1. CASE ReadShutDown
  BY <1>0, <1>1 DEF ReadShutDown, peers, connect, workers, TypeOK
<1>2. CASE EpollWait
  <2>1. ep' \in Ep
    BY <1>0, <1>2, AfterWaitEffect DEF EpollWait, TypeOK
  <2>2. batch' \in Seq([ch : Channels, own : SUBSET Events, revs : SUBSET Events])
    BY <1>0, <1>2, WaitedBatch
  <2> QED
    BY <1>0, <1>2, <2>1, <2>2 DEF EpollWait, peers, connect, workers, TypeOK
<1>3. CASE LockTasks \/ EndDrain \/ EndScan
  BY <1>0, <1>3 DEF LockTasks, EndDrain, EndScan, Return, peers, connect, workers, TypeOK
<1>4. CASE NextTask
  <2>1. Head(tasks) \in Nat \X Conns /\ Tail(tasks) \in Seq(Nat \X Conns)
    BY <1>0, <1>4 DEF NextTask, TypeOK
  <2> QED
    BY <1>0, <1>4, <2>1 DEF NextTask, peers, connect, workers, TypeOK
<1>5. CASE RunTask
  <2>1. hand \in Nat \X Conns
    BY <1>0, <1>5 DEF RunTask, LoopAt, LoopInv, Hands, TypeOK
  <2>2. hand[2] \in Conns /\ evs[hand[2]] \cup {"OUT"} \in SUBSET Events
    BY <1>0, <2>1 DEF TypeOK, Events
  <2>3. /\ evs' \in [Conns -> SUBSET Events] /\ inEp' \in [Conns -> BOOLEAN]
        /\ ep' \in Ep /\ fault' \in {"none", "exit", "dangling", "killed"} /\ swallowed' \subseteq Conns
    BY <1>0, <1>5, <2>2, UpdateTypes DEF RunTask
  <2>4. hand' \in {NoTask} \cup (Nat \X Conns) /\ lpc' \in LoopPcs
    BY <1>0, <1>5 DEF RunTask, TypeOK
  <2>5. out' \in [Conns -> BOOLEAN]
    BY <1>0, <1>5 DEF RunTask, TypeOK
  <2> QED
    BY <1>0, <1>5, <2>3, <2>4, <2>5 DEF RunTask, peers, workers, TypeOK
<1>6. CASE RunTaskOfFreed
  BY <1>0, <1>6 DEF RunTaskOfFreed, peers, connect, loop, workers, TypeOK
<1>7. CASE ScanKeep
  BY <1>0, <1>7, AfterIsLater DEF ScanKeep, peers, connect, workers, TypeOK
<1>8. CASE ScanReap
  <2>1. cur \in Conns
    BY <1>0, <1>8 DEF ScanReap, TypeOK
  <2>2. ep' \in Ep
    BY <1>0, <1>8, <2>1, ReleaseTypes DEF ScanReap, TypeOK
  <2>3. cur' \in {End} \cup Conns /\ lpc' \in LoopPcs /\ conns' \subseteq Conns
    BY <1>0, <1>8, AfterIsLater DEF ScanReap, TypeOK
  <2> QED
    BY <1>0, <1>8, <2>2, <2>3 DEF ScanReap, peers, connect, TypeOK
<1> QED
  BY <1>1, <1>2, <1>3, <1>4, <1>5, <1>6, <1>7, <1>8, HandleEventTypes DEF LoopStep

LEMMA TypesStep == LoopInv /\ [Next]_vars => TypeOK'
<1> SUFFICES ASSUME LoopInv, [Next]_vars PROVE TypeOK'
  OBVIOUS
<1> USE DEF Ep
<1>0. TypeOK
  BY DEF LoopInv
<1>1. ASSUME NEW w \in Workers, TakeJob(w) PROVE TypeOK'
  <2>1. Head(jobs) \in Conns /\ Tail(jobs) \in Seq(Conns)
    BY <1>0, <1>1 DEF TakeJob, TypeOK
  <2> QED
    BY <1>0, <1>1, <2>1 DEF TakeJob, peers, connect, loop, TypeOK
<1>2. ASSUME NEW w \in Workers, FindDisconnected(w) \/ WakeLoop(w) PROVE TypeOK'
  <2>1. wconn[w] \in Conns
    BY <1>0, <1>2 DEF FindDisconnected, WakeLoop, WorkerAt, LoopInv, Hands, TypeOK
  <2>2. PICK kernel \in Ep : EndJob(w, kernel)
    BY <1>0, <1>2, SignalEffect DEF FindDisconnected, WakeLoop, TypeOK, Channels
  <2>3. ep' \in Ep
    BY <2>1, <2>2, ReleaseTypes DEF EndJob
  <2> QED
    BY <1>0, <1>2, <2>2, <2>3 DEF FindDisconnected, WakeLoop, EndJob, peers, connect, loop, TypeOK
<1>3. ASSUME NEW w \in Workers, FindConnected(w) PROVE TypeOK'
  BY <1>0, <1>3 DEF FindConnected, peers, connect, loop, TypeOK
<1>4. ASSUME NEW w \in Workers, PushTask(w) PROVE TypeOK'
  <2>1. wconn[w] \in Conns
    BY <1>0, <1>4 DEF PushTask, WorkerAt, LoopInv, Hands, TypeOK
  <2>2. tasks' \in Seq(Nat \X Conns) /\ posted' \in Nat
    BY <1>0, <1>4, <2>1 DEF PushTask, TypeOK
  <2> QED
    BY <1>0, <1>4, <2>2 DEF PushTask, peers, connect, loop, TypeOK
<1>5. CASE SetShutDown
  BY <1>0, <1>5 DEF SetShutDown, peers, connect, loop, workers, TypeOK
<1>6. CASE WakeForShutDown
  BY <1>0, <1>6, SignalEffect DEF WakeForShutDown, peers, connect, loop, workers, TypeOK, Channels
<1>7. CASE TimerExpire
  <2>1. age' \in [Conns -> 0..MaxAge + 1]
    BY <1>0, <1>7, BoundsAssumption DEF TimerExpire, TypeOK
  <2> QED
    BY <1>0, <1>7, <2>1, SignalEffect DEF TimerExpire, peers, connect, loop, workers, TypeOK, Channels
<1>8. ASSUME NEW c \in Conns, Establish(c) PROVE TypeOK'
  <2>1. Established \in SUBSET Events
    BY DEF Established, Events
  <2>2. /\ evs' \in [Conns -> SUBSET Events] /\ inEp' \in [Conns -> BOOLEAN]
        /\ ep' \in Ep /\ fault' \in {"none", "exit", "dangling", "killed"} /\ swallowed' \subseteq Conns
    BY <1>0, <1>8, <2>1, UpdateTypes DEF Establish
  <2>3. age' \in [Conns -> 0..MaxAge + 1]
    BY <1>0, <1>8, BoundsAssumption DEF Establish, TypeOK
  <2> QED
    BY <1>0, <1>8, <2>2, <2>3 DEF Establish, peers, loop, workers, TypeOK
<1>9. ASSUME NEW c \in Conns, PeerSend(c) PROVE TypeOK'
  <2>1. unread' \in [Conns -> Nat] /\ sent' \in 0..MaxMsgs
    BY <1>0, <1>9, BoundsAssumption DEF PeerSend, TypeOK
  <2> QED
    BY <1>0, <1>9, <2>1, SignalEffect DEF PeerSend, connect, loop, workers, TypeOK, Channels
<1>10. ASSUME NEW c \in Conns, PeerClose(c) \/ PeerReset(c) \/ PeerDrain(c) PROVE TypeOK'
  <2>2. /\ fin' \in [Conns -> BOOLEAN] /\ full' \in [Conns -> BOOLEAN]
        /\ reset' \in [Conns -> {"no", "reset", "failed", "pipe"}]
    BY <1>0, <1>10 DEF PeerClose, PeerReset, PeerDrain, TypeOK
  <2>1. ep' \in Ep
    <3>1. ep \in Ep /\ c \in Channels
      BY <1>0 DEF TypeOK, Channels
    <3>2. ep' = Signal(ep, c, "IN") \/ ep' = Signal(ep, c, "OUT")
      BY <1>10 DEF PeerClose, PeerReset, PeerDrain
    <3> HIDE DEF Ep
    <3> QED
      BY <3>1, <3>2, SignalEffect
  <2> QED
    BY <1>0, <1>10, <2>1, <2>2 DEF PeerClose, PeerReset, PeerDrain, connect, loop, workers, TypeOK
<1>11. CASE UNCHANGED vars
  BY <1>0, <1>11 DEF vars, peers, connect, loop, workers, TypeOK
<1> QED
  BY <1>1, <1>2, <1>3, <1>4, <1>5, <1>6, <1>7, <1>8, <1>9, <1>10, <1>11, LoopTypes
     DEF Next, WorkerStep, Environment

-----------------------------------------------------------------------------
(* The kernel and the connections *)

LEMMA Own == Weak \in Channels /\ Timer \in Channels /\ Conns \subseteq Channels
             /\ \A c \in Conns : c # Weak /\ c # Timer /\ c # 0 /\ c \in Nat
BY ChannelsAssumption, ConnsAssumption DEF Channels

\* EPOLL_CTL_MOD of a descriptor that the kernel does not have.
Refused(c) == inEp[c] /\ ep.reg[c] = {}

\* What poller::update() does to the other channels and to its own.
LEMMA UpdateEffect ==
    ASSUME TypeOK, NEW c \in Conns, NEW mask \in SUBSET Events, NEW level, Update(c, mask, level)
    PROVE  /\ evs'[c] = mask /\ inEp'[c]
           /\ \A d \in Conns : d # c => evs'[d] = evs[d] /\ inEp'[d] = inEp[d]
           /\ \A d \in Channels : d # c => /\ ep'.reg[d] = ep.reg[d]
                                           /\ InReady(ep', d) <=> InReady(ep, d)
           /\ Refused(c) => ep' = ep /\ fault' = "exit"
           /\ ~Refused(c) => ep'.reg[c] = mask /\ fault' = fault
           /\ ~Refused(c) => \A ev \in mask : ev \in level => InReady(ep', c)
<1>1. ep \in Ep /\ c \in Channels /\ ep.reg \in [Channels -> SUBSET Events]
  BY Own DEF TypeOK, Ep
<1>2. /\ evs'[c] = mask /\ inEp'[c]
      /\ \A d \in Conns : d # c => evs'[d] = evs[d] /\ inEp'[d] = inEp[d]
  BY DEF Update, TypeOK
<1>3. CASE Refused(c)
  BY <1>2, <1>3 DEF Update, Refused
<1>4. CASE ~Refused(c)
  <2>1. ep' = Control(ep, c, mask, level) /\ fault' = fault
    BY <1>4 DEF Update, Refused
  <2>2. ep'.reg = [ep.reg EXCEPT ![c] = mask]
    BY <1>1, <2>1, ControlEffect
  <2>3. \A d : InReady(ep', d) <=> InReady(ep, d) \/ (d = c /\ level \cap mask # {})
    BY <1>1, <2>1, ControlEffect
  <2> QED
    BY <1>1, <1>2, <1>4, <2>1, <2>2, <2>3
<1> QED
  BY <1>3, <1>4

\* A step that neither registers a connection nor lets one go.
LEMMA KernelFrame ==
    ASSUME Kernel, UNCHANGED <<evs, inEp, disconn, out>>, ep'.reg = ep.reg,
           \A c \in Conns : /\ InReady(ep', c) => InReady(ep, c) \/ ep.reg[c] # {}
                            /\ Alive(c)' <=> Alive(c)
                            /\ fin[c] => fin'[c]
    PROVE  Kernel'
BY DEF Kernel, KernelOf

\* The last shared_ptr to a connection may go.
LEMMA KernelRelease ==
    ASSUME TypeOK, Kernel, UNCHANGED <<evs, inEp, disconn, out, fin>>,
           NEW c \in Conns, NEW kernel \in Ep, kernel.reg = ep.reg, ReleaseConn(c, kernel),
           \A d \in Conns : InReady(kernel, d) <=> InReady(ep, d),
           \A d \in Conns : d # c => (Alive(d)' <=> Alive(d)),
           Alive(c)' => Alive(c)
    PROVE  Kernel'
<1>1. ep.reg \in [Channels -> SUBSET Events] /\ c \in Channels
  BY Own DEF TypeOK
<1>2. CASE Alive(c)'
  <2>1. ep' = kernel
    BY <1>2 DEF ReleaseConn, Alive
  <2> QED
    BY <1>2, <2>1 DEF Kernel, KernelOf
<1>3. CASE ~Alive(c)'
  <2>1. ep' = Delete(kernel, c)
    BY <1>3 DEF ReleaseConn, Alive
  <2>2. ep'.reg = [ep.reg EXCEPT ![c] = {}] /\ \A d : InReady(ep', d) <=> InReady(kernel, d) /\ d # c
    BY <1>1, <2>1, DeleteEffect
  <2>3. ep'.reg[c] = {} /\ ~InReady(ep', c)
    BY <1>1, <2>2
  <2>4. \A d \in Channels : d # c => ep'.reg[d] = ep.reg[d]
    BY <1>1, <2>2
  <2>5. ASSUME NEW d \in Conns, d # c PROVE KernelOf(d)'
    <3>1. ep'.reg[d] = ep.reg[d] /\ (InReady(ep', d) <=> InReady(ep, d)) /\ (Alive(d)' <=> Alive(d))
      BY <2>2, <2>4, <2>5, Own
    <3> QED
      BY <3>1 DEF Kernel, KernelOf
  <2>6. KernelOf(c)'
    BY <1>3, <2>3 DEF Kernel, KernelOf
  <2> QED
    BY <2>4, <2>5, <2>6, Own DEF Kernel
<1> QED
  BY <1>2, <1>3

\* A worker that takes a job keeps its connection alive, one that returns may
\* be the last to have kept it.
LEMMA TakeJobAlive ==
    ASSUME LoopInv, NEW w \in Workers, TakeJob(w), NEW c \in Conns
    PROVE  Alive(c)' <=> Alive(c)
<1>0. TypeOK /\ wconn[w] = 0 /\ c # 0
  BY Own DEF TakeJob, WorkerAt, LoopInv, Hands
<1>1. jobs # <<>> /\ jobs \in Seq(Conns) /\ jobs' = Tail(jobs) /\ wconn' = [wconn EXCEPT ![w] = Head(jobs)]
  BY <1>0 DEF TakeJob, TypeOK
<1>2. (\E i \in 1..Len(jobs) : jobs[i] = c) <=> Head(jobs) = c \/ \E i \in 1..Len(jobs') : jobs'[i] = c
  BY <1>1, HeadAndTail
<1>3. (\E v \in Workers : wconn'[v] = c) <=> Head(jobs) = c \/ \E v \in Workers : wconn[v] = c
  BY <1>0, <1>1 DEF TypeOK
<1> QED
  BY <1>2, <1>3 DEF TakeJob, Alive, Referenced

LEMMA EndJobAlive ==
    ASSUME LoopInv, NEW w \in Workers, NEW kernel, EndJob(w, kernel), NEW c \in Conns
    PROVE  /\ c # wconn[w] => (Alive(c)' <=> Alive(c))
           /\ Alive(c)' => Alive(c)
<1>0. TypeOK /\ c # 0
  BY Own DEF LoopInv
<1>1. UNCHANGED <<jobs, conns>> /\ wconn' = [wconn EXCEPT ![w] = 0]
  BY DEF EndJob
<1>2. \A v \in Workers : wconn'[v] = IF v = w THEN 0 ELSE wconn[v]
  BY <1>0, <1>1 DEF TypeOK
<1> QED
  BY <1>0, <1>1, <1>2 DEF Alive, Referenced

LEMMA OnMsgAlive ==
    ASSUME LoopInv, NEW c \in Conns, OnMsg(c), NEW d \in Conns
    PROVE  Alive(d)' <=> Alive(d)
<1>0. TypeOK /\ Alive(c) /\ UNCHANGED <<conns, wconn>>
  BY DEF LoopInv, OnMsg
<1>1. PICK picked \in Nat : jobs' = jobs \o [i \in 1..picked |-> c]
  <2>1. (IF unread[c] = 0 THEN {0} ELSE 1..unread[c]) \subseteq Nat
    BY <1>0 DEF TypeOK
  <2> QED
    BY <2>1 DEF OnMsg
<1>2. jobs \in Seq(Conns) /\ [i \in 1..picked |-> c] \in Seq(Conns) /\ Len([i \in 1..picked |-> c]) = picked
  BY <1>0 DEF TypeOK
<1>3. \A i \in 1..Len(jobs') : jobs'[i] = c \/ (i \in 1..Len(jobs) /\ jobs'[i] = jobs[i])
  BY <1>1, <1>2
<1>4. \A i \in 1..Len(jobs) : i \in 1..Len(jobs') /\ jobs'[i] = jobs[i]
  BY <1>1, <1>2
<1> QED
  BY <1>0, <1>3, <1>4 DEF Alive, Referenced

\* What the timer erases loses one reference, and a connection that is
\* established gains its first.
LEMMA ReapAlive ==
    ASSUME LoopInv, ScanReap, NEW c \in Conns
    PROVE  /\ c # cur => (Alive(c)' <=> Alive(c))
           /\ Alive(c)' => Alive(c)
BY DEF ScanReap, Alive, Referenced

LEMMA EstablishAlive ==
    ASSUME NEW c \in Conns, Establish(c), NEW d \in Conns
    PROVE  Alive(d)' <=> Alive(d) \/ d = c
BY DEF Establish, workers, Alive, Referenced

LEMMA SameAlive ==
    ASSUME UNCHANGED <<conns, jobs, wconn>>
    PROVE  \A c : Alive(c)' <=> Alive(c)
BY DEF Alive, Referenced

\* A connection that can be handled is registered.
LEMMA HandledIsRegistered ==
    ASSUME LoopInv, NEW c \in Conns, Handling(c), Alive(c)
    PROVE  ep.reg[c] # {} /\ ep.reg[c] = evs[c] /\ inEp[c] /\ ~disconn[c]
<1>1. InBatch(c)
  BY HandlingTypes DEF LoopInv, InBatch, Handling
<1> QED
  BY <1>1 DEF LoopInv, Batch, Kernel, KernelOf

LEMMA KernelEvent == LoopInv /\ HandleEvent => Kernel'
<1> SUFFICES ASSUME LoopInv, HandleEvent PROVE Kernel'
  OBVIOUS
<1>0. TypeOK /\ Kernel /\ ep \in Ep
  BY DEF LoopInv, TypeOK, Ep
<1>1. CASE ReadEventFd \/ HandleTimer
  BY <1>0, <1>1, KernelFrame, SameAlive DEF ReadEventFd, HandleTimer, connect, peers, workers
<1>2. ASSUME NEW ch, HandleNothing(ch) PROVE Kernel'
  BY <1>0, <1>2, KernelFrame, SameAlive DEF HandleNothing, connect, peers, workers
<1>3. ASSUME NEW c \in Conns, HandleFreed(c) \/ WriteBlocked(c) \/ WriteFails(c) \/ WriteKills(c) PROVE Kernel'
  BY <1>0, <1>3, KernelFrame, SameAlive DEF HandleFreed, WriteBlocked, WriteFails, WriteKills, connect, peers, workers
<1>4. ASSUME NEW c \in Conns, OnMsg(c) PROVE Kernel'
  <2>1. \A d \in Conns : Alive(d)' <=> Alive(d)
    BY <1>4, OnMsgAlive
  <2> QED
    BY <1>0, <1>4, <2>1, KernelFrame DEF OnMsg
<1>5. ASSUME NEW c \in Conns, OnMsgClosed(c) PROVE Kernel'
  <2>1. /\ ep' = Delete(ep, c) /\ evs' = [evs EXCEPT ![c] = {}] /\ disconn' = [disconn EXCEPT ![c] = TRUE]
        /\ UNCHANGED <<inEp, out, fin, conns, jobs, wconn>> /\ fin[c]
    BY <1>5 DEF OnMsgClosed, RemoveChannel, workers
  <2>2. inEp[c]
    BY <1>5, HandledIsRegistered DEF OnMsgClosed
  <2>3. ep'.reg = [ep.reg EXCEPT ![c] = {}] /\ \A d : InReady(ep', d) <=> InReady(ep, d) /\ d # c
    BY <1>0, <2>1, DeleteEffect, Own
  <2>4. ep'.reg[c] = {} /\ \A d \in Channels : d # c => ep'.reg[d] = ep.reg[d]
    BY <1>0, <2>3, Own DEF Ep
  <2>5. \A d : Alive(d)' <=> Alive(d)
    BY <2>1, SameAlive
  <2>6. KernelOf(c)'
    BY <1>0, <2>1, <2>2, <2>3, <2>4 DEF KernelOf, TypeOK
  <2>7. ASSUME NEW d \in Conns, d # c PROVE KernelOf(d)'
    <3>1. evs'[d] = evs[d] /\ disconn'[d] = disconn[d]
      BY <1>0, <2>1, <2>7 DEF TypeOK
    <3> QED
      BY <1>0, <2>1, <2>3, <2>4, <2>5, <2>7, <3>1, Own DEF Kernel, KernelOf
  <2> QED
    BY <1>0, <2>4, <2>6, <2>7, Own DEF Kernel
<1>6. ASSUME NEW c \in Conns, WriteDone(c) PROVE Kernel'
  <2>1. /\ out' = [out EXCEPT ![c] = FALSE] /\ UNCHANGED <<disconn, fin, conns, jobs, wconn>>
        /\ Handling(c) /\ Alive(c)
    BY <1>6 DEF WriteDone, workers
  <2>2. ep.reg[c] # {} /\ ep.reg[c] = evs[c] /\ inEp[c] /\ ~disconn[c] /\ Established \subseteq evs[c]
    BY <1>0, <2>1, HandledIsRegistered DEF Kernel, KernelOf
  <2>3. PICK mask \in SUBSET Events : mask = evs[c] \ {"OUT"} /\ \E level : Update(c, mask, level)
    <3>1. evs[c] \ {"OUT"} \in SUBSET Events
      BY <1>0 DEF TypeOK
    <3> QED
      BY <1>6, <3>1 DEF WriteDone
  <2>4. Established \subseteq mask /\ mask # {}
    BY <2>2, <2>3 DEF Established
  <2>5. /\ evs'[c] = mask /\ inEp'[c] /\ ep'.reg[c] = mask
        /\ \A d \in Conns : d # c => evs'[d] = evs[d] /\ inEp'[d] = inEp[d]
        /\ \A d \in Channels : d # c => ep'.reg[d] = ep.reg[d] /\ (InReady(ep', d) <=> InReady(ep, d))
    <3>1. ~Refused(c)
      BY <2>2 DEF Refused
    <3>2. PICK level : Update(c, mask, level)
      BY <2>3
    <3> QED
      BY <1>0, <3>1, <3>2, UpdateEffect
  <2>6. \A d : Alive(d)' <=> Alive(d)
    BY <2>1, SameAlive
  <2>7. KernelOf(c)'
    BY <2>1, <2>2, <2>4, <2>5, <2>6 DEF KernelOf
  <2>8. ASSUME NEW d \in Conns, d # c PROVE KernelOf(d)'
    <3>1. out'[d] = out[d]
      BY <1>0, <2>1, <2>8 DEF TypeOK
    <3> QED
      BY <1>0, <2>1, <2>5, <2>6, <2>8, <3>1, Own DEF Kernel, KernelOf
  <2> QED
    BY <1>0, <2>5, <2>7, <2>8, Own DEF Kernel
<1> QED
  BY <1>1, <1>2, <1>3, <1>4, <1>5, <1>6 DEF HandleEvent

\* The task that runs is bound to a connection.
LEMMA TaskInHand ==
    ASSUME LoopInv, lpc = "run"
    PROVE  hand \in Nat \X Conns /\ \E c \in Conns : hand[2] = c
BY DEF LoopInv, Hands, TypeOK

LEMMA KernelLoop == LoopInv /\ LoopStep => Kernel'
<1> SUFFICES ASSUME LoopInv, LoopStep PROVE Kernel'
  OBVIOUS
<1>0. TypeOK /\ Kernel /\ ep \in Ep
  BY DEF LoopInv, TypeOK, Ep
<1>1. CASE ReadShutDown \/ LockTasks \/ NextTask \/ RunTaskOfFreed \/ EndDrain \/ ScanKeep \/ EndScan
  <2>1. UNCHANGED <<ep, peers, connect, conns, workers>>
    BY <1>1 DEF ReadShutDown, LockTasks, NextTask, RunTaskOfFreed, EndDrain, ScanKeep, EndScan
  <2> QED
    BY <1>0, <2>1, KernelFrame, SameAlive DEF connect, peers, workers
<1>2. CASE EpollWait
  <2>1. ep' = AfterWait(ep, Level) /\ UNCHANGED <<peers, connect, conns, workers>>
    BY <1>2 DEF EpollWait
  <2>2. ep'.reg = ep.reg /\ \A d : InReady(ep', d) => InReady(ep, d)
    BY <1>0, <2>1, AfterWaitEffect DEF Reported, InReady
  <2> QED
    BY <1>0, <2>1, <2>2, KernelFrame, SameAlive DEF connect, peers, workers
<1>3. ASSUME NEW c \in Conns, hand[2] = c, RunTask PROVE Kernel'
  <2>1. Alive(c)
    BY <1>3 DEF RunTask
  <2>2. out' = [out EXCEPT ![c] = TRUE] /\ UNCHANGED <<disconn, fin, conns, jobs, wconn>>
    BY <1>3, <2>1 DEF RunTask, peers, workers
  <2>3. PICK mask \in SUBSET Events : mask = evs[c] \cup {"OUT"} /\ Update(c, mask, Level[c])
    <3>1. evs[c] \cup {"OUT"} \in SUBSET Events
      BY <1>0, <2>1 DEF TypeOK, Events
    <3> QED
      BY <1>3, <2>1, <3>1 DEF RunTask, Update
  <2>4. PICK level : mask = evs[c] \cup {"OUT"} /\ Update(c, mask, level)
    BY <2>3
  <2>5. inEp[c] /\ (ep.reg[c] # {} \/ disconn[c]) /\ (disconn[c] => fin[c] /\ ep.reg[c] = {})
        /\ (ep.reg[c] # {} => Established \subseteq mask) /\ (InReady(ep, c) => ep.reg[c] # {}) /\ mask # {}
    BY <1>0, <2>1, <2>4 DEF Kernel, KernelOf
  <2>6. /\ evs'[c] = mask /\ inEp'[c]
        /\ \A d \in Conns : d # c => evs'[d] = evs[d] /\ inEp'[d] = inEp[d]
        /\ \A d \in Channels : d # c => ep'.reg[d] = ep.reg[d] /\ (InReady(ep', d) <=> InReady(ep, d))
        /\ \/ ep.reg[c] = {} /\ ep' = ep
           \/ ep.reg[c] # {} /\ ep'.reg[c] = mask
    <3>1. Refused(c) <=> ep.reg[c] = {}
      BY <2>5 DEF Refused
    <3> QED
      BY <1>0, <2>4, <3>1, UpdateEffect
  <2>7. \A d : Alive(d)' <=> Alive(d)
    BY <2>2, SameAlive
  <2>8. KernelOf(c)'
    BY <2>1, <2>2, <2>4, <2>5, <2>6, <2>7 DEF KernelOf
  <2>9. ASSUME NEW d \in Conns, d # c PROVE KernelOf(d)'
    <3>1. out'[d] = out[d]
      BY <1>0, <2>2, <2>9 DEF TypeOK
    <3> QED
      BY <1>0, <2>2, <2>6, <2>7, <2>9, <3>1, Own DEF Kernel, KernelOf
  <2> QED
    BY <1>0, <2>1, <2>6, <2>8, <2>9, Own DEF Kernel
<1>4. CASE ScanReap
  <2>1. cur \in Conns /\ ReleaseConn(cur, ep) /\ UNCHANGED <<evs, inEp, disconn, out, fin>>
    BY <1>0, <1>4 DEF ScanReap, TypeOK, connect, peers
  <2>2. \A d \in Conns : (d # cur => (Alive(d)' <=> Alive(d))) /\ (Alive(d)' => Alive(d))
    BY <1>4, ReapAlive
  <2> QED
    BY <1>0, <2>1, <2>2, KernelRelease
<1> QED
  BY <1>1, <1>2, <1>3, <1>4, KernelEvent, TaskInHand DEF LoopStep, RunTask, LoopAt

LEMMA KernelStep == LoopInv /\ [Next]_vars => Kernel'
<1> SUFFICES ASSUME LoopInv, [Next]_vars PROVE Kernel'
  OBVIOUS
<1>0. TypeOK /\ Kernel /\ ep \in Ep
  BY DEF LoopInv, TypeOK, Ep
<1>1. ASSUME NEW w \in Workers, TakeJob(w) PROVE Kernel'
  <2>1. \A d \in Conns : Alive(d)' <=> Alive(d)
    BY <1>1, TakeJobAlive
  <2> QED
    BY <1>0, <1>1, <2>1, KernelFrame DEF TakeJob, peers, connect
<1>2. ASSUME NEW w \in Workers, FindDisconnected(w) \/ WakeLoop(w) PROVE Kernel'
  <2>1. wconn[w] \in Conns /\ UNCHANGED <<evs, inEp, disconn, out, fin>>
    BY <1>0, <1>2 DEF FindDisconnected, WakeLoop, WorkerAt, LoopInv, Hands, TypeOK, connect, peers
  <2>2. PICK kernel \in {ep, Signal(ep, Weak, "IN")} : EndJob(w, kernel)
    BY <1>2 DEF FindDisconnected, WakeLoop
  <2>3. /\ kernel \in Ep /\ kernel.reg = ep.reg
        /\ \A d \in Conns : InReady(kernel, d) <=> InReady(ep, d)
    BY <1>0, <2>2, SignalEffect, Own
  <2>4. \A d \in Conns : (d # wconn[w] => (Alive(d)' <=> Alive(d))) /\ (Alive(d)' => Alive(d))
    BY <2>2, EndJobAlive
  <2>5. ReleaseConn(wconn[w], kernel)
    BY <2>2 DEF EndJob
  <2> QED
    BY <1>0, <2>1, <2>3, <2>4, <2>5, KernelRelease
<1>3. ASSUME NEW c \in Conns, Establish(c) PROVE Kernel'
  <2>1. ~inEp[c] /\ ~out[c] /\ ~disconn[c] /\ Established \in SUBSET Events /\ Established # {}
    BY <1>0, <1>3 DEF Establish, Kernel, KernelOf, Established, Events
  <2>2. Update(c, Established, Level[c]) /\ UNCHANGED <<disconn, fin, out>>
    BY <1>3 DEF Establish, peers
  <2>3. /\ evs'[c] = Established /\ inEp'[c] /\ ep'.reg[c] = Established
        /\ \A d \in Conns : d # c => evs'[d] = evs[d] /\ inEp'[d] = inEp[d]
        /\ \A d \in Channels : d # c => ep'.reg[d] = ep.reg[d] /\ (InReady(ep', d) <=> InReady(ep, d))
    <3>1. ~Refused(c)
      BY <2>1 DEF Refused
    <3> QED
      BY <1>0, <2>1, <2>2, <3>1, UpdateEffect
  <2>4. \A d \in Conns : Alive(d)' <=> Alive(d) \/ d = c
    BY <1>3, EstablishAlive
  <2>5. KernelOf(c)'
    BY <2>1, <2>2, <2>3, <2>4 DEF KernelOf
  <2>6. ASSUME NEW d \in Conns, d # c PROVE KernelOf(d)'
    BY <1>0, <2>2, <2>3, <2>4, <2>6, Own DEF Kernel, KernelOf
  <2> QED
    BY <1>0, <2>3, <2>5, <2>6, Own DEF Kernel
<1>4. CASE UNCHANGED <<evs, inEp, disconn, out, conns, jobs, wconn>> /\ (UNCHANGED fin \/ \E c \in Conns : PeerClose(c) \/ PeerReset(c))
           /\ (ep' = ep \/ \E ch \in Channels, ev \in {"IN", "OUT"} : ep' = Signal(ep, ch, ev))
  <2>1. ep'.reg = ep.reg /\ \A d \in Conns : InReady(ep', d) => InReady(ep, d) \/ ep.reg[d] # {}
    BY <1>0, <1>4, SignalEffect, Own
  <2>2. \A d \in Conns : fin[d] => fin'[d]
    BY <1>0, <1>4 DEF PeerClose, PeerReset, TypeOK
  <2> QED
    BY <1>0, <1>4, <2>1, <2>2, KernelFrame, SameAlive
<1> QED
  BY <1>1, <1>2, <1>3, <1>4, KernelLoop, Own DEF Next, vars, WorkerStep, FindConnected, PushTask,
     SetShutDown, WakeForShutDown, Environment, TimerExpire, PeerSend, PeerClose, PeerReset, PeerDrain,
     connect, peers, workers

-----------------------------------------------------------------------------
(* The iterator *)

LEMMA IteratorStep == LoopInv /\ [Next]_vars => IteratorValid'
<1> SUFFICES ASSUME LoopInv, [Next]_vars PROVE IteratorValid'
  OBVIOUS
<1>0. IteratorValid /\ conns \subseteq Conns
  BY DEF LoopInv, TypeOK
<1>1. CASE HandleTimer
  BY <1>0, <1>1, AfterIsLater DEF HandleTimer, Begin, IteratorValid
<1>2. CASE ScanKeep
  BY <1>0, <1>2, AfterIsLater DEF ScanKeep, IteratorValid
<1>3. CASE ScanReap
  <2>1. cur # End /\ conns' = conns \ {cur} /\ lpc = "scan"
    BY <1>3 DEF ScanReap, LoopAt
  <2>2. cur \in Nat
    BY <1>0, <2>1, Own DEF IteratorValid
  <2> DEFINE erased == After(conns, cur)
  <2>3. CASE erased # End /\ cur' = After(conns, erased) /\ UNCHANGED lpc
    <3>1. erased \in Nat /\ erased > cur
      BY <1>0, <2>3, AfterIsLater, Own
    <3> HIDE DEF erased
    <3>2. cur' = End \/ (cur' \in conns /\ cur' > erased)
      BY <1>0, <2>3, AfterIsLater
    <3>3. cur' \in conns => cur' \in Nat
      BY <1>0, Own
    <3> QED
      BY <2>1, <2>2, <3>1, <3>2, <3>3 DEF IteratorValid
  <2>4. CASE erased = End /\ cur' \in conns'
    BY <2>4 DEF IteratorValid
  <2>5. CASE erased = End /\ conns' = {} /\ cur' = End /\ lpc' = "hung"
    BY <2>5 DEF IteratorValid
  <2> QED
    BY <1>3, <2>3, <2>4, <2>5 DEF ScanReap
<1>4. ASSUME NEW w \in Workers, WorkerStep(w) PROVE IteratorValid'
  BY <1>0, <1>4 DEF WorkerStep, TakeJob, FindDisconnected, FindConnected, PushTask, WakeLoop, EndJob,
     loop, IteratorValid
<1>5. CASE Environment
  BY <1>0, <1>5 DEF Environment, TimerExpire, Establish, PeerSend, PeerClose, PeerReset, PeerDrain, loop, IteratorValid
<1>6. CASE HandleEvent /\ ~HandleTimer
  <2>1. lpc' # "scan"
    BY <1>6 DEF HandleEvent, ReadEventFd, HandleNothing, OnMsg, OnMsgClosed, WriteBlocked, WriteFails, WriteKills, WriteDone,
       HandleFreed, Handling, LoopAt, Return, loop
  <2> QED
    BY <2>1 DEF IteratorValid
<1>7. CASE LoopStep /\ ~HandleEvent /\ ~ScanKeep /\ ~ScanReap
  BY <1>0, <1>7 DEF LoopStep, ReadShutDown, EpollWait, LockTasks, NextTask, RunTask, RunTaskOfFreed, EndDrain,
     EndScan, LoopAt, Return, loop, workers, IteratorValid
<1>8. CASE SetShutDown \/ WakeForShutDown \/ UNCHANGED vars
  BY <1>0, <1>8 DEF SetShutDown, WakeForShutDown, vars, loop, IteratorValid
<1> QED
  BY <1>1, <1>2, <1>3, <1>4, <1>5, <1>6, <1>7, <1>8 DEF Next, LoopStep

-----------------------------------------------------------------------------
(* The channels still to be handled *)

\* handle_event() is called for the first channel of the batch and for no
\* other one.
LEMMA HandledLeaves ==
    ASSUME LoopInv, NEW ch, Handling(ch)
    PROVE  /\ \A i, j \in 1..Len(batch') : batch'[i].ch = batch'[j].ch => i = j
           /\ InBatch(ch) /\ ~InBatch(ch)'
           /\ \A d : d # ch => (InBatch(d)' <=> InBatch(d))
           /\ Return(batch') = "top" => batch' = <<>>
           /\ Return(batch') = "dispatch" => batch' # <<>>
           /\ Return(batch') \in {"top", "dispatch"}
<1> DEFINE Chan == [ch : Channels, own : SUBSET Events, revs : SUBSET Events]
<1>1. /\ batch \in Seq(Chan) /\ batch # <<>> /\ batch' = Tail(batch)
      /\ \A i, j \in 1..Len(batch) : batch[i].ch = batch[j].ch => i = j
      /\ Head(batch).ch = ch
  BY HandlingTypes DEF LoopInv, Batch, Handling
<1> HIDE DEF Chan
<1>2. /\ Len(batch) \in Nat \ {0} /\ Len(batch') = Len(batch) - 1 /\ Head(batch) = batch[1]
      /\ \A i \in 1..Len(batch') : i + 1 \in 1..Len(batch) /\ batch'[i] = batch[i + 1]
  BY <1>1
<1>3. \A i \in 1..Len(batch) : i # 1 => i - 1 \in 1..Len(batch') /\ batch'[i - 1] = batch[i]
  BY <1>1, <1>2
<1>4. 1 \in 1..Len(batch) /\ batch[1].ch = ch
  BY <1>1, <1>2
<1>5. \A i, j \in 1..Len(batch') : batch'[i].ch = batch'[j].ch => i = j
  <2>1. SUFFICES ASSUME NEW i \in 1..Len(batch'), NEW j \in 1..Len(batch'), batch'[i].ch = batch'[j].ch
                 PROVE  i = j
    OBVIOUS
  <2>2. i + 1 = j + 1
    BY <1>1, <1>2, <2>1
  <2> QED
    BY <2>2
<1>6. \A i \in 1..Len(batch') : batch'[i].ch # ch
  <2>1. SUFFICES ASSUME NEW i \in 1..Len(batch'), batch'[i].ch = ch PROVE FALSE
    OBVIOUS
  <2>2. i + 1 = 1
    BY <1>1, <1>2, <1>4, <2>1
  <2> QED
    BY <1>2, <2>2
<1>7. \A d : d # ch => (InBatch(d)' <=> InBatch(d))
  BY <1>2, <1>3, <1>4 DEF InBatch
<1> QED
  BY <1>4, <1>5, <1>6, <1>7 DEF InBatch, Return

\* A step after which the batch is still the same, or shorter.
LEMMA BatchFrame ==
    ASSUME LoopInv,
           \A i, j \in 1..Len(batch') : batch'[i].ch = batch'[j].ch => i = j,
           \A c \in Conns : inEp[c] => inEp'[c],
           \A c \in Conns : InBatch(c)' => InBatch(c) /\ (disconn'[c] => disconn[c]),
           lpc' \in {"top", "wait"} => batch' = <<>>,
           LoopAt("dispatch")' => batch' # <<>>
    PROVE  Batch'
BY DEF LoopInv, Batch

LEMMA BatchEvent == LoopInv /\ HandleEvent => Batch'
<1> SUFFICES ASSUME LoopInv, HandleEvent PROVE Batch'
  OBVIOUS
<1>0. TypeOK
  BY DEF LoopInv
<1>1. ASSUME NEW ch, Handling(ch), lpc' = Return(batch') \/ lpc' \in {"lock", "scan"} \/ ~Running',
             UNCHANGED disconn, \A c \in Conns : inEp[c] => inEp'[c], Running' \/ UNCHANGED lpc
      PROVE  Batch'
  <2>1. /\ lpc' \in {"top", "wait"} => batch' = <<>>
        /\ LoopAt("dispatch")' => batch' # <<>>
    <3>1. lpc = "dispatch" /\ (LoopAt("dispatch")' <=> Running' /\ lpc' = "dispatch")
      BY <1>1 DEF Handling, LoopAt
    <3> QED
      BY <1>1, <3>1, HandledLeaves
  <2> QED
    BY <1>1, <2>1, HandledLeaves, BatchFrame
<1>2. CASE ReadEventFd \/ HandleTimer
  BY <1>1, <1>2 DEF ReadEventFd, HandleTimer, connect, Handling, LoopAt, Running
<1>3. ASSUME NEW ch, HandleNothing(ch) PROVE Batch'
  BY <1>1, <1>3 DEF HandleNothing, connect, Handling, LoopAt, Running
<1>4. ASSUME NEW c \in Conns, HandleFreed(c) PROVE Batch'
  BY <1>1, <1>4 DEF HandleFreed, connect, Running
<1>5. ASSUME NEW c \in Conns, OnMsg(c) \/ WriteBlocked(c) \/ WriteFails(c) PROVE Batch'
  BY <1>1, <1>5 DEF OnMsg, WriteBlocked, WriteFails, connect, Handling, LoopAt, Running
<1>8. ASSUME NEW c \in Conns, WriteKills(c) PROVE Batch'
  <2>1. UNCHANGED <<batch, lpc, inEp, disconn>> /\ ~Running'
    BY <1>8 DEF WriteKills, loop, connect, Running
  <2> QED
    BY <2>1 DEF LoopInv, Batch, InBatch, LoopAt
<1>6. ASSUME NEW c \in Conns, WriteDone(c) PROVE Batch'
  <2>1. ep.reg[c] # {}
    BY <1>6, HandledIsRegistered DEF WriteDone
  <2>2. inEp' = [inEp EXCEPT ![c] = TRUE] /\ fault' = fault
    BY <1>6, <2>1 DEF WriteDone, Update
  <2>3. Handling(c) /\ lpc' = Return(batch') /\ UNCHANGED disconn /\ Running
    BY <1>6 DEF WriteDone, Handling, LoopAt
  <2>4. \A d \in Conns : inEp[d] => inEp'[d]
    BY <1>0, <2>2 DEF TypeOK
  <2>5. Running'
    BY <2>2, <2>3 DEF Running
  <2> QED
    BY <1>1, <2>3, <2>4, <2>5
<1>7. ASSUME NEW c \in Conns, OnMsgClosed(c) PROVE Batch'
  <2>1. Handling(c) /\ UNCHANGED inEp /\ lpc' = Return(batch') /\ disconn' = [disconn EXCEPT ![c] = TRUE]
    BY <1>7 DEF OnMsgClosed, RemoveChannel
  <2>2. \A d \in Conns : InBatch(d)' => InBatch(d) /\ (disconn'[d] => disconn[d])
    BY <1>0, <2>1, HandledLeaves DEF TypeOK
  <2> QED
    BY <2>1, <2>2, HandledLeaves, BatchFrame DEF LoopAt
<1> QED
  BY <1>2, <1>3, <1>4, <1>5, <1>6, <1>7, <1>8 DEF HandleEvent

\* What epoll_wait() returns is registered, hence not closed.
LEMMA BatchWait == LoopInv /\ EpollWait => Batch'
<1> SUFFICES ASSUME LoopInv, EpollWait PROVE Batch'
  OBVIOUS
<1>0. TypeOK
  BY DEF LoopInv
<1>1. ASSUME NEW c \in Conns, InBatch(c)' PROVE inEp[c] /\ ~disconn[c]
  <2>1. InReady(ep, c) /\ ep.reg[c] # {}
    BY <1>0, <1>1, WaitedBatch DEF Reported, InReady
  <2> QED
    BY <2>1 DEF LoopInv, Kernel, KernelOf
<1>2. UNCHANGED <<inEp, disconn>> /\ lpc' = "dispatch"
  BY DEF EpollWait, connect
<1> QED
  BY <1>0, <1>1, <1>2, WaitedBatch DEF Batch, LoopAt

LEMMA BatchStep == LoopInv /\ [Next]_vars => Batch'
<1> SUFFICES ASSUME LoopInv, [Next]_vars PROVE Batch'
  OBVIOUS
<1>0. TypeOK
  BY DEF LoopInv
<1>1. ASSUME UNCHANGED <<batch, disconn>>, \A c \in Conns : inEp[c] => inEp'[c],
             \/ lpc' = Return(batch)
             \/ lpc' \notin {"top", "wait", "dispatch"}
             \/ lpc' = "wait" /\ lpc = "top"
             \/ UNCHANGED lpc /\ (Running' => Running)
      PROVE  Batch'
  <2>1. /\ \A i, j \in 1..Len(batch') : batch'[i].ch = batch'[j].ch => i = j
        /\ \A c \in Conns : InBatch(c)' => InBatch(c) /\ (disconn'[c] => disconn[c])
    BY <1>1 DEF LoopInv, Batch, InBatch
  <2>2. /\ lpc' \in {"top", "wait"} => batch' = <<>>
        /\ LoopAt("dispatch")' => batch' # <<>>
    BY <1>1 DEF LoopInv, Batch, Return, LoopAt
  <2> QED
    BY <1>1, <2>1, <2>2, BatchFrame
<1>2. CASE ReadShutDown \/ LockTasks \/ NextTask \/ RunTaskOfFreed \/ EndDrain \/ ScanKeep \/ EndScan
  BY <1>1, <1>2 DEF ReadShutDown, LockTasks, NextTask, RunTaskOfFreed, EndDrain, ScanKeep, EndScan,
     loop, connect, LoopAt
<1>3. CASE ScanReap
  BY <1>1, <1>3 DEF ScanReap, connect, LoopAt
<1>4. CASE RunTask
  <2>1. PICK c \in Conns : c = hand[2]
    BY <1>4, TaskInHand DEF RunTask, LoopAt
  <2>2. inEp' = [inEp EXCEPT ![c] = TRUE]
    BY <1>4, <2>1 DEF RunTask, Update
  <2>3. UNCHANGED <<batch, disconn>> /\ lpc' \notin {"top", "wait", "dispatch"}
    BY <1>4 DEF RunTask, LoopAt
  <2> QED
    BY <1>0, <1>1, <2>2, <2>3 DEF TypeOK
<1>5. ASSUME NEW c \in Conns, Establish(c) PROVE Batch'
  <2>1. inEp' = [inEp EXCEPT ![c] = TRUE] /\ UNCHANGED <<batch, disconn, lpc>> /\ Running
    BY <1>5 DEF Establish, Update, loop
  <2> QED
    BY <1>0, <1>1, <2>1 DEF TypeOK
<1>6. ASSUME NEW w \in Workers, WorkerStep(w) PROVE Batch'
  BY <1>1, <1>6 DEF WorkerStep, TakeJob, FindDisconnected, FindConnected, PushTask, WakeLoop, WorkerAt,
     loop, connect
<1>7. CASE TimerExpire \/ \E c \in Conns : PeerSend(c) \/ PeerClose(c) \/ PeerReset(c) \/ PeerDrain(c)
  BY <1>1, <1>7 DEF TimerExpire, PeerSend, PeerClose, PeerReset, PeerDrain, loop, connect
<1>8. CASE SetShutDown \/ WakeForShutDown
  BY <1>1, <1>8 DEF SetShutDown, WakeForShutDown, loop, connect
<1>9. CASE UNCHANGED vars
  BY <1>1, <1>9 DEF vars, loop, connect, Running
<1> QED
  BY <1>2, <1>3, <1>4, <1>5, <1>6, <1>7, <1>8, <1>9, BatchEvent, BatchWait DEF Next, LoopStep, Environment

-----------------------------------------------------------------------------
(* The tasks and who holds them *)

LEMMA HandsFrame ==
    ASSUME LoopInv, UNCHANGED <<tasks, posted>>,
           \A w \in Workers : wpc'[w] = "idle" <=> wconn'[w] = 0,
           \/ UNCHANGED hand /\ (lpc' = "run" <=> lpc = "run")
           \/ hand' = NoTask /\ lpc' # "run"
    PROVE  Hands'
BY DEF LoopInv, Hands

LEMMA HandsLoop == LoopInv /\ LoopStep => Hands'
<1> SUFFICES ASSUME LoopInv, LoopStep PROVE Hands'
  OBVIOUS
<1>0. TypeOK /\ Hands
  BY DEF LoopInv
<1>1. CASE UNCHANGED <<tasks, posted, hand, wpc, wconn>> /\ (lpc' = "run" <=> lpc = "run")
  BY <1>0, <1>1, HandsFrame DEF Hands
<1>2. CASE HandleEvent
  BY <1>1, <1>2 DEF HandleEvent, ReadEventFd, HandleTimer, HandleNothing, OnMsg, OnMsgClosed, WriteBlocked, WriteFails, WriteKills,
     WriteDone, HandleFreed, Handling, LoopAt, Return, loop, workers
<1>3. CASE ReadShutDown \/ EpollWait \/ LockTasks \/ RunTaskOfFreed \/ EndDrain \/ ScanKeep \/ ScanReap \/ EndScan
  BY <1>1, <1>3 DEF ReadShutDown, EpollWait, LockTasks, RunTaskOfFreed, EndDrain, ScanKeep, ScanReap, EndScan,
     LoopAt, Return, workers, loop
<1>4. CASE RunTask
  <2>1. UNCHANGED <<tasks, posted, wpc, wconn>>
        /\ (UNCHANGED <<lpc, hand>> \/ (hand' = NoTask /\ lpc' = "drain"))
    BY <1>4 DEF RunTask, workers
  <2> QED
    BY <1>0, <2>1, HandsFrame DEF Hands
<1>5. CASE NextTask
  <2>1. /\ tasks \in Seq(Nat \X Conns) /\ tasks # <<>> /\ posted \in Nat
        /\ tasks' = Tail(tasks) /\ hand' = Head(tasks) /\ lpc' = "run"
        /\ UNCHANGED <<posted, wpc, wconn>>
    BY <1>0, <1>5 DEF NextTask, TypeOK, workers
  <2>2. /\ Len(tasks) \in Nat \ {0} /\ Len(tasks') = Len(tasks) - 1 /\ Head(tasks) = tasks[1]
        /\ \A i \in 1..Len(tasks') : i + 1 \in 1..Len(tasks) /\ tasks'[i] = tasks[i + 1]
    BY <2>1
  <2>3. Len(tasks) <= posted /\ \A i \in 1..Len(tasks) : tasks[i][1] = posted - Len(tasks) + i
    BY <1>0 DEF Hands
  <2>4. Len(tasks') <= posted' /\ \A i \in 1..Len(tasks') : tasks'[i][1] = posted' - Len(tasks') + i
    BY <2>1, <2>2, <2>3
  <2>5. hand'[1] = posted' - Len(tasks') /\ hand'[1] > 0
    BY <2>1, <2>2, <2>3
  <2>6. hand' # NoTask
    BY <2>5 DEF NoTask
  <2> QED
    BY <1>0, <2>1, <2>4, <2>5, <2>6 DEF Hands
<1> QED
  BY <1>2, <1>3, <1>4, <1>5 DEF LoopStep

LEMMA HandsWorker == LoopInv /\ (\E w \in Workers : WorkerStep(w)) => Hands'
<1> SUFFICES ASSUME LoopInv, NEW w \in Workers, WorkerStep(w) PROVE Hands'
  OBVIOUS
<1>0. TypeOK /\ Hands
  BY DEF LoopInv
<1>1. CASE TakeJob(w)
  <2>1. Head(jobs) \in Conns
    BY <1>0, <1>1 DEF TakeJob, TypeOK
  <2>2. wconn' = [wconn EXCEPT ![w] = Head(jobs)] /\ wpc' = [wpc EXCEPT ![w] = "send"]
        /\ UNCHANGED <<tasks, posted, hand, lpc>>
    BY <1>1 DEF TakeJob, loop
  <2>3. \A v \in Workers : wpc'[v] = "idle" <=> wconn'[v] = 0
    BY <1>0, <2>1, <2>2, Own DEF Hands, TypeOK
  <2> QED
    BY <2>2, <2>3, HandsFrame
<1>2. CASE FindDisconnected(w) \/ WakeLoop(w)
  <2>1. wconn' = [wconn EXCEPT ![w] = 0] /\ wpc' = [wpc EXCEPT ![w] = "idle"]
        /\ UNCHANGED <<tasks, posted, hand, lpc>>
    BY <1>2 DEF FindDisconnected, WakeLoop, EndJob, loop
  <2>2. \A v \in Workers : wpc'[v] = "idle" <=> wconn'[v] = 0
    BY <1>0, <2>1 DEF Hands, TypeOK
  <2> QED
    BY <2>1, <2>2, HandsFrame
<1>3. CASE FindConnected(w)
  <2>1. wpc[w] = "send" /\ wpc' = [wpc EXCEPT ![w] = "push"]
        /\ UNCHANGED <<wconn, tasks, posted, hand, lpc>>
    BY <1>3 DEF FindConnected, WorkerAt, loop
  <2>2. \A v \in Workers : wpc'[v] = "idle" <=> wconn'[v] = 0
    BY <1>0, <2>1 DEF Hands, TypeOK
  <2> QED
    BY <2>1, <2>2, HandsFrame
<1>4. CASE PushTask(w)
  <2>1. /\ wpc[w] = "push" /\ wpc' = [wpc EXCEPT ![w] = "wake"] /\ lpc # "run"
        /\ tasks' = Append(tasks, <<posted + 1, wconn[w]>>) /\ posted' = posted + 1
        /\ UNCHANGED <<wconn, hand, lpc>>
    BY <1>4 DEF PushTask, WorkerAt, LoopHoldsMutex, loop
  <2>2. tasks \in Seq(Nat \X Conns) /\ posted \in Nat
        /\ Len(tasks) <= posted /\ \A i \in 1..Len(tasks) : tasks[i][1] = posted - Len(tasks) + i
    BY <1>0 DEF TypeOK, Hands
  <2>3. Len(tasks') = Len(tasks) + 1 /\ Len(tasks) \in Nat
        /\ \A i \in 1..Len(tasks') : tasks'[i] = IF i = Len(tasks) + 1 THEN <<posted + 1, wconn[w]>> ELSE tasks[i]
    BY <2>1, <2>2
  <2>4. Len(tasks') <= posted' /\ \A i \in 1..Len(tasks') : tasks'[i][1] = posted' - Len(tasks') + i
    <3>1. SUFFICES ASSUME NEW i \in 1..Len(tasks') PROVE tasks'[i][1] = posted' - Len(tasks') + i
      BY <2>1, <2>2, <2>3
    <3>2. CASE i = Len(tasks) + 1
      <4>1. tasks'[i][1] = posted + 1
        BY <2>3, <3>2
      <4> QED
        BY <2>1, <2>2, <2>3, <3>2, <4>1
    <3>3. CASE i # Len(tasks) + 1
      <4>1. i \in 1..Len(tasks) /\ tasks'[i][1] = posted - Len(tasks) + i
        BY <2>2, <2>3, <3>3
      <4> QED
        BY <2>1, <2>2, <2>3, <4>1
    <3> QED
      BY <3>2, <3>3
  <2>5. \A v \in Workers : wpc'[v] = "idle" <=> wconn'[v] = 0
    BY <1>0, <2>1 DEF Hands, TypeOK
  <2> QED
    BY <1>0, <2>1, <2>4, <2>5 DEF Hands
<1> QED
  BY <1>1, <1>2, <1>3, <1>4 DEF WorkerStep

LEMMA HandsStep == LoopInv /\ [Next]_vars => Hands'
<1> SUFFICES ASSUME LoopInv, [Next]_vars PROVE Hands'
  OBVIOUS
<1>1. CASE UNCHANGED <<tasks, posted, hand, lpc, wpc, wconn>>
  <2>1. \A v \in Workers : wpc'[v] = "idle" <=> wconn'[v] = 0
    BY <1>1 DEF LoopInv, Hands
  <2> QED
    BY <1>1, <2>1, HandsFrame
<1> QED
  BY <1>1, HandsLoop, HandsWorker DEF Next, SetShutDown, WakeForShutDown, Environment, TimerExpire, Establish,
     PeerSend, PeerClose, PeerReset, PeerDrain, vars, loop, workers

-----------------------------------------------------------------------------
(* The invariant holds, and what follows from it *)

LEMMA LoopInvInit == Init => LoopInv
<1> SUFFICES ASSUME Init PROVE LoopInv
  OBVIOUS
<1>1. TypeOK
  <2>1. ep \in [reg : [Channels -> SUBSET Events], ready : SUBSET Channels]
    <3> DEFINE first == [ch \in Channels |-> IF ch = Weak THEN WeakEvents ELSE IF ch = Timer THEN TimerEvents ELSE {}]
    <3>1. first \in [Channels -> SUBSET Events]
      BY DEF Events, WeakEvents, TimerEvents
    <3>2. ep = [reg |-> first, ready |-> {}]
      BY DEF Init
    <3> HIDE DEF first
    <3> QED
      BY <3>1, <3>2
  <2>2. /\ batch \in Seq([ch : Channels, own : SUBSET Events, revs : SUBSET Events])
        /\ tasks \in Seq(Nat \X Conns) /\ jobs \in Seq(Conns)
    BY DEF Init
  <2>3. 0 \in 0..MaxAge + 1 /\ 0 \in 0..MaxMsgs
    BY BoundsAssumption
  <2>4. /\ evs \in [Conns -> SUBSET Events] /\ inEp \in [Conns -> BOOLEAN]
        /\ unread \in [Conns -> Nat] /\ age \in [Conns -> 0..MaxAge + 1]
        /\ fin \in [Conns -> BOOLEAN] /\ full \in [Conns -> BOOLEAN]
        /\ out \in [Conns -> BOOLEAN] /\ disconn \in [Conns -> BOOLEAN]
        /\ reset \in [Conns -> {"no", "reset", "failed", "pipe"}]
    BY <2>3 DEF Init
  <2>5. /\ wpc \in [Workers -> {"idle", "send", "push", "wake"}]
        /\ wconn \in [Workers -> {0} \cup Conns]
    BY DEF Init
  <2> QED
    BY <2>1, <2>2, <2>3, <2>4, <2>5 DEF Init, TypeOK, LoopPcs
<1>2. Kernel
  BY ChannelsAssumption DEF Init, Kernel, KernelOf, Channels, InReady, Alive, Referenced
<1> QED
  BY <1>1, <1>2 DEF Init, LoopInv, IteratorValid, Batch, Hands, InBatch, LoopAt, NoTask

LEMMA LoopInvStep == LoopInv /\ [Next]_vars => LoopInv'
<1>1. LoopInv /\ [Next]_vars => TypeOK' /\ IteratorValid' /\ Kernel' /\ Batch' /\ Hands'
  BY TypesStep, IteratorStep, KernelStep, BatchStep, HandsStep
<1> QED
  BY <1>1 DEF LoopInv

\* The inductive invariant of the loop: types, the walk of handle_timer(),
\* what the kernel knows, the batch, and the queue of tasks.
THEOREM LoopInvAlways == Spec => []LoopInv
BY LoopInvInit, LoopInvStep, PTL DEF Spec

\* Every variable has its type, however many peers, workers and messages there
\* are: no event, task or job refers to anything but a connection.
THEOREM TypeCorrect == Spec => []TypeOK
<1>1. LoopInv => TypeOK
  BY DEF LoopInv
<1> QED
  BY <1>1, LoopInvAlways, PTL

\* The walk of handle_timer() never stands on an erased connection.
THEOREM WalkIsSafe == Spec => []IteratorValid
<1>1. LoopInv => IteratorValid
  BY DEF LoopInv
<1> QED
  BY <1>1, LoopInvAlways, PTL

\* A connection that was closed hears no more of the loop: neither the kernel
\* nor the batch that is being handled has an event of it.
THEOREM ClosedHearsNothing == Spec => []ClosedIsQuiet
<1>1. LoopInv => ClosedIsQuiet
  BY DEF LoopInv, Kernel, KernelOf, Batch, ClosedIsQuiet
<1> QED
  BY <1>1, LoopInvAlways, PTL

-----------------------------------------------------------------------------
(* Output and input *)

\* Registrations change, and what is ready is forgotten, only where the code
\* says so.
LEMMA ReleaseKeeps ==
    ASSUME NEW c \in Conns, NEW kernel \in Ep, ReleaseConn(c, kernel)
    PROVE  \A ch \in Channels :
              \/ ep'.reg[ch] = kernel.reg[ch] /\ (InReady(kernel, ch) => InReady(ep', ch))
              \/ ch = c /\ ep'.reg[ch] = {}
<1>1. CASE ep' = kernel
  BY <1>1
<1>2. CASE ep' = Delete(kernel, c)
  <2>1. ep'.reg = [kernel.reg EXCEPT ![c] = {}] /\ \A d : InReady(ep', d) <=> InReady(kernel, d) /\ d # c
    BY <1>2, DeleteEffect, Own
  <2> QED
    BY <2>1, Own DEF Ep
<1> QED
  BY <1>1, <1>2 DEF ReleaseConn

LEMMA KernelKeeps ==
    ASSUME LoopInv, [Next]_vars, ~RunTask, \A c \in Conns : ~WriteDone(c) /\ ~Establish(c)
    PROVE  /\ UNCHANGED out
           /\ \A ch \in Channels :
                 \/ /\ ep'.reg[ch] = ep.reg[ch]
                    /\ InReady(ep, ch) => InReady(ep', ch) \/ EpollWait
                 \/ ch \in Conns /\ ep'.reg[ch] = {}
<1> DEFINE Kept == \A ch \in Channels :
                     \/ /\ ep'.reg[ch] = ep.reg[ch]
                        /\ InReady(ep, ch) => InReady(ep', ch) \/ EpollWait
                     \/ ch \in Conns /\ ep'.reg[ch] = {}
<1>0. TypeOK /\ ep \in Ep
  BY DEF LoopInv, TypeOK, Ep
<1>1. ASSUME ep' = ep PROVE Kept
  BY <1>1
<1>2. ASSUME NEW ch \in Channels, NEW ev, ep' = Signal(ep, ch, ev) PROVE Kept
  BY <1>0, <1>2, SignalEffect
<1>3. ASSUME EpollWait PROVE Kept
  <2>1. ep'.reg = ep.reg
    BY <1>0, <1>3, AfterWaitEffect DEF EpollWait
  <2> QED
    BY <1>3, <2>1
<1>4. ASSUME NEW c \in Conns, OnMsgClosed(c) PROVE Kept
  <2>1. ep'.reg = [ep.reg EXCEPT ![c] = {}] /\ \A d : InReady(ep', d) <=> InReady(ep, d) /\ d # c
    BY <1>0, <1>4, DeleteEffect, Own DEF OnMsgClosed, RemoveChannel
  <2> QED
    BY <1>0, <2>1, Own DEF Ep
<1>5. ASSUME ScanReap PROVE Kept
  <2>1. cur \in Conns /\ ReleaseConn(cur, ep)
    BY <1>0, <1>5 DEF ScanReap, TypeOK
  <2> QED
    BY <1>0, <2>1, ReleaseKeeps
<1>6. ASSUME NEW w \in Workers, FindDisconnected(w) \/ WakeLoop(w) PROVE Kept
  <2>1. wconn[w] \in Conns
    BY <1>0, <1>6 DEF FindDisconnected, WakeLoop, WorkerAt, LoopInv, Hands, TypeOK
  <2>2. PICK kernel \in {ep, Signal(ep, Weak, "IN")} : ReleaseConn(wconn[w], kernel)
    BY <1>6 DEF FindDisconnected, WakeLoop, EndJob
  <2>3. kernel \in Ep /\ kernel.reg = ep.reg /\ \A ch : InReady(ep, ch) => InReady(kernel, ch)
    BY <1>0, <2>2, SignalEffect, Own
  <2> QED
    BY <2>1, <2>2, <2>3, ReleaseKeeps
<1> HIDE DEF Kept
<1>7. CASE HandleEvent
  <2>1. ep' = ep \/ \E c \in Conns : OnMsgClosed(c)
    BY <1>7 DEF HandleEvent, ReadEventFd, HandleTimer, HandleNothing, OnMsg, WriteBlocked, WriteFails, WriteKills, HandleFreed
  <2>2. UNCHANGED out
    BY <1>7 DEF HandleEvent, ReadEventFd, HandleTimer, HandleNothing, OnMsg, OnMsgClosed, WriteBlocked, WriteFails, WriteKills,
       HandleFreed, connect
  <2> QED
    BY <1>1, <1>4, <2>1, <2>2 DEF Kept
<1>8. CASE LoopStep /\ ~HandleEvent
  <2>1. ep' = ep \/ EpollWait \/ ScanReap
    BY <1>8 DEF LoopStep, ReadShutDown, LockTasks, NextTask, RunTaskOfFreed, EndDrain, ScanKeep, EndScan
  <2>2. UNCHANGED out
    BY <1>8 DEF LoopStep, ReadShutDown, EpollWait, LockTasks, NextTask, RunTaskOfFreed, EndDrain, ScanKeep,
       ScanReap, EndScan, connect
  <2> QED
    BY <1>1, <1>3, <1>5, <2>1, <2>2 DEF Kept
<1>9. ASSUME NEW w \in Workers, WorkerStep(w) PROVE UNCHANGED out /\ Kept
  BY <1>1, <1>6, <1>9 DEF WorkerStep, TakeJob, FindDisconnected, FindConnected, PushTask, WakeLoop, connect
<1>10. CASE SetShutDown \/ WakeForShutDown \/ UNCHANGED vars \/ (Environment /\ ~\E c \in Conns : Establish(c))
  <2>1. UNCHANGED out
    BY <1>10 DEF SetShutDown, WakeForShutDown, vars, Environment, TimerExpire, PeerSend, PeerClose, PeerReset, PeerDrain,
       connect
  <2>2. ep' = ep \/ \E ch \in Channels : ep' = Signal(ep, ch, "IN") \/ ep' = Signal(ep, ch, "OUT")
    BY <1>10, Own DEF SetShutDown, WakeForShutDown, vars, Environment, TimerExpire, PeerSend, PeerClose, PeerReset, PeerDrain
  <2> QED
    BY <1>1, <1>2, <2>1, <2>2 DEF Kept
<1> QED
  BY <1>7, <1>8, <1>9, <1>10 DEF Next, Kept

\* Where a channel is registered anew, it asks for input, for OUT exactly if
\* there is output, and what can be read already is reported.
LEMMA UpdateReports ==
    ASSUME LoopInv, NEW c \in Conns, (RunTask /\ hand[2] = c) \/ WriteDone(c) \/ Establish(c)
    PROVE  /\ \A d \in Channels : d # c => ep'.reg[d] = ep.reg[d] /\ (InReady(ep', d) <=> InReady(ep, d))
           /\ \A d \in Conns : d # c => out'[d] = out[d]
           /\ ep'.reg[c] # {} => /\ out'[c] <=> "OUT" \in ep'.reg[c]
                                 /\ unread'[c] > 0 \/ fin'[c] => InReady(ep', c)
<1>0. /\ TypeOK /\ KernelOf(c)
      /\ "IN" \in Established /\ "OUT" \notin Established /\ Established \in SUBSET Events
  BY DEF LoopInv, Kernel, Established, Events
<1>1. Level[c] = ConnLevel(unread[c], fin[c], full[c])
  BY Own DEF Level
<1>2. \A stuffed : unread[c] > 0 \/ fin[c] => "IN" \in ConnLevel(unread[c], fin[c], stuffed)
  BY DEF ConnLevel
<1>3. ASSUME NEW mask \in SUBSET Events, NEW level, Update(c, mask, level),
             ep.reg[c] # {} => "IN" \in mask /\ (out'[c] <=> "OUT" \in mask),
             ~inEp[c] => "IN" \in mask /\ (out'[c] <=> "OUT" \in mask),
             UNCHANGED <<unread, fin>>, unread[c] > 0 \/ fin[c] => "IN" \in level
      PROVE  /\ \A d \in Channels : d # c => ep'.reg[d] = ep.reg[d] /\ (InReady(ep', d) <=> InReady(ep, d))
             /\ ep'.reg[c] # {} => /\ out'[c] <=> "OUT" \in ep'.reg[c]
                                   /\ unread'[c] > 0 \/ fin'[c] => InReady(ep', c)
  <2>1. /\ \A d \in Channels : d # c => ep'.reg[d] = ep.reg[d] /\ (InReady(ep', d) <=> InReady(ep, d))
        /\ Refused(c) => ep' = ep
        /\ ~Refused(c) => ep'.reg[c] = mask
        /\ ~Refused(c) => \A ev \in mask : ev \in level => InReady(ep', c)
    BY <1>0, <1>3, UpdateEffect
  <2>2. CASE Refused(c)
    BY <2>1, <2>2 DEF Refused
  <2>3. CASE ~Refused(c)
    <3>1. "IN" \in mask /\ (out'[c] <=> "OUT" \in mask)
      BY <1>3, <2>3 DEF Refused
    <3>2. unread'[c] > 0 \/ fin'[c] => "IN" \in level
      BY <1>3
    <3> QED
      BY <2>1, <2>3, <3>1, <3>2
  <2> QED
    BY <2>1, <2>2, <2>3
<1>4. CASE RunTask /\ hand[2] = c
  <2>1. /\ Update(c, evs[c] \cup {"OUT"}, Level[c]) /\ out' = [out EXCEPT ![c] = TRUE]
        /\ UNCHANGED <<unread, fin>> /\ Alive(c)
    BY <1>4 DEF RunTask, peers
  <2>2. evs[c] \cup {"OUT"} \in SUBSET Events /\ out'[c] /\ \A d \in Conns : d # c => out'[d] = out[d]
    BY <1>0, <2>1 DEF TypeOK, Events
  <2>3. ep.reg[c] # {} => "IN" \in evs[c]
    BY <1>0 DEF KernelOf
  <2>4. inEp[c]
    BY <1>0, <2>1 DEF KernelOf
  <2> QED
    BY <1>1, <1>2, <1>3, <2>1, <2>2, <2>3, <2>4
<1>5. CASE WriteDone(c)
  <2>1. /\ Handling(c) /\ Alive(c) /\ out' = [out EXCEPT ![c] = FALSE] /\ UNCHANGED <<unread, fin>>
    BY <1>5 DEF WriteDone
  <2>2. PICK stuffed : Update(c, evs[c] \ {"OUT"}, ConnLevel(unread[c], fin[c], stuffed))
    BY <1>5 DEF WriteDone
  <2>3. evs[c] \ {"OUT"} \in SUBSET Events /\ ~out'[c] /\ \A d \in Conns : d # c => out'[d] = out[d]
    BY <1>0, <2>1 DEF TypeOK
  <2>4. inEp[c] /\ "IN" \in evs[c]
    BY <1>0, <2>1, HandledIsRegistered DEF KernelOf
  <2> QED
    BY <1>2, <1>3, <2>1, <2>2, <2>3, <2>4
<1>6. CASE Establish(c)
  <2>1. Update(c, Established, Level[c]) /\ UNCHANGED <<unread, fin, out>> /\ ~inEp[c]
    BY <1>6 DEF Establish, peers
  <2>2. ~out[c]
    BY <1>0, <2>1 DEF KernelOf
  <2> QED
    BY <1>0, <1>1, <1>2, <1>3, <2>1, <2>2
<1> QED
  BY <1>4, <1>5, <1>6

\* The interest in OUT follows the output buffer.
OutputAsksForOut == \A c \in Conns : ep.reg[c] # {} => (out[c] <=> "OUT" \in ep.reg[c])

LEMMA OutputStep == LoopInv /\ OutputAsksForOut /\ [Next]_vars => OutputAsksForOut'
<1> SUFFICES ASSUME LoopInv, OutputAsksForOut, [Next]_vars PROVE OutputAsksForOut'
  OBVIOUS
<1>1. ASSUME NEW c \in Conns, (RunTask /\ hand[2] = c) \/ WriteDone(c) \/ Establish(c) PROVE OutputAsksForOut'
  <2>1. ASSUME NEW d \in Conns, ep'.reg[d] # {} PROVE out'[d] <=> "OUT" \in ep'.reg[d]
    <3>1. CASE d = c
      BY <1>1, <2>1, <3>1, UpdateReports
    <3>2. CASE d # c
      <4>1. ep'.reg[d] = ep.reg[d] /\ out'[d] = out[d]
        BY <1>1, <3>2, UpdateReports, Own
      <4> QED
        BY <2>1, <4>1 DEF OutputAsksForOut
    <3> QED
      BY <3>1, <3>2
  <2> QED
    BY <2>1 DEF OutputAsksForOut
<1>2. CASE ~RunTask /\ \A c \in Conns : ~WriteDone(c) /\ ~Establish(c)
  <2>1. UNCHANGED out /\ \A c \in Conns : ep'.reg[c] = ep.reg[c] \/ ep'.reg[c] = {}
    BY <1>2, KernelKeeps, Own
  <2> QED
    BY <2>1 DEF OutputAsksForOut
<1>3. RunTask => \E c \in Conns : hand[2] = c
  BY TaskInHand DEF RunTask, LoopAt
<1> QED
  BY <1>1, <1>2, <1>3

LEMMA OutputAlwaysAsks == Spec => []OutputAsksForOut
<1>1. Init => OutputAsksForOut
  BY Own DEF Init, OutputAsksForOut
<1> QED
  BY <1>1, OutputStep, LoopInvAlways, PTL DEF Spec

\* What keeps the input of c from being forgotten.
Remembered(c) ==
    \/ InReady(ep, c)
    \/ InBatch(c)
    \/ out[c] /\ full[c] /\ "OUT" \in ep.reg[c]
    \/ WriteFailed(c)

\* A signal of a registered connection puts it on the ready list.
LEMMA PeerSignals ==
    ASSUME LoopInv, NEW c \in Conns, ep.reg[c] # {}, NEW ev \in {"IN", "OUT"}, ev \in ep.reg[c],
           ep' = Signal(ep, c, ev)
    PROVE  InReady(ep', c)
<1>1. ep \in Ep /\ c \in Channels
  BY Own DEF LoopInv, TypeOK, Ep
<1> QED
  BY <1>1, SignalEffect

\* epoll_wait() takes a connection with input from the ready list to the batch.
LEMMA WaitReports ==
    ASSUME LoopInv, EpollWait, NEW c \in Conns, ep.reg[c] # {}, unread[c] > 0 \/ fin[c], InReady(ep, c)
    PROVE  InBatch(c)'
<1>1. TypeOK /\ "IN" \in ep.reg[c]
  BY DEF LoopInv, Kernel, KernelOf, Established
<1>2. "IN" \in Level[c]
  BY Own DEF Level, ConnLevel
<1>3. c \in Reported(ep, Level)
  BY <1>1, <1>2 DEF Reported, InReady
<1> QED
  BY <1>1, <1>3, WaitedBatch

\* What send() said of a connection that was reset is not taken back.
LEMMA FailedStays ==
    ASSUME LoopInv, [Next]_vars, NEW c \in Conns, reset[c] = "failed"
    PROVE  reset'[c] = "failed"
<1>0. reset \in [Conns -> {"no", "reset", "failed", "pipe"}]
  BY DEF LoopInv, TypeOK
<1>1. ASSUME NEW d \in Conns, PeerReset(d) \/ WriteFails(d) \/ WriteDone(d) PROVE reset'[c] = "failed"
  BY <1>0, <1>1 DEF PeerReset, WriteFails, WriteDone
<1>2. UNCHANGED reset \/ \E d \in Conns : PeerReset(d) \/ WriteFails(d) \/ WriteDone(d)
  BY DEF Next, LoopStep, ReadShutDown, EpollWait, HandleEvent, ReadEventFd, HandleTimer, HandleNothing, OnMsg,
     OnMsgClosed, WriteBlocked, WriteKills, HandleFreed, LockTasks, NextTask, RunTask, RunTaskOfFreed, EndDrain,
     ScanKeep, ScanReap, EndScan, WorkerStep, TakeJob, FindDisconnected, FindConnected, PushTask, WakeLoop,
     SetShutDown, WakeForShutDown, Environment, TimerExpire, Establish, PeerSend, PeerClose, PeerDrain, vars,
     peers
<1> QED
  BY <1>1, <1>2

\* A connection leaves the batch when it is handled.
LEMMA HandledWhich ==
    ASSUME LoopInv, HandleEvent, NEW c \in Conns, InBatch(c), ~InBatch(c)'
    PROVE  OnMsg(c) \/ OnMsgClosed(c) \/ WriteBlocked(c) \/ WriteDone(c) \/ WriteFails(c) \/ HandleFreed(c)
<1>1. ASSUME NEW ch, Handling(ch) PROVE ch = c
  BY <1>1, HandledLeaves
<1>2. ~(ReadEventFd \/ HandleTimer \/ HandleNothing(Weak) \/ HandleNothing(Timer))
  BY <1>1, Own DEF ReadEventFd, HandleTimer, HandleNothing
<1>3. \A d \in Conns : OnMsg(d) \/ OnMsgClosed(d) \/ WriteBlocked(d) \/ WriteDone(d) \/ WriteFails(d)
                           \/ HandleFreed(d) => d = c
  BY <1>1 DEF OnMsg, OnMsgClosed, WriteBlocked, WriteFails, WriteDone, HandleFreed
<1>4. \A d \in Conns : ~WriteKills(d)
  BY DEF WriteKills, loop, InBatch
<1> QED
  BY <1>2, <1>3, <1>4 DEF HandleEvent

\* The handlers of a connection leave its input read, or remembered.
LEMMA HandledRemembers ==
    ASSUME LoopInv, OutputAsksForOut, HandleEvent, NEW c \in Conns, InBatch(c), ~InBatch(c)',
           ep'.reg[c] # {}, unread'[c] > 0 \/ fin'[c]
    PROVE  Remembered(c)'
<1>0. TypeOK
  BY DEF LoopInv
<1>2. OnMsg(c) \/ OnMsgClosed(c) \/ WriteBlocked(c) \/ WriteDone(c) \/ WriteFails(c) \/ HandleFreed(c)
  BY HandledWhich
<1>3. CASE OnMsg(c)
  <2>1. unread'[c] = 0 /\ ~fin'[c]
    BY <1>0, <1>3 DEF OnMsg, LeftUnread, TypeOK
  <2> QED
    BY <2>1
<1>4. CASE OnMsgClosed(c)
  <2>1. ep'.reg = [ep.reg EXCEPT ![c] = {}]
    BY <1>0, <1>4, DeleteEffect, Own DEF OnMsgClosed, RemoveChannel, TypeOK, Ep
  <2>2. ep'.reg[c] = {}
    BY <1>0, <2>1, Own DEF TypeOK
  <2> QED
    BY <2>2
<1>5. CASE WriteBlocked(c)
  <2>1. out[c] /\ full[c] /\ UNCHANGED <<ep, out, full>> /\ ep.reg[c] # {}
    BY <1>5, HandledIsRegistered DEF WriteBlocked, WriteFails, WriteKills, connect, peers
  <2>2. "OUT" \in ep.reg[c]
    BY <2>1 DEF OutputAsksForOut
  <2> QED
    BY <2>1, <2>2 DEF Remembered
<1>6. CASE WriteDone(c)
  BY <1>6, UpdateReports DEF Remembered
<1>7. CASE HandleFreed(c)
  <2>1. ep.reg[c] = {} /\ UNCHANGED ep
    BY <1>7 DEF HandleFreed, LoopInv, Kernel, KernelOf
  <2> QED
    BY <2>1
<1>8. CASE WriteFails(c)
  BY <1>0, <1>8 DEF WriteFails, connect, Remembered, WriteFailed, TypeOK
<1> QED
  BY <1>2, <1>3, <1>4, <1>5, <1>6, <1>7, <1>8

LEMMA InputStep == LoopInv /\ OutputAsksForOut /\ InputNotForgotten /\ [Next]_vars => InputNotForgotten'
<1> SUFFICES ASSUME LoopInv, OutputAsksForOut, InputNotForgotten, [Next]_vars,
                    NEW c \in Conns, ep'.reg[c] # {}, unread'[c] > 0 \/ fin'[c]
             PROVE  Remembered(c)'
  BY DEF InputNotForgotten, Remembered
<1>0. TypeOK /\ ep \in Ep /\ (ep.reg[c] # {} => "IN" \in ep.reg[c])
  BY DEF LoopInv, TypeOK, Ep, Kernel, KernelOf, Established
<1>1. ASSUME ep'.reg[c] = ep.reg[c], unread[c] > 0 \/ fin[c],
             InReady(ep, c) => Remembered(c)', InBatch(c) => Remembered(c)',
             out[c] /\ full[c] /\ "OUT" \in ep.reg[c] => Remembered(c)', WriteFailed(c) => Remembered(c)'
      PROVE  Remembered(c)'
  BY <1>1 DEF InputNotForgotten
<1>6. out'[c] /\ WriteFailed(c) => Remembered(c)'
  BY FailedStays DEF WriteFailed, Remembered
<1>2. CASE (RunTask /\ hand[2] = c) \/ WriteDone(c) \/ Establish(c)
  BY <1>2, UpdateReports DEF Remembered
<1>3. ASSUME NEW d \in Conns, d # c, (RunTask /\ hand[2] = d) \/ WriteDone(d) \/ Establish(d)
      PROVE  Remembered(c)'
  <2>1. ep'.reg[c] = ep.reg[c] /\ (InReady(ep', c) <=> InReady(ep, c)) /\ out'[c] = out[c]
    BY <1>3, UpdateReports, Own
  <2>2. UNCHANGED <<unread, fin>>
    BY <1>3 DEF RunTask, WriteDone, Establish, peers
  <2>3. full'[c] = full[c]
    BY <1>0, <1>3 DEF RunTask, WriteDone, Establish, peers, TypeOK
  <2>4. InBatch(c) => InBatch(c)'
    <3>1. CASE WriteDone(d)
      BY <1>3, <3>1, HandledLeaves DEF WriteDone
    <3>2. CASE (RunTask /\ hand[2] = d) \/ Establish(d)
      BY <3>2 DEF RunTask, Establish, loop, InBatch
    <3> QED
      BY <1>3, <3>1, <3>2
  <2> QED
    BY <1>1, <1>6, <2>1, <2>2, <2>3, <2>4 DEF Remembered, WriteFailed
<1>4. CASE ~RunTask /\ \A d \in Conns : ~WriteDone(d) /\ ~Establish(d)
  <2>1. UNCHANGED out /\ ep'.reg[c] = ep.reg[c] /\ (InReady(ep, c) => InReady(ep', c) \/ EpollWait)
    BY <1>4, KernelKeeps, Own
  <2>7. WriteFailed(c) => Remembered(c)'
    BY <1>6, <2>1 DEF WriteFailed
  <2>2. CASE PeerSend(c) \/ PeerClose(c) \/ PeerReset(c)
    <3>1. ep' = Signal(ep, c, "IN")
      BY <2>2 DEF PeerSend, PeerClose, PeerReset
    <3> QED
      BY <1>0, <2>1, <3>1, PeerSignals DEF Remembered
  <2>3. CASE PeerDrain(c)
    <3>1. ep' = Signal(ep, c, "OUT") /\ UNCHANGED <<unread, fin, batch>> /\ ~EpollWait
      BY <2>3 DEF PeerDrain, EpollWait, LoopAt, peers, loop
    <3>2. InReady(ep, c) => Remembered(c)'
      BY <2>1, <3>1 DEF Remembered
    <3>3. InBatch(c) => Remembered(c)'
      BY <3>1 DEF Remembered, InBatch
    <3>4. "OUT" \in ep.reg[c] => Remembered(c)'
      BY <2>1, <3>1, PeerSignals DEF Remembered
    <3> QED
      BY <1>1, <2>1, <2>7, <3>1, <3>2, <3>3, <3>4
  <2>4. CASE EpollWait
    <3>1. UNCHANGED <<unread, fin, full>> /\ batch = <<>>
      BY <2>4 DEF EpollWait, peers, LoopAt, LoopInv, Batch
    <3>2. ~InBatch(c)
      BY <3>1 DEF InBatch
    <3>3. InReady(ep, c) => InBatch(c)'
      BY <2>1, <2>4, <3>1, WaitReports
    <3> QED
      BY <1>1, <2>1, <2>7, <3>1, <3>2, <3>3 DEF Remembered
  <2>5. CASE HandleEvent
    <3>1. ~EpollWait
      <4>1. lpc = "dispatch"
        BY <2>5 DEF HandleEvent, ReadEventFd, HandleTimer, HandleNothing, OnMsg, OnMsgClosed, WriteBlocked, WriteFails, WriteKills,
           WriteDone, HandleFreed, Handling, LoopAt
      <4> QED
        BY <4>1 DEF EpollWait, LoopAt
    <3>2. UNCHANGED full
      BY <1>4, <2>5 DEF HandleEvent, ReadEventFd, HandleTimer, HandleNothing, OnMsg, OnMsgClosed,
         WriteBlocked, WriteFails, WriteKills, HandleFreed, peers
    <3>3. unread[c] > 0 \/ fin[c]
      <4>1. UNCHANGED fin
        BY <1>4, <2>5 DEF HandleEvent, ReadEventFd, HandleTimer, HandleNothing, OnMsg, OnMsgClosed,
           WriteBlocked, WriteFails, WriteKills, HandleFreed, peers
      <4>2. UNCHANGED unread \/ \E d \in Conns : OnMsg(d) \/ OnMsgClosed(d)
        BY <1>4, <2>5 DEF HandleEvent, ReadEventFd, HandleTimer, HandleNothing, WriteBlocked, WriteFails, WriteKills, HandleFreed, peers
      <4>3. unread'[c] = unread[c] \/ unread'[c] = 0
        BY <1>0, <4>2 DEF OnMsg, OnMsgClosed, LeftUnread, TypeOK
      <4> QED
        BY <1>0, <4>1, <4>3 DEF TypeOK
    <3>4. InBatch(c) => Remembered(c)'
      BY <2>5, HandledRemembers DEF Remembered
    <3> QED
      BY <1>1, <2>1, <2>7, <3>1, <3>2, <3>3, <3>4 DEF Remembered
  <2>6. CASE ~HandleEvent /\ ~EpollWait /\ ~PeerSend(c) /\ ~PeerClose(c) /\ ~PeerReset(c) /\ ~PeerDrain(c)
    <3>1. UNCHANGED batch
      BY <1>4, <2>6 DEF Next, LoopStep, ReadShutDown, LockTasks, NextTask, RunTaskOfFreed, EndDrain, ScanKeep,
         ScanReap, EndScan, WorkerStep, TakeJob, FindDisconnected, FindConnected, PushTask, WakeLoop,
         SetShutDown, WakeForShutDown, Environment, TimerExpire, PeerSend, PeerClose, PeerReset, PeerDrain, vars, loop
    <3>2. \/ UNCHANGED <<unread, fin, full>>
          \/ \E d \in Conns : d # c /\ (PeerSend(d) \/ PeerClose(d) \/ PeerReset(d) \/ PeerDrain(d))
      BY <1>4, <2>6 DEF Next, LoopStep, ReadShutDown, LockTasks, NextTask, RunTaskOfFreed, EndDrain, ScanKeep,
         ScanReap, EndScan, WorkerStep, TakeJob, FindDisconnected, FindConnected, PushTask, WakeLoop,
         SetShutDown, WakeForShutDown, Environment, TimerExpire, vars, peers
    <3>3. unread'[c] = unread[c] /\ fin'[c] = fin[c] /\ full'[c] = full[c]
      BY <1>0, <3>2 DEF PeerSend, PeerClose, PeerReset, PeerDrain, TypeOK
    <3> QED
      BY <1>1, <2>1, <2>6, <2>7, <3>1, <3>3 DEF Remembered, InBatch
  <2> QED
    BY <2>2, <2>3, <2>4, <2>5, <2>6
<1>5. RunTask => \E d \in Conns : hand[2] = d
  BY TaskInHand DEF RunTask, LoopAt
<1> QED
  BY <1>2, <1>3, <1>4, <1>5

\* A registered connection with something to read, or whose peer has closed, is on
\* the ready list, in the batch, or has its output stuck behind a full buffer or a
\* send() that failed: no other edge of the edge-triggered registration is lost, for
\* any number of connections.
THEOREM NoInputForgotten == Spec => []InputNotForgotten
<1>1. Init => InputNotForgotten
  BY Own DEF Init, InputNotForgotten
<1> QED
  BY <1>1, InputStep, OutputAlwaysAsks, LoopInvAlways, PTL DEF Spec

\* What keeps the output of c from being forgotten, and what becomes of it.
OutRemembered(c) == InReady(ep, c) \/ InBatch(c) \/ full[c] \/ c \in swallowed \/ WriteFailed(c)

OutputRemembered == \A c \in Conns : ep.reg[c] # {} /\ out[c] => OutRemembered(c)

\* A connection that is registered and has output asks for OUT, so that epoll_wait()
\* takes it from the ready list to the batch, unless its buffer is full.
LEMMA WaitReportsOut ==
    ASSUME LoopInv, OutputAsksForOut, EpollWait, NEW c \in Conns, ep.reg[c] # {}, out[c], ~full[c],
           InReady(ep, c)
    PROVE  InBatch(c)'
<1>1. TypeOK /\ "OUT" \in ep.reg[c]
  BY DEF LoopInv, OutputAsksForOut
<1>2. "OUT" \in Level[c]
  BY Own DEF Level, ConnLevel
<1>3. c \in Reported(ep, Level)
  BY <1>1, <1>2 DEF Reported, InReady
<1> QED
  BY <1>1, <1>3, WaitedBatch

\* The handlers of a connection write its output, or know what becomes of it.
LEMMA HandledRemembersOut ==
    ASSUME LoopInv, HandleEvent, NEW c \in Conns, InBatch(c), ~InBatch(c)', ep'.reg[c] # {}, out'[c]
    PROVE  OutRemembered(c)'
<1>0. TypeOK
  BY DEF LoopInv
<1>1. CASE OnMsg(c)
  BY <1>1 DEF OnMsg, OutRemembered
<1>2. CASE OnMsgClosed(c)
  <2>1. ep'.reg = [ep.reg EXCEPT ![c] = {}]
    BY <1>0, <1>2, DeleteEffect, Own DEF OnMsgClosed, RemoveChannel, TypeOK, Ep
  <2>2. ep'.reg[c] = {}
    BY <1>0, <2>1, Own DEF TypeOK
  <2> QED
    BY <2>2
<1>3. CASE WriteBlocked(c)
  BY <1>3 DEF WriteBlocked, peers, OutRemembered
<1>4. CASE WriteDone(c)
  BY <1>0, <1>4 DEF WriteDone, TypeOK
<1>5. CASE WriteFails(c)
  BY <1>0, <1>5 DEF WriteFails, OutRemembered, WriteFailed, TypeOK
<1>6. CASE HandleFreed(c)
  <2>1. ep.reg[c] = {} /\ UNCHANGED ep
    BY <1>6 DEF HandleFreed, LoopInv, Kernel, KernelOf
  <2> QED
    BY <2>1
<1> QED
  BY <1>1, <1>2, <1>3, <1>4, <1>5, <1>6, HandledWhich

LEMMA OutputRememberedStep ==
    LoopInv /\ OutputAsksForOut /\ OutputRemembered /\ [Next]_vars => OutputRemembered'
<1> SUFFICES ASSUME LoopInv, OutputAsksForOut, OutputRemembered, [Next]_vars,
                    NEW c \in Conns, ep'.reg[c] # {}, out'[c]
             PROVE  OutRemembered(c)'
  BY DEF OutputRemembered
<1>0. TypeOK /\ ep \in Ep /\ (ep.reg[c] # {} => "IN" \in ep.reg[c])
  BY DEF LoopInv, TypeOK, Ep, Kernel, KernelOf, Established
<1>1. ASSUME ep'.reg[c] = ep.reg[c], out[c], InReady(ep, c) => OutRemembered(c)',
             InBatch(c) => OutRemembered(c)', full[c] => OutRemembered(c)',
             c \in swallowed => OutRemembered(c)'
      PROVE  OutRemembered(c)'
  BY <1>1, FailedStays DEF OutputRemembered, OutRemembered, WriteFailed
<1>2. CASE RunTask /\ hand[2] = c
  <2>1. /\ Update(c, evs[c] \cup {"OUT"}, Level[c]) /\ evs[c] \cup {"OUT"} \in SUBSET Events
        /\ UNCHANGED full
    BY <1>0, <1>2 DEF RunTask, peers, TypeOK, Events
  <2>2. ~Refused(c)
    BY <1>0, <2>1, UpdateEffect DEF Refused
  <2>3. "OUT" \in Level[c] => InReady(ep', c)
    <3> DEFINE mask == evs[c] \cup {"OUT"}
    <3>1. mask \in SUBSET Events /\ Update(c, mask, Level[c]) /\ "OUT" \in mask
      BY <2>1
    <3> HIDE DEF mask
    <3>2. \A ev \in mask : ev \in Level[c] => InReady(ep', c)
      BY <1>0, <2>2, <3>1, UpdateEffect
    <3> QED
      BY <3>1, <3>2
  <2>4. ~full[c] => "OUT" \in Level[c]
    BY Own DEF Level, ConnLevel
  <2> QED
    BY <2>1, <2>3, <2>4 DEF OutRemembered
<1>3. CASE WriteDone(c) \/ Establish(c)
  <2>1. ~out'[c]
    BY <1>0, <1>3 DEF WriteDone, Establish, LoopInv, Kernel, KernelOf, TypeOK
  <2> QED
    BY <2>1
<1>4. ASSUME NEW d \in Conns, d # c, (RunTask /\ hand[2] = d) \/ WriteDone(d) \/ Establish(d)
      PROVE  OutRemembered(c)'
  <2>1. ep'.reg[c] = ep.reg[c] /\ (InReady(ep', c) <=> InReady(ep, c)) /\ out'[c] = out[c]
    BY <1>4, UpdateReports, Own
  <2>2. full'[c] = full[c]
    BY <1>0, <1>4 DEF RunTask, WriteDone, Establish, peers, TypeOK
  <2>3. c \in swallowed => c \in swallowed'
    BY <1>4 DEF RunTask, WriteDone, Establish, Update
  <2>4. InBatch(c) => InBatch(c)'
    <3>1. CASE WriteDone(d)
      BY <1>4, <3>1, HandledLeaves DEF WriteDone
    <3>2. CASE (RunTask /\ hand[2] = d) \/ Establish(d)
      BY <3>2 DEF RunTask, Establish, loop, InBatch
    <3> QED
      BY <1>4, <3>1, <3>2
  <2> QED
    BY <1>1, <2>1, <2>2, <2>3, <2>4 DEF OutRemembered
<1>5. CASE ~RunTask /\ \A d \in Conns : ~WriteDone(d) /\ ~Establish(d)
  <2>1. UNCHANGED out /\ ep'.reg[c] = ep.reg[c] /\ (InReady(ep, c) => InReady(ep', c) \/ EpollWait)
    BY <1>5, KernelKeeps, Own
  <2>2. "OUT" \in ep.reg[c]
    BY <2>1 DEF OutputAsksForOut
  <2>3. swallowed \subseteq swallowed'
    BY <1>5 DEF Next, LoopStep, ReadShutDown, EpollWait, HandleEvent, ReadEventFd, HandleTimer, HandleNothing,
       OnMsg, OnMsgClosed, RemoveChannel, WriteBlocked, WriteFails, WriteKills, HandleFreed, LockTasks, NextTask,
       RunTaskOfFreed, EndDrain, ScanKeep, ScanReap, EndScan, WorkerStep, TakeJob, FindDisconnected, FindConnected,
       PushTask, WakeLoop, SetShutDown, WakeForShutDown, Environment, TimerExpire, PeerSend, PeerClose, PeerReset,
       PeerDrain, vars, connect
  <2>4. CASE PeerSend(c) \/ PeerClose(c) \/ PeerReset(c) \/ PeerDrain(c)
    <3>1. ep' = Signal(ep, c, "IN") \/ ep' = Signal(ep, c, "OUT")
      BY <2>4 DEF PeerSend, PeerClose, PeerReset, PeerDrain
    <3> QED
      BY <1>0, <2>1, <2>2, <3>1, PeerSignals DEF OutRemembered
  <2>5. CASE EpollWait
    <3>1. UNCHANGED full /\ batch = <<>>
      BY <2>5 DEF EpollWait, peers, LoopAt, LoopInv, Batch
    <3>2. ~InBatch(c)
      BY <3>1 DEF InBatch
    <3>3. InReady(ep, c) => InBatch(c)' \/ full[c]
      BY <2>1, <2>5, WaitReportsOut
    <3> QED
      BY <1>1, <2>1, <2>3, <3>1, <3>2, <3>3 DEF OutRemembered
  <2>6. CASE HandleEvent
    <3>1. ~EpollWait
      <4>1. lpc = "dispatch"
        BY <2>6 DEF HandleEvent, ReadEventFd, HandleTimer, HandleNothing, OnMsg, OnMsgClosed, WriteBlocked, WriteFails,
           WriteKills, WriteDone, HandleFreed, Handling, LoopAt
      <4> QED
        BY <4>1 DEF EpollWait, LoopAt
    <3>2. UNCHANGED full
      BY <1>5, <2>6 DEF HandleEvent, ReadEventFd, HandleTimer, HandleNothing, OnMsg, OnMsgClosed,
         WriteBlocked, WriteFails, WriteKills, HandleFreed, peers
    <3>3. InBatch(c) => OutRemembered(c)'
      BY <2>6, HandledRemembersOut DEF OutRemembered
    <3> QED
      BY <1>1, <2>1, <2>3, <3>1, <3>2, <3>3 DEF OutRemembered
  <2>7. CASE ~HandleEvent /\ ~EpollWait /\ ~PeerReset(c) /\ ~PeerDrain(c)
    <3>1. UNCHANGED batch
      BY <1>5, <2>7 DEF Next, LoopStep, ReadShutDown, LockTasks, NextTask, RunTaskOfFreed, EndDrain, ScanKeep,
         ScanReap, EndScan, WorkerStep, TakeJob, FindDisconnected, FindConnected, PushTask, WakeLoop,
         SetShutDown, WakeForShutDown, Environment, TimerExpire, PeerSend, PeerClose, PeerReset, PeerDrain, vars, loop
    <3>2. UNCHANGED full \/ \E d \in Conns : d # c /\ (PeerReset(d) \/ PeerDrain(d))
      BY <1>5, <2>7 DEF Next, LoopStep, ReadShutDown, LockTasks, NextTask, RunTaskOfFreed, EndDrain, ScanKeep,
         ScanReap, EndScan, WorkerStep, TakeJob, FindDisconnected, FindConnected, PushTask, WakeLoop,
         SetShutDown, WakeForShutDown, Environment, TimerExpire, PeerSend, PeerClose, vars, peers
    <3>3. full'[c] = full[c]
      BY <1>0, <3>2 DEF PeerReset, PeerDrain, TypeOK
    <3> QED
      BY <1>1, <2>1, <2>3, <2>7, <3>1, <3>3 DEF OutRemembered, InBatch
  <2> QED
    BY <2>4, <2>5, <2>6, <2>7
<1>6. RunTask => \E d \in Conns : hand[2] = d
  BY TaskInHand DEF RunTask, LoopAt
<1> QED
  BY <1>2, <1>3, <1>4, <1>5, <1>6

\* A reply in the buffer of a registered connection asks for OUT and has an event to
\* come, or a full buffer; or on_msg() used the event up, or send() failed: there is
\* no third way to strand it, for any number of connections.
THEOREM OutputHasCallback == Spec => []OutputNotForgotten
<1>1. Init => OutputRemembered
  BY DEF Init, OutputRemembered
<1>2. OutputAsksForOut /\ OutputRemembered => OutputNotForgotten
  BY DEF OutputAsksForOut, OutputRemembered, OutRemembered, OutputNotForgotten
<1> QED
  BY <1>1, <1>2, OutputRememberedStep, OutputAlwaysAsks, LoopInvAlways, PTL DEF Spec

-----------------------------------------------------------------------------
(* The timer, until a reply is written *)

\* Until a task was run no connection asks for OUT, and every batch is one to read.
BeforeReplies ==
    Begun = 0 => /\ \A c \in Conns : ~out[c]
                 /\ \A i \in 1..Len(batch) : "IN" \in batch[i].revs

\* The number of tasks that were begun never falls.
LEMMA BegunGrows ==
    ASSUME LoopInv, [Next]_vars
    PROVE  Begun \in Nat /\ (Begun' = 0 => Begun = 0)
<1>0. /\ tasks \in Seq(Nat \X Conns) /\ Len(tasks) \in Nat /\ posted \in Nat /\ Len(tasks) <= posted
  BY DEF LoopInv, TypeOK, Hands
<1>1. ASSUME NEW w \in Workers, PushTask(w) PROVE Begun' = Begun
  BY <1>0, <1>1 DEF PushTask, Begun
<1>2. CASE NextTask
  <2>1. Len(tasks') = Len(tasks) - 1 /\ posted' = posted
    BY <1>0, <1>2 DEF NextTask
  <2> QED
    BY <1>0, <2>1 DEF Begun
<1>3. CASE UNCHANGED <<tasks, posted>>
  BY <1>0, <1>3 DEF Begun
<1>4. NextTask \/ (\E w \in Workers : PushTask(w)) \/ UNCHANGED <<tasks, posted>>
  BY DEF Next, LoopStep, ReadShutDown, EpollWait, HandleEvent, ReadEventFd, HandleTimer, HandleNothing, OnMsg,
     OnMsgClosed, WriteBlocked, WriteFails, WriteKills, WriteDone, HandleFreed, LockTasks, RunTask, RunTaskOfFreed,
     EndDrain, ScanKeep, ScanReap, EndScan, WorkerStep, TakeJob, FindDisconnected, FindConnected, WakeLoop,
     SetShutDown, WakeForShutDown, Environment, TimerExpire, Establish, PeerSend, PeerClose, PeerReset, PeerDrain, vars
<1> QED
  BY <1>0, <1>1, <1>2, <1>3, <1>4 DEF Begun

\* Each channel is given the events of one that was reported.
LEMMA WaitedRevs ==
    ASSUME TypeOK, EpollWait
    PROVE  \E ch \in Reported(ep, Level) :
              \A i \in 1..Len(batch') : batch'[i].revs = Level[ch] \cap ep.reg[ch]
<1> DEFINE channels == Reported(ep, Level)
           own(ch)  == Level[ch] \cap ep.reg[ch]
           n        == Cardinality(channels)
<1>1. PICK array \in Bijection(1..n, channels) :
         batch' = [i \in 1..n |-> [ch |-> array[i], own |-> own(array[i]), revs |-> own(array[1])]]
  BY DEF EpollWait
<1>2. batch' \in Seq([ch : Channels, own : SUBSET Events, revs : SUBSET Events]) /\ batch' # <<>>
  BY WaitedBatch
<1> HIDE DEF channels, own, n
<1>3. DOMAIN batch' = 1..n /\ DOMAIN batch' = 1..Len(batch') /\ 1 \in 1..Len(batch')
  <2>1. DOMAIN batch' = 1..n
    BY <1>1
  <2>2. DOMAIN batch' = 1..Len(batch') /\ Len(batch') \in Nat /\ Len(batch') # 0
    BY <1>2
  <2> QED
    BY <2>1, <2>2
<1>4. array[1] \in channels
  BY <1>1, <1>3 DEF Bijection, Injection, Surjection
<1>5. \A i \in 1..Len(batch') : batch'[i].revs = own(array[1])
  BY <1>1, <1>3
<1> QED
  BY <1>4, <1>5 DEF channels, own

LEMMA BeforeRepliesStep == LoopInv /\ OutputAsksForOut /\ BeforeReplies /\ [Next]_vars => BeforeReplies'
<1> SUFFICES ASSUME LoopInv, OutputAsksForOut, BeforeReplies, [Next]_vars, Begun' = 0
             PROVE  /\ \A c \in Conns : ~out'[c]
                    /\ \A i \in 1..Len(batch') : "IN" \in batch'[i].revs
  BY DEF BeforeReplies
<1>0. /\ TypeOK /\ Begun = 0 /\ (\A c \in Conns : ~out[c])
      /\ \A i \in 1..Len(batch) : "IN" \in batch[i].revs
  BY BegunGrows DEF BeforeReplies, LoopInv
<1>1. ~RunTask
  <2>1. lpc = "run" => Begun > 0
    BY DEF LoopInv, Hands, Begun
  <2> QED
    BY <1>0, <2>1 DEF RunTask, LoopAt
<1>2. \A c \in Conns : ~out'[c]
  <2>1. UNCHANGED out \/ \E d \in Conns : WriteDone(d)
    BY <1>1, KernelKeeps DEF Establish
  <2> QED
    BY <1>0, <2>1 DEF WriteDone, TypeOK
<1>3. \A i \in 1..Len(batch') : "IN" \in batch'[i].revs
  <2>1. CASE EpollWait
    <3>1. PICK ch \in Reported(ep, Level) :
             \A i \in 1..Len(batch') : batch'[i].revs = Level[ch] \cap ep.reg[ch]
      BY <1>0, <2>1, WaitedRevs
    <3>2. ch \in Channels /\ Level[ch] \cap ep.reg[ch] # {}
      BY <1>0, <3>1 DEF Reported, TypeOK
    <3>3. Level[ch] \subseteq {"IN", "OUT"}
      BY <3>2 DEF Level, ConnLevel
    <3>4. "OUT" \notin ep.reg[ch]
      <4>1. CASE ch \in Conns
        BY <1>0, <3>2, <4>1 DEF OutputAsksForOut
      <4>2. CASE ch \in {Weak, Timer}
        BY <4>2 DEF LoopInv, Kernel, WeakEvents, TimerEvents
      <4> QED
        BY <3>2, <4>1, <4>2 DEF Channels
    <3> QED
      BY <3>1, <3>2, <3>3, <3>4
  <2>2. ASSUME batch' = Tail(batch), batch # <<>> PROVE \A i \in 1..Len(batch') : "IN" \in batch'[i].revs
    <3>1. batch \in Seq([ch : Channels, own : SUBSET Events, revs : SUBSET Events])
      BY <1>0 DEF TypeOK
    <3>2. \A i \in 1..Len(batch') : i + 1 \in 1..Len(batch) /\ batch'[i] = batch[i + 1]
      BY <2>2, <3>1
    <3> QED
      BY <1>0, <3>2
  <2>3. CASE HandleEvent
    <3>1. UNCHANGED batch \/ \E ch : Handling(ch)
      BY <2>3 DEF HandleEvent, ReadEventFd, HandleTimer, HandleNothing, OnMsg, OnMsgClosed, WriteBlocked, WriteFails,
         WriteKills, WriteDone, HandleFreed, loop
    <3> QED
      BY <1>0, <2>2, <3>1, HandlingTypes
  <2>4. CASE ~EpollWait /\ ~HandleEvent
    <3>1. UNCHANGED batch
      BY <1>1, <2>4 DEF Next, LoopStep, ReadShutDown, LockTasks, NextTask, RunTaskOfFreed, EndDrain, ScanKeep, ScanReap,
         EndScan, WorkerStep, TakeJob, FindDisconnected, FindConnected, PushTask, WakeLoop, SetShutDown,
         WakeForShutDown, Environment, TimerExpire, Establish, PeerSend, PeerClose, PeerReset, PeerDrain, vars, loop
    <3> QED
      BY <1>0, <3>1
  <2> QED
    BY <2>1, <2>3, <2>4
<1> QED
  BY <1>2, <1>3

LEMMA TimerStep == LoopInv /\ BeforeReplies /\ TimerNotForgotten /\ [Next]_vars => TimerNotForgotten'
<1> SUFFICES ASSUME LoopInv, BeforeReplies, TimerNotForgotten, [Next]_vars, timer' = "expired", Begun' = 0
             PROVE  InReady(ep', Timer) \/ InBatch(Timer)'
  BY DEF TimerNotForgotten
<1>0. TypeOK /\ ep \in Ep /\ ep.reg[Timer] = {"IN", "ET"} /\ Begun = 0
  BY BegunGrows DEF LoopInv, TypeOK, Ep, Kernel, TimerEvents
<1>1. CASE TimerExpire
  <2>1. ep' = Signal(ep, Timer, "IN")
    BY <1>1 DEF TimerExpire
  <2> QED
    BY <1>0, <2>1, SignalEffect, Own
<1>2. CASE EpollWait
  <2>1. timer = "expired" /\ batch = <<>>
    BY <1>2 DEF EpollWait, LoopAt, LoopInv, Batch
  <2>2. InReady(ep, Timer)
    BY <1>0, <2>1 DEF TimerNotForgotten, InBatch
  <2>3. Level[Timer] = {"IN"}
    BY <2>1, Own, ChannelsAssumption DEF Level
  <2>4. Timer \in Reported(ep, Level)
    BY <1>0, <2>2, <2>3 DEF Reported, InReady
  <2> QED
    BY <1>0, <1>2, <2>4, WaitedBatch
<1>3. CASE ~TimerExpire /\ ~EpollWait
  <2>1. ~HandleTimer /\ timer = "expired"
    BY <1>3 DEF Next, LoopStep, ReadShutDown, HandleEvent, ReadEventFd, HandleTimer, HandleNothing, OnMsg,
       OnMsgClosed, WriteBlocked, WriteFails, WriteKills, WriteDone, HandleFreed, LockTasks, NextTask, RunTask,
       RunTaskOfFreed, EndDrain, ScanKeep, ScanReap, EndScan, WorkerStep, TakeJob, FindDisconnected, FindConnected,
       PushTask, WakeLoop, SetShutDown, WakeForShutDown, Environment, Establish, PeerSend, PeerClose, PeerReset,
       PeerDrain, vars
  <2>2. InReady(ep, Timer) => InReady(ep', Timer)
    <3>1. ASSUME NEW c \in Conns, (RunTask /\ hand[2] = c) \/ WriteDone(c) \/ Establish(c)
          PROVE  InReady(ep, Timer) => InReady(ep', Timer)
      BY <3>1, UpdateReports, Own
    <3>2. CASE ~RunTask /\ \A c \in Conns : ~WriteDone(c) /\ ~Establish(c)
      BY <1>3, <3>2, KernelKeeps, Own
    <3>3. RunTask => \E c \in Conns : hand[2] = c
      BY TaskInHand DEF RunTask, LoopAt
    <3> QED
      BY <3>1, <3>2, <3>3
  <2>3. InBatch(Timer) => InBatch(Timer)'
    <3>1. CASE HandleEvent
      <4>1. ~HandleNothing(Timer)
        <5>1. batch # <<>> => "IN" \in Head(batch).revs
          BY <1>0 DEF BeforeReplies, TypeOK
        <5> QED
          BY <5>1, HandlingTypes, <1>0 DEF HandleNothing, Revs
      <4>2. UNCHANGED batch \/ \E ch : Handling(ch) /\ ch # Timer
        BY <2>1, <3>1, <4>1, Own, ChannelsAssumption DEF HandleEvent, ReadEventFd, HandleNothing, OnMsg, OnMsgClosed,
           WriteBlocked, WriteFails, WriteKills, WriteDone, HandleFreed, loop
      <4> QED
        BY <4>2, HandledLeaves DEF InBatch
    <3>2. CASE ~HandleEvent
      <4>1. UNCHANGED batch
        BY <1>3, <3>2 DEF Next, LoopStep, ReadShutDown, LockTasks, NextTask, RunTask, RunTaskOfFreed, EndDrain, ScanKeep,
           ScanReap, EndScan, WorkerStep, TakeJob, FindDisconnected, FindConnected, PushTask, WakeLoop, SetShutDown,
           WakeForShutDown, Environment, TimerExpire, Establish, PeerSend, PeerClose, PeerReset, PeerDrain, vars, loop
      <4> QED
        BY <4>1 DEF InBatch
    <3> QED
      BY <3>1, <3>2
  <2> QED
    BY <1>0, <2>1, <2>2, <2>3 DEF TimerNotForgotten
<1> QED
  BY <1>1, <1>2, <1>3

\* The one-shot timer is not lost while no reply was written: for any number of
\* connections and any order of the array of epoll_wait().
THEOREM TimerIsHeard == Spec => []TimerNotForgotten
<1>1. Init => BeforeReplies /\ TimerNotForgotten
  BY DEF Init, BeforeReplies, TimerNotForgotten
<1> QED
  BY <1>1, BeforeRepliesStep, TimerStep, OutputAlwaysAsks, LoopInvAlways, PTL DEF Spec

-----------------------------------------------------------------------------
(* The eventfd *)

\* The eventfd is level-triggered: it stays on the ready list of epoll_wait().
LEMMA WeakStaysReady ==
    ASSUME LoopInv, [Next]_vars, evfd, InReady(ep, Weak)
    PROVE  InReady(ep', Weak)
<1>1. CASE EpollWait
  <2>1. ep \in Ep /\ ep.reg[Weak] = {"IN"}
    BY DEF LoopInv, TypeOK, Ep, Kernel, WeakEvents
  <2>2. Level[Weak] = {"IN"}
    BY Own, ChannelsAssumption DEF Level
  <2>3. Weak \in Reported(ep, Level)
    BY <2>1, <2>2 DEF Reported, InReady
  <2> QED
    <3>1. ep' = AfterWait(ep, Level)
      BY <1>1 DEF EpollWait
    <3>2. "ET" \notin ep.reg[Weak]
      BY <2>1
    <3> QED
      BY <2>1, <2>3, <3>1, <3>2, AfterWaitEffect
<1>2. ASSUME NEW c \in Conns, (RunTask /\ hand[2] = c) \/ WriteDone(c) \/ Establish(c) PROVE InReady(ep', Weak)
  BY <1>2, UpdateReports, Own
<1>3. CASE ~EpollWait /\ ~RunTask /\ \A c \in Conns : ~WriteDone(c) /\ ~Establish(c)
  BY <1>3, KernelKeeps, Own
<1>4. RunTask => \E c \in Conns : hand[2] = c
  BY TaskInHand DEF RunTask, LoopAt
<1> QED
  BY <1>1, <1>2, <1>3, <1>4

\* Writing the eventfd makes it ready.
LEMMA WriteMakesReady ==
    ASSUME LoopInv, WakeForShutDown \/ \E w \in Workers : WakeLoop(w)
    PROVE  InReady(ep', Weak)
<1>1. ep \in Ep /\ "IN" \in ep.reg[Weak]
  BY DEF LoopInv, TypeOK, Ep, Kernel, WeakEvents
<1>2. Signal(ep, Weak, "IN") \in Ep /\ InReady(Signal(ep, Weak, "IN"), Weak)
  BY <1>1, SignalEffect, Own
<1>3. CASE WakeForShutDown
  BY <1>2, <1>3 DEF WakeForShutDown
<1>4. ASSUME NEW w \in Workers, WakeLoop(w) PROVE InReady(ep', Weak)
  <2>1. wconn[w] \in Conns /\ ReleaseConn(wconn[w], Signal(ep, Weak, "IN"))
    BY <1>4 DEF WakeLoop, EndJob, WorkerAt, LoopInv, Hands, TypeOK
  <2> QED
    BY <1>2, <2>1, ReleaseKeeps, Own
<1> QED
  BY <1>3, <1>4

LEMMA TaskWakesStep == LoopInv /\ TaskWakesLoop /\ [Next]_vars => TaskWakesLoop'
<1> SUFFICES ASSUME LoopInv, TaskWakesLoop, [Next]_vars PROVE TaskWakesLoop'
  OBVIOUS
<1>0. TypeOK
  BY DEF LoopInv
<1>1. evfd' => evfd \/ WakeForShutDown \/ \E w \in Workers : WakeLoop(w)
  BY DEF Next, LoopStep, ReadShutDown, EpollWait, HandleEvent, ReadEventFd, HandleTimer, HandleNothing, OnMsg,
     OnMsgClosed, WriteBlocked, WriteFails, WriteKills, WriteDone, HandleFreed, LockTasks, NextTask, RunTask, RunTaskOfFreed, EndDrain,
     ScanKeep, ScanReap, EndScan, WorkerStep, TakeJob, FindDisconnected, FindConnected, PushTask, SetShutDown,
     Environment, TimerExpire, Establish, PeerSend, PeerClose, PeerReset, PeerDrain, vars
<1>2. evfd' => InReady(ep', Weak)
  BY <1>1, WeakStaysReady, WriteMakesReady DEF TaskWakesLoop
<1> DEFINE Covered == evfd \/ (\E w \in Workers : wpc[w] = "wake") \/ lpc \in {"lock", "drain", "run"}
<1>3. tasks # <<>> => Covered
  BY DEF TaskWakesLoop
<1>4. tasks' # <<>> => Covered'
  <2>1. ASSUME NEW w \in Workers, PushTask(w) PROVE Covered'
    BY <1>0, <2>1 DEF PushTask, TypeOK
  <2>2. CASE WakeForShutDown \/ \E w \in Workers : WakeLoop(w)
    BY <2>2 DEF WakeForShutDown, WakeLoop
  <2>3. CASE ReadEventFd \/ LockTasks \/ NextTask \/ RunTask \/ RunTaskOfFreed
    BY <2>3 DEF ReadEventFd, LockTasks, NextTask, RunTask, RunTaskOfFreed, LoopAt, loop
  <2>4. CASE EndDrain
    BY <2>4 DEF EndDrain
  <2>5. ASSUME NEW w \in Workers, TakeJob(w) \/ FindDisconnected(w) \/ FindConnected(w)
        PROVE  tasks' # <<>> => Covered'
    <3>1. UNCHANGED <<tasks, evfd, lpc>>
      BY <2>5 DEF TakeJob, FindDisconnected, FindConnected, loop
    <3>2. \A v \in Workers : wpc[v] = "wake" => wpc'[v] = "wake"
      BY <1>0, <2>5 DEF TakeJob, FindDisconnected, FindConnected, EndJob, WorkerAt, TypeOK
    <3> QED
      BY <1>3, <3>1, <3>2
  <2>6. CASE LoopStep /\ ~(ReadEventFd \/ LockTasks \/ NextTask \/ RunTask \/ RunTaskOfFreed \/ EndDrain)
    <3>1. UNCHANGED <<tasks, evfd, wpc>>
      BY <2>6 DEF LoopStep, ReadShutDown, EpollWait, HandleEvent, HandleTimer, HandleNothing, OnMsg,
         OnMsgClosed, WriteBlocked, WriteFails, WriteKills, WriteDone, HandleFreed, ScanKeep, ScanReap, EndScan, workers
    <3>2. lpc \notin {"lock", "drain", "run"}
      BY <2>6 DEF LoopStep, ReadShutDown, EpollWait, HandleEvent, HandleTimer, HandleNothing, OnMsg,
         OnMsgClosed, WriteBlocked, WriteFails, WriteKills, WriteDone, HandleFreed, ScanKeep, ScanReap, EndScan, Handling, LoopAt
    <3> QED
      BY <1>3, <3>1, <3>2
  <2>7. CASE SetShutDown \/ Environment \/ UNCHANGED vars
    <3>1. UNCHANGED <<tasks, evfd, wpc, lpc>>
      BY <2>7 DEF SetShutDown, Environment, TimerExpire, Establish, PeerSend, PeerClose, PeerReset, PeerDrain, vars,
         loop, workers
    <3> QED
      BY <1>3, <3>1
  <2> QED
    BY <2>1, <2>2, <2>3, <2>4, <2>5, <2>6, <2>7 DEF Next, WorkerStep
<1> QED
  BY <1>2, <1>4 DEF TaskWakesLoop

\* No wakeup of a posted task is lost, for any number of workers: while tasks
\* wait the loop is at them, or a worker is about to write the eventfd, or it
\* is readable and on the ready list.
THEOREM NoTaskForgotten == Spec => []TaskWakesLoop
<1>1. Init => TaskWakesLoop
  BY DEF Init, TaskWakesLoop
<1> QED
  BY <1>1, TaskWakesStep, LoopInvAlways, PTL DEF Spec

-----------------------------------------------------------------------------
(* The end of the program *)

\* Nothing happens after a fault, and only send_in_loop() of a connection that
\* was closed has epoll_ctl() fail.
LEMMA ExitStep == LoopInv /\ ExitsOnlyAfterClose /\ [Next]_vars => ExitsOnlyAfterClose'
<1> SUFFICES ASSUME LoopInv, ExitsOnlyAfterClose, [Next]_vars, fault' = "exit"
             PROVE  disconn'[hand'[2]] /\ fin'[hand'[2]]
  BY DEF ExitsOnlyAfterClose
<1>0. TypeOK
  BY DEF LoopInv
<1>1. CASE fault = "exit"
  <2>1. UNCHANGED vars
    BY <1>1 DEF Next, LoopStep, ReadShutDown, EpollWait, HandleEvent, ReadEventFd, HandleTimer, HandleNothing,
       OnMsg, OnMsgClosed, WriteBlocked, WriteFails, WriteKills, WriteDone, HandleFreed, LockTasks, NextTask, RunTask, RunTaskOfFreed,
       EndDrain, ScanKeep, ScanReap, EndScan, WorkerStep, TakeJob, FindDisconnected, FindConnected, PushTask,
       WakeLoop, SetShutDown, WakeForShutDown, Environment, TimerExpire, Establish, PeerSend, PeerClose, PeerReset,
       PeerDrain, Handling, LoopAt, WorkerAt, Running
  <2> QED
    BY <1>1, <2>1 DEF ExitsOnlyAfterClose, vars, connect, peers, loop
<1>2. CASE fault # "exit"
  <2>1. RunTask \/ (\E c \in Conns : WriteDone(c) \/ Establish(c))
    BY <1>2 DEF Next, LoopStep, ReadShutDown, EpollWait, HandleEvent, ReadEventFd, HandleTimer, HandleNothing,
       OnMsg, OnMsgClosed, WriteBlocked, WriteFails, WriteKills, HandleFreed, LockTasks, NextTask, RunTaskOfFreed, EndDrain, ScanKeep,
       ScanReap, EndScan, WorkerStep, TakeJob, FindDisconnected, FindConnected, PushTask, WakeLoop,
       SetShutDown, WakeForShutDown, Environment, TimerExpire, PeerSend, PeerClose, PeerReset, PeerDrain, vars
  <2>2. ASSUME NEW c \in Conns, WriteDone(c) PROVE FALSE
    <3>1. ep.reg[c] # {}
      BY <2>2, HandledIsRegistered DEF WriteDone
    <3> QED
      BY <1>2, <2>2, <3>1 DEF WriteDone, Update
  <2>3. ASSUME NEW c \in Conns, Establish(c) PROVE FALSE
    BY <1>2, <2>3 DEF Establish, Update
  <2>4. PICK c \in Conns : hand[2] = c /\ RunTask
    BY <2>1, <2>2, <2>3, TaskInHand DEF RunTask, LoopAt
  <2>5. Alive(c) /\ ep.reg[c] = {} /\ UNCHANGED <<hand, disconn, fin>>
    BY <1>2, <2>4 DEF RunTask, Update, peers
  <2>6. disconn[c] /\ fin[c]
    BY <2>5 DEF LoopInv, Kernel, KernelOf
  <2> QED
    BY <2>4, <2>5, <2>6
<1> QED
  BY <1>1, <1>2

\* The program exits in epoll_ctl() only for a connection whose peer closed.
THEOREM ExitsForClosedOnly == Spec => []ExitsOnlyAfterClose
<1>1. Init => ExitsOnlyAfterClose
  BY DEF Init, ExitsOnlyAfterClose
<1> QED
  BY <1>1, ExitStep, LoopInvAlways, PTL DEF Spec

-----------------------------------------------------------------------------
(* The queue of posted tasks implements the executor *)

LEMMA RefinesInit == Init => Abstract!Init
<1> SUFFICES ASSUME Init PROVE Abstract!Init
  OBVIOUS
<1>1. posted = 0 /\ Begun = 0 /\ hand[1] = 0
  <2>1. posted = 0 /\ Len(tasks) = 0 /\ hand = <<0, 0>>
    BY DEF Init, NoTask
  <2> QED
    BY <2>1 DEF Begun
<1>2. Ended = FALSE
  BY DEF Init, Ended
<1> QED
  BY <1>1, <1>2 DEF Abstract!Init

\* Once the loop has ended it does not begin again.
LEMMA EndedForEver == [Next]_vars /\ Ended => Ended'
<1> SUFFICES ASSUME [Next]_vars, Ended PROVE Ended'
  OBVIOUS
<1>1. CASE LoopStep
  <2>1. Running /\ lpc \notin {"exited", "hung"}
    BY <1>1 DEF LoopStep, ReadShutDown, EpollWait, HandleEvent, ReadEventFd, HandleTimer, HandleNothing, OnMsg,
       OnMsgClosed, WriteBlocked, WriteFails, WriteKills, WriteDone, HandleFreed, LockTasks, NextTask, RunTask, RunTaskOfFreed,
       EndDrain, ScanKeep, ScanReap, EndScan, Handling, LoopAt
  <2> QED
    BY <2>1 DEF Ended, Running
<1>2. CASE UNCHANGED lpc /\ (fault # "none" => UNCHANGED fault)
  BY <1>2 DEF Ended
<1>3. ASSUME NEW c \in Conns, Establish(c) PROVE UNCHANGED lpc /\ (fault # "none" => UNCHANGED fault)
  BY <1>3 DEF Establish, Running, loop
<1> QED
  BY <1>1, <1>2, <1>3 DEF Next, WorkerStep, TakeJob, FindDisconnected, FindConnected, PushTask, WakeLoop,
     SetShutDown, WakeForShutDown, Environment, TimerExpire, PeerSend, PeerClose, PeerReset, PeerDrain, vars, loop

LEMMA RefinesStep == LoopInv /\ [Next]_vars => [Abstract!Next]_Abstract!vars
<1> SUFFICES ASSUME LoopInv, [Next]_vars PROVE [Abstract!Next]_Abstract!vars
  OBVIOUS
<1>0. /\ tasks \in Seq(Nat \X Conns) /\ Len(tasks) \in Nat /\ posted \in Nat
      /\ Ended \in BOOLEAN /\ Ended' \in BOOLEAN
  BY DEF LoopInv, TypeOK, Ended
\* A step that pushes, takes and ends no task at most closes the queue.
<1>1. ASSUME UNCHANGED <<posted, tasks, hand>> PROVE [Abstract!Next]_Abstract!vars
  <2>1. UNCHANGED <<posted, Begun, hand>>
    BY <1>1 DEF Begun
  <2>2. CASE Ended' = Ended
    BY <2>1, <2>2 DEF Abstract!vars
  <2>3. CASE ~Ended /\ Ended'
    <3>1. Abstract!Close
      BY <1>0, <2>1, <2>3 DEF Abstract!Close
    <3> QED
      BY <3>1 DEF Abstract!Next
  <2> QED
    BY <1>0, <2>2, <2>3, EndedForEver
<1>2. ASSUME NEW w \in Workers, PushTask(w) PROVE Abstract!Accept
  <2>1. /\ tasks' = Append(tasks, <<posted + 1, wconn[w]>>) /\ posted' = posted + 1
        /\ UNCHANGED <<hand, lpc, fault>>
    BY <1>2 DEF PushTask, loop
  <2>2. Begun' = Begun
    BY <1>0, <2>1 DEF Begun
  <2>3. Ended' = Ended
    BY <2>1 DEF Ended
  <2> QED
    BY <2>1, <2>2, <2>3 DEF Abstract!Accept
<1>3. CASE NextTask
  <2>1. /\ Running /\ lpc = "drain" /\ tasks # <<>> /\ hand' = Head(tasks) /\ tasks' = Tail(tasks)
        /\ UNCHANGED posted
    BY <1>3 DEF NextTask, LoopAt
  <2>2. ~Ended /\ hand[1] = 0
    BY <2>1 DEF Ended, Running, LoopInv, Hands, NoTask
  <2>3. Len(tasks') = Len(tasks) - 1 /\ Len(tasks) > 0 /\ 1 \in 1..Len(tasks) /\ Head(tasks) = tasks[1]
    BY <1>0, <2>1
  <2>4. hand'[1] = Begun + 1
    BY <1>0, <2>1, <2>3 DEF Begun, LoopInv, Hands
  <2>5. Begun < posted /\ Begun' = Begun + 1
    BY <1>0, <2>1, <2>3 DEF Begun
  <2>6. Abstract!Begin(Loop)
    BY <1>0, <2>1, <2>2, <2>4, <2>5 DEF Abstract!Begin
  <2> QED
    BY <2>6 DEF Abstract!Next
<1>4. CASE RunTask /\ fault' = "none"
  <2>1. Running /\ lpc = "run" /\ lpc' = "drain" /\ hand' = NoTask /\ UNCHANGED <<posted, tasks>>
    BY <1>4 DEF RunTask, LoopAt
  <2>2. hand[1] # 0 /\ hand'[1] = 0
    BY <2>1 DEF LoopInv, Hands, NoTask
  <2>3. Begun' = Begun /\ Ended' = Ended
    BY <1>4, <2>1 DEF Begun, Ended, Running
  <2>4. Abstract!Finish(Loop)
    BY <2>1, <2>2, <2>3 DEF Abstract!Finish
  <2> QED
    BY <2>4 DEF Abstract!Next
<1>5. CASE RunTask /\ fault' # "none"
  BY <1>1, <1>5 DEF RunTask
<1>6. CASE LoopStep /\ ~NextTask /\ ~RunTask
  <2>1. UNCHANGED <<posted, tasks, hand>>
    BY <1>6 DEF LoopStep, ReadShutDown, EpollWait, HandleEvent, ReadEventFd, HandleTimer, HandleNothing, OnMsg,
       OnMsgClosed, WriteBlocked, WriteFails, WriteKills, WriteDone, HandleFreed, LockTasks, RunTaskOfFreed, EndDrain, ScanKeep,
       ScanReap, EndScan, loop
  <2> QED
    BY <1>1, <2>1
<1>7. CASE (\E w \in Workers : TakeJob(w) \/ FindDisconnected(w) \/ FindConnected(w) \/ WakeLoop(w))
             \/ SetShutDown \/ WakeForShutDown \/ Environment \/ UNCHANGED vars
  <2>1. UNCHANGED <<posted, tasks, hand>>
    BY <1>7 DEF TakeJob, FindDisconnected, FindConnected, WakeLoop, SetShutDown, WakeForShutDown, Environment,
       TimerExpire, Establish, PeerSend, PeerClose, PeerReset, PeerDrain, vars, loop
  <2> QED
    BY <1>1, <2>1
<1> QED
  BY <1>2, <1>3, <1>4, <1>5, <1>6, <1>7 DEF Next, LoopStep, WorkerStep, Abstract!Next

\* Every behaviour of the loop is one of the abstract executor with the loop
\* as its slot, for any number of workers: the tasks run one at a time, once,
\* in the order in which they were posted, and none begins after the loop ended.
THEOREM LoopIsAnExecutor == Spec => Abstract!Init /\ [][Abstract!Next]_Abstract!vars
BY RefinesInit, RefinesStep, LoopInvAlways, PTL DEF Spec

=============================================================================
