---------------------------- MODULE Registration -----------------------------
(***************************************************************************)
(* How a connection enters the server and leaves it (net/acceptor.cc,      *)
(* tcpsvr.cc and the parts of connect.cc and eventloop.cc they call): the  *)
(* main loop's thread accepts it, builds it and enters it in two maps      *)
(* while the thread of its sub loop already handles its events, closes it  *)
(* or reaps it.  A descriptor is closed with the last shared_ptr and its   *)
(* number is used again.                                                   *)
(*                                                                         *)
(* Posted tasks and the batches of epoll_wait() are the matter of          *)
(* EventLoop; here a loop is given one event at a time, and of a reply no  *)
(* more is seen than that it may cost the loop its timer.                  *)
(***************************************************************************)
EXTENDS Naturals, FiniteSets

CONSTANTS
    Conns,     \* the connections peers open
    Fds,       \* the descriptors the process may have for them
    ThdCount,  \* _thd_count, the number of sub loops
    MaxMsgs,   \* bound on the messages all peers send
    MaxAge,    \* a connection times out when the timer of its loop fired
               \* more often than this since its last message
    None,      \* no connection, and a mutex nobody holds
    Main       \* the thread of the main loop

ASSUME FdsAssumption == Fds \subseteq Nat \ {0} /\ IsFiniteSet(Fds)
ASSUME ThdCountAssumption == ThdCount \in Nat \ {0}
ASSUME NamesAssumption == None \notin Conns /\ {Main, None} \cap Nat = {} /\ Main # None
ASSUME BoundsAssumption == MaxMsgs \in Nat /\ MaxAge \in Nat

VARIABLES
    peer,      \* each peer: "away", "queued" (to be accepted), "accepted"
    fd,        \* the descriptor of each connection that was accepted, 0 before
    unread,    \* messages in the receive buffer
    fin,       \* the peer has closed
    sent,      \* number of messages the peers have sent
    reg,       \* connections added to the epoll of their loop and not removed
    edge,      \* connections with an event to report
    cbs,       \* the callbacks of each connection that are set
    disconn,   \* connect::_disconn
    age,       \* how often the timer fired since _last_at_time, up to MaxAge + 1
    held,      \* connections a job of the work pool has a shared_ptr to
    lmap,      \* eventloop::_conns: the one of loop l has the f with f % ThdCount = l
    svr,       \* tcpsvr::_conns
    mutex,     \* who holds tcpsvr::_mutex
    mpc,       \* where the main thread is
    new,       \* the connection it registers (share_conn, or its socket)
    lpc,       \* where the thread of each sub loop is
    on,        \* the connection whose event it handles
    it,        \* the iterator of its handle_timer(), 0 is end()
    timer,     \* its timerfd: "armed", "expired", "lost" (its edge was taken for nothing)
    fault,     \* "none"; "exit", "race", "dangling": how the program went wrong
    replied,   \* history: loops a reply was posted to
    overtaken  \* history: connections reaped while they were registered

peers   == <<peer, unread, fin, sent>>
connect == <<reg, edge, cbs, disconn, age>>
maps    == <<lmap, svr, mutex>>
history == <<replied, overtaken>>
main    == <<mpc, new, fd>>
loops   == <<lpc, on, it, timer>>
vars == <<peers, connect, held, maps, main, loops, fault, history>>

Loops   == 0..(ThdCount - 1)
Home(c) == fd[c] % ThdCount
End     == 0

MainPcs ==
    { "idle",       \* in the main loop
      "register",   \* connect.cc:22, poller.cc:31
      "in_ep",      \* poller.cc:35
      "close_cb", "msg_cb",   \* tcpsvr.cc:39 and 41
      "lock",       \* line 44
      "loop_conns", \* line 45, holding the mutex
      "conns",      \* line 47
      "leave" }     \* line 51

LoopPcs ==
    { "wait",
      "read",       \* connect.cc:65
      "msg",        \* line 84, about to test _msg_cb
      "close",      \* line 40, about to test _close_cb
      "close_lock", "close_erase",   \* tcpsvr.cc:58 and 59
      "scan",       \* eventloop.cc:103
      "reap_lock", "reap_erase",     \* line 105: tcpsvr.cc:109 and 110
      "reap",       \* eventloop.cc:108
      "hung" }      \* line 103, incrementing end() of an empty map for ever

Walking == {"scan", "reap_lock", "reap_erase", "reap"}

\* The connection is kept by the main thread, a map, a job, or the parameter
\* of the close callback.
Referenced(c) ==
    \/ new = c \/ lmap[fd[c]] = c \/ svr[fd[c]] = c \/ c \in held
    \/ \E l \in Loops : on[l] = c /\ lpc[l] \in {"close_lock", "close_erase"}

\* Mutant of Open: the descriptor is closed as soon as the peer is gone.
OpenUntilDisconn(c) == fd[c] # 0 /\ Referenced(c) /\ c \notin disconn

\* The descriptor is open: ~socket() closes it with the last reference.
Open(c) == fd[c] # 0 /\ Referenced(c)

FreeFds == Fds \ {fd[c] : c \in {d \in Conns : Open(d)}}

Init ==
    /\ peer = [c \in Conns |-> "away"]
    /\ fd = [c \in Conns |-> 0]
    /\ unread = [c \in Conns |-> 0] /\ fin = {} /\ sent = 0
    /\ reg = {} /\ edge = {} /\ disconn = {}
    /\ cbs = [c \in Conns |-> {}]
    /\ age = [c \in Conns |-> 0]
    /\ held = {}
    /\ lmap = [f \in Fds |-> None] /\ svr = [f \in Fds |-> None]
    /\ mutex = None
    /\ mpc = "idle" /\ new = None
    /\ lpc = [l \in Loops |-> "wait"] /\ on = [l \in Loops |-> None]
    /\ it = [l \in Loops |-> End]
    /\ timer = [l \in Loops |-> "armed"]
    /\ fault = "none" /\ replied = {} /\ overtaken = {}

\* What the program does after a fault is not modelled.
Running == fault = "none"

----------------------------------------------------------------------------
(* The peers, the clock and the workers *)

Connect(c) ==
    /\ Running /\ peer[c] = "away"
    /\ peer' = [peer EXCEPT ![c] = "queued"]
    /\ UNCHANGED <<unread, fin, sent, connect, held, maps, main, loops, fault, history>>

Reachable(c) == Running /\ c \notin fin /\ (peer[c] = "queued" \/ Open(c))

Signal(c) == edge' = IF c \in reg THEN edge \cup {c} ELSE edge

PeerSend(c) ==
    /\ Reachable(c) /\ sent < MaxMsgs
    /\ unread' = [unread EXCEPT ![c] = @ + 1]
    /\ sent' = sent + 1
    /\ Signal(c)
    /\ UNCHANGED <<peer, fin, reg, cbs, disconn, age, held, maps, main, loops, fault, history>>

PeerClose(c) ==
    /\ Reachable(c)
    /\ fin' = fin \cup {c}
    /\ Signal(c)
    /\ UNCHANGED <<peer, unread, sent, reg, cbs, disconn, age, held, maps, main, loops,
                   fault, history>>

\* The one-shot timer of a loop.
TimerExpire(l) ==
    /\ Running /\ timer[l] = "armed"
    /\ timer' = [timer EXCEPT ![l] = "expired"]
    /\ age' = [c \in Conns |-> IF fd[c] # 0 /\ Home(c) = l /\ age[c] <= MaxAge
                               THEN age[c] + 1 ELSE age[c]]
    /\ UNCHANGED <<peers, reg, edge, cbs, disconn, held, maps, main, lpc, on, it, fault,
                   history>>

\* A job of a connection posts its reply to the connection's loop, unless it finds it
\* disconnected (connect.cc:100 to 112).
Reply(c) ==
    /\ Running /\ c \in held \ disconn
    /\ replied' = replied \cup {Home(c)}
    /\ UNCHANGED <<peers, connect, held, maps, main, loops, fault, overtaken>>

\* The jobs of a connection end (echosvr::on_msg).
EndJobs(c) ==
    /\ Running /\ c \in held
    /\ held' = held \ {c}
    /\ UNCHANGED <<peers, connect, maps, main, loops, fault, history>>

----------------------------------------------------------------------------
(* acceptor::new_conn() and tcpsvr::_on_new_conn(), on the main thread *)

MainAt(pc) == Running /\ mpc = pc

\* acceptor.cc:31 to 38 and connect.cc:14 to 21: accept4() takes the lowest
\* number that is free.
Accept(c) ==
    /\ MainAt("idle") /\ peer[c] = "queued"
    /\ \E f \in FreeFds :
          /\ \A g \in FreeFds : f <= g
          /\ fd' = [fd EXCEPT ![c] = f]
    /\ peer' = [peer EXCEPT ![c] = "accepted"]
    /\ new' = c
    /\ mpc' = "register"
    /\ UNCHANGED <<unread, fin, sent, connect, held, maps, loops, fault, history>>

\* accept4() fails, for want of descriptors or memory.  The result passes the
\* test of socket.cc:15, being unsigned, and EPOLL_CTL_ADD of it ends the
\* process (poller.cc:33).
AcceptFails ==
    /\ MainAt("idle") /\ \E c \in Conns : peer[c] = "queued"
    /\ fault' = "exit"
    /\ UNCHANGED <<peers, connect, held, maps, main, loops, history>>

MainTo(pc) == mpc' = pc /\ UNCHANGED <<new, fd>>

\* connect.cc:21 to 23, poller.cc:31: from here on the loop's thread gets its
\* events.
Register ==
    /\ MainAt("register")
    /\ reg' = reg \cup {new}
    /\ edge' = IF unread[new] > 0 \/ new \in fin THEN edge \cup {new} ELSE edge
    /\ MainTo("in_ep")
    /\ UNCHANGED <<peers, cbs, disconn, age, held, maps, loops, fault, history>>

\* poller.cc:35: _in_ep becomes true.
SetInEp ==
    /\ MainAt("in_ep")
    /\ MainTo("close_cb")
    /\ UNCHANGED <<peers, connect, held, maps, loops, fault, history>>

InEp(c) == c \in reg /\ ~(new = c /\ mpc = "in_ep")

SetCallback(cb) ==
    /\ cbs' = [cbs EXCEPT ![new] = @ \cup {cb}]
    /\ UNCHANGED <<peers, reg, edge, disconn, age, held, maps, loops, fault, history>>

\* tcpsvr.cc:39 and 40.
SetCloseCb == MainAt("close_cb") /\ SetCallback("close") /\ MainTo("msg_cb")

\* Lines 41 and 42.
SetMsgCb == MainAt("msg_cb") /\ SetCallback("msg") /\ MainTo("lock")

\* Line 44.
Lock ==
    /\ MainAt("lock") /\ mutex = None
    /\ mutex' = Main
    /\ MainTo("loop_conns")
    /\ UNCHANGED <<peers, connect, held, lmap, svr, loops, fault, history>>

\* Lines 45 and 46, eventloop.cc:114 to 116.
InsertInLoop ==
    /\ MainAt("loop_conns")
    /\ lmap' = [lmap EXCEPT ![fd[new]] = new]
    /\ mutex' = None
    /\ MainTo("conns")
    /\ UNCHANGED <<peers, connect, held, svr, loops, fault, history>>

\* Line 47, without the mutex.
InsertInServer ==
    /\ MainAt("conns")
    /\ svr' = [svr EXCEPT ![fd[new]] = new]
    /\ MainTo("leave")
    /\ UNCHANGED <<peers, connect, held, lmap, mutex, loops, fault, history>>

\* Line 51: share_conn goes out of scope.
Leave ==
    /\ MainAt("leave")
    /\ new' = None
    /\ mpc' = "idle"
    /\ UNCHANGED <<peers, connect, held, maps, fd, loops, fault, history>>

\* What the main thread and a loop's thread do at the same time without a
\* common mutex: set and test a callback; insert in a map the other one walks
\* or erases from.  The other outcome is that one sees the other's half-done
\* work.
Torn(l) ==
    /\ Running
    /\ \/ mpc = "close_cb" /\ lpc[l] = "close" /\ on[l] = new
       \/ mpc = "msg_cb" /\ lpc[l] = "msg" /\ on[l] = new
       \/ mpc = "loop_conns" /\ Home(new) = l /\ lpc[l] \in Walking
       \/ mpc = "conns" /\ lpc[l] \in {"close_erase", "reap_erase"}
    /\ fault' = "race"
    /\ UNCHANGED <<peers, connect, held, maps, main, loops, history>>

----------------------------------------------------------------------------
(* The thread of a sub loop: connect::on_msg() and on_close() *)

LoopAt(l, pc) == Running /\ lpc[l] = pc

\* The handler of a connection stands at pc, and the connection lives.
ConnAt(l, pc) == LoopAt(l, pc) /\ Open(on[l])

Goto(l, pc) == lpc' = [lpc EXCEPT ![l] = pc]

\* The thread moves within a handler of a connection.
MoveTo(l, pc) == Goto(l, pc) /\ UNCHANGED <<on, it, timer>>

\* The handler returns.
Return(l) ==
    /\ Goto(l, "wait")
    /\ on' = [on EXCEPT ![l] = None]
    /\ UNCHANGED <<it, timer>>

TakeEvent(l, c) ==
    /\ LoopAt(l, "wait") /\ c \in edge /\ Open(c) /\ Home(c) = l
    /\ edge' = edge \ {c}
    /\ on' = [on EXCEPT ![l] = c]
    /\ Goto(l, "read")
    /\ UNCHANGED <<peers, reg, cbs, disconn, age, held, maps, main, it, timer, fault, history>>

\* Mutant of ReadInput: a connection that is not set up yet is not read.
ReadWhenSetUp(l) ==
    /\ ConnAt(l, "read") /\ on[l] \notin fin
    /\ IF "msg" \in cbs[on[l]]
         THEN unread' = [unread EXCEPT ![on[l]] = 0] /\ MoveTo(l, "msg")
         ELSE UNCHANGED unread /\ Return(l)
    /\ UNCHANGED <<peer, fin, sent, connect, held, maps, main, fault, history>>

\* connect.cc:65 to 97: read() is repeated until EAGAIN.
ReadInput(l) ==
    /\ ConnAt(l, "read") /\ on[l] \notin fin
    /\ unread' = [unread EXCEPT ![on[l]] = 0]
    /\ IF unread[on[l]] > 0 THEN MoveTo(l, "msg") ELSE Return(l)
    /\ UNCHANGED <<peer, fin, sent, connect, held, maps, main, fault, history>>

\* connect.cc:89 to 93 and 36 to 39: read() returns 0, and what was read
\* before it is not picked.
ReadEnd(l) ==
    /\ ConnAt(l, "read") /\ on[l] \in fin /\ InEp(on[l])
    /\ unread' = [unread EXCEPT ![on[l]] = 0]
    /\ disconn' = disconn \cup {on[l]}
    /\ reg' = reg \ {on[l]}
    /\ edge' = edge \ {on[l]}
    /\ MoveTo(l, "close")
    /\ UNCHANGED <<peer, fin, sent, cbs, age, held, maps, main, fault, history>>

\* The same before the main thread has set _in_ep: disable_all() takes the
\* channel for a new one, EPOLL_CTL_ADD finds it there and the process exits.
ReadEndTooEarly(l) ==
    /\ ConnAt(l, "read") /\ on[l] \in fin /\ ~InEp(on[l])
    /\ fault' = "exit"
    /\ UNCHANGED <<peers, connect, held, maps, main, loops, history>>

\* Lines 76 to 87: the messages become jobs if _msg_cb is set and are dropped
\* if it is not yet.
HandleMsg(l) ==
    /\ ConnAt(l, "msg")
    /\ age' = [age EXCEPT ![on[l]] = 0]
    /\ held' = IF "msg" \in cbs[on[l]] THEN held \cup {on[l]} ELSE held
    /\ Return(l)
    /\ UNCHANGED <<peers, reg, edge, cbs, disconn, maps, main, fault, history>>

\* Lines 40 to 42: without a callback the close is forgotten.
TestCloseCb(l) ==
    /\ ConnAt(l, "close")
    /\ IF "close" \in cbs[on[l]] THEN MoveTo(l, "close_lock") ELSE Return(l)
    /\ UNCHANGED <<peers, connect, held, maps, main, fault, history>>

\* Mutant of LockServer: no lock_guard.
WriteUnlocked(l, pc) ==
    /\ mutex' = l
    /\ MoveTo(l, pc)
    /\ UNCHANGED <<peers, connect, held, lmap, svr, main, fault, history>>

\* The thread waits for tcpsvr::_mutex.
LockServer(l, pc) ==
    /\ mutex = None
    /\ mutex' = l
    /\ MoveTo(l, pc)
    /\ UNCHANGED <<peers, connect, held, lmap, svr, main, fault, history>>

\* tcpsvr.cc:58.
CloseLock(l) == LoopAt(l, "close_lock") /\ LockServer(l, "close_erase")

EraseFromServer(f) ==
    /\ svr' = [svr EXCEPT ![f] = None]
    /\ mutex' = None
    /\ UNCHANGED <<peers, connect, held, lmap, main, fault, replied>>

\* tcpsvr.cc:59 to 61.  The loop's map keeps the connection.
CloseErase(l) ==
    /\ LoopAt(l, "close_erase")
    /\ EraseFromServer(fd[on[l]])
    /\ Return(l)
    /\ UNCHANGED overtaken

\* The connection was freed under its handler.
UseFreed(l) ==
    /\ Running /\ lpc[l] \in {"read", "msg", "close"} /\ ~Open(on[l])
    /\ fault' = "dangling"
    /\ UNCHANGED <<peers, connect, held, maps, main, loops, history>>

----------------------------------------------------------------------------
(* eventloop::handle_timer() and tcpsvr::remove_conn() *)

Keys(l) == {f \in Fds : f % ThdCount = l /\ lmap[f] # None}

\* The iterator after f.
After(l, f) ==
    LET later == {g \in Keys(l) : g > f}
    IN  IF later = {} THEN End ELSE CHOOSE g \in later : \A h \in later : g <= h

\* A step of the walk.
WalkTo(l, pc, f) ==
    /\ Goto(l, pc)
    /\ it' = [it EXCEPT ![l] = f]
    /\ UNCHANGED on

\* Mutant of HandleTimer: the one-shot timer is not armed again.
HandleTimerOnce(l) ==
    /\ LoopAt(l, "wait") /\ timer[l] = "expired"
    /\ timer' = [timer EXCEPT ![l] = "spent"]
    /\ WalkTo(l, "scan", After(l, 0))
    /\ UNCHANGED <<peers, connect, held, maps, main, fault, history>>

\* eventloop.cc:90 to 103.
HandleTimer(l) ==
    /\ LoopAt(l, "wait") /\ timer[l] = "expired"
    /\ timer' = [timer EXCEPT ![l] = "armed"]
    /\ WalkTo(l, "scan", After(l, 0))
    /\ UNCHANGED <<peers, connect, held, maps, main, fault, history>>

\* poller.cc:60: the batch begins with a connection that has only its reply to write,
\* and handle_event() takes the timer's one edge for a write (channel.cc:75 to 79).
\* Line 97 is not reached, and nothing else arms the timer.
LoseTimer(l) ==
    /\ LoopAt(l, "wait") /\ timer[l] = "expired" /\ l \in replied
    /\ timer' = [timer EXCEPT ![l] = "lost"]
    /\ UNCHANGED <<peers, connect, held, maps, main, lpc, on, it, fault, history>>

\* Line 103, or line 104 is false.
ScanKeep(l) ==
    /\ LoopAt(l, "scan")
    /\ \/ it[l] = End /\ WalkTo(l, "wait", End)
       \/ it[l] # End /\ age[lmap[it[l]]] <= MaxAge /\ WalkTo(l, "scan", After(l, it[l]))
    /\ UNCHANGED <<peers, connect, held, maps, main, timer, fault, history>>

\* Mutant of ScanTimeOut: the server is not told.
ReapUntold(l) ==
    /\ LoopAt(l, "scan") /\ it[l] # End /\ age[lmap[it[l]]] > MaxAge
    /\ MoveTo(l, "reap")
    /\ UNCHANGED <<peers, connect, held, maps, main, fault, history>>

\* Lines 104 and 105: remove_conn() of the server is called first.
ScanTimeOut(l) ==
    /\ LoopAt(l, "scan") /\ it[l] # End /\ age[lmap[it[l]]] > MaxAge
    /\ MoveTo(l, "reap_lock")
    /\ UNCHANGED <<peers, connect, held, maps, main, fault, history>>

\* tcpsvr.cc:109.
ReapLock(l) == LoopAt(l, "reap_lock") /\ LockServer(l, "reap_erase")

\* tcpsvr.cc:110 and 111.
ReapErase(l) ==
    /\ LoopAt(l, "reap_erase")
    /\ EraseFromServer(it[l])
    /\ MoveTo(l, "reap")
    /\ overtaken' = IF new = lmap[it[l]] THEN overtaken \cup {new} ELSE overtaken

\* eventloop.cc:106 to 109 and then the ++it of line 103, on the iterator that
\* erase() returned; incrementing end() lands on an element that is left, and
\* in an empty map never returns.
Reap(l) ==
    /\ LoopAt(l, "reap")
    /\ lmap' = [lmap EXCEPT ![it[l]] = None]
    /\ LET erased == After(l, it[l])
           left   == Keys(l) \ {it[l]}
       IN  \/ erased # End /\ WalkTo(l, "scan", After(l, erased))
           \/ erased = End /\ \E f \in left : WalkTo(l, "scan", f)
           \/ erased = End /\ left = {} /\ WalkTo(l, "hung", End)
    /\ UNCHANGED <<peers, connect, held, svr, mutex, main, timer, fault, history>>

----------------------------------------------------------------------------
MainStep ==
    \/ AcceptFails \/ (\E c \in Conns : Accept(c))
    \/ Register \/ SetInEp \/ SetCloseCb \/ SetMsgCb
    \/ Lock \/ InsertInLoop \/ InsertInServer \/ Leave

HandleEvent(l) ==
    \/ \E c \in Conns : TakeEvent(l, c)
    \/ ReadInput(l) \/ ReadEnd(l) \/ ReadEndTooEarly(l) \/ HandleMsg(l) \/ TestCloseCb(l)
    \/ CloseLock(l) \/ CloseErase(l) \/ UseFreed(l)

Walk(l) ==
    \/ HandleTimer(l) \/ LoseTimer(l)
    \/ ScanKeep(l) \/ ScanTimeOut(l) \/ ReapLock(l) \/ ReapErase(l) \/ Reap(l)

Environment ==
    \/ \E c \in Conns : Connect(c) \/ PeerSend(c) \/ PeerClose(c) \/ Reply(c) \/ EndJobs(c)
    \/ \E l \in Loops : TimerExpire(l)

Next ==
    \/ MainStep
    \/ \E l \in Loops : HandleEvent(l) \/ Walk(l) \/ Torn(l)
    \/ Environment

\* The threads run, time passes and jobs end; peers need do nothing, and no reply
\* need be sent.  A loop that has events and an expired timer serves both, for epoll
\* reports all that is ready: the timer is handled, or lost.
Fairness ==
    /\ WF_vars(MainStep)
    /\ \A l \in Loops : SF_vars(HandleEvent(l)) /\ SF_vars(Walk(l)) /\ WF_vars(TimerExpire(l))
    /\ \A c \in Conns : WF_vars(EndJobs(c))

Spec == Init /\ [][Next]_vars /\ Fairness

----------------------------------------------------------------------------
(* Properties *)

Types ==
    /\ peer \in [Conns -> {"away", "queued", "accepted"}] /\ fd \in [Conns -> Fds \cup {0}]
    /\ unread \in [Conns -> Nat] /\ sent \in 0..MaxMsgs /\ age \in [Conns -> 0..(MaxAge + 1)]
    /\ fin \subseteq Conns /\ reg \subseteq Conns /\ edge \subseteq Conns
    /\ disconn \subseteq Conns /\ held \subseteq Conns /\ overtaken \subseteq Conns
    /\ cbs \in [Conns -> SUBSET {"close", "msg"}]
    /\ lmap \in [Fds -> Conns \cup {None}] /\ svr \in [Fds -> Conns \cup {None}]
    /\ mpc \in MainPcs /\ new \in Conns \cup {None}
    /\ lpc \in [Loops -> LoopPcs] /\ on \in [Loops -> Conns \cup {None}]
    /\ it \in [Loops -> Fds \cup {End}] /\ timer \in [Loops -> {"armed", "expired", "lost"}]
    /\ replied \subseteq Loops
    /\ fault \in {"none", "exit", "race", "dangling"}
    /\ mutex \in {None, Main} \cup Loops

\* Every variable has its type; the mutex is held exactly by the thread that
\* is in a section it guards.
TypeOK ==
    /\ Types
    /\ mutex = Main <=> mpc = "loop_conns"
    /\ \A l \in Loops : mutex = l <=> lpc[l] \in {"close_erase", "reap_erase"}

\* The two maps agree, although each is written by several threads and not at
\* once: what the server has (line 47) its loop has under the same number,
\* unless the timer reaped the connection while it was being registered.
\* Only connections of the loop's map are ever timed out.
MapsAgree == \A f \in Fds : svr[f] \in {None, lmap[f]} \cup overtaken

\* No connection leaves a map for nothing: the server forgets it only when it
\* has disconnected or timed out, its loop only when it has timed out, although
\* all of them store and erase whatever has the number (tcpsvr.cc:47, 59 and
\* 110, eventloop.cc:108 and 115) and numbers are used again.
ErasedForCause ==
    [][\A f \in Fds :
          /\ svr[f] # None /\ svr'[f] # svr[f] => svr[f] \in disconn \/ age[svr[f]] > MaxAge
          /\ lmap[f] # None /\ lmap'[f] # lmap[f] => age[lmap[f]] > MaxAge]_vars

\* Input that comes at any moment, before the accept or in the middle of the
\* registration, is neither lost with its edge nor left to no handler: it waits
\* for the registration, has an event to report or is being read.
InputHasEvent ==
    \A c \in Conns :
        unread[c] > 0 /\ Open(c) =>
            \/ new = c /\ mpc = "register"
            \/ c \in edge
            \/ \E l \in Loops : on[l] = c /\ lpc[l] = "read"

\* A connection whose peer has closed is let go and its descriptor closed, at
\* whatever moment of its registration the close came, even before a callback
\* could take note of it: then its timer does it.  Only a walk that does not end
\* (eventloop.cc:103) or a timer that was lost, which takes a reply, leaves it open.
ClosedIsReleased ==
    \A c \in Conns :
        c \in disconn ~> \/ ~Open(c) \/ c \in overtaken \/ ~Running
                         \/ lpc[Home(c)] = "hung"
                         \/ timer[Home(c)] = "lost"

==============================================================================
