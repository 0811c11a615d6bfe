------------------------------ MODULE Executor ------------------------------
(***************************************************************************)
(* What a task queue of this server promises the code that hands it work.  *)
(* Three kinds of queue implement it: the queue of a threadpool            *)
(* (ThreadPool.tla), the queue of tasks posted to an event loop            *)
(* (EventLoop.tla) and the queue of an actor (Actors.tla).                 *)
(*                                                                         *)
(* Tasks are numbered in the order in which the queue accepted them.  Each *)
(* one is begun at most once and in that order, by an idle slot (a worker  *)
(* thread, or the loop itself); after the executor closes, nothing that is *)
(* still queued will ever run, although tasks may still be accepted.       *)
(* While it is open, a task that waits while some slot is idle is begun    *)
(* eventually.                                                             *)
(***************************************************************************)
EXTENDS Naturals

CONSTANT Slots

VARIABLES
    accepted,   \* number of tasks accepted so far
    begun,      \* number of tasks begun so far
    hand,       \* the task each slot is running, 0 when it runs none
    closed      \* nothing will begin any more

vars == <<accepted, begun, hand, closed>>

Init ==
    /\ accepted = 0
    /\ begun = 0
    /\ hand = [s \in Slots |-> 0]
    /\ closed = FALSE

Accept ==
    /\ accepted' = accepted + 1
    /\ UNCHANGED <<begun, hand, closed>>

\* The slot begins the oldest task.  The executor may close with this very
\* step: a worker that was already past its last look at the stop flag.
Begin(s) ==
    /\ ~closed
    /\ hand[s] = 0
    /\ begun < accepted
    /\ begun' = begun + 1
    /\ hand' = [hand EXCEPT ![s] = begun + 1]
    /\ closed' \in BOOLEAN
    /\ UNCHANGED accepted

Finish(s) ==
    /\ hand[s] # 0
    /\ hand' = [hand EXCEPT ![s] = 0]
    /\ UNCHANGED <<accepted, begun, closed>>

Close ==
    /\ ~closed
    /\ closed' = TRUE
    /\ UNCHANGED <<accepted, begun, hand>>

Next ==
    \/ Accept
    \/ Close
    \/ \E s \in Slots : Begin(s) \/ Finish(s)

\* Tasks are finished by the code they call, which owes the executor nothing.
Spec == Init /\ [][Next]_vars /\ WF_vars(\E s \in Slots : Begin(s))
=============================================================================
