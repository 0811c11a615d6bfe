------------------------------- MODULE Epoll --------------------------------
(***************************************************************************)
(* The epoll instance of a loop, as far as net/poller.cc uses it: the      *)
(* interest of every file descriptor and the kernel's ready list.  It is   *)
(* the Linux kernel, not code of this repository.                          *)
(*                                                                         *)
(* An ep is a record [reg, ready]: reg[ch] is the set of events asked for, *)
(* {} when ch is not registered; ready is the ready list, of which         *)
(* epoll(7) promises no order.  levels[ch] is the set of conditions that   *)
(* hold of the descriptor of ch now, level the set of the one channel an   *)
(* operation is about.                                                     *)
(***************************************************************************)
EXTENDS Naturals

Events == {"IN", "OUT", "ET"}

InReady(ep, ch) == ch \in ep.ready

\* A channel is on the ready list at most once.
MakeReady(ep, ch) == [ep EXCEPT !.ready = @ \cup {ch}]

\* EPOLL_CTL_ADD and EPOLL_CTL_MOD look at the descriptor once more: a
\* condition that holds already is reported again, edge-triggered or not.
Control(ep, ch, evs, level) ==
    LET registered == [ep EXCEPT !.reg[ch] = evs]
    IN  IF level \cap evs # {} THEN MakeReady(registered, ch) ELSE registered

\* EPOLL_CTL_DEL, and the close of the last descriptor.
Delete(ep, ch) ==
    [reg   |-> [ep.reg EXCEPT ![ch] = {}],
     ready |-> ep.ready \ {ch}]

\* The descriptor signals ev.
Signal(ep, ch, ev) == IF ev \in ep.reg[ch] THEN MakeReady(ep, ch) ELSE ep

\* epoll_wait() reports the channels of the ready list of which a condition
\* still holds, and keeps the level-triggered ones of them on the list.
Reported(ep, levels) ==
    {ch \in ep.ready : levels[ch] \cap ep.reg[ch] # {}}

AfterWait(ep, levels) ==
    [ep EXCEPT !.ready = {ch \in Reported(ep, levels) : "ET" \notin ep.reg[ch]}]
=============================================================================
