---------------------------- MODULE MCEventLoop -----------------------------
(***************************************************************************)
(* Bounds for runs of EventLoop that look at one part of it closely.       *)
(***************************************************************************)
EXTENDS EventLoop

\* The clock stands still: what is left is input, tasks and output.
TrafficOnly == timer = "armed" /\ \A c \in Conns : age[c] = 0

\* Behaviours in which nobody calls shut_down(), and the last message is sent
\* while the clock stands still.
NotStopped == shut = "no" /\ (sent = MaxMsgs => TrafficOnly)
=============================================================================
