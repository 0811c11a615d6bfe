----------------------------- MODULE MCShutdown -----------------------------
(* Shutdown with the threads of its pools as model values. *)
EXTENDS Shutdown

CONSTANTS i1, w1

MCIoThds   == <<i1>>
MCWorkThds == <<w1>>
=============================================================================
