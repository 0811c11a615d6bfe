------------------------------- MODULE MCEcho -------------------------------
(***************************************************************************)
(* A short request, and one whose frame fills the read buffer but one cell *)
(* and whose reply is longer than the copy and than the send buffer.       *)
(***************************************************************************)
EXTENDS Echo

MCBodyLen  == [i \in 1..N |-> IF i = 2 THEN 2 ELSE 1]
MCReplyLen == [i \in 1..N |-> IF i = 2 THEN 3 ELSE 1]
=============================================================================
