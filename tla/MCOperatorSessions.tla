------------------------- MODULE MCOperatorSessions -------------------------
(* OperatorSessions on small sets of model values. *)
EXTENDS OperatorSessions
=============================================================================
