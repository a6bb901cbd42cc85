--------------------------- MODULE MCClientSync ---------------------------
(* ClientSync on small sets of model values. *)
EXTENDS ClientSync
=============================================================================
