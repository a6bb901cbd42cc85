-------------------------- MODULE MCFirstRunSetup --------------------------
(* FirstRunSetup on small sets of model values. *)
EXTENDS FirstRunSetup, TLC

Symmetry == Permutations(PageToken) \cup Permutations(Request)
=============================================================================
