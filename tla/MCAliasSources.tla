----------------------------- MODULE MCAliasSources -----------------------------
(* AliasSources on two documents of one alias each. *)
EXTENDS AliasSources

MCFold == [n \in Name \cup {""} |-> n]
MCRank == [n \in Name \cup {""} |-> IF n = "" THEN 0 ELSE 1]

Single(c) == [readable |-> TRUE, entries |->
  <<[name |-> "ll", command |-> c, sound |-> TRUE, known |-> TRUE, here |-> TRUE]>>]

MCHeld == [t \in {"file", "git", "server"} |-> {Single("c1"), Single("c2")}]
=============================================================================
