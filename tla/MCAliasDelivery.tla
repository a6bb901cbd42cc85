-------------------------- MODULE MCAliasDelivery --------------------------
(* AliasDelivery on small sets of model values. *)
EXTENDS AliasDelivery, TLC

Symmetry == Permutations(Alias) \cup Permutations(Profile) \cup Permutations(Device)

\* deserved is a history variable that no action and, of the properties, only
\* ServedWasTargeted reads: the runs that do not check that one leave it out of
\* the fingerprint.
View == <<rows, joins, synced, req, touched>>
=============================================================================
