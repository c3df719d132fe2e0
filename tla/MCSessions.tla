----------------------------- MODULE MCSessions -----------------------------
(* Sessions on small sets, with what TLC needs and the specification does not. *)
EXTENDS SessionsRefinement, TLC

\* All connections are one user's, so that they share a list of senders too.
OneUser == [s \in Sid |-> "u1"]

Symmetry == Permutations(Sid) \cup Permutations(Media) \cup Permutations(Collab)
=============================================================================
