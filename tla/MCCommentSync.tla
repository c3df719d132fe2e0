--------------------------- MODULE MCCommentSync ---------------------------
(* CommentSync on small sets, with what TLC needs and the specification does not. *)
EXTENDS CommentSync, TLC

Symmetry == Permutations(Ses) \cup Permutations(Playable) \cup Permutations(Text)
=============================================================================
