----------------------------- MODULE MCFolders -----------------------------
(* The folders of a user and of an admin.  Media files are alike, and no     *)
(* liveness is checked, so they are permuted.                                *)
EXTENDS Folders, TLC

FileSymmetry == Permutations(Media)
=============================================================================
