------------------------------ MODULE MCIngest ------------------------------
(* Ingest with the files of its run; all have the same name, which is where they meet. *)
EXTENDS Ingest

SameName == [f \in File |-> "name"]

\* One file is another user's, and one of a user without a row in the database.
Users == [f \in File |-> CASE f = "theirs" -> "u2" [] f = "up" -> "u3" [] OTHER -> "u1"]

\* One file is a copy of another.
OneCopy == [f \in File |-> IF f = "copy" THEN "a" ELSE f]

\* A file, a copy of it and one that is no media file, submitted and deleted at any time; or files of
\* three users and of nobody, submitted only when nothing of their name is under way; or an upload
\* between requests without one, beside a file that looks empty.
CopiesOrUsers ==
    {[files |-> {"a", "copy", "other"}, deletions |-> Deletion, prompt |-> FALSE, empty |-> FALSE],
     [files |-> {"theirs", "a", "up", "nobody"}, deletions |-> {"d1"}, prompt |-> TRUE, empty |-> FALSE],
     [files |-> {"up", "tiny"}, deletions |-> {}, prompt |-> FALSE, empty |-> TRUE]}
=============================================================================
