----------------------------- MODULE MCMigrate -----------------------------
(* Migrate with small schemas: a server of three versions, and an organizer of two. *)
EXTENDS MigrateRefinement

\* What an organizer's migration may ask of the server's schema.
Window == {[mod |-> "server", min |-> a, max |-> b] : a, b \in {NULL, 1, 2, 3}}
Narrow == {w \in Window : w.min # NULL /\ w.max # NULL => w.min <= w.max}

Own(min, max) == [mod |-> "org", min |-> min, max |-> max]

Org(uuid, ver, own, window) == [uuid |-> uuid, mod |-> "org", ver |-> ver, deps |-> {own, window}]

Later == {[mod |-> "server", min |-> w[1], max |-> w[2]] : w \in {<<NULL, NULL>>, <<2, 2>>, <<2, 3>>, <<NULL, 1>>}}

\* A first migration, and one after it; or a second one that goes all the way.
Chains == {{Org(1, 1, Own(NULL, 0), a), Org(2, 2, Own(1, 1), b)} : a \in Narrow, b \in Later}
Shortcuts == {{Org(1, 1, Own(NULL, 0), a), Org(2, 2, Own(1, 1), [mod |-> "server", min |-> 2, max |-> NULL]),
               Org(3, 2, Own(NULL, 0), b)} : a \in Narrow, b \in Later}

\* Nothing; a first version, with or without the organizer's; one that another branch went past.
Installed == {Empty} \cup [server : {{1}, {1, 3}}, org : {{}}, sound : {TRUE}, data : {TRUE}]
             \cup [server : {{1, 2}}, org : {{1}}, sound : {FALSE}, data : {TRUE}]

Worlds == [server : {1..3}, org : Chains \cup Shortcuts, db : Installed]
=============================================================================
