------------------------------ MODULE Upgrade ------------------------------
(***************************************************************************)
(* What starts of the server promise about the database, whatever plan     *)
(* they follow.  A start is one step: the server serves the database as it *)
(* is stored, or brought to the latest version of every schema; if it      *)
(* fails, nothing has happened.  If it is killed, or fails and cannot undo *)
(* what it did, some of the migrations may be done, the server's from the  *)
(* oldest, and no data is lost.  Only while a backup is being restored can *)
(* data be, or everything.                                                 *)
(***************************************************************************)
EXTENDS Naturals

CONSTANTS Empty,  \* a database without anything in it, which is what is found where there is none
          Torn    \* a database that cannot be opened

VARIABLES schema,  \* the versions that there are of the server's schema and of the organizer's
          mode,    \* "up" while it is served, "restoring" while the file is being replaced
          stored   \* the database that the next start finds, or that is served

upgradeVars == <<schema, mode, stored>>

\* Migrations are only ever added, to the server's schema from the oldest, and users' data stays.
Ahead(d, e) ==
    /\ d.server \subseteq e.server /\ d.org \subseteq e.org
    /\ \A v \in e.server \ d.server, w \in schema.server : w < v => w \in e.server
    /\ d.data = e.data

Whole(d) ==
    /\ d.server = schema.server
    /\ \A v \in schema.org : \E w \in d.org : v <= w
    /\ d.sound

UpgradeInit ==
    /\ mode = "down"
    /\ stored # Torn

From(m, n) ==
    /\ mode = m
    /\ mode' = n
    /\ UNCHANGED schema

Serve ==
    /\ From("down", "up")
    /\ stored # Torn
    /\ stored' = stored \/ (Ahead(stored, stored') /\ Whole(stored'))

\* Killed, or given up with what was done so far.
Killed ==
    /\ From("down", "down")
    /\ stored # Torn
    /\ Ahead(stored, stored')

Close == From("up", "down") /\ UNCHANGED stored

Replace == From("down", "restoring") /\ UNCHANGED stored

Replaced ==
    /\ From("restoring", "down")
    /\ stored' \in {stored, [stored EXCEPT !.data = FALSE], Empty, Torn}

UpgradeNext == Serve \/ Killed \/ Close \/ Replace \/ Replaced

UpgradeSpec == UpgradeInit /\ [][UpgradeNext]_upgradeVars
=============================================================================
