------------------------- MODULE MigrateRefinement -------------------------
(***************************************************************************)
(* Starts of the server implement Upgrade.  What a start changes does not  *)
(* count before it has come up or was killed: until then, what is stored   *)
(* is what it found, for the backup has it.                                *)
(***************************************************************************)
EXTENDS Migrate

Working == {"check", "solve", "backup", "apply", "restore", "unpack"}

schemaOf == [server |-> world.server, org |-> {m.ver : m \in world.org}]

modeOf == IF phase = "serving" THEN "up" ELSE IF phase = "unpack" THEN "restoring" ELSE "down"

storedOf == IF phase \in Working THEN found ELSE [there |-> db, missing |-> Empty, torn |-> NULL][file]

Promise == INSTANCE Upgrade WITH schema <- schemaOf, mode <- modeOf, stored <- storedOf,
                                 Empty <- Empty, Torn <- NULL

\* A start is all or nothing, for whoever looks at the database when it is over: the server serves
\* what was found or both schemas at their latest version, a failure that was undone has changed
\* nothing, and after any other, and after a crash, an older migration of the server is never missing
\* beside a newer one.
ImplementsUpgrade == Promise!UpgradeSpec
=============================================================================
