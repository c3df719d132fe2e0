------------------------------ MODULE Migrate ------------------------------
(***************************************************************************)
(* Schema migrations at the start of the server: those of the server       *)
(* itself and those of the organizer on the same SQLite file, the solver   *)
(* that finds an order for them (database/migration_solver.rs), the backup *)
(* before them and the restoration of it after a failure, which may fail   *)
(* as well, with the server stopping between any two steps and starting    *)
(* again.                                                                  *)
(*                                                                         *)
(* Versions are compared as strings by the code, and only compared; they   *)
(* are numbers here.  0 is the organizer's empty string, and NULL stands   *)
(* for no version at all.                                                  *)
(***************************************************************************)
EXTENDS Naturals, Sequences, FiniteSets

CONSTANTS World,      \* the installations: the schemas, and the database that is there
          MaxFaults,  \* bound: calls and migrations that fail, and crashes
          NULL

Module == {"server", "org"}
Dependency == [mod : Module, min : Nat \cup {NULL}, max : Nat \cup {NULL}]
Migration == [uuid : Nat, mod : Module, ver : Nat, deps : SUBSET Dependency]

\* What a database has of each schema, and whether foreign keys are in order and users' data is in it.
Database == [server : SUBSET Nat, org : SUBSET Nat, sound : BOOLEAN, data : BOOLEAN]
Empty == [server |-> {}, org |-> {}, sound |-> TRUE, data |-> FALSE]

\* A world has the versions of the server's schema, the migrations that the organizer knows of, and
\* what is on the disk at first.  A migration of the organizer is made for versions of its own schema
\* that it advances, as all in ALL_MIGRATIONS are.
ASSUME MigrateAssumption ==
    /\ MaxFaults \in Nat
    /\ NULL \notin Nat \cup Seq(Migration) \cup Database
    /\ \A w \in World :
          /\ w.server \subseteq Nat /\ IsFiniteSet(w.server)
          /\ w.org \subseteq Migration /\ IsFiniteSet(w.org)
          /\ \A a, b \in w.org : a.uuid = b.uuid => a = b
          /\ \A m \in w.org : /\ m.mod = "org"
                             /\ \E dep \in m.deps : dep.mod = "org" /\ dep.max # NULL /\ dep.max < m.ver
          /\ w.db \in Database
          /\ w.db.server \subseteq w.server /\ w.db.org \subseteq {m.ver : m \in w.org}
          /\ w.db.data \/ w.db = Empty

VARIABLES
    world,
    db,         \* the database: versions applied, foreign keys in order, data of users
    file,       \* whether it is there
    phase,      \* where init_and_spawn_workers is
    modules,    \* migration_modules: of each the current version and the pending migrations
    plan,       \* the migrations still to be applied
    backup,     \* what the backup of this start has in it
    orgOpen,    \* the organizer has opened the database, at a handshake
    found,      \* history: the database at this start
    applied,    \* history: a migration was applied since
    lost,       \* history: a restoration was cut short
    faults

vars == <<world, db, file, phase, modules, plan, backup, orgOpen, found, applied, lost, faults>>
disk == <<db, file>>
plans == <<modules, plan, backup>>
history == <<found, applied, lost>>

\* No start is under way: the server was stopped or killed, a start has failed, or the restoration
\* after its failure has failed as well ("Error restoring DB after failed migrations").
Over == {"off", "failed", "unrestored"}

TypeOK ==
    /\ db.server \subseteq world.server
    /\ db.org \subseteq {m.ver : m \in world.org}
    /\ db.sound \in BOOLEAN /\ db.data \in BOOLEAN
    /\ file \in {"there", "missing", "torn"}
    /\ phase \in Over \cup {"check", "solve", "backup", "apply", "restore", "unpack", "serving"}
    /\ phase \in {"apply", "restore", "unpack"} => backup # NULL /\ plan # NULL
    /\ phase = "unpack" <=> file # "there" /\ backup # NULL
    /\ orgOpen \in BOOLEAN /\ applied \in BOOLEAN /\ lost \in BOOLEAN
    /\ faults \in 0..MaxFaults

Init ==
    /\ world \in World
    /\ db = world.db
    /\ file = IF world.db.data THEN "there" ELSE "missing"
    /\ phase = "off"
    /\ modules = NULL /\ plan = NULL /\ backup = NULL
    /\ orgOpen = FALSE
    /\ found = db /\ applied = FALSE /\ lost = FALSE
    /\ faults = 0

Fault ==
    /\ faults < MaxFaults
    /\ faults' = faults + 1

-----------------------------------------------------------------------------
(* The solver *)

Highest(S) == CHOOSE v \in S : \A w \in S : w <= v

Latest(S) == IF S = {} THEN NULL ELSE Highest(S)

\* A mutant: only the highest version that is allowed is looked at.
AllowsUpTo(dep, cur) == cur[dep.mod] # NULL /\ dep.max # NULL => cur[dep.mod] <= dep.max

Allows(dep, cur) ==
    LET v == cur[dep.mod]
    IN  IF v = NULL THEN dep.min = NULL
        ELSE (dep.min # NULL => v >= dep.min) /\ (dep.max # NULL => v <= dep.max)

CanApply(mig, cur) == \A dep \in mig.deps : Allows(dep, cur)

\* Migrations that advance their module; older ones are left out, which makes them unsolvable.
Considered(mods) ==
    UNION {{m \in mods[n].migrations : mods[n].cur = NULL \/ m.ver > mods[n].cur} : n \in Module}

\* target_module_versions: of the modules that have migrations, and of all of those.
Targets(mods) ==
    [n \in {n \in Module : mods[n].migrations # {}} |-> Highest({m.ver : m \in mods[n].migrations})]

Reached(targets, cur) == \A n \in DOMAIN targets : cur[n] = targets[n]

\* Oldest versions first; among equals the server's first, and then as they are listed.
Before(a, b) ==
    \/ a.ver < b.ver
    \/ a.ver = b.ver /\ a.mod = "server" /\ b.mod = "org"
    \/ a.ver = b.ver /\ a.mod = b.mod /\ a.uuid < b.uuid

Current(mods) == [n \in Module |-> mods[n].cur]

\* A mutant: the first path found is taken, not a shortest.
EarlierThan(p, q) == Before(p[1], q[1])

\* Of paths with different first steps: the shortest, and of those the first to be found.
BetterThan(p, q) == Len(p) < Len(q) \/ (Len(p) = Len(q) /\ Before(p[1], q[1]))

Versions == [Module -> Nat \cup {NULL}]

Advance(cur, m) == [cur EXCEPT ![m.mod] = m.ver]

\* One call of depth_first_search: a shortest path to the targets, the first of those, or NULL.  What
\* the calls in it find is in `path`.
Search(mods, path, visited, cur) ==
    LET tries == {<<m, path[visited \cup {m}][Advance(cur, m)]>> :
                     m \in {m \in Considered(mods) \ visited : CanApply(m, cur)}}
        paths == {<<t[1]>> \o t[2] : t \in {t \in tries : t[2] # NULL}}
    IN  IF Reached(Targets(mods), cur) THEN <<>>
        ELSE IF paths = {} THEN NULL
        ELSE CHOOSE p \in paths : \A q \in paths : q = p \/ BetterThan(p, q)

\* solve_migration_graph.
Solution(mods) ==
    LET path[visited \in SUBSET Considered(mods)] == [cur \in Versions |-> Search(mods, path, visited, cur)]
    IN  path[{}][Current(mods)]

-----------------------------------------------------------------------------
(* migrate_db *)

\* Server migrations depend on the one before among the pending, the first on the current version.
ServerMigration(v, d) ==
    LET pending == world.server \ d.server
        prev == LET older == {w \in pending : w < v}
                IN  IF older = {} THEN Latest(d.server) ELSE Highest(older)
    IN  [uuid |-> v, mod |-> "server", ver |-> v, deps |-> {[mod |-> "server", min |-> prev, max |-> prev]}]

\* db_check_pending_migrations of the organizer.
OrgVersion(d) == IF d.org = {} THEN 0 ELSE Highest(d.org)

OrgPending(d) == {m \in world.org : m.ver > OrgVersion(d)}

\* A mutant: the organizer does not say what version it is at.
ModulesOfUnversioned(d) ==
    [server |-> [cur |-> Latest(d.server),
                 migrations |-> {ServerMigration(v, d) : v \in world.server \ d.server}],
     org |-> [cur |-> 0, migrations |-> OrgPending(d)]]

ModulesOf(d) ==
    [server |-> [cur |-> Latest(d.server),
                 migrations |-> {ServerMigration(v, d) : v \in world.server \ d.server}],
     org |-> [cur |-> OrgVersion(d), migrations |-> OrgPending(d)]]

\* The process ends, by an error or otherwise.
Quit(to) ==
    /\ phase' = to
    /\ modules' = NULL /\ plan' = NULL /\ backup' = NULL

\* A mutant: migrations only of a database that is missing.
StartIfMissing(migrate) ==
    /\ phase \in Over
    /\ CASE file = "torn" -> phase' = "failed" /\ UNCHANGED disk
         [] file = "there" -> phase' = "serving" /\ UNCHANGED disk
         [] file = "missing" -> phase' = "check" /\ file' = "there" /\ db' = Empty
    /\ found' = db'
    /\ applied' = FALSE
    /\ UNCHANGED <<world, plans, orgOpen, lost, faults>>

\* A database that is missing is made, and migrated in any case.
Start(migrate) ==
    /\ phase \in Over
    /\ CASE file = "torn" -> phase' = "failed" /\ UNCHANGED disk
         [] file = "there" /\ ~migrate -> phase' = "serving" /\ UNCHANGED disk
         [] file = "there" /\ migrate -> phase' = "check" /\ UNCHANGED disk
         [] file = "missing" -> phase' = "check" /\ file' = "there" /\ db' = Empty
    /\ found' = db'
    /\ applied' = FALSE
    /\ UNCHANGED <<world, plans, orgOpen, lost, faults>>

\* The organizer refuses to look once it has opened the database.
Check ==
    /\ phase = "check"
    /\ \/ /\ ~orgOpen
          /\ modules' = ModulesOf(db)
          /\ phase' = "solve"
          /\ UNCHANGED <<plan, backup, faults>>
       \/ orgOpen /\ Quit("failed") /\ UNCHANGED faults
       \/ Fault /\ Quit("failed")
    /\ UNCHANGED <<world, disk, orgOpen, history>>

\* "No pending migrations."; or a plan; or "Cannot proceed with migrations due to unsolvable
\* dependencies."
Solve ==
    /\ phase = "solve"
    /\ IF \A n \in Module : modules[n].migrations = {}
       THEN Quit("serving")
       ELSE LET solution == Solution(modules)
            IN  IF solution = NULL THEN Quit("failed")
                ELSE phase' = "backup" /\ plan' = solution /\ UNCHANGED <<modules, backup>>
    /\ UNCHANGED <<world, disk, orgOpen, history, faults>>

\* A mutant: what is in the write-ahead log is left out.
BackupWithoutLog ==
    /\ phase = "backup"
    /\ backup' = [db EXCEPT !.data = FALSE]
    /\ phase' = "apply"
    /\ UNCHANGED <<world, disk, modules, plan, orgOpen, history, faults>>

\* backup_sqlite_database, which may fail; so may the database that is opened after it.
Backup ==
    /\ phase = "backup"
    /\ \/ backup' = db /\ phase' = "apply" /\ UNCHANGED <<modules, plan, faults>>
       \/ Fault /\ Quit("failed")
    /\ UNCHANGED <<world, disk, orgOpen, history>>

\* The server's migrations are applied by this process, all others by the organizer.
Migrated(d, m) ==
    IF m.mod = "server" THEN [d EXCEPT !.server = @ \cup {m.ver}] ELSE [d EXCEPT !.org = @ \cup {m.ver}]

\* A mutant: the plan is popped from its end.
ApplyLast ==
    /\ phase = "apply"
    /\ plan # <<>>
    /\ db' = Migrated(db, plan[Len(plan)])
    /\ plan' = SubSeq(plan, 1, Len(plan) - 1)
    /\ applied' = TRUE
    /\ UNCHANGED <<world, file, phase, modules, backup, orgOpen, found, lost, faults>>

\* apply_migrations: one of the plan, in a transaction.  It can leave foreign keys dangling, which are
\* off meanwhile, or correct some.
Apply ==
    /\ phase = "apply"
    /\ plan # <<>>
    /\ \E sound \in BOOLEAN :
          /\ db' = [Migrated(db, Head(plan)) EXCEPT !.sound = sound]
          /\ IF sound THEN UNCHANGED faults ELSE Fault
    /\ plan' = Tail(plan)
    /\ applied' = TRUE
    /\ UNCHANGED <<world, file, phase, modules, backup, orgOpen, found, lost>>

\* An error: of a migration that is rolled back, or after it was committed (foreign keys could not be
\* switched on again, or the organizer's answer was lost).
ApplyFails ==
    /\ phase = "apply"
    /\ plan # <<>>
    /\ Fault
    /\ \/ UNCHANGED db
       \/ db' = Migrated(db, Head(plan))
    /\ phase' = "restore"
    /\ UNCHANGED <<world, file, plans, orgOpen, history>>

\* A mutant: the result of the check is only logged, as it is before the migrations.
CheckIsLogged ==
    /\ phase = "apply"
    /\ plan = <<>>
    /\ Quit("serving")
    /\ UNCHANGED <<world, disk, orgOpen, history, faults>>

\* sqlite_foreign_key_check after all of them.
CheckKeys ==
    /\ phase = "apply"
    /\ plan = <<>>
    /\ IF db.sound THEN Quit("serving") ELSE phase' = "restore" /\ UNCHANGED plans
    /\ UNCHANGED <<world, disk, orgOpen, history, faults>>

\* A mutant: an error ends the start without the backup being restored.
LeaveAsItIs ==
    /\ phase = "restore"
    /\ Quit("failed")
    /\ UNCHANGED <<world, disk, orgOpen, history, faults>>

\* restore_sqlite_database: unpacking removes the file first...
Restore ==
    /\ phase = "restore"
    /\ file' = "missing"
    /\ phase' = "unpack"
    /\ UNCHANGED <<world, db, plans, orgOpen, history, faults>>

\* ... and then writes it anew, with its write-ahead log.
Unpack ==
    /\ phase = "unpack"
    /\ file' = "there"
    /\ db' = backup
    /\ Quit("failed")
    /\ UNCHANGED <<world, orgOpen, history, faults>>

\* The backup cannot be opened or read, before anything was unpacked.
RestoreFails ==
    /\ phase = "restore"
    /\ Fault
    /\ Quit("unrestored")
    /\ UNCHANGED <<world, disk, orgOpen, history>>

\* What is there of the database when unpacking stops half way: nothing, a part of the file, or all
\* but what was in its write-ahead log.
CutShort ==
    /\ \/ file' \in {"missing", "torn"} /\ UNCHANGED db
       \/ file' = "there" /\ db' = [backup EXCEPT !.data = FALSE]
    /\ lost' = TRUE

\* Unpacking fails, be it for a full disk or for a backup that was not written to its end: errors at
\* the end of the compression go unnoticed, when the writer is dropped.
UnpackFails ==
    /\ phase = "unpack"
    /\ Fault
    /\ CutShort
    /\ Quit("unrestored")
    /\ UNCHANGED <<world, orgOpen, found, applied>>

\* The server is up, and the handshake makes the organizer open the database.
Handshake ==
    /\ phase = "serving"
    /\ ~orgOpen
    /\ orgOpen' = TRUE
    /\ UNCHANGED <<world, disk, phase, plans, history, faults>>

-----------------------------------------------------------------------------
(* What may happen at any moment *)

Stop ==
    /\ phase = "serving"
    /\ Quit("off")
    /\ UNCHANGED <<world, disk, orgOpen, history, faults>>

Crash ==
    /\ phase \notin Over \cup {"serving"}
    /\ Fault
    /\ Quit("off")
    /\ IF phase = "unpack" THEN CutShort ELSE UNCHANGED <<disk, lost>>
    /\ UNCHANGED <<world, orgOpen, found, applied>>

OrganizerRestarts ==
    /\ phase \in Over
    /\ orgOpen
    /\ orgOpen' = FALSE
    /\ UNCHANGED <<world, disk, phase, plans, history, faults>>

Go == Check \/ Solve \/ Backup \/ Apply \/ CheckKeys \/ Restore \/ Unpack

Next ==
    \/ \E migrate \in BOOLEAN : Start(migrate)
    \/ Go \/ ApplyFails \/ RestoreFails \/ UnpackFails
    \/ Handshake \/ Stop
    \/ Crash \/ OrganizerRestarts

Spec == Init /\ [][Next]_vars

\* A server is stopped now and then, and started again, with migrations and a fresh organizer at least
\* when that has been possible again and again.
FairSpec ==
    /\ Spec
    /\ WF_vars(Go)
    /\ WF_vars(Stop) /\ SF_vars(~orgOpen /\ Start(TRUE)) /\ SF_vars(OrganizerRestarts)

-----------------------------------------------------------------------------
(* Properties *)

\* What a migration was made for: versions of its window, no version being below all others.
Fits(m, cur) ==
    \A dep \in m.deps : /\ dep.min = NULL \/ (cur[dep.mod] # NULL /\ cur[dep.mod] >= dep.min)
                        /\ dep.max = NULL \/ cur[dep.mod] = NULL \/ cur[dep.mod] <= dep.max

\* The orders of distinct migrations.
Orders(S) == UNION {{p \in [1..n -> S] : \A i, j \in 1..n : i # j => p[i] # p[j]} : n \in 0..Cardinality(S)}

\* The versions when the first k of an order have been applied.
After(cur, p, k) ==
    [n \in Module |->
        LET own == {i \in 1..k : p[i].mod = n}
        IN  IF own = {} THEN cur[n] ELSE p[Highest(own)].ver]

\* An order that can be applied and brings every module to its target.
Good(targets, cur, p) ==
    /\ \A i \in 1..Len(p) : Fits(p[i], After(cur, p, i - 1))
    /\ Reached(targets, After(cur, p, Len(p)))

GoodOrders(mods) == {p \in Orders(Considered(mods)) : Good(Targets(mods), Current(mods), p)}

\* "find a valid path of migrations that upgrades all modules to their latest version. Returns None
\* if no solution was found": the search finds one exactly when there is one, and none is shorter.
PlanIsShortest ==
    phase = "solve" =>
        LET p == Solution(modules)
            good == GoodOrders(modules)
        IN  IF good = {} THEN p = NULL ELSE p \in good /\ \A q \in good : Len(p) <= Len(q)

\* No server migration is applied before an older one, and none of the organizer on a schema of the
\* server that it was not made for, by however many interrupted starts the upgrade comes about.
StepInOrder ==
    /\ file' = file => \A v \in db'.server \ db.server, w \in world.server : w < v => w \in db.server
    /\ \A v \in db'.org \ db.org : \E m \in world.org : m.ver = v /\ Fits(m, Current(ModulesOf(db)))

InOrder == [][StepInOrder]_vars

\* A start that fails leaves the database as it found it, whether the failure is of the solver, of the
\* backup, of a migration or of the check of the foreign keys.  The one failure that does not is that
\* of the restoration itself, a start that ends "unrestored", after which the database is any.
FailureUndone == phase = "failed" /\ file = "there" => db = found

\* Nothing of the users' data is lost on the way, unless a restoration was cut short, by an error of
\* its own or by a crash.
DataKept == world.db.data /\ ~lost => file # "torn" /\ (phase # "unpack" => file = "there") /\ db.data

\* What was migrated at this start is whole when the server comes up: all modules are at their
\* latest version, and no foreign key dangles.
ServedWhole ==
    phase = "serving" /\ applied =>
        /\ db.server = world.server
        /\ OrgPending(db) = {}
        /\ db.sound

\* "Cannot proceed with migrations due to unsolvable dependencies" is no dead end that an upgrade gets
\* into by being interrupted: if no order is found for what is left, then there was none for the whole.
NoDeadEnd ==
    phase = "solve" /\ ~lost /\ Solution(modules) = NULL => Solution(ModulesOf(world.db)) = NULL

\* And so, after whatever failures and crashes, the upgrade gets done, but for a database that was
\* left torn, and one that has no order.
GetsDone ==
    phase = "off" ~> \/ db.server = world.server /\ OrgPending(db) = {}
                     \/ file = "torn"
                     \/ phase = "solve" /\ Solution(modules) = NULL
=============================================================================
