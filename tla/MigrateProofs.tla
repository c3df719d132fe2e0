--------------------------- MODULE MigrateProofs ---------------------------
(***************************************************************************)
(* Migrate, for any schemas, any database found and any number of faults.  *)
(* First what does not depend on the plan: a start that fails undoes what  *)
(* it did unless that fails too, and the users' data outlives all starts   *)
(* but those whose undoing is cut short.  Then the solver: what            *)
(* its recursive search returns is a shortest order, and NULL only if      *)
(* there is none.  Then the upgrade: migrations are applied in order, what *)
(* is served after them is whole, and no interruption is a dead end.  Last *)
(* that starts are all or nothing, as Upgrade has them.                    *)
(***************************************************************************)
EXTENDS MigrateRefinement, SequenceTheorems, FiniteSetTheorems, TLAPS

Record(d) == DOMAIN d = {"server", "org", "sound", "data"}

Records == Record(db) /\ Record(found) /\ Record(Empty)

\* Nothing is changed before there is a backup, which has all that was found.
BackupIsWhole ==
    /\ file \in {"there", "missing", "torn"}
    /\ phase \in {"check", "solve", "backup"} => db = found
    /\ phase \in {"apply", "restore", "unpack"} => backup = found /\ db.data = found.data
    /\ phase \in {"check", "solve", "backup", "apply", "restore"} => file = "there"
    /\ phase = "unpack" => file = "missing"

\* What was found had the data.
DataFound == world.db.data /\ ~lost => (phase \in {"apply", "restore", "unpack"} => found.data)

IInv == world \in World /\ Records /\ BackupIsWhole /\ DataFound /\ FailureUndone /\ DataKept

-----------------------------------------------------------------------------
(* What the solver and the upgrade are described with *)

\* Modules as migrate_db hands them over: each migration is of its module, with an id of its own.
WellFormed(mods) ==
    \A n \in Module :
        /\ mods[n].cur \in Nat \cup {NULL}
        /\ mods[n].migrations \subseteq Migration /\ IsFiniteSet(mods[n].migrations)
        /\ \A a \in mods[n].migrations : a.mod = n
        /\ \A a, b \in mods[n].migrations : a.uuid = b.uuid => a = b

\* No migration is applied twice.
Distinct(p) == \A i, j \in 1..Len(p) : p[i] = p[j] => i = j

\* What a database can have of the schemas.
Known(d) == d \in Database /\ d.server \subseteq world.server /\ d.org \subseteq {m.ver : m \in world.org}

\* The server's migrations since f were applied from below, and on top of what f has.
Upwards(d, f) ==
    /\ f.server \subseteq d.server /\ f.org \subseteq d.org
    /\ \A v \in d.server \ f.server : /\ \A w \in f.server : w < v
                                     /\ \A w \in world.server \ d.server : v < w

\* The order p of migrations that were pending in f can be applied to d, and completes it.
Leads(p, d, f) ==
    /\ p \in Seq(Considered(ModulesOf(f)))
    /\ Distinct(p)
    /\ \A i \in 1..Len(p) : p[i].mod = "server" => p[i].ver \notin d.server
    /\ Good(Targets(ModulesOf(f)), Current(ModulesOf(d)), p)

\* Some order completes d.
Solvable(d) == GoodOrders(ModulesOf(d)) # {}

\* Only a start that may change something has a backup.
PlaceInv ==
    /\ phase \in Over \cup {"check", "solve", "backup", "apply", "restore", "unpack", "serving"}
    /\ orgOpen \in BOOLEAN /\ applied \in BOOLEAN /\ lost \in BOOLEAN
    /\ faults \in 0..MaxFaults
    /\ phase \notin {"apply", "restore", "unpack"} => backup = NULL

\* While it is being changed the database is on its way up from what was found; a file that is not
\* there, though none was lost, has never been.
SchemasInv ==
    /\ Known(db) /\ Known(found)
    /\ phase \in {"apply", "restore", "unpack"} => Upwards(db, found)
    /\ phase = "serving" => file = "there"
    /\ phase \in Over /\ file = "missing" /\ ~lost => db = world.db

\* A plan that was begun leads on from what has been applied of it.
PlanInv ==
    /\ phase = "solve" => modules = ModulesOf(found)
    /\ phase \in {"backup", "apply"} => Leads(plan, db, found)
    /\ phase \in {"restore", "unpack"} => plan \in Seq(Migration)
    /\ phase \in {"check", "solve", "backup"} => ~applied

\* If there is an order for what was installed, there is one for all that came of it.
OrderInv == ~lost /\ Solvable(world.db) => Solvable(db) /\ Solvable(found)

\* A start ends without having undone what it did: it is killed, or cannot restore the backup.
CutOff == Crash \/ RestoreFails \/ UnpackFails

UpgradeInv == PlaceInv /\ SchemasInv /\ PlanInv /\ OrderInv /\ ServedWhole

-----------------------------------------------------------------------------
(* Failures and backups *)

\* A migration is no change of the other columns.
LEMMA MigratedKeeps ==
    ASSUME NEW d, NEW m, Record(d)
    PROVE  Record(Migrated(d, m)) /\ Migrated(d, m).data = d.data
  BY DEF Record, Migrated

\* The database that is installed is the one that is found at first.
LEMMA InitIInv == Init => IInv
<1> SUFFICES ASSUME Init PROVE IInv
  OBVIOUS
<1>1. Records
  <2>1. world.db \in Database
    BY MigrateAssumption DEF Init
  <2> QED
    BY <2>1 DEF Init, Records, Record, Empty, Database
<1> QED
  BY <1>1 DEF Init, IInv, BackupIsWhole, DataFound, FailureUndone, DataKept

\* A start takes note of what it finds, or makes a database where there is none.
LEMMA StartIInv == ASSUME IInv, NEW migrate \in BOOLEAN, Start(migrate) PROVE IInv'
<1> USE DEF IInv, BackupIsWhole, DataFound, FailureUndone, DataKept, Over
<1>1. /\ phase \in Over /\ found' = db'
      /\ UNCHANGED <<world, modules, plan, backup, orgOpen, lost, faults>>
  BY DEF Start, plans
<1>2. CASE file = "torn"
  <2>1. phase' = "failed" /\ db' = db /\ file' = file
    BY <1>2 DEF Start, disk
  <2> QED
    BY <1>1, <1>2, <2>1 DEF Records
<1>3. CASE file = "there"
  <2>1. phase' \in {"serving", "check"} /\ db' = db /\ file' = file
    BY <1>3 DEF Start, disk
  <2> QED
    BY <1>1, <1>3, <2>1 DEF Records
<1>4. CASE file = "missing"
  <2>1. phase' = "check" /\ db' = Empty /\ file' = "there"
    BY <1>4 DEF Start
  <2>2. ~(world.db.data /\ ~lost)
    BY <1>1, <1>4
  <2>3. Records'
    BY <1>1, <2>1 DEF Records, Empty
  <2> QED
    BY <1>1, <2>1, <2>2, <2>3
<1> QED
  BY <1>2, <1>3, <1>4

\* Up to the backup nothing is written.
LEMMA PlanIInv == ASSUME IInv, Check \/ Solve \/ Backup PROVE IInv'
<1> USE DEF IInv, BackupIsWhole, DataFound, FailureUndone, DataKept, Records, Empty, disk, plans, history, Quit, Fault
<1>1. CASE Check
  BY <1>1 DEF Check
<1>2. CASE Solve
  BY <1>2 DEF Solve
<1>3. CASE Backup
  BY <1>3 DEF Backup
<1> QED
  BY <1>1, <1>2, <1>3

\* A migration leaves the backup, and the column of the users' data, alone.
LEMMA ApplyIInv == ASSUME IInv, Apply \/ ApplyFails PROVE IInv'
<1> USE DEF IInv, BackupIsWhole, DataFound, FailureUndone, DataKept, Empty
<1> DEFINE m == Head(plan)
<1>1. Record(Migrated(db, m)) /\ Migrated(db, m).data = db.data
  BY MigratedKeeps DEF Records
<1>2. CASE Apply
  <2>1. /\ phase = "apply"
        /\ UNCHANGED <<world, file, phase, modules, backup, orgOpen, found, lost>>
        /\ \E sound \in BOOLEAN : db' = [Migrated(db, m) EXCEPT !.sound = sound]
    BY <1>2 DEF Apply
  <2> HIDE DEF m
  <2>2. Record(db') /\ db'.data = db.data
    BY <1>1, <2>1 DEF Record
  <2> QED
    BY <2>1, <2>2 DEF Records, Record
<1>3. CASE ApplyFails
  <2>1. /\ phase = "apply" /\ phase' = "restore"
        /\ UNCHANGED <<world, file, modules, plan, backup, orgOpen, found, applied, lost>>
        /\ db' = db \/ db' = Migrated(db, m)
    BY <1>3 DEF ApplyFails, plans, history
  <2> HIDE DEF m
  <2>2. Record(db') /\ db'.data = db.data
    BY <1>1, <2>1 DEF Records
  <2> QED
    BY <2>1, <2>2 DEF Records, Record
<1> QED
  BY <1>2, <1>3

\* What is served has been checked; what is not is restored from the backup before the start has failed.
LEMMA EndIInv == ASSUME IInv, CheckKeys \/ Restore \/ Unpack PROVE IInv'
<1> USE DEF IInv, BackupIsWhole, DataFound, FailureUndone, DataKept, Records, Empty, disk, plans, history, Quit
<1>1. CASE CheckKeys
  BY <1>1 DEF CheckKeys
<1>2. CASE Restore
  BY <1>2 DEF Restore
<1>3. CASE Unpack
  BY <1>3 DEF Unpack
<1> QED
  BY <1>1, <1>2, <1>3

\* A start is cut off: what was unpacked of the database is there, or else it is left alone.
LEMMA CutOffIs ==
    ASSUME CutOff
    PROVE  /\ phase \notin Over \cup {"serving"} /\ phase' \in {"off", "unrestored"} /\ backup' = NULL
           /\ UNCHANGED <<world, orgOpen, found, applied>>
           /\ faults < MaxFaults /\ faults' = faults + 1
           /\ phase = "unpack" => CutShort
           /\ phase # "unpack" => UNCHANGED <<db, file, lost>>
<1> USE DEF Over, disk, history, Quit, Fault
<1>1. CASE Crash
  BY <1>1 DEF Crash
<1>2. CASE RestoreFails
  BY <1>2 DEF RestoreFails
<1>3. CASE UnpackFails
  BY <1>3 DEF UnpackFails
<1> QED
  BY <1>1, <1>2, <1>3 DEF CutOff

\* A crash is no failure that was handled, and neither is that of a restoration; what is cut short in
\* the middle of one is known as lost.
LEMMA CutOffIInv == ASSUME IInv, CutOff PROVE IInv'
<1>1. /\ phase' \in {"off", "unrestored"} /\ UNCHANGED <<world, found>>
      /\ phase = "unpack" => CutShort
      /\ phase # "unpack" => UNCHANGED <<db, file, lost>>
      /\ phase \notin Over
  BY CutOffIs
<1>2. CASE phase = "unpack"
  <2>1. /\ lost' = TRUE /\ file' \in {"there", "missing", "torn"}
        /\ db' = db \/ db' = [found EXCEPT !.data = FALSE]
    BY <1>1, <1>2 DEF CutShort, IInv, BackupIsWhole
  <2>2. Records'
    BY <1>1, <2>1 DEF IInv, Records, Record, Empty
  <2> QED
    BY <1>1, <2>1, <2>2 DEF IInv, BackupIsWhole, DataFound, FailureUndone, DataKept
<1>3. CASE phase # "unpack"
  BY <1>1, <1>3 DEF IInv, BackupIsWhole, DataFound, FailureUndone, DataKept, Records, Record, Empty
<1> QED
  BY <1>2, <1>3

\* Serving, stopping and the organizer's starts leave the disk alone.
LEMMA OutsideIInv == ASSUME IInv, Handshake \/ Stop \/ OrganizerRestarts PROVE IInv'
<1> USE DEF IInv, BackupIsWhole, DataFound, FailureUndone, DataKept, Records, Empty, disk, plans, history, Quit, Over
<1>1. CASE Handshake
  BY <1>1 DEF Handshake
<1>2. CASE Stop
  BY <1>2 DEF Stop
<1>3. CASE OrganizerRestarts
  BY <1>3 DEF OrganizerRestarts
<1> QED
  BY <1>1, <1>2, <1>3

\* Every step, or none, keeps the invariant.
LEMMA NextIInv == IInv /\ [Next]_vars => IInv'
<1> SUFFICES ASSUME IInv, [Next]_vars PROVE IInv'
  OBVIOUS
<1>1. CASE \E migrate \in BOOLEAN : Start(migrate)
  BY <1>1, StartIInv
<1>2. CASE Go
  BY <1>2, PlanIInv, ApplyIInv, EndIInv DEF Go
<1>3. CASE ApplyFails
  BY <1>3, ApplyIInv
<1>4. CASE Handshake \/ Stop \/ OrganizerRestarts
  BY <1>4, OutsideIInv
<1>5. CASE CutOff
  BY <1>5, CutOffIInv
<1>6. CASE UNCHANGED vars
  BY <1>6 DEF vars, IInv, Records, BackupIsWhole, DataFound, FailureUndone, DataKept, Empty
<1> QED
  BY <1>1, <1>2, <1>3, <1>4, <1>5, <1>6 DEF Next, CutOff

\* The invariant holds of every history of starts.
THEOREM InvariantHolds == Spec => []IInv
<1> QED
  BY InitIInv, NextIInv, PTL DEF Spec

\* A start that has failed has left the database as it was before it, whichever of the solver, the
\* backup, a migration, the organizer and the check of the foreign keys failed: all but a start whose
\* restoration has failed too, which ends "unrestored".
THEOREM FailureUndoneHolds == Spec => []FailureUndone
<1>1. IInv => FailureUndone
  BY DEF IInv
<1> QED
  BY <1>1, InvariantHolds, PTL

\* The data of an installation is there after any number of starts, failures and crashes, none of them
\* of a restoration or in the middle of one.
THEOREM DataKeptHolds == Spec => []DataKept
<1>1. IInv => DataKept
  BY DEF IInv
<1> QED
  BY <1>1, InvariantHolds, PTL

-----------------------------------------------------------------------------
(* Numbers, sets of them, and sequences *)

\* Of some numbers one is the least.
LEMMA LeastExists ==
    ASSUME NEW S, S \subseteq Nat, S # {}
    PROVE  \E k \in S : \A j \in S : k <= j
<1>1. PICK k \in S : \A j \in S : <<j, k>> \notin OpToRel(<, Nat)
  BY WFMin, NatLessThanWellFounded, Zenon
<1>2. ASSUME NEW j \in S
      PROVE  k <= j
  <2>1. ~(j < k)
    BY <1>1, <1>2, Zenon DEF OpToRel
  <2>2. j \in Nat /\ k \in Nat
    BY <1>1, <1>2
  <2> QED
    BY <2>1, <2>2
<1> QED
  BY <1>2

\* Finitely many numbers have a bound: of those sets that have none take one with the fewest.
LEMMA FiniteIsBounded ==
    ASSUME NEW S, S \subseteq Nat, IsFiniteSet(S)
    PROVE  \E b \in Nat : \A w \in S : w <= b
<1> DEFINE Bounded(T) == \E b \in Nat : \A w \in T : w <= b
           Sizes == {n \in Nat : \E T \in SUBSET Nat : IsFiniteSet(T) /\ Cardinality(T) = n /\ ~Bounded(T)}
<1>1. SUFFICES ASSUME ~Bounded(S) PROVE FALSE
  OBVIOUS
<1>2. Cardinality(S) \in Sizes
  BY <1>1, FS_CardinalityType
<1>3. PICK n \in Sizes : \A k \in Sizes : n <= k
  <2> HIDE DEF Sizes
  <2>1. Sizes \subseteq Nat
    BY DEF Sizes
  <2> QED
    BY <1>2, <2>1, LeastExists
<1>4. PICK T \in SUBSET Nat : IsFiniteSet(T) /\ Cardinality(T) = n /\ ~Bounded(T)
  BY <1>3
<1>5. PICK x \in T : TRUE
  BY <1>4
<1>6. IsFiniteSet(T \ {x}) /\ Cardinality(T \ {x}) = n - 1 /\ n \in Nat
  BY <1>3, <1>4, <1>5, FS_RemoveElement
<1>7. n # 0
  BY <1>4, <1>5, FS_EmptySet
<1>8. n - 1 \notin Sizes
  <2> HIDE DEF Sizes
  <2> QED
    BY <1>3, <1>6, <1>7
<1>9. Bounded(T \ {x})
  BY <1>6, <1>7, <1>8
<1>10. PICK b \in Nat : \A w \in T \ {x} : w <= b
  BY <1>9
<1>11. x \in Nat /\ x + b \in Nat /\ \A w \in T : w <= x + b
  BY <1>4, <1>5, <1>10
<1> QED
  BY <1>4, <1>11

\* What Highest chooses, for finitely many versions.
LEMMA HighestIs ==
    ASSUME NEW S, S \subseteq Nat, IsFiniteSet(S), S # {}
    PROVE  Highest(S) \in S /\ \A w \in S : w <= Highest(S)
<1> DEFINE U == {b \in Nat : \A w \in S : w <= b}
<1>1. PICK k \in U : \A j \in U : k <= j
  BY FiniteIsBounded, LeastExists
<1>2. k \in S
  <2>1. SUFFICES ASSUME k \notin S PROVE FALSE
    OBVIOUS
  <2>2. \A w \in S : w < k
    BY <1>1, <2>1
  <2>3. k \in Nat /\ k # 0 /\ k - 1 \in Nat
    <3>1. PICK w \in S : w < k /\ w \in Nat
      BY <2>2
    <3>2. k \in Nat
      BY <1>1
    <3> QED
      BY <3>1, <3>2
  <2>4. \A w \in S : w <= k - 1
    BY <2>2, <2>3
  <2>5. k - 1 \in U
    BY <2>3, <2>4
  <2> QED
    BY <1>1, <2>3, <2>5
<1>3. \E v \in S : \A w \in S : w <= v
  BY <1>1, <1>2
<1> QED
  BY <1>3, Zenon DEF Highest

\* It is the one that is highest.
LEMMA HighestOnly ==
    ASSUME NEW S, S \subseteq Nat, NEW v \in S, \A w \in S : w <= v
    PROVE  Highest(S) = v
<1>1. \E u \in S : \A w \in S : w <= u
  OBVIOUS
<1>2. Highest(S) \in S /\ \A w \in S : w <= Highest(S)
  BY <1>1, Zenon DEF Highest
<1>3. Highest(S) \in Nat /\ v \in Nat
  BY <1>2
<1> QED
  BY <1>2, <1>3

\* A sequence over a set is one over any larger set.
LEMMA SeqSubset ==
    ASSUME NEW S, NEW T, S \subseteq T, NEW s \in Seq(S)
    PROVE  s \in Seq(T)
  OBVIOUS

\* A path by its first step.
LEMMA PathFrom ==
    ASSUME NEW S, NEW m \in S, NEW q \in Seq(S)
    PROVE  /\ <<m>> \o q \in Seq(S)
           /\ Len(<<m>> \o q) = Len(q) + 1
           /\ (<<m>> \o q)[1] = m
           /\ \A i \in 1..Len(q) : (<<m>> \o q)[i + 1] = q[i]
           /\ <<m>> \o q # <<>>
<1>1. <<m>> \in Seq(S) /\ Len(<<m>>) = 1 /\ <<m>>[1] = m
  OBVIOUS
<1>2. Len(q) \in Nat
  BY LenProperties
<1>3. /\ <<m>> \o q \in Seq(S)
      /\ Len(<<m>> \o q) = 1 + Len(q)
      /\ \A i \in 1..(1 + Len(q)) : (<<m>> \o q)[i] = IF i <= 1 THEN <<m>>[i] ELSE q[i - 1]
  BY <1>1, ConcatProperties
<1>4. ASSUME NEW i \in 1..Len(q)
      PROVE  (<<m>> \o q)[i + 1] = q[i]
  <2>1. i + 1 \in 1..(1 + Len(q)) /\ ~(i + 1 <= 1) /\ (i + 1) - 1 = i
    BY <1>2
  <2> QED
    BY <1>3, <2>1
<1>5. (<<m>> \o q)[1] = m
  BY <1>1, <1>2, <1>3
<1>6. <<m>> \o q # <<>>
  BY <1>2, <1>3
<1> QED
  BY <1>2, <1>3, <1>4, <1>5, <1>6

\* A path that has steps is its first step and then the others.
LEMMA PathSplit ==
    ASSUME NEW S, NEW p \in Seq(S), p # <<>>
    PROVE  Head(p) \in S /\ Tail(p) \in Seq(S) /\ p = <<Head(p)>> \o Tail(p)
  BY HeadTailProperties

-----------------------------------------------------------------------------
(* The solver *)

\* What the solver considers is finite, and known by module and id.
LEMMA ConsideredIs ==
    ASSUME NEW mods, WellFormed(mods)
    PROVE  /\ Considered(mods) \subseteq Migration /\ IsFiniteSet(Considered(mods))
           /\ \A a, b \in Considered(mods) : a.mod = b.mod /\ a.uuid = b.uuid => a = b
           /\ Current(mods) \in Versions
<1> DEFINE Pending(n) == {m \in mods[n].migrations : mods[n].cur = NULL \/ m.ver > mods[n].cur}
<1>1. Considered(mods) = Pending("server") \cup Pending("org")
  BY DEF Considered, Module
<1>2. ASSUME NEW n \in Module
      PROVE  IsFiniteSet(Pending(n)) /\ Pending(n) \subseteq mods[n].migrations
  BY FS_Subset DEF WellFormed
<1>3. "server" \in Module /\ "org" \in Module
  BY DEF Module
<1>4. IsFiniteSet(Considered(mods))
  <2>1. IsFiniteSet(Pending("server")) /\ IsFiniteSet(Pending("org"))
    BY <1>2, <1>3
  <2> HIDE DEF Pending
  <2> QED
    BY <1>1, <2>1, FS_Union
<1>5. \A a \in Considered(mods) : a \in mods[a.mod].migrations /\ a.mod \in Module
  BY <1>1, <1>2, <1>3 DEF WellFormed
<1>6. Considered(mods) \subseteq Migration
  BY <1>5 DEF WellFormed
<1>7. \A a, b \in Considered(mods) : a.mod = b.mod /\ a.uuid = b.uuid => a = b
  BY <1>5 DEF WellFormed
<1>8. Current(mods) \in Versions
  BY DEF Current, Versions, WellFormed
<1> QED
  BY <1>4, <1>6, <1>7, <1>8

\* NULL is no path.
LEMMA NullIsNoPath == ASSUME NEW S, S \subseteq Migration PROVE NULL \notin Seq(S)
  BY SeqSubset, MigrateAssumption

\* A version that is allowed is one that the migration was made for.
LEMMA AppliesIfFits ==
    ASSUME NEW m \in Migration, NEW cur \in Versions
    PROVE  CanApply(m, cur) <=> Fits(m, cur)
<1>1. ASSUME NEW dep \in m.deps
      PROVE  Allows(dep, cur) <=> /\ dep.min = NULL \/ (cur[dep.mod] # NULL /\ cur[dep.mod] >= dep.min)
                                  /\ dep.max = NULL \/ cur[dep.mod] = NULL \/ cur[dep.mod] <= dep.max
  BY DEF Allows
<1> QED
  BY <1>1 DEF CanApply, Fits

\* A migration brings its module to its version, and leaves the others.
LEMMA AdvanceType ==
    ASSUME NEW m \in Migration, NEW cur \in Versions
    PROVE  /\ Advance(cur, m) \in Versions
           /\ \A n \in Module : Advance(cur, m)[n] = IF n = m.mod THEN m.ver ELSE cur[n]
  BY DEF Advance, Versions, Migration

\* Of paths with different first steps one is best: the shortest, of those the first.
LEMMA BestExists ==
    ASSUME NEW C, C \subseteq Migration,
           \A a, b \in C : a.mod = b.mod /\ a.uuid = b.uuid => a = b,
           NEW P, P # {},
           \A p \in P : Len(p) \in Nat /\ p[1] \in C,
           \A p, q \in P : p[1] = q[1] => p = q
    PROVE  \E p \in P : \A q \in P : q = p \/ BetterThan(p, q)
<1> DEFINE Lens == {Len(p) : p \in P}
<1>1. PICK a \in P : \A q \in P : Len(a) <= Len(q)
  <2>1. Lens \subseteq Nat
    OBVIOUS
  <2>3. Lens # {}
    <3>1. PICK p \in P : TRUE
      OBVIOUS
    <3>2. Len(p) \in Lens
      OBVIOUS
    <3> QED
      BY <3>2
  <2>2. PICK k \in Lens : \A j \in Lens : k <= j
    BY <2>1, <2>3, LeastExists
  <2>4. PICK p \in P : k = Len(p)
    OBVIOUS
  <2>5. ASSUME NEW q \in P
        PROVE  k <= Len(q)
    <3>1. Len(q) \in Lens
      OBVIOUS
    <3> HIDE DEF Lens
    <3> QED
      BY <2>2, <3>1
  <2> QED
    BY <2>4, <2>5
<1> DEFINE A == {p \in P : Len(p) = Len(a)}
           Vers == {p[1].ver : p \in A}
<1>2. PICK b \in A : \A q \in A : b[1].ver <= q[1].ver
  <2>1. Vers \subseteq Nat /\ Vers # {}
    BY DEF Migration
  <2>2. PICK k \in Vers : \A j \in Vers : k <= j
    BY <2>1, LeastExists
  <2>3. PICK p \in A : k = p[1].ver
    OBVIOUS
  <2>4. ASSUME NEW q \in A
        PROVE  k <= q[1].ver
    <3>1. q[1].ver \in Vers
      OBVIOUS
    <3> HIDE DEF Vers
    <3> QED
      BY <2>2, <3>1
  <2> HIDE DEF A
  <2> QED
    BY <2>3, <2>4
<1> DEFINE B == {p \in A : p[1].ver = b[1].ver}
           First == IF \E p \in B : p[1].mod = "server" THEN {p \in B : p[1].mod = "server"} ELSE B
           Ids == {p[1].uuid : p \in First}
<1>3. First # {} /\ First \subseteq B
  BY <1>2
<1>4. PICK c \in First : \A q \in First : c[1].uuid <= q[1].uuid
  <2> HIDE DEF First
  <2>1. Ids \subseteq Nat /\ Ids # {}
    BY <1>3 DEF Migration
  <2>2. PICK k \in Ids : \A j \in Ids : k <= j
    BY <2>1, LeastExists
  <2> QED
    BY <2>2
<1>5. ASSUME NEW q \in P, q # c
      PROVE  BetterThan(c, q)
  <2>1. c \in P /\ Len(c) = Len(a) /\ c[1].ver = b[1].ver
    BY <1>3, <1>4
  <2>2. CASE q \notin A
    <3>1. Len(a) <= Len(q) /\ Len(q) # Len(a) /\ Len(a) \in Nat /\ Len(q) \in Nat
      BY <1>1, <1>5, <2>2
    <3> QED
      BY <2>1, <3>1 DEF BetterThan
  <2>3. CASE q \in A \ B
    <3>1. b[1].ver <= q[1].ver /\ q[1].ver # b[1].ver /\ b[1].ver \in Nat /\ q[1].ver \in Nat
      BY <1>2, <2>3 DEF Migration
    <3>2. Len(q) = Len(c)
      BY <2>1, <2>3
    <3> QED
      BY <2>1, <3>1, <3>2 DEF BetterThan, Before
  <2>4. CASE q \in B
    <3>1. Len(q) = Len(c) /\ q[1].ver = c[1].ver
      BY <2>1, <2>4
    <3>2. q[1] # c[1] /\ q[1] \in C /\ c[1] \in C
      BY <1>5, <2>1
    <3>3. q[1].mod \in Module /\ c[1].mod \in Module /\ q[1].uuid \in Nat /\ c[1].uuid \in Nat
      BY <3>2 DEF Migration
    <3>4. CASE q[1].mod = c[1].mod
      <4>1. q \in First
        BY <1>3, <1>4, <2>4, <3>4
      <4>2. c[1].uuid <= q[1].uuid /\ c[1].uuid # q[1].uuid
        BY <1>4, <3>2, <3>4, <4>1
      <4>3. c[1].uuid < q[1].uuid
        BY <3>3, <4>2
      <4> QED
        BY <3>1, <3>4, <4>3 DEF BetterThan, Before
    <3>5. CASE q[1].mod # c[1].mod
      <4>1. c[1].mod = "server" /\ q[1].mod = "org"
        BY <1>4, <2>4, <3>3, <3>5 DEF Module
      <4> QED
        BY <3>1, <4>1 DEF BetterThan, Before
    <3> QED
      BY <3>4, <3>5
  <2> QED
    BY <2>2, <2>3, <2>4
<1> QED
  BY <1>3, <1>4, <1>5

\* What the search finds after a migration.
Rest(path, visited, cur, m) == path[visited \cup {m}][Advance(cur, m)]

Tries(mods, path, visited, cur) ==
    {<<m, Rest(path, visited, cur, m)>> : m \in {m \in Considered(mods) \ visited : CanApply(m, cur)}}

IsSearch(mods, path) ==
    path = [visited \in SUBSET Considered(mods) |-> [cur \in Versions |-> Search(mods, path, visited, cur)]]

\* One call depends on the calls in it only, each of which has one migration less to consider.
LEMMA SearchIsLocal ==
    ASSUME NEW mods, NEW f, NEW g, NEW visited, NEW cur,
           \A m \in Considered(mods) \ visited : f[visited \cup {m}] = g[visited \cup {m}]
    PROVE  Search(mods, f, visited, cur) = Search(mods, g, visited, cur)
<1>1. Tries(mods, f, visited, cur) = Tries(mods, g, visited, cur)
  BY DEF Tries, Rest
<1>2. \A path : Search(mods, path, visited, cur) =
         LET tries == Tries(mods, path, visited, cur)
             paths == {<<t[1]>> \o t[2] : t \in {t \in tries : t[2] # NULL}}
         IN  IF Reached(Targets(mods), cur) THEN <<>>
             ELSE IF paths = {} THEN NULL
             ELSE CHOOSE p \in paths : \A q \in paths : q = p \/ BetterThan(p, q)
  BY DEF Search, Tries, Rest
<1> QED
  BY <1>1, <1>2, Zenon

\* So there is a function that is the search, which is what solve_migration_graph calls.
LEMMA SearchExists ==
    ASSUME NEW mods, WellFormed(mods)
    PROVE  \E path : IsSearch(mods, path)
<1> DEFINE C == Considered(mods)
           Row(f, v) == [cur \in Versions |-> Search(mods, f, v, cur)]
           Upto(f, n) == \A v \in SUBSET C : Cardinality(C \ v) < n => f[v] = Row(f, v)
           Missed == {n \in Nat : ~\E f : Upto(f, n)}
<1>1. IsFiniteSet(C)
  BY ConsideredIs
<1>2. ASSUME NEW v \in SUBSET C
      PROVE  /\ Cardinality(C \ v) \in Nat
             /\ \A m \in C \ v : /\ v \cup {m} \in SUBSET C
                                 /\ Cardinality(C \ (v \cup {m})) = Cardinality(C \ v) - 1
  <2> HIDE DEF C
  <2>1. IsFiniteSet(C \ v)
    BY <1>1, FS_Difference
  <2>2. ASSUME NEW m \in C \ v
        PROVE  Cardinality(C \ (v \cup {m})) = Cardinality(C \ v) - 1
    <3>1. C \ (v \cup {m}) = (C \ v) \ {m}
      OBVIOUS
    <3>2. Cardinality((C \ v) \ {m}) = Cardinality(C \ v) - 1
      BY <2>1, FS_RemoveElement, Zenon
    <3> QED
      BY <3>1, <3>2
  <2> QED
    BY <2>1, <2>2, FS_CardinalityType
<1>3. ASSUME NEW f, NEW g, NEW v \in SUBSET C, \A m \in C \ v : f[v \cup {m}] = g[v \cup {m}]
      PROVE  Row(f, v) = Row(g, v)
  <2>1. \A cur : Search(mods, f, v, cur) = Search(mods, g, v, cur)
    BY <1>3, SearchIsLocal
  <2> QED
    BY <2>1
<1> HIDE DEF C, Row
<1>4. Missed = {}
  <2>1. SUFFICES ASSUME Missed # {} PROVE FALSE
    OBVIOUS
  <2>2. PICK n \in Missed : \A k \in Missed : n <= k
    <3> HIDE DEF Missed
    <3>1. Missed \subseteq Nat
      BY DEF Missed
    <3> QED
      BY <2>1, <3>1, LeastExists
  <2>3. n \in Nat /\ ~\E f : Upto(f, n)
    BY <2>2
  <2>4. n # 0
    <3>1. Upto({}, 0)
      BY <1>2
    <3> QED
      BY <2>3, <3>1
  <2>5. PICK f : Upto(f, n - 1)
    <3>1. n - 1 \in Nat /\ ~(n <= n - 1)
      BY <2>3, <2>4
    <3>2. n - 1 \notin Missed
      BY <2>2, <3>1
    <3> QED
      BY <3>1, <3>2
  <2> DEFINE g == [v \in SUBSET C |-> IF Cardinality(C \ v) < n - 1 THEN f[v] ELSE Row(f, v)]
  <2>6. ASSUME NEW v \in SUBSET C, Cardinality(C \ v) < n
        PROVE  g[v] = Row(g, v)
    <3>1. g[v] = Row(f, v)
      BY <2>5
    <3>2. ASSUME NEW m \in C \ v
          PROVE  f[v \cup {m}] = g[v \cup {m}]
      <4> DEFINE u == v \cup {m}
      <4>1. u \in SUBSET C /\ Cardinality(C \ u) < n - 1
        BY <1>2, <2>3, <2>6
      <4> HIDE DEF u
      <4>2. g[u] = f[u]
        BY <4>1
      <4> QED
        BY <4>2 DEF u
    <3> HIDE DEF g
    <3> QED
      BY <1>3, <2>6, <3>1, <3>2
  <2>7. Upto(g, n)
    BY <2>6
  <2> QED
    BY <2>3, <2>7
<1>5. PICK f : Upto(f, Cardinality(C) + 1)
  <2>1. Cardinality(C) + 1 \in Nat
    BY <1>1, FS_CardinalityType
  <2> QED
    BY <1>4, <2>1
<1> DEFINE g == [v \in SUBSET C |-> f[v]]
<1>6. ASSUME NEW v \in SUBSET C
      PROVE  g[v] = Row(g, v)
  <2>1. Cardinality(C \ v) < Cardinality(C) + 1
    <3>1. C \ v \in SUBSET C
      OBVIOUS
    <3>2. Cardinality(C \ v) <= Cardinality(C) /\ Cardinality(C) \in Nat
      BY <1>1, <3>1, FS_Subset, FS_CardinalityType
    <3> QED
      BY <1>2, <3>2
  <2>2. g[v] = Row(f, v)
    BY <1>5, <2>1
  <2>3. \A m \in C \ v : f[v \cup {m}] = g[v \cup {m}]
    BY <1>2
  <2> QED
    BY <1>3, <2>2, <2>3
<1>7. g = [v \in SUBSET C |-> Row(g, v)]
  BY <1>6
<1> QED
  BY <1>7 DEF IsSearch, C, Row

\* That function is what solve_migration_graph calls at first, with nothing visited.
LEMMA SolutionIsSearch ==
    ASSUME NEW mods, WellFormed(mods)
    PROVE  \E path : IsSearch(mods, path) /\ Solution(mods) = path[{}][Current(mods)]
<1> DEFINE path == CHOOSE path : IsSearch(mods, path)
<1>1. IsSearch(mods, path)
  BY SearchExists, Zenon
<1>2. Solution(mods) = path[{}][Current(mods)]
  BY DEF Solution, IsSearch
<1> QED
  BY <1>1, <1>2

\* Before any step the versions are the current ones.
LEMMA AfterNone == ASSUME NEW cur \in Versions, NEW p PROVE After(cur, p, 0) = cur
<1>1. \A n \in Module : {i \in 1..0 : p[i].mod = n} = {}
  OBVIOUS
<1> QED
  BY <1>1 DEF After, Versions

\* The versions after a path are those after its other steps, begun where the first leads.
LEMMA AfterFirst ==
    ASSUME NEW cur \in Versions, NEW m \in Migration, NEW q \in Seq(Migration), NEW k \in 0..Len(q)
    PROVE  After(cur, <<m>> \o q, k + 1) = After(Advance(cur, m), q, k)
<1> DEFINE p == <<m>> \o q
           own(n) == {i \in 1..k : q[i].mod = n}
           all(n) == {i \in 1..(k + 1) : p[i].mod = n}
<1>1. p[1] = m /\ \A i \in 1..Len(q) : p[i + 1] = q[i]
  BY PathFrom
<1>2. k \in Nat /\ Len(q) \in Nat /\ k <= Len(q)
  BY LenProperties
<1> HIDE DEF p
<1>3. ASSUME NEW n \in Module
      PROVE  (IF all(n) = {} THEN cur[n] ELSE p[Highest(all(n))].ver)
                = (IF own(n) = {} THEN Advance(cur, m)[n] ELSE q[Highest(own(n))].ver)
  <2>1. \A i \in 1..k : i + 1 \in all(n) <=> i \in own(n)
    BY <1>1, <1>2
  <2>2. 1 \in all(n) <=> m.mod = n
    BY <1>1, <1>2
  <2>3. ASSUME NEW i \in all(n), i # 1
        PROVE  i - 1 \in own(n)
    <3>1. i - 1 \in 1..k /\ (i - 1) + 1 = i
      BY <1>2, <2>3
    <3> QED
      BY <2>1, <3>1
  <2>4. own(n) \subseteq 1..k /\ all(n) \subseteq 1..(k + 1) /\ own(n) \subseteq Nat /\ all(n) \subseteq Nat
    BY <1>2
  <2>5. IsFiniteSet(own(n)) /\ IsFiniteSet(all(n))
    <3>1. 1 \in Int /\ k \in Int /\ k + 1 \in Int
      BY <1>2
    <3>2. IsFiniteSet(1..k) /\ IsFiniteSet(1..(k + 1))
      BY <3>1, FS_Interval
    <3> HIDE DEF own, all
    <3> QED
      BY <2>4, <3>2, FS_Subset
  <2> HIDE DEF own, all
  <2>6. CASE own(n) # {}
    <3> DEFINE h == Highest(own(n))
    <3>1. h \in own(n) /\ \A i \in own(n) : i <= h
      BY <2>4, <2>5, <2>6, HighestIs
    <3>2. h \in 1..k /\ h \in Nat
      BY <2>4, <3>1
    <3> HIDE DEF h
    <3>3. h + 1 \in all(n)
      BY <2>1, <3>1, <3>2
    <3>4. ASSUME NEW i \in all(n)
          PROVE  i <= h + 1
      <4>1. CASE i = 1
        BY <3>2, <4>1
      <4>2. CASE i # 1
        <5>1. i - 1 <= h /\ i \in Nat
          BY <2>3, <2>4, <3>1, <4>2
        <5> QED
          BY <3>2, <5>1
      <4> QED
        BY <4>1, <4>2
    <3>5. Highest(all(n)) = h + 1
      BY <2>4, <3>3, <3>4, HighestOnly
    <3>6. p[h + 1] = q[h]
      BY <1>1, <1>2, <3>2
    <3> QED
      BY <2>6, <3>3, <3>5, <3>6 DEF h
  <2>7. CASE own(n) = {} /\ m.mod = n
    <3>1. 1 \in all(n) /\ \A i \in all(n) : i <= 1
      BY <2>2, <2>3, <2>4, <2>7
    <3>2. Highest(all(n)) = 1
      BY <2>4, <3>1, HighestOnly
    <3>3. Advance(cur, m)[n] = m.ver
      BY <2>7, AdvanceType
    <3> QED
      BY <1>1, <2>7, <3>1, <3>2, <3>3
  <2>8. CASE own(n) = {} /\ m.mod # n
    <3>1. all(n) = {}
      BY <2>2, <2>3, <2>8
    <3>2. Advance(cur, m)[n] = cur[n]
      BY <2>8, AdvanceType
    <3> QED
      BY <2>8, <3>1, <3>2
  <2> QED
    BY <2>6, <2>7, <2>8
<1> HIDE DEF own, all
<1>4. After(cur, p, k + 1) = [n \in Module |-> IF all(n) = {} THEN cur[n] ELSE p[Highest(all(n))].ver]
  BY DEF After, all
<1>5. After(Advance(cur, m), q, k) =
        [n \in Module |-> IF own(n) = {} THEN Advance(cur, m)[n] ELSE q[Highest(own(n))].ver]
  BY DEF After, own
<1>6. After(cur, p, k + 1) = After(Advance(cur, m), q, k)
  BY <1>3, <1>4, <1>5
<1> QED
  BY <1>6 DEF p

\* No steps are a good path exactly where the targets are reached.
LEMMA GoodNone ==
    ASSUME NEW targets, NEW cur \in Versions
    PROVE  Good(targets, cur, <<>>) <=> Reached(targets, cur)
<1>1. Len(<<>>) = 0 /\ After(cur, <<>>, 0) = cur
  BY AfterNone
<1>2. 1..0 = {}
  OBVIOUS
<1> QED
  BY <1>1, <1>2 DEF Good

\* A good path is a migration that fits, and a good path from where it leads.
LEMMA GoodFirst ==
    ASSUME NEW targets, NEW cur \in Versions, NEW m \in Migration, NEW q \in Seq(Migration)
    PROVE  Good(targets, cur, <<m>> \o q) <=> Fits(m, cur) /\ Good(targets, Advance(cur, m), q)
<1> DEFINE p == <<m>> \o q
           next == Advance(cur, m)
<1>1. p[1] = m /\ Len(p) = Len(q) + 1 /\ \A i \in 1..Len(q) : p[i + 1] = q[i]
  BY PathFrom
<1>2. Len(q) \in Nat
  BY LenProperties
<1>3. After(cur, p, 0) = cur /\ \A k \in 0..Len(q) : After(cur, p, k + 1) = After(next, q, k)
  BY AfterNone, AfterFirst
<1> HIDE DEF p, next
<1> DEFINE FitsAt(i) == Fits(p[i], After(cur, p, i - 1))
<1>4. FitsAt(1) <=> Fits(m, cur)
  <2>1. 1 - 1 = 0
    OBVIOUS
  <2> QED
    BY <1>1, <1>3, <2>1
<1>5. ASSUME NEW i \in 1..Len(q)
      PROVE  FitsAt(i + 1) <=> Fits(q[i], After(next, q, i - 1))
  <2>1. (i + 1) - 1 = (i - 1) + 1 /\ i - 1 \in 0..Len(q)
    BY <1>2
  <2>2. After(cur, p, (i + 1) - 1) = After(next, q, i - 1)
    BY <1>3, <2>1
  <2> QED
    BY <1>1, <2>2
<1> HIDE DEF FitsAt
<1>6. (\A i \in 1..Len(p) : FitsAt(i)) <=> Fits(m, cur) /\ \A i \in 1..Len(q) : Fits(q[i], After(next, q, i - 1))
  <2>1. 1 \in 1..Len(p) /\ \A i \in 1..Len(q) : i + 1 \in 1..Len(p)
    BY <1>1, <1>2
  <2>2. ASSUME NEW i \in 1..Len(p), i # 1
        PROVE  i - 1 \in 1..Len(q) /\ (i - 1) + 1 = i
    BY <1>1, <1>2, <2>2
  <2>3. (\A i \in 1..Len(p) : FitsAt(i)) <=> FitsAt(1) /\ \A i \in 1..Len(q) : FitsAt(i + 1)
    BY <2>1, <2>2
  <2> QED
    BY <1>4, <1>5, <2>3
<1>7. After(cur, p, Len(p)) = After(next, q, Len(q))
  BY <1>1, <1>2, <1>3
<1>8. Good(targets, cur, p) <=> (\A i \in 1..Len(p) : FitsAt(i)) /\ Reached(targets, After(cur, p, Len(p)))
  BY DEF Good, FitsAt
<1>9. Good(targets, next, q) <=> /\ \A i \in 1..Len(q) : Fits(q[i], After(next, q, i - 1))
                                 /\ Reached(targets, After(next, q, Len(q)))
  BY DEF Good
<1>10. Good(targets, cur, p) <=> Fits(m, cur) /\ Good(targets, next, q)
  BY <1>6, <1>7, <1>8, <1>9
<1> QED
  BY <1>10 DEF p, next

\* A path is of distinct migrations if the first is not among the others, which are distinct.
LEMMA DistinctFirst ==
    ASSUME NEW S, NEW m \in S, NEW q \in Seq(S)
    PROVE  Distinct(<<m>> \o q) <=> Distinct(q) /\ q \in Seq(S \ {m})
<1> DEFINE p == <<m>> \o q
<1>1. p[1] = m /\ Len(p) = Len(q) + 1 /\ \A i \in 1..Len(q) : p[i + 1] = q[i]
  BY PathFrom
<1>2. Len(q) \in Nat
  BY LenProperties
<1>3. q \in Seq(S \ {m}) <=> \A i \in 1..Len(q) : q[i] # m
  <2>1. \A i \in 1..Len(q) : q[i] \in S
    OBVIOUS
  <2>2. q = [i \in 1..Len(q) |-> q[i]]
    OBVIOUS
  <2> QED
    BY <1>2, <2>1, <2>2
<1> HIDE DEF p
<1>4. 1 \in 1..Len(p) /\ \A i \in 1..Len(q) : i + 1 \in 1..Len(p) /\ i + 1 # 1
  BY <1>1, <1>2
<1>5. \A i \in 1..Len(p) : i = 1 \/ (i - 1 \in 1..Len(q) /\ p[i] = q[i - 1])
  <2>1. ASSUME NEW i \in 1..Len(p), i # 1
        PROVE  i - 1 \in 1..Len(q) /\ (i - 1) + 1 = i
    BY <1>1, <1>2, <2>1
  <2> QED
    BY <1>1, <2>1
<1>6. ASSUME Distinct(p)
      PROVE  Distinct(q) /\ \A i \in 1..Len(q) : q[i] # m
  <2>1. \A i \in 1..Len(q) : q[i] # m
    BY <1>1, <1>4, <1>6 DEF Distinct
  <2>2. ASSUME NEW i \in 1..Len(q), NEW j \in 1..Len(q), q[i] = q[j]
        PROVE  i = j
    <3>1. i + 1 = j + 1
      BY <1>1, <1>4, <1>6, <2>2 DEF Distinct
    <3> QED
      BY <1>2, <3>1
  <2> QED
    BY <2>1, <2>2 DEF Distinct
<1>7. ASSUME Distinct(q), \A i \in 1..Len(q) : q[i] # m
      PROVE  Distinct(p)
  <2>1. ASSUME NEW i \in 1..Len(p), NEW j \in 1..Len(p), p[i] = p[j]
        PROVE  i = j
    <3>1. CASE i = 1 \/ j = 1
      BY <1>1, <1>5, <1>7, <2>1, <3>1
    <3>2. CASE i # 1 /\ j # 1
      <4>1. q[i - 1] = q[j - 1] /\ i - 1 \in 1..Len(q) /\ j - 1 \in 1..Len(q)
        BY <1>5, <2>1, <3>2
      <4>2. i - 1 = j - 1
        BY <1>7, <4>1 DEF Distinct
      <4>3. i \in Nat /\ j \in Nat
        BY <1>1, <1>2
      <4> QED
        BY <4>2, <4>3
    <3> QED
      BY <3>1, <3>2
  <2> QED
    BY <2>1 DEF Distinct
<1>8. Distinct(p) <=> Distinct(q) /\ q \in Seq(S \ {m})
  BY <1>3, <1>6, <1>7
<1> QED
  BY <1>8 DEF p

\* An order of some migrations that can be applied one by one and that leads to the targets.
Path(mods, S, cur, p) == p \in Seq(S) /\ Distinct(p) /\ Good(Targets(mods), cur, p)

\* What a search among some migrations is to return.
Shortest(mods, S, cur, r) ==
    /\ r = NULL \/ Path(mods, S, cur, r)
    /\ \A p \in Seq(S) : Path(mods, S, cur, p) => r # NULL /\ Len(r) <= Len(p)

\* A path is a migration that fits, and a path without it from where it leads.
LEMMA PathFirst ==
    ASSUME NEW mods, NEW S, S \subseteq Migration, NEW cur \in Versions, NEW m \in S, NEW q \in Seq(S)
    PROVE  Path(mods, S, cur, <<m>> \o q) <=> Fits(m, cur) /\ Path(mods, S \ {m}, Advance(cur, m), q)
<1>1. m \in Migration /\ q \in Seq(Migration) /\ <<m>> \o q \in Seq(S)
  BY SeqSubset, PathFrom
<1>2. Good(Targets(mods), cur, <<m>> \o q) <=> Fits(m, cur) /\ Good(Targets(mods), Advance(cur, m), q)
  BY <1>1, GoodFirst
<1>3. Distinct(<<m>> \o q) <=> Distinct(q) /\ q \in Seq(S \ {m})
  BY DistinctFirst
<1> QED
  BY <1>1, <1>2, <1>3 DEF Path

\* One call returns a shortest path if those in it do.
LEMMA SearchStep ==
    ASSUME NEW mods, WellFormed(mods), NEW path, NEW v \in SUBSET Considered(mods), NEW cur \in Versions,
           \A m \in Considered(mods) \ v :
               Shortest(mods, Considered(mods) \ (v \cup {m}), Advance(cur, m), Rest(path, v, cur, m))
    PROVE  Shortest(mods, Considered(mods) \ v, cur, Search(mods, path, v, cur))
<1> DEFINE S == Considered(mods) \ v
           rest(m) == Rest(path, v, cur, m)
           r == Search(mods, path, v, cur)
           Steps == {m \in S : CanApply(m, cur) /\ rest(m) # NULL}
           Found == {<<m>> \o rest(m) : m \in Steps}
<1>1. S \subseteq Migration /\ \A a, b \in S : a.mod = b.mod /\ a.uuid = b.uuid => a = b
  BY ConsideredIs
<1>2. ASSUME NEW m \in S
      PROVE  /\ Shortest(mods, S \ {m}, Advance(cur, m), rest(m))
             /\ Advance(cur, m) \in Versions
             /\ CanApply(m, cur) <=> Fits(m, cur)
  <2>1. S \ {m} = Considered(mods) \ (v \cup {m})
    OBVIOUS
  <2>2. m \in Migration
    BY <1>1
  <2> QED
    BY <2>1, <2>2, AdvanceType, AppliesIfFits
<1>3. r = IF Reached(Targets(mods), cur) THEN <<>>
          ELSE IF Found = {} THEN NULL
          ELSE CHOOSE p \in Found : \A q \in Found : q = p \/ BetterThan(p, q)
  <2> DEFINE tries == Tries(mods, path, v, cur)
             paths == {<<t[1]>> \o t[2] : t \in {t \in tries : t[2] # NULL}}
  <2>1. r = IF Reached(Targets(mods), cur) THEN <<>>
            ELSE IF paths = {} THEN NULL
            ELSE CHOOSE p \in paths : \A q \in paths : q = p \/ BetterThan(p, q)
    BY DEF Search, Tries, Rest
  <2>2. paths = Found
    <3>1. \A m : <<m, rest(m)>>[1] = m /\ <<m, rest(m)>>[2] = rest(m)
      OBVIOUS
    <3>2. tries = {<<m, rest(m)>> : m \in {m \in S : CanApply(m, cur)}}
      BY DEF Tries
    <3> HIDE DEF S, rest, tries
    <3>3. ASSUME NEW m \in Steps
          PROVE  <<m>> \o rest(m) \in paths
      BY <3>1, <3>2
    <3>4. ASSUME NEW p \in paths
          PROVE  p \in Found
      <4>1. PICK t \in tries : t[2] # NULL /\ p = <<t[1]>> \o t[2]
        OBVIOUS
      <4>2. PICK m \in S : CanApply(m, cur) /\ t = <<m, rest(m)>>
        BY <3>2
      <4>3. t[1] = m /\ t[2] = rest(m)
        BY <3>1, <4>2
      <4> HIDE DEF paths
      <4> QED
        BY <4>1, <4>2, <4>3
    <3> QED
      BY <3>3, <3>4
  <2> HIDE DEF r, paths, Found
  <2> QED
    BY <2>1, <2>2
<1> SUFFICES Shortest(mods, S, cur, r)
  OBVIOUS
<1> HIDE DEF S, rest, r
<1>4. ASSUME NEW m \in Steps
      PROVE  /\ m \in S /\ rest(m) \in Seq(S) /\ Path(mods, S, cur, <<m>> \o rest(m))
             /\ <<m>> \o rest(m) \in Seq(S)
             /\ Len(<<m>> \o rest(m)) = Len(rest(m)) + 1 /\ (<<m>> \o rest(m))[1] = m
  <2>1. m \in S /\ Fits(m, cur) /\ rest(m) # NULL
    BY <1>2
  <2>2. Path(mods, S \ {m}, Advance(cur, m), rest(m))
    BY <1>2, <2>1 DEF Shortest
  <2>3. rest(m) \in Seq(S)
    BY <2>2, SeqSubset DEF Path
  <2> QED
    BY <1>1, <2>1, <2>2, <2>3, PathFirst, PathFrom
<1>5. CASE Reached(Targets(mods), cur)
  <2>1. r = <<>>
    BY <1>3, <1>5
  <2>2. Path(mods, S, cur, <<>>)
    <3>1. <<>> \in Seq(S) /\ Len(<<>>) = 0
      OBVIOUS
    <3>2. Distinct(<<>>)
      BY <3>1 DEF Distinct
    <3> QED
      BY <1>5, <3>1, <3>2, GoodNone DEF Path
  <2>3. NULL \notin Seq(S) /\ <<>> \in Seq(S)
    BY <1>1, NullIsNoPath
  <2>4. \A p \in Seq(S) : 0 <= Len(p)
    BY LenProperties
  <2> QED
    BY <2>1, <2>2, <2>3, <2>4 DEF Shortest
<1>6. CASE ~Reached(Targets(mods), cur)
  <2>1. ASSUME NEW p \in Seq(S), Path(mods, S, cur, p)
        PROVE  \E m \in Steps : Len(<<m>> \o rest(m)) <= Len(p)
    <3>1. p # <<>>
      BY <1>6, <2>1, GoodNone DEF Path
    <3> DEFINE m == Head(p)
               q == Tail(p)
    <3>2. m \in S /\ q \in Seq(S) /\ p = <<m>> \o q
      BY <3>1, PathSplit
    <3> HIDE DEF m, q
    <3>3. Fits(m, cur) /\ Path(mods, S \ {m}, Advance(cur, m), q)
      BY <1>1, <2>1, <3>2, PathFirst
    <3>4. q \in Seq(S \ {m})
      BY <3>3 DEF Path
    <3>5. rest(m) # NULL /\ Len(rest(m)) <= Len(q)
      BY <1>2, <3>2, <3>3, <3>4 DEF Shortest
    <3>6. m \in Steps
      BY <1>2, <3>2, <3>3, <3>5
    <3>7. Len(p) = Len(q) + 1 /\ Len(q) \in Nat
      BY <3>2, PathFrom, LenProperties
    <3>8. Len(<<m>> \o rest(m)) = Len(rest(m)) + 1 /\ Len(rest(m)) \in Nat
      BY <1>4, <3>6, LenProperties
    <3> QED
      BY <3>5, <3>6, <3>7, <3>8
  <2>2. CASE Found = {}
    <3>1. Steps = {} /\ r = NULL
      BY <1>3, <1>6, <2>2
    <3> QED
      BY <2>1, <3>1 DEF Shortest
  <2>3. CASE Found # {}
    <3>1. \A p \in Found : \E m \in Steps : p = <<m>> \o rest(m) /\ p[1] = m
      BY <1>4
    <3>2. \A p \in Found : p \in Seq(S) /\ Path(mods, S, cur, p) /\ p[1] \in S
      BY <1>4, <3>1
    <3>3. \A p, q \in Found : p[1] = q[1] => p = q
      BY <3>1
    <3>4. \A p \in Found : Len(p) \in Nat /\ p[1] \in S
      BY <3>2, LenProperties
    <3>5. \E p \in Found : \A q \in Found : q = p \/ BetterThan(p, q)
      <4> HIDE DEF Found
      <4> QED
        BY <1>1, <2>3, <3>3, <3>4, BestExists
    <3>6. r \in Found /\ \A q \in Found : q = r \/ BetterThan(r, q)
      <4> HIDE DEF Found
      <4>1. r = CHOOSE p \in Found : \A q \in Found : q = p \/ BetterThan(p, q)
        BY <1>3, <1>6, <2>3
      <4> QED
        BY <3>5, <4>1, Zenon
    <3>7. ASSUME NEW p \in Seq(S), Path(mods, S, cur, p)
          PROVE  Len(r) <= Len(p)
      <4>1. PICK m \in Steps : Len(<<m>> \o rest(m)) <= Len(p)
        BY <2>1, <3>7
      <4> DEFINE q == <<m>> \o rest(m)
      <4>2. q \in Found
        OBVIOUS
      <4>3. Len(q) <= Len(p)
        BY <4>1
      <4> HIDE DEF q, Found
      <4>4. Len(r) <= Len(q)
        BY <3>4, <3>6, <4>2 DEF BetterThan
      <4>5. Len(p) \in Nat /\ Len(q) \in Nat /\ Len(r) \in Nat
        BY <3>4, <3>6, <4>2, LenProperties
      <4> QED
        BY <4>3, <4>4, <4>5
    <3>8. r # NULL /\ Path(mods, S, cur, r)
      BY <1>1, <3>2, <3>6, NullIsNoPath
    <3> QED
      BY <3>7, <3>8 DEF Shortest
  <2> QED
    BY <2>2, <2>3
<1> QED
  BY <1>5, <1>6

\* And so does the whole: of calls that did not, take one with the fewest migrations to consider.
LEMMA SolutionIsShortest ==
    ASSUME NEW mods, WellFormed(mods)
    PROVE  Shortest(mods, Considered(mods), Current(mods), Solution(mods))
<1> DEFINE C == Considered(mods)
<1>1. PICK path : IsSearch(mods, path) /\ Solution(mods) = path[{}][Current(mods)]
  BY SolutionIsSearch
<1> DEFINE Right(v, cur) == Shortest(mods, C \ v, cur, path[v][cur])
           Wrong == {n \in Nat : \E v \in SUBSET C, cur \in Versions : Cardinality(C \ v) = n /\ ~Right(v, cur)}
<1>2. IsFiniteSet(C) /\ C \subseteq Migration /\ Current(mods) \in Versions
  BY ConsideredIs
<1>3. ASSUME NEW v \in SUBSET C, NEW cur \in Versions
      PROVE  path[v][cur] = Search(mods, path, v, cur)
  BY <1>1 DEF IsSearch
<1>4. Wrong = {}
  <2>1. SUFFICES ASSUME Wrong # {} PROVE FALSE
    OBVIOUS
  <2>2. PICK n \in Wrong : \A k \in Wrong : n <= k
    <3> HIDE DEF Wrong
    <3>1. Wrong \subseteq Nat
      BY DEF Wrong
    <3> QED
      BY <2>1, <3>1, LeastExists
  <2>3. PICK v \in SUBSET C, cur \in Versions : Cardinality(C \ v) = n /\ ~Right(v, cur)
    BY <2>2
  <2>4. n \in Nat
    BY <2>2
  <2>5. ASSUME NEW m \in C \ v
        PROVE  Right(v \cup {m}, Advance(cur, m))
    <3> DEFINE u == v \cup {m}
    <3>1. u \in SUBSET C /\ Advance(cur, m) \in Versions
      BY <1>2, AdvanceType
    <3>2. C \ u = (C \ v) \ {m}
      OBVIOUS
    <3>3. Cardinality(C \ u) = n - 1 /\ Cardinality(C \ u) \in Nat
      <4> HIDE DEF C, u
      <4>1. IsFiniteSet(C \ v)
        BY <1>2, FS_Difference
      <4> DEFINE D == C \ v
      <4>3. m \in D
        OBVIOUS
      <4>4. IsFiniteSet(D \ {m}) /\ Cardinality(D \ {m}) = Cardinality(D) - 1
        <5> HIDE DEF D
        <5> QED
          BY <4>1, <4>3, FS_RemoveElement DEF D
      <4>2. IsFiniteSet(C \ u) /\ Cardinality(C \ u) = Cardinality(C \ v) - 1
        BY <3>2, <4>4
      <4> QED
        BY <2>3, <4>2, FS_CardinalityType
    <3>4. n - 1 \notin Wrong
      BY <2>2, <2>4, <3>3
    <3> HIDE DEF u, Right
    <3>5. Right(u, Advance(cur, m))
      BY <3>1, <3>3, <3>4
    <3> QED
      BY <3>5 DEF u
  <2>6. \A m \in C \ v : Shortest(mods, C \ (v \cup {m}), Advance(cur, m), Rest(path, v, cur, m))
    BY <2>5 DEF Rest
  <2>7. Right(v, cur)
    BY <1>3, <2>6, SearchStep
  <2> QED
    BY <2>3, <2>7
<1>5. Right({}, Current(mods))
  <2>1. {} \in SUBSET C /\ Cardinality(C \ {}) \in Nat
    BY <1>2, FS_CardinalityType, FS_Difference
  <2> HIDE DEF Right
  <2> QED
    BY <1>2, <1>4, <2>1
<1>6. C \ {} = C
  OBVIOUS
<1> QED
  BY <1>1, <1>5, <1>6

\* The reference definition's orders are the sequences of distinct migrations: of finitely many there
\* are no longer ones.
LEMMA OrdersAre ==
    ASSUME NEW S, IsFiniteSet(S), NEW p
    PROVE  p \in Orders(S) <=> p \in Seq(S) /\ Distinct(p)
<1>1. ASSUME p \in Orders(S)
      PROVE  p \in Seq(S) /\ Distinct(p)
  <2>1. PICK n \in 0..Cardinality(S) : p \in [1..n -> S] /\ \A i, j \in 1..n : i # j => p[i] # p[j]
    BY <1>1 DEF Orders
  <2>2. n \in Nat
    BY <2>1, FS_CardinalityType
  <2>3. p \in Seq(S) /\ Len(p) = n
    BY <2>1, <2>2
  <2> QED
    BY <2>1, <2>3 DEF Distinct
<1>2. ASSUME p \in Seq(S), Distinct(p)
      PROVE  p \in Orders(S)
  <2> DEFINE n == Len(p)
  <2>1. n \in Nat /\ p \in [1..n -> S]
    BY <1>2, LenProperties
  <2>2. p \in Injection(1..n, S)
    BY <1>2, <2>1 DEF Distinct, Injection, IsInjective
  <2>3. IsFiniteSet(1..n) /\ Cardinality(1..n) = n
    BY <2>1, FS_Interval
  <2>4. n <= Cardinality(S)
    BY <2>2, <2>3, FS_Injection
  <2>5. n \in 0..Cardinality(S)
    BY <2>1, <2>4, FS_CardinalityType
  <2>6. \A i, j \in 1..n : i # j => p[i] # p[j]
    BY <1>2 DEF Distinct
  <2> HIDE DEF n
  <2> QED
    BY <2>1, <2>5, <2>6 DEF Orders
<1> QED
  BY <1>1, <1>2

\* So the good orders are the paths of the search.
LEMMA GoodOrdersAre ==
    ASSUME NEW mods, WellFormed(mods), NEW p
    PROVE  p \in GoodOrders(mods) <=> Path(mods, Considered(mods), Current(mods), p)
<1>1. IsFiniteSet(Considered(mods))
  BY ConsideredIs
<1>2. p \in Orders(Considered(mods)) <=> p \in Seq(Considered(mods)) /\ Distinct(p)
  BY <1>1, OrdersAre
<1> QED
  BY <1>2 DEF GoodOrders, Path

\* solve_migration_graph, for any modules whose migrations have ids of their own: it returns None
\* exactly if no order of distinct migrations that fit brings all modules to their targets, and
\* otherwise such an order that no other is shorter than.
THEOREM SolverIsRight ==
    ASSUME NEW mods, WellFormed(mods)
    PROVE  IF GoodOrders(mods) = {} THEN Solution(mods) = NULL
           ELSE /\ Solution(mods) \in GoodOrders(mods)
                /\ \A q \in GoodOrders(mods) : Len(Solution(mods)) <= Len(q)
<1> DEFINE C == Considered(mods)
           cur == Current(mods)
           r == Solution(mods)
<1>1. /\ r = NULL \/ Path(mods, C, cur, r)
      /\ \A p \in Seq(C) : Path(mods, C, cur, p) => r # NULL /\ Len(r) <= Len(p)
  BY SolutionIsShortest DEF Shortest
<1>2. \A p : p \in GoodOrders(mods) <=> Path(mods, C, cur, p)
  BY GoodOrdersAre
<1>3. \A p : Path(mods, C, cur, p) => p \in Seq(C)
  BY DEF Path
<1> HIDE DEF C, cur, r
<1>4. IF GoodOrders(mods) = {} THEN r = NULL
      ELSE r \in GoodOrders(mods) /\ \A q \in GoodOrders(mods) : Len(r) <= Len(q)
  <2>1. ASSUME NEW q \in GoodOrders(mods)
        PROVE  r # NULL /\ Len(r) <= Len(q)
    BY <1>1, <1>2, <1>3
  <2> QED
    BY <1>1, <1>2, <2>1
<1> QED
  BY <1>4 DEF r

-----------------------------------------------------------------------------
(* The schemas *)

\* The versions that some migrations lead to.
VersionsOf(S) == {m.ver : m \in S}

\* The versions of finitely many migrations.
LEMMA VersionsFinite ==
    ASSUME NEW S, S \subseteq Migration, IsFiniteSet(S)
    PROVE  VersionsOf(S) \subseteq Nat /\ IsFiniteSet(VersionsOf(S))
<1> DEFINE f == [m \in S |-> m.ver]
<1>1. f \in Surjection(S, VersionsOf(S))
  BY DEF Surjection, VersionsOf
<1> QED
  BY <1>1, FS_Surjection DEF VersionsOf, Migration

\* What is assumed of an installation.
LEMMA WorldIs ==
    ASSUME world \in World
    PROVE  /\ world.server \subseteq Nat /\ IsFiniteSet(world.server)
           /\ world.org \subseteq Migration /\ IsFiniteSet(world.org)
           /\ \A a, b \in world.org : a.uuid = b.uuid => a = b
           /\ \A m \in world.org : m.mod = "org"
           /\ \A m \in world.org : \E dep \in m.deps : dep.mod = "org" /\ dep.max # NULL /\ dep.max < m.ver
           /\ Known(world.db)
           /\ world.db.data \/ world.db = Empty
  BY MigrateAssumption DEF Known

\* The latest version of a schema, and the version that the organizer says it is at.
LEMMA LatestIs ==
    ASSUME world \in World, NEW d, Known(d)
    PROVE  /\ d.server \subseteq Nat /\ IsFiniteSet(d.server) /\ d.org \subseteq Nat /\ IsFiniteSet(d.org)
           /\ d.server = {} => Latest(d.server) = NULL
           /\ d.server # {} => /\ Latest(d.server) \in d.server /\ \A w \in d.server : w <= Latest(d.server)
           /\ Latest(d.server) \in Nat \cup {NULL} /\ (Latest(d.server) = NULL => d.server = {})
           /\ OrgVersion(d) \in Nat /\ \A w \in d.org : w <= OrgVersion(d)
           /\ OrgVersion(d) # 0 => OrgVersion(d) \in d.org
<1>1. d.server \subseteq Nat /\ IsFiniteSet(d.server)
  BY WorldIs, FS_Subset DEF Known
<1>2. d.org \subseteq Nat /\ IsFiniteSet(d.org)
  <2>1. VersionsOf(world.org) \subseteq Nat /\ IsFiniteSet(VersionsOf(world.org))
    BY WorldIs, VersionsFinite
  <2>2. d.org \in SUBSET VersionsOf(world.org)
    BY DEF Known, VersionsOf
  <2> QED
    BY <2>1, <2>2, FS_Subset
<1>3. d.server # {} => Highest(d.server) \in d.server /\ \A w \in d.server : w <= Highest(d.server)
  BY <1>1, HighestIs
<1>4. d.org # {} => Highest(d.org) \in d.org /\ \A w \in d.org : w <= Highest(d.org)
  BY <1>2, HighestIs
<1>5. NULL \notin Nat
  BY MigrateAssumption
<1> QED
  BY <1>1, <1>2, <1>3, <1>4, <1>5 DEF Latest, OrgVersion

\* A version higher than all there are is the latest once it is there.
LEMMA LatestOfMore ==
    ASSUME NEW S, S \subseteq Nat, NEW v \in Nat, \A w \in S : w < v
    PROVE  Highest(S \cup {v}) = v
<1>1. S \cup {v} \subseteq Nat /\ v \in S \cup {v} /\ \A w \in S \cup {v} : w <= v
  OBVIOUS
<1> QED
  BY <1>1, HighestOnly

\* The server's migrations that are not applied, and those before one of them.
Pending(d) == world.server \ d.server

Older(v, d) == {w \in Pending(d) : w < v}

\* What a migration of the server is made for.
LEMMA ServerMigrationIs ==
    ASSUME world \in World, NEW d, Known(d), NEW v \in Nat
    PROVE  LET prev == IF Older(v, d) = {} THEN Latest(d.server) ELSE Highest(Older(v, d))
           IN  /\ ServerMigration(v, d) \in Migration
               /\ ServerMigration(v, d) = [uuid |-> v, mod |-> "server", ver |-> v,
                                           deps |-> {[mod |-> "server", min |-> prev, max |-> prev]}]
               /\ prev \in Nat \cup {NULL}
               /\ Older(v, d) # {} => /\ Highest(Older(v, d)) \in Older(v, d) /\ Highest(Older(v, d)) \in Nat
                                      /\ \A w \in Older(v, d) : w <= Highest(Older(v, d))
<1> DEFINE prev == IF Older(v, d) = {} THEN Latest(d.server) ELSE Highest(Older(v, d))
<1>1. Older(v, d) \subseteq Nat /\ IsFiniteSet(Older(v, d))
  BY WorldIs, FS_Subset DEF Older, Pending
<1>2. Older(v, d) # {} => /\ Highest(Older(v, d)) \in Older(v, d) /\ Highest(Older(v, d)) \in Nat
                          /\ \A w \in Older(v, d) : w <= Highest(Older(v, d))
  BY <1>1, HighestIs
<1>3. prev \in Nat \cup {NULL}
  BY <1>2, LatestIs
<1>4. ServerMigration(v, d) = [uuid |-> v, mod |-> "server", ver |-> v,
                               deps |-> {[mod |-> "server", min |-> prev, max |-> prev]}]
  BY DEF ServerMigration, Older, Pending
<1> HIDE DEF prev
<1>5. {[mod |-> "server", min |-> prev, max |-> prev]} \in SUBSET Dependency
  BY <1>3 DEF Dependency, Module
<1>6. ServerMigration(v, d) \in Migration
  BY <1>4, <1>5 DEF Migration, Module
<1> QED
  BY <1>2, <1>3, <1>4, <1>6 DEF prev

\* What migrate_db collects.
LEMMA ModulesAre ==
    ASSUME world \in World, NEW d, Known(d)
    PROVE  LET mods == ModulesOf(d) IN
           /\ mods["server"].cur = Latest(d.server) /\ mods["org"].cur = OrgVersion(d)
           /\ mods["server"].migrations = {ServerMigration(v, d) : v \in Pending(d)}
           /\ mods["org"].migrations = OrgPending(d)
           /\ Current(mods)["server"] = Latest(d.server) /\ Current(mods)["org"] = OrgVersion(d)
           /\ WellFormed(mods)
<1> DEFINE mods == ModulesOf(d)
<1>1. /\ mods["server"].cur = Latest(d.server) /\ mods["org"].cur = OrgVersion(d)
      /\ mods["server"].migrations = {ServerMigration(v, d) : v \in Pending(d)}
      /\ mods["org"].migrations = OrgPending(d)
  BY DEF ModulesOf, Pending
<1> HIDE DEF mods
<1>2. Current(mods)["server"] = Latest(d.server) /\ Current(mods)["org"] = OrgVersion(d)
  BY <1>1 DEF Current, Module
<1>3. Pending(d) \subseteq Nat /\ IsFiniteSet(Pending(d))
  BY WorldIs, FS_Difference DEF Pending
<1>4. /\ mods["server"].migrations \subseteq Migration /\ IsFiniteSet(mods["server"].migrations)
      /\ \A a \in mods["server"].migrations : a.mod = "server"
      /\ \A a, b \in mods["server"].migrations : a.uuid = b.uuid => a = b
  <2> DEFINE f == [v \in Pending(d) |-> ServerMigration(v, d)]
  <2>1. f \in Surjection(Pending(d), mods["server"].migrations)
    BY <1>1 DEF Surjection
  <2>2. IsFiniteSet(mods["server"].migrations)
    BY <1>3, <2>1, FS_Surjection
  <2>3. \A v \in Pending(d) : /\ ServerMigration(v, d) \in Migration
                              /\ ServerMigration(v, d).mod = "server" /\ ServerMigration(v, d).uuid = v
    BY <1>3, ServerMigrationIs
  <2> QED
    BY <1>1, <2>2, <2>3
<1>5. /\ mods["org"].migrations \subseteq Migration /\ IsFiniteSet(mods["org"].migrations)
      /\ \A a \in mods["org"].migrations : a.mod = "org"
      /\ \A a, b \in mods["org"].migrations : a.uuid = b.uuid => a = b
  <2>1. OrgPending(d) \subseteq world.org /\ IsFiniteSet(OrgPending(d))
    BY WorldIs, FS_Subset DEF OrgPending
  <2> QED
    BY <1>1, <2>1, WorldIs
<1>6. mods["server"].cur \in Nat \cup {NULL} /\ mods["org"].cur \in Nat \cup {NULL}
  BY <1>1, LatestIs
<1>7. WellFormed(mods)
  <2> SUFFICES ASSUME NEW n \in Module
               PROVE  /\ mods[n].cur \in Nat \cup {NULL}
                      /\ mods[n].migrations \subseteq Migration /\ IsFiniteSet(mods[n].migrations)
                      /\ \A a \in mods[n].migrations : a.mod = n
                      /\ \A a, b \in mods[n].migrations : a.uuid = b.uuid => a = b
    BY DEF WellFormed
  <2>1. CASE n = "server"
    BY <1>4, <1>6, <2>1
  <2>2. CASE n = "org"
    BY <1>5, <1>6, <2>2
  <2> QED
    BY <2>1, <2>2 DEF Module
<1> QED
  BY <1>1, <1>2, <1>7 DEF mods

\* What the solver considers of the modules of a database.
LEMMA ConsideredAre ==
    ASSUME world \in World, NEW d, Known(d), NEW m
    PROVE  m \in Considered(ModulesOf(d)) <=>
              \/ /\ m.mod = "server" /\ m.ver \in Pending(d) /\ m = ServerMigration(m.ver, d)
                 /\ \A w \in d.server : w < m.ver
              \/ m.mod = "org" /\ m \in OrgPending(d)
<1> DEFINE mods == ModulesOf(d)
<1>1. /\ mods["server"].cur = Latest(d.server) /\ mods["org"].cur = OrgVersion(d)
      /\ mods["server"].migrations = {ServerMigration(v, d) : v \in Pending(d)}
      /\ mods["org"].migrations = OrgPending(d)
  BY ModulesAre
<1> HIDE DEF mods
<1>2. m \in Considered(mods) <=>
        \/ m \in mods["server"].migrations /\ (mods["server"].cur = NULL \/ m.ver > mods["server"].cur)
        \/ m \in mods["org"].migrations /\ (mods["org"].cur = NULL \/ m.ver > mods["org"].cur)
  BY DEF Considered, Module
<1>3. m \in mods["server"].migrations <=> m.mod = "server" /\ m.ver \in Pending(d) /\ m = ServerMigration(m.ver, d)
  <2>1. \A v \in Pending(d) : ServerMigration(v, d).mod = "server" /\ ServerMigration(v, d).ver = v
    BY DEF ServerMigration
  <2> QED
    BY <1>1, <2>1
<1>4. m \in mods["org"].migrations => m.mod = "org" /\ m.ver > OrgVersion(d)
  BY <1>1, WorldIs DEF OrgPending
<1>5. ASSUME m.ver \in Pending(d)
      PROVE  (Latest(d.server) = NULL \/ m.ver > Latest(d.server)) <=> \A w \in d.server : w < m.ver
  <2>1. m.ver \in Nat
    BY <1>5, WorldIs DEF Pending
  <2>2. NULL \notin Nat
    BY MigrateAssumption
  <2>3. CASE d.server = {}
    BY <2>3, LatestIs
  <2>4. CASE d.server # {}
    <3>1. /\ Latest(d.server) \in d.server /\ Latest(d.server) \in Nat
          /\ \A w \in d.server : w \in Nat /\ w <= Latest(d.server)
      BY <2>4, LatestIs
    <3> QED
      BY <2>1, <2>2, <3>1
  <2> QED
    BY <2>3, <2>4
<1>6. m \in Considered(mods) <=>
        \/ m.mod = "server" /\ m.ver \in Pending(d) /\ m = ServerMigration(m.ver, d) /\ \A w \in d.server : w < m.ver
        \/ m.mod = "org" /\ m \in OrgPending(d)
  BY <1>1, <1>2, <1>3, <1>4, <1>5
<1> QED
  BY <1>6 DEF mods

\* What the solver aims at.
LEMMA TargetsAre ==
    ASSUME world \in World, NEW d, Known(d)
    PROVE  LET targets == Targets(ModulesOf(d)) IN
           /\ DOMAIN targets \subseteq Module
           /\ "server" \in DOMAIN targets <=> Pending(d) # {}
           /\ "org" \in DOMAIN targets <=> OrgPending(d) # {}
           /\ Pending(d) # {} => targets["server"] \in Pending(d) /\ \A v \in Pending(d) : v <= targets["server"]
           /\ OrgPending(d) # {} => /\ \E m \in OrgPending(d) : m.ver = targets["org"]
                                    /\ \A m \in OrgPending(d) : m.ver <= targets["org"]
<1> DEFINE mods == ModulesOf(d)
           targets == Targets(mods)
<1>1. /\ mods["server"].migrations = {ServerMigration(v, d) : v \in Pending(d)}
      /\ mods["org"].migrations = OrgPending(d)
  BY ModulesAre
<1> HIDE DEF mods
<1>2. /\ DOMAIN targets \subseteq Module
      /\ "server" \in DOMAIN targets <=> mods["server"].migrations # {}
      /\ "org" \in DOMAIN targets <=> mods["org"].migrations # {}
      /\ \A n \in DOMAIN targets : targets[n] = Highest(VersionsOf(mods[n].migrations))
  BY DEF Targets, Module, VersionsOf
<1> HIDE DEF targets
<1>3. VersionsOf(mods["server"].migrations) = Pending(d)
  <2>1. \A v \in Pending(d) : ServerMigration(v, d).ver = v
    BY DEF ServerMigration
  <2> QED
    BY <1>1, <2>1 DEF VersionsOf
<1>4. Pending(d) # {} => Highest(Pending(d)) \in Pending(d) /\ \A v \in Pending(d) : v <= Highest(Pending(d))
  <2>1. Pending(d) \subseteq Nat /\ IsFiniteSet(Pending(d))
    BY WorldIs, FS_Difference DEF Pending
  <2> QED
    BY <2>1, HighestIs
<1>5. OrgPending(d) # {} => LET S == VersionsOf(OrgPending(d)) IN Highest(S) \in S /\ \A v \in S : v <= Highest(S)
  <2>1. OrgPending(d) \subseteq Migration /\ IsFiniteSet(OrgPending(d))
    BY WorldIs, FS_Subset DEF OrgPending
  <2>2. OrgPending(d) # {} => VersionsOf(OrgPending(d)) # {}
    BY DEF VersionsOf
  <2> QED
    BY <2>1, <2>2, VersionsFinite, HighestIs
<1>6. Pending(d) # {} => targets["server"] = Highest(Pending(d))
  BY <1>1, <1>2, <1>3
<1>7. OrgPending(d) # {} => targets["org"] = Highest(VersionsOf(OrgPending(d)))
  BY <1>1, <1>2
<1>8. /\ DOMAIN targets \subseteq Module
      /\ "server" \in DOMAIN targets <=> Pending(d) # {}
      /\ "org" \in DOMAIN targets <=> OrgPending(d) # {}
      /\ Pending(d) # {} => targets["server"] \in Pending(d) /\ \A v \in Pending(d) : v <= targets["server"]
      /\ OrgPending(d) # {} => /\ \E m \in OrgPending(d) : m.ver = targets["org"]
                               /\ \A m \in OrgPending(d) : m.ver <= targets["org"]
  BY <1>1, <1>2, <1>4, <1>5, <1>6, <1>7 DEF VersionsOf
<1> QED
  BY <1>8 DEF targets, mods

\* A server migration that can be applied is the next one, and higher than all that there is.
LEMMA ServerStep ==
    ASSUME world \in World, NEW d, NEW f, Known(d), Known(f), Upwards(d, f),
           NEW m \in Considered(ModulesOf(f)), m.mod = "server", m.ver \notin d.server,
           Fits(m, Current(ModulesOf(d)))
    PROVE  /\ m.ver \in Pending(d)
           /\ \A w \in d.server : w < m.ver
           /\ \A w \in Pending(d) : w = m.ver \/ m.ver < w
<1>1. /\ m.ver \in Pending(f) /\ m = ServerMigration(m.ver, f)
      /\ \A w \in f.server : w < m.ver
  BY ConsideredAre
<1>2. m.ver \in Pending(d) /\ m.ver \in Nat
  BY <1>1, WorldIs DEF Pending
<1>3. /\ Pending(d) \subseteq Pending(f) /\ Pending(d) \subseteq Nat
      /\ d.server \subseteq Nat /\ f.server \subseteq d.server /\ NULL \notin Nat
  BY WorldIs, LatestIs, MigrateAssumption DEF Pending, Upwards
<1>4. CASE Older(m.ver, f) = {}
  <2>1. \A w \in Pending(f) : ~(w < m.ver)
    BY <1>4 DEF Older
  <2>2. \A w \in d.server \ f.server : FALSE
    <3> SUFFICES ASSUME NEW w \in d.server \ f.server PROVE FALSE
      OBVIOUS
    <3>1. w < m.ver
      BY <1>2 DEF Upwards, Pending
    <3>2. w \in Pending(f)
      BY DEF Known, Pending
    <3> QED
      BY <2>1, <3>1, <3>2
  <2>3. \A w \in d.server : w < m.ver
    BY <1>1, <2>2
  <2>4. \A w \in Pending(d) : w = m.ver \/ m.ver < w
    BY <1>2, <1>3, <2>1
  <2> QED
    BY <1>2, <2>3, <2>4
<1>5. CASE Older(m.ver, f) # {}
  <2> DEFINE prev == Highest(Older(m.ver, f))
  <2>1. /\ prev \in Older(m.ver, f) /\ prev \in Nat /\ \A w \in Older(m.ver, f) : w <= prev
        /\ m.deps = {[mod |-> "server", min |-> prev, max |-> prev]}
    BY <1>1, <1>2, <1>5, ServerMigrationIs
  <2> HIDE DEF prev
  <2>2. Current(ModulesOf(d))["server"] = Latest(d.server)
    BY ModulesAre
  <2> DEFINE dep == [mod |-> "server", min |-> prev, max |-> prev]
  <2>3. /\ dep.min = NULL \/ (Latest(d.server) # NULL /\ Latest(d.server) >= dep.min)
        /\ dep.max = NULL \/ Latest(d.server) = NULL \/ Latest(d.server) <= dep.max
    <3>1. dep \in m.deps /\ dep.mod = "server"
      BY <2>1
    <3> HIDE DEF dep
    <3> QED
      BY <2>2, <3>1 DEF Fits
  <2>4. Latest(d.server) # NULL /\ Latest(d.server) >= prev /\ Latest(d.server) <= prev
    BY <1>3, <2>1, <2>3
  <2>5. Latest(d.server) \in d.server /\ Latest(d.server) \in Nat /\ \A w \in d.server : w <= Latest(d.server)
    BY <2>4, LatestIs
  <2>6. Latest(d.server) = prev /\ prev < m.ver
    BY <2>1, <2>4, <2>5 DEF Older
  <2>7. \A w \in d.server : w < m.ver
    BY <1>2, <1>3, <2>5, <2>6
  <2>8. prev \in d.server \ f.server
    BY <2>1, <2>5, <2>6 DEF Older, Pending
  <2>9. ASSUME NEW w \in Pending(d)
        PROVE  w = m.ver \/ m.ver < w
    <3>1. prev < w
      BY <2>8 DEF Upwards, Pending
    <3>2. w \notin Older(m.ver, f)
      BY <1>3, <2>1, <3>1
    <3> QED
      BY <1>2, <1>3, <3>2 DEF Older
  <2> QED
    BY <1>2, <2>7, <2>9
<1> QED
  BY <1>4, <1>5

\* One of the organizer that can be applied advances its schema.
LEMMA OrgStep ==
    ASSUME world \in World, NEW d, NEW f, Known(d), Known(f),
           NEW m \in Considered(ModulesOf(f)), m.mod = "org",
           Fits(m, Current(ModulesOf(d)))
    PROVE  m \in world.org /\ m.ver \in Nat /\ OrgVersion(d) < m.ver
<1>1. m \in world.org
  BY ConsideredAre DEF OrgPending
<1>2. PICK dep \in m.deps : dep.mod = "org" /\ dep.max # NULL /\ dep.max < m.ver
  BY <1>1, WorldIs
<1>3. m.ver \in Nat /\ dep.max \in Nat /\ OrgVersion(d) \in Nat
  BY <1>1, <1>2, WorldIs, LatestIs DEF Migration, Dependency
<1>4. Current(ModulesOf(d))["org"] = OrgVersion(d)
  BY ModulesAre
<1>5. dep.max = NULL \/ OrgVersion(d) = NULL \/ OrgVersion(d) <= dep.max
  BY <1>2, <1>4 DEF Fits
<1> QED
  BY <1>1, <1>2, <1>3, <1>5, MigrateAssumption

\* A database to which a migration was applied, whatever it did to the data.
Gains(e, d, m) == e \in Database /\ e.server = Migrated(d, m).server /\ e.org = Migrated(d, m).org

\* A step of a plan keeps the schemas known, and goes upwards.
LEMMA StepIs ==
    ASSUME world \in World, NEW d, NEW f, Known(d), Known(f), Upwards(d, f),
           NEW m \in Considered(ModulesOf(f)), m.mod = "server" => m.ver \notin d.server,
           Fits(m, Current(ModulesOf(d))), NEW e, Gains(e, d, m)
    PROVE  /\ Known(e) /\ Upwards(e, f)
           /\ Current(ModulesOf(e)) = Advance(Current(ModulesOf(d)), m)
<1> DEFINE cur == Current(ModulesOf(d))
           new == Current(ModulesOf(e))
<1>1. d.server \subseteq Nat /\ d.org \subseteq Nat /\ d \in Database
  BY LatestIs DEF Known
<1>2. m \in Migration /\ m.mod \in Module
  BY ModulesAre, ConsideredIs DEF Migration
<1>3. /\ cur \in [Module -> Nat \cup {NULL}]
      /\ cur["server"] = Latest(d.server) /\ cur["org"] = OrgVersion(d)
      /\ \A n \in Module : Advance(cur, m)[n] = IF n = m.mod THEN m.ver ELSE cur[n]
      /\ Advance(cur, m) \in [Module -> Nat \cup {NULL}]
  BY <1>2, ModulesAre, ConsideredIs, AdvanceType DEF Versions
<1> HIDE DEF cur, new
<1>4. CASE m.mod = "server"
  <2>1. /\ m.ver \in Pending(d)
        /\ \A w \in d.server : w < m.ver
        /\ \A w \in Pending(d) : w = m.ver \/ m.ver < w
    BY <1>4, ServerStep
  <2>2. e.server = d.server \cup {m.ver} /\ e.org = d.org
    BY <1>1, <1>4 DEF Gains, Migrated, Database
  <2>3. Known(e)
    BY <2>1, <2>2 DEF Known, Gains, Pending
  <2>4. Upwards(e, f)
    BY <2>1, <2>2 DEF Upwards, Pending
  <2>5. m.ver \in Nat
    BY <2>1, WorldIs DEF Pending
  <2>6. Latest(e.server) = m.ver
    BY <1>1, <2>1, <2>2, <2>5, LatestOfMore DEF Latest
  <2>7. OrgVersion(e) = OrgVersion(d)
    BY <2>2 DEF OrgVersion
  <2>8. new \in [Module -> Nat \cup {NULL}] /\ new["server"] = m.ver /\ new["org"] = OrgVersion(d)
    BY <2>3, <2>6, <2>7, ModulesAre, ConsideredIs DEF Versions, new
  <2>9. new = Advance(cur, m)
    <3>1. \A n \in Module : new[n] = Advance(cur, m)[n]
      BY <1>3, <1>4, <2>8 DEF Module
    <3> QED
      BY <1>3, <2>8, <3>1
  <2> QED
    BY <2>3, <2>4, <2>9 DEF new, cur
<1>5. CASE m.mod = "org"
  <2>1. m \in world.org /\ m.ver \in Nat /\ OrgVersion(d) < m.ver
    BY <1>5, OrgStep
  <2>2. e.server = d.server /\ e.org = d.org \cup {m.ver}
    BY <1>1, <1>5 DEF Gains, Migrated, Database
  <2>3. Known(e)
    BY <2>1, <2>2 DEF Known, Gains
  <2>4. Upwards(e, f)
    BY <2>2 DEF Upwards
  <2>5. \A w \in d.org : w < m.ver
    BY <1>1, <2>1, LatestIs
  <2>6. OrgVersion(e) = m.ver
    BY <1>1, <2>1, <2>2, <2>5, LatestOfMore DEF OrgVersion
  <2>7. new \in [Module -> Nat \cup {NULL}] /\ new["server"] = Latest(d.server) /\ new["org"] = m.ver
    BY <2>2, <2>3, <2>6, ModulesAre, ConsideredIs DEF Versions, new
  <2>8. new = Advance(cur, m)
    <3>1. \A n \in Module : new[n] = Advance(cur, m)[n]
      BY <1>3, <1>5, <2>7 DEF Module
    <3> QED
      BY <1>3, <2>7, <3>1
  <2> QED
    BY <2>3, <2>4, <2>8 DEF new, cur
<1> QED
  BY <1>2, <1>4, <1>5 DEF Module

\* The first step of a plan fits, and the rest of it leads on.
LEMMA LeadsOn ==
    ASSUME world \in World, NEW d, NEW f, Known(d), Known(f), Upwards(d, f),
           NEW p, Leads(p, d, f), p # <<>>, NEW e, Gains(e, d, Head(p))
    PROVE  /\ Head(p) \in Considered(ModulesOf(f)) /\ Fits(Head(p), Current(ModulesOf(d)))
           /\ Head(p).mod = "server" => Head(p).ver \notin d.server
           /\ Known(e) /\ Upwards(e, f) /\ Leads(Tail(p), e, f)
<1> DEFINE C == Considered(ModulesOf(f))
           m == Head(p)
           q == Tail(p)
           targets == Targets(ModulesOf(f))
           cur == Current(ModulesOf(d))
<1>1. m \in C /\ q \in Seq(C) /\ p = <<m>> \o q /\ p \in Seq(C)
  BY PathSplit DEF Leads
<1>2. C \subseteq Migration /\ cur \in Versions
  BY ModulesAre, ConsideredIs
<1> HIDE DEF C, m, q, targets, cur
<1>3. Fits(m, cur) /\ Good(targets, Advance(cur, m), q)
  <2>1. Good(targets, cur, <<m>> \o q)
    BY <1>1 DEF Leads, targets, cur
  <2> QED
    BY <1>1, <1>2, <2>1, SeqSubset, GoodFirst
<1>4. Distinct(q) /\ q \in Seq(C \ {m})
  <2>1. Distinct(<<m>> \o q)
    BY <1>1 DEF Leads
  <2> QED
    BY <1>1, <2>1, DistinctFirst
<1>5. p[1] = m /\ Len(p) = Len(q) + 1 /\ (\A i \in 1..Len(q) : p[i + 1] = q[i]) /\ Len(q) \in Nat
  BY <1>1, PathFrom, LenProperties
<1>6. m.mod = "server" => m.ver \notin d.server
  <2>1. 1 \in 1..Len(p)
    BY <1>5
  <2> QED
    BY <1>5, <2>1 DEF Leads
<1>7. Known(e) /\ Upwards(e, f) /\ Current(ModulesOf(e)) = Advance(cur, m)
  BY <1>1, <1>3, <1>6, StepIs DEF C, m, cur
<1>8. ASSUME NEW i \in 1..Len(q), q[i].mod = "server"
      PROVE  q[i].ver \notin e.server
  <2>1. q[i] \in C /\ q[i] # m
    BY <1>4
  <2>2. q[i].ver \notin d.server
    <3>1. i + 1 \in 1..Len(p) /\ p[i + 1] = q[i]
      BY <1>5
    <3> QED
      BY <1>8, <3>1 DEF Leads
  <2>3. CASE m.mod = "server"
    <3>1. m = ServerMigration(m.ver, f) /\ q[i] = ServerMigration(q[i].ver, f)
      BY <1>1, <1>8, <2>1, <2>3, ConsideredAre DEF C
    <3>2. q[i].ver # m.ver
      BY <2>1, <3>1
    <3>3. e.server = d.server \cup {m.ver}
      BY <2>3 DEF Gains, Migrated, Known, Database, m
    <3> QED
      BY <2>2, <3>2, <3>3
  <2>4. CASE m.mod # "server"
    <3>1. e.server = d.server
      BY <2>4 DEF Gains, Migrated, Known, Database, m
    <3> QED
      BY <2>2, <3>1
  <2> QED
    BY <2>3, <2>4
<1>9. Leads(q, e, f)
  BY <1>1, <1>3, <1>4, <1>7, <1>8 DEF Leads, C, targets
<1> QED
  BY <1>1, <1>3, <1>6, <1>7, <1>9 DEF C, m, q, cur

\* Where nothing is left of a plan nothing is pending.
LEMMA LeadsEnd ==
    ASSUME world \in World, NEW d, NEW f, Known(d), Known(f), Upwards(d, f), Leads(<<>>, d, f)
    PROVE  d.server = world.server /\ OrgPending(d) = {}
<1> DEFINE targets == Targets(ModulesOf(f))
           cur == Current(ModulesOf(d))
<1>1. \A n \in DOMAIN targets : cur[n] = targets[n]
  <2>1. cur \in Versions
    BY ModulesAre, ConsideredIs
  <2>2. Reached(targets, cur)
    BY <2>1, GoodNone DEF Leads
  <2> QED
    BY <2>2 DEF Reached
<1>2. cur["server"] = Latest(d.server) /\ cur["org"] = OrgVersion(d)
  BY ModulesAre
<1>3. /\ "server" \in DOMAIN targets <=> Pending(f) # {}
      /\ "org" \in DOMAIN targets <=> OrgPending(f) # {}
      /\ Pending(f) # {} => targets["server"] \in Pending(f) /\ \A v \in Pending(f) : v <= targets["server"]
      /\ OrgPending(f) # {} => /\ \E m \in OrgPending(f) : m.ver = targets["org"]
                               /\ \A m \in OrgPending(f) : m.ver <= targets["org"]
  BY TargetsAre
<1> HIDE DEF targets, cur
<1>4. Pending(d) = {}
  <2> SUFFICES ASSUME NEW u \in Pending(d) PROVE FALSE
    OBVIOUS
  <2>1. u \in Pending(f) /\ u \in Nat
    BY WorldIs DEF Pending, Upwards
  <2> DEFINE t == targets["server"]
  <2>2. t \in Pending(f) /\ u <= t /\ Latest(d.server) = t /\ t \in Nat
    BY <1>1, <1>2, <1>3, <2>1, WorldIs DEF Pending
  <2>3. t \in d.server
    BY <2>2, LatestIs, MigrateAssumption
  <2>4. t < u
    BY <2>2, <2>3 DEF Upwards, Pending
  <2> QED
    BY <2>1, <2>2, <2>4
<1>5. d.server = world.server
  BY <1>4 DEF Pending, Known
<1>6. OrgPending(d) = {}
  <2> SUFFICES ASSUME NEW m \in OrgPending(d) PROVE FALSE
    OBVIOUS
  <2>1. m \in world.org /\ m.ver > OrgVersion(d) /\ m.ver \in Nat
    BY WorldIs DEF OrgPending, Migration
  <2>2. OrgVersion(f) <= OrgVersion(d) /\ OrgVersion(f) \in Nat /\ OrgVersion(d) \in Nat
    BY LatestIs DEF Upwards
  <2>3. m \in OrgPending(f)
    BY <2>1, <2>2 DEF OrgPending
  <2>4. m.ver <= OrgVersion(d)
    BY <1>1, <1>2, <1>3, <2>3
  <2> QED
    BY <2>1, <2>2, <2>4
<1> QED
  BY <1>5, <1>6

\* What is still pending on the way up is made for the same version as at first.
LEMMA SameMigration ==
    ASSUME world \in World, NEW d, NEW f, Known(d), Known(f), Upwards(d, f), NEW v \in Pending(d)
    PROVE  ServerMigration(v, d) = ServerMigration(v, f)
<1> DEFINE D == Older(v, d)
           F == Older(v, f)
           before(S, e) == IF S = {} THEN Latest(e.server) ELSE Highest(S)
<1>1. /\ d.server \subseteq Nat /\ f.server \subseteq d.server /\ Pending(d) \subseteq Nat /\ v \in Nat
      /\ F \subseteq Nat /\ D \subseteq F
  BY WorldIs, LatestIs DEF Upwards, Pending, Older
<1>2. \A w \in F : w \in D \/ w \in d.server \ f.server
  BY DEF Older, Pending
<1>3. \A w \in d.server \ f.server : w \in F
  BY DEF Upwards, Pending, Known, Older
<1>4. D # {} => Highest(D) \in D /\ Highest(D) \in Nat /\ \A w \in D : w <= Highest(D)
  BY <1>1, ServerMigrationIs
<1>5. F # {} => Highest(F) \in F /\ Highest(F) \in Nat /\ \A w \in F : w <= Highest(F)
  BY <1>1, ServerMigrationIs
<1>6. \A w \in F : w \in Pending(f)
  BY DEF Older
<1>7. \A w \in D : w \in Pending(d)
  BY DEF Older
<1> HIDE DEF D, F
<1>8. before(D, d) = before(F, f)
  <2>1. CASE D # {}
    <3> DEFINE h == Highest(D)
    <3>1. h \in F /\ h \in Pending(d) /\ h \in Nat
      BY <1>1, <1>4, <1>7, <2>1
    <3>2. ASSUME NEW w \in F
          PROVE  w <= h
      <4>1. CASE w \in D
        BY <1>4, <2>1, <4>1
      <4>2. CASE w \in d.server \ f.server
        <5>1. w < h
          BY <3>1, <4>2 DEF Upwards, Pending
        <5> QED
          BY <1>1, <3>1, <5>1
      <4> QED
        BY <1>2, <4>1, <4>2
    <3> HIDE DEF h
    <3>3. Highest(F) = h
      BY <1>1, <3>1, <3>2, HighestOnly
    <3> QED
      BY <2>1, <3>1, <3>3 DEF h
  <2>2. CASE D = {} /\ F = {}
    <3>1. d.server = f.server
      BY <1>1, <1>3, <2>2
    <3> QED
      BY <2>2, <3>1
  <2>3. CASE D = {} /\ F # {}
    <3> DEFINE h == Highest(F)
    <3>1. h \in d.server /\ h \notin f.server /\ h \in Nat
      BY <1>2, <1>5, <2>3
    <3>2. ASSUME NEW w \in d.server
          PROVE  w <= h
      <4>1. CASE w \in f.server
        <5>1. w < h
          BY <3>1, <4>1 DEF Upwards
        <5> QED
          BY <1>1, <3>1, <5>1
      <4>2. CASE w \notin f.server
        BY <1>3, <1>5, <2>3, <4>2
      <4> QED
        BY <4>1, <4>2
    <3> HIDE DEF h
    <3>3. Latest(d.server) = h
      BY <1>1, <3>1, <3>2, HighestOnly DEF Latest
    <3> QED
      BY <2>3, <3>3 DEF h
  <2> QED
    BY <2>1, <2>2, <2>3
<1>9. /\ ServerMigration(v, d) = [uuid |-> v, mod |-> "server", ver |-> v,
                                  deps |-> {[mod |-> "server", min |-> before(D, d), max |-> before(D, d)]}]
      /\ ServerMigration(v, f) = [uuid |-> v, mod |-> "server", ver |-> v,
                                  deps |-> {[mod |-> "server", min |-> before(F, f), max |-> before(F, f)]}]
  BY <1>1, ServerMigrationIs DEF D, F
<1> QED
  BY <1>8, <1>9

\* All steps of a plan that are the organizer's advance its schema: of those that do not take the first.
LEMMA OrgAhead ==
    ASSUME world \in World, NEW d, NEW f, Known(d), Known(f), NEW p, Leads(p, d, f),
           NEW i \in 1..Len(p), p[i].mod = "org"
    PROVE  p[i].ver > OrgVersion(d)
<1> DEFINE cur == Current(ModulesOf(d))
           low == {j \in 1..Len(p) : p[j].mod = "org" /\ ~(p[j].ver > OrgVersion(d))}
<1>1. SUFFICES ASSUME low # {} PROVE FALSE
  OBVIOUS
<1>2. low \subseteq Nat
  OBVIOUS
<1>3. PICK k \in low : \A j \in low : k <= j
  <2> HIDE DEF low
  <2> QED
    BY <1>1, <1>2, LeastExists
<1>4. /\ p \in Seq(Considered(ModulesOf(f))) /\ k \in 1..Len(p) /\ k \in Nat /\ Len(p) \in Nat
      /\ p[k].mod = "org" /\ ~(p[k].ver > OrgVersion(d))
  BY <1>3, LenProperties DEF Leads
<1> DEFINE own == {j \in 1..(k - 1) : p[j].mod = "org"}
           now == After(cur, p, k - 1)["org"]
<1>5. now = IF own = {} THEN OrgVersion(d) ELSE p[Highest(own)].ver
  <2>1. cur["org"] = OrgVersion(d)
    BY ModulesAre
  <2> HIDE DEF cur
  <2> QED
    BY <2>1 DEF After, Module
<1>6. \A j \in 1..Len(p) : p[j].mod = "org" => p[j] \in world.org /\ p[j].ver \in Nat
  <2> SUFFICES ASSUME NEW j \in 1..Len(p), p[j].mod = "org" PROVE p[j] \in world.org /\ p[j].ver \in Nat
    OBVIOUS
  <2>1. p[j] \in Considered(ModulesOf(f))
    BY <1>4
  <2>2. p[j] \in world.org
    BY <2>1, ConsideredAre DEF OrgPending
  <2> QED
    BY <2>2, WorldIs DEF Migration
<1>7. OrgVersion(d) \in Nat
  BY LatestIs
<1>8. now \in Nat /\ now >= OrgVersion(d)
  <2>1. CASE own = {}
    BY <1>5, <1>7, <2>1
  <2>2. CASE own # {}
    <3>1. own \subseteq Nat /\ IsFiniteSet(own)
      <4>1. own \subseteq Nat /\ own \in SUBSET (0..k)
        BY <1>4
      <4>2. IsFiniteSet(0..k)
        BY <1>4, FS_Interval
      <4> HIDE DEF own
      <4> QED
        BY <4>1, <4>2, FS_Subset
    <3>2. Highest(own) \in own
      <4> HIDE DEF own
      <4> QED
        BY <2>2, <3>1, HighestIs
    <3>3. Highest(own) \in 1..Len(p) /\ Highest(own) < k /\ p[Highest(own)].mod = "org"
      BY <1>4, <3>2
    <3>4. Highest(own) \notin low
      <4> HIDE DEF own, low
      <4>1. Highest(own) \in Nat /\ ~(k <= Highest(own))
        BY <1>4, <3>3
      <4> QED
        BY <1>3, <4>1
    <3>5. p[Highest(own)].ver > OrgVersion(d) /\ p[Highest(own)].ver \in Nat
      BY <1>6, <3>3, <3>4
    <3> QED
      BY <1>5, <1>7, <2>2, <3>5
  <2> QED
    BY <2>1, <2>2
<1>9. PICK dep \in p[k].deps : dep.mod = "org" /\ dep.max # NULL /\ dep.max < p[k].ver
  BY <1>4, <1>6, WorldIs
<1>10. dep.max \in Nat /\ NULL \notin Nat /\ p[k].ver \in Nat
  BY <1>4, <1>6, <1>9, WorldIs, MigrateAssumption DEF Migration, Dependency
<1>11. dep.max = NULL \/ now = NULL \/ now <= dep.max
  <2>1. Fits(p[k], After(cur, p, k - 1))
    BY <1>4 DEF Leads, Good
  <2> HIDE DEF cur
  <2> QED
    BY <1>9, <2>1 DEF Fits
<1> QED
  BY <1>4, <1>7, <1>8, <1>9, <1>10, <1>11

\* What is left of a plan is an order for what is left to do.
LEMMA LeadsSolvable ==
    ASSUME world \in World, NEW d, NEW f, Known(d), Known(f), Upwards(d, f), NEW p, Leads(p, d, f)
    PROVE  Solvable(d)
<1> DEFINE C == Considered(ModulesOf(f))
           cur == Current(ModulesOf(d))
           old == Targets(ModulesOf(f))
           targets == Targets(ModulesOf(d))
<1>1. p \in Seq(C) /\ Len(p) \in Nat
  BY LenProperties DEF Leads
<1>2. ASSUME NEW i \in 1..Len(p)
      PROVE  p[i] \in Considered(ModulesOf(d))
  <2>1. p[i] \in C
    BY <1>1
  <2>2. CASE p[i].mod = "server"
    <3>1. p[i].ver \in Pending(f) /\ p[i] = ServerMigration(p[i].ver, f) /\ \A w \in f.server : w < p[i].ver
      BY <2>1, <2>2, ConsideredAre
    <3>2. p[i].ver \in Pending(d)
      BY <2>2, <3>1 DEF Leads, Pending
    <3>3. p[i] = ServerMigration(p[i].ver, d)
      BY <3>1, <3>2, SameMigration
    <3>4. \A w \in d.server : w < p[i].ver
      BY <3>1, <3>2 DEF Upwards, Pending
    <3> QED
      BY <2>2, <3>2, <3>3, <3>4, ConsideredAre
  <2>3. CASE p[i].mod = "org"
    <3>1. p[i] \in world.org
      BY <2>1, <2>3, ConsideredAre DEF OrgPending
    <3>2. p[i].ver > OrgVersion(d)
      BY <2>3, OrgAhead
    <3> QED
      BY <2>3, <3>1, <3>2, ConsideredAre DEF OrgPending
  <2> QED
    BY <2>1, <2>2, <2>3, ConsideredAre
<1>3. p \in Seq(Considered(ModulesOf(d)))
  <2>1. p = [i \in 1..Len(p) |-> p[i]]
    BY <1>1
  <2> HIDE DEF C
  <2> QED
    BY <1>1, <1>2, <2>1
<1>4. ASSUME NEW n \in DOMAIN targets
      PROVE  n \in DOMAIN old /\ old[n] = targets[n]
  <2>1. /\ DOMAIN targets \subseteq Module
        /\ "server" \in DOMAIN targets <=> Pending(d) # {}
        /\ "org" \in DOMAIN targets <=> OrgPending(d) # {}
        /\ Pending(d) # {} => targets["server"] \in Pending(d) /\ \A v \in Pending(d) : v <= targets["server"]
        /\ OrgPending(d) # {} => /\ \E m \in OrgPending(d) : m.ver = targets["org"]
                                 /\ \A m \in OrgPending(d) : m.ver <= targets["org"]
    BY TargetsAre
  <2>2. /\ "server" \in DOMAIN old <=> Pending(f) # {}
        /\ "org" \in DOMAIN old <=> OrgPending(f) # {}
        /\ Pending(f) # {} => old["server"] \in Pending(f) /\ \A v \in Pending(f) : v <= old["server"]
        /\ OrgPending(f) # {} => /\ \E m \in OrgPending(f) : m.ver = old["org"]
                                 /\ \A m \in OrgPending(f) : m.ver <= old["org"]
    BY TargetsAre
  <2> HIDE DEF targets, old
  <2>3. CASE n = "server"
    <3>1. targets[n] \in Pending(d) /\ \A v \in Pending(d) : v <= targets[n]
      BY <1>4, <2>1, <2>3
    <3>2. Pending(d) \subseteq Pending(f) /\ Pending(f) \subseteq Nat
      BY WorldIs DEF Pending, Upwards
    <3>3. n \in DOMAIN old /\ old[n] \in Pending(f) /\ targets[n] <= old[n] /\ old[n] \in Nat /\ targets[n] \in Nat
      BY <2>2, <2>3, <3>1, <3>2
    <3>4. CASE old[n] \in Pending(d)
      BY <3>1, <3>3, <3>4
    <3>5. CASE old[n] \notin Pending(d)
      <4>1. old[n] < targets[n]
        BY <3>1, <3>3, <3>5 DEF Upwards, Pending
      <4> QED
        BY <3>3, <4>1
    <3> QED
      BY <3>4, <3>5
  <2>4. CASE n = "org"
    <3>1. OrgPending(d) # {}
      BY <1>4, <2>1, <2>4
    <3>2. PICK a \in OrgPending(d) : a.ver = targets[n]
      BY <2>1, <2>4, <3>1
    <3>3. OrgVersion(f) <= OrgVersion(d) /\ OrgVersion(f) \in Nat /\ OrgVersion(d) \in Nat
      BY LatestIs DEF Upwards
    <3>4. a.ver > OrgVersion(d) /\ a.ver \in Nat /\ a \in OrgPending(f)
      BY <3>2, <3>3, WorldIs DEF OrgPending, Migration
    <3>5. n \in DOMAIN old /\ a.ver <= old[n]
      BY <2>2, <2>4, <3>4
    <3>6. PICK b \in OrgPending(f) : b.ver = old[n]
      BY <2>2, <2>4, <3>4
    <3>7. b.ver \in Nat /\ b \in OrgPending(d)
      BY <3>3, <3>4, <3>5, <3>6, WorldIs DEF OrgPending, Migration
    <3>8. b.ver <= targets[n]
      BY <2>1, <2>4, <3>7
    <3> QED
      BY <3>2, <3>4, <3>5, <3>6, <3>7, <3>8
  <2> QED
    BY <1>4, <2>1, <2>3, <2>4 DEF Module
<1>5. Good(targets, cur, p)
  <2>1. Good(old, cur, p)
    BY DEF Leads
  <2> HIDE DEF targets, old, cur
  <2> QED
    BY <1>4, <2>1 DEF Good, Reached
<1>6. Path(ModulesOf(d), Considered(ModulesOf(d)), cur, p)
  BY <1>3, <1>5 DEF Path, Leads
<1>7. WellFormed(ModulesOf(d))
  BY ModulesAre
<1> QED
  BY <1>6, <1>7, GoodOrdersAre DEF Solvable

-----------------------------------------------------------------------------
(* The upgrade *)

\* What there is to migrate depends on the database, the world being the same.
LEMMA SameModules ==
    ASSUME world' = world
    PROVE  /\ ModulesOf(db)' = ModulesOf(db')
           /\ ModulesOf(found)' = ModulesOf(found')
           /\ ModulesOf(world.db)' = ModulesOf(world.db)
<1>1. ModulesOf(db)' = ModulesOf(db')
  BY DEF ModulesOf, ServerMigration, OrgPending
<1>2. ModulesOf(found)' = ModulesOf(found')
  BY DEF ModulesOf, ServerMigration, OrgPending
<1>3. ModulesOf(world.db)' = ModulesOf(world.db)
  BY DEF ModulesOf, ServerMigration, OrgPending
<1> QED
  BY <1>1, <1>2, <1>3

\* And so do the parts of the invariant.
LEMMA SameProps ==
    ASSUME world' = world
    PROVE  /\ Known(db') => Known(db)'
           /\ Upwards(db', found') => Upwards(db, found)'
           /\ Leads(plan', db', found') => Leads(plan, db, found)'
           /\ Solvable(db)' <=> Solvable(db')
           /\ Solvable(world.db)' <=> Solvable(world.db)
  BY SameModules DEF Known, Upwards, Leads, Solvable

\* At first the database is the one that is installed.
LEMMA InitUpgrade == Init => UpgradeInv
<1> SUFFICES ASSUME Init PROVE UpgradeInv
  OBVIOUS
<1>1. Known(world.db) /\ db = world.db /\ found = db
  BY WorldIs DEF Init
<1>2. PlaceInv
  <2>1. MaxFaults \in Nat
    BY MigrateAssumption
  <2>2. faults \in 0..MaxFaults
    BY <2>1 DEF Init
  <2>3. phase = "off" /\ backup = NULL /\ orgOpen = FALSE /\ applied = FALSE /\ lost = FALSE
    BY DEF Init
  <2> QED
    BY <2>2, <2>3 DEF PlaceInv, Over
<1>3. SchemasInv /\ OrderInv
  BY <1>1 DEF Init, SchemasInv, OrderInv
<1>4. PlanInv /\ ServedWhole
  BY DEF Init, PlanInv, ServedWhole
<1> QED
  BY <1>2, <1>3, <1>4 DEF UpgradeInv

\* Nothing is known of a start but what it finds.
LEMMA StartUpgrade ==
    ASSUME IInv, UpgradeInv, NEW migrate \in BOOLEAN, Start(migrate)
    PROVE  UpgradeInv'
<1>1. /\ phase \in Over /\ found' = db' /\ applied' = FALSE
      /\ UNCHANGED <<world, modules, plan, backup, orgOpen, lost, faults>>
      /\ world \in World /\ file \in {"there", "missing", "torn"}
  BY DEF Start, plans, IInv, BackupIsWhole
<1>2. \/ /\ db' = db /\ file' = file /\ file # "missing"
         /\ phase' \in {"failed", "serving", "check"} /\ (phase' = "serving" => file = "there")
      \/ db' = Empty /\ file' = "there" /\ phase' = "check" /\ file = "missing"
  BY <1>1 DEF Start, disk
<1>3. Known(db') /\ (~lost /\ Solvable(world.db) => Solvable(db'))
  <2>1. CASE db' = db
    BY <2>1 DEF UpgradeInv, SchemasInv, OrderInv
  <2>2. CASE db' = Empty /\ file = "missing"
    <3>1. Known(Empty)
      BY DEF Known, Empty, Database
    <3>2. ~lost => world.db = Empty
      <4>1. ~lost => ~world.db.data
        BY <1>1, <2>2 DEF IInv, DataKept, Over
      <4> QED
        BY <1>1, <4>1, WorldIs
    <3> QED
      BY <2>2, <3>1, <3>2
  <2> QED
    BY <1>2, <2>1, <2>2
<1>4. PlaceInv'
  BY <1>1, <1>2 DEF UpgradeInv, PlaceInv, Over
<1>5. SchemasInv'
  <2>1. Known(db)' /\ Known(found)'
    BY <1>1, <1>3 DEF Known
  <2> QED
    BY <1>1, <1>2, <2>1 DEF SchemasInv, Over
<1>6. PlanInv'
  BY <1>1, <1>2 DEF PlanInv, Over
<1>7. OrderInv'
  BY <1>1, <1>3, SameModules DEF OrderInv, Solvable
<1>8. ServedWhole'
  BY <1>1 DEF ServedWhole
<1> QED
  BY <1>4, <1>5, <1>6, <1>7, <1>8 DEF UpgradeInv

\* A database that is left alone is as it was.
LEMMA SameDatabase ==
    ASSUME UpgradeInv, UNCHANGED <<world, db, found>>, lost => lost'
    PROVE  /\ Known(db)' /\ Known(found)'
           /\ Upwards(db, found)' <=> Upwards(db, found)
           /\ plan' = plan => (Leads(plan, db, found)' <=> Leads(plan, db, found))
           /\ ModulesOf(found)' = ModulesOf(found)
           /\ lost' \/ OrderInv'
<1>1. world' = world /\ db' = db /\ found' = found
  OBVIOUS
<1>2. /\ ModulesOf(db)' = ModulesOf(db) /\ ModulesOf(found)' = ModulesOf(found)
      /\ ModulesOf(world.db)' = ModulesOf(world.db)
  BY <1>1, SameModules
<1>3. Known(db)' /\ Known(found)'
  BY <1>1 DEF UpgradeInv, SchemasInv, Known
<1>4. Upwards(db, found)' <=> Upwards(db, found)
  BY <1>1 DEF Upwards
<1>5. plan' = plan => (Leads(plan, db, found)' <=> Leads(plan, db, found))
  BY <1>1, <1>2 DEF Leads
<1>6. Solvable(db)' <=> Solvable(db)
  BY <1>2 DEF Solvable
<1>7. Solvable(found)' <=> Solvable(found)
  BY <1>2 DEF Solvable
<1>8. Solvable(world.db)' <=> Solvable(world.db)
  BY <1>2 DEF Solvable
<1>9. ~lost' => OrderInv'
  BY <1>6, <1>7, <1>8 DEF UpgradeInv, OrderInv
<1> QED
  BY <1>2, <1>3, <1>4, <1>5, <1>9

\* Steps that read the database only, before there is a plan and after the last of it.
LEMMA ReadUpgrade ==
    ASSUME IInv, UpgradeInv, Check \/ CheckKeys \/ Restore \/ Backup
    PROVE  UpgradeInv'
<1>1. world \in World /\ UNCHANGED <<world, db, found, lost, applied, orgOpen>>
  BY DEF IInv, Check, CheckKeys, Restore, Backup, disk, history
<1>2. /\ Known(db)' /\ Known(found)'
      /\ Upwards(db, found)' <=> Upwards(db, found)
      /\ plan' = plan => (Leads(plan, db, found)' <=> Leads(plan, db, found))
      /\ ModulesOf(found)' = ModulesOf(found)
      /\ lost' \/ OrderInv'
  BY <1>1, SameDatabase DEF UpgradeInv, PlaceInv
<1>3. OrderInv'
  BY <1>1, <1>2 DEF UpgradeInv, OrderInv
<1>4. CASE Check
  <2>1. /\ phase = "check" /\ file' = file /\ file = "there" /\ db = found
        /\ \/ modules' = ModulesOf(db) /\ phase' = "solve" /\ UNCHANGED <<plan, backup, faults>>
           \/ /\ phase' = "failed" /\ backup' = NULL
              /\ faults' \in {faults, faults + 1} /\ (faults' # faults => faults < MaxFaults)
    BY <1>4 DEF Check, Quit, Fault, disk, IInv, BackupIsWhole
  <2>2. PlaceInv'
    BY <1>1, <2>1, MigrateAssumption DEF UpgradeInv, PlaceInv, Over
  <2> QED
    BY <1>1, <1>2, <1>3, <2>1, <2>2 DEF UpgradeInv, SchemasInv, PlanInv, ServedWhole, Over
<1>5. CASE CheckKeys
  <2>1. /\ phase = "apply" /\ plan = <<>> /\ file' = file /\ faults' = faults /\ file = "there"
        /\ \/ db.sound /\ phase' = "serving" /\ backup' = NULL
           \/ phase' = "restore" /\ UNCHANGED <<modules, plan, backup>>
    BY <1>5 DEF CheckKeys, Quit, disk, plans, IInv, BackupIsWhole
  <2>2. /\ Known(db) /\ Known(found) /\ Upwards(db, found) /\ Leads(plan, db, found)
    BY <2>1 DEF UpgradeInv, SchemasInv, PlanInv
  <2>3. db.server = world.server /\ OrgPending(db) = {}
    BY <1>1, <2>1, <2>2, LeadsEnd
  <2>4. ServedWhole'
    <3>1. OrgPending(db)' = OrgPending(db)
      BY <1>1 DEF OrgPending
    <3> QED
      BY <1>1, <2>1, <2>3, <3>1 DEF ServedWhole
  <2>5. PlaceInv'
    BY <1>1, <2>1 DEF UpgradeInv, PlaceInv, Over
  <2>6. SchemasInv'
    BY <1>1, <1>2, <2>1, <2>2 DEF SchemasInv, Over
  <2>7. PlanInv'
    <3>1. <<>> \in Seq(Migration)
      OBVIOUS
    <3> QED
      BY <2>1, <3>1 DEF PlanInv
  <2> QED
    BY <1>3, <2>4, <2>5, <2>6, <2>7 DEF UpgradeInv
<1>6. CASE Restore
  <2>1. phase = "restore" /\ phase' = "unpack" /\ UNCHANGED <<modules, plan, backup, faults>>
    BY <1>6 DEF Restore, plans
  <2> QED
    BY <1>1, <1>2, <1>3, <2>1 DEF UpgradeInv, PlaceInv, SchemasInv, PlanInv, ServedWhole, Over
<1>7. CASE Backup
  <2>1. /\ phase = "backup" /\ file' = file /\ file = "there" /\ db = found
        /\ \/ phase' = "apply" /\ UNCHANGED <<modules, plan, faults>>
           \/ phase' = "failed" /\ backup' = NULL /\ faults' = faults + 1 /\ faults < MaxFaults
    BY <1>7 DEF Backup, Quit, Fault, disk, IInv, BackupIsWhole
  <2>2. Upwards(db, found)
    BY <2>1 DEF Upwards
  <2>3. PlaceInv'
    BY <1>1, <2>1, MigrateAssumption DEF UpgradeInv, PlaceInv, Over
  <2> QED
    BY <1>1, <1>2, <1>3, <2>1, <2>2, <2>3 DEF UpgradeInv, SchemasInv, PlanInv, ServedWhole, Over
<1> QED
  BY <1>4, <1>5, <1>6, <1>7

\* What the solver returns leads from what was found to the latest versions.
LEMMA SolveUpgrade == ASSUME IInv, UpgradeInv, Solve PROVE UpgradeInv'
<1>1. /\ world \in World /\ UNCHANGED <<world, db, found, lost, applied, orgOpen, faults, file>>
      /\ phase = "solve" /\ db = found /\ file = "there" /\ modules = ModulesOf(found) /\ ~applied
  BY DEF IInv, BackupIsWhole, Solve, disk, history, UpgradeInv, PlanInv
<1>2. /\ Known(db)' /\ Known(found)'
      /\ plan' = plan => (Leads(plan, db, found)' <=> Leads(plan, db, found))
      /\ lost' \/ OrderInv'
  BY <1>1, SameDatabase DEF UpgradeInv, PlaceInv
<1>3. OrderInv'
  BY <1>1, <1>2 DEF UpgradeInv, OrderInv
<1>4. CASE phase' \in {"serving", "failed"} /\ backup' = NULL
  BY <1>1, <1>2, <1>3, <1>4 DEF UpgradeInv, PlaceInv, SchemasInv, PlanInv, ServedWhole, Over
<1>5. CASE phase' = "backup" /\ plan' = Solution(modules) /\ plan' # NULL /\ backup' = backup
  <2> DEFINE mods == ModulesOf(found)
             p == Solution(mods)
  <2>1. Known(found) /\ WellFormed(mods)
    BY <1>1, ModulesAre DEF UpgradeInv, SchemasInv
  <2>2. p # NULL
    BY <1>1, <1>5
  <2>3. Path(mods, Considered(mods), Current(mods), p)
    BY <2>1, <2>2, SolutionIsShortest DEF Shortest
  <2>4. ASSUME NEW i \in 1..Len(p), p[i].mod = "server"
        PROVE  p[i].ver \notin found.server
    <3>1. p[i] \in Considered(mods)
      BY <2>3 DEF Path
    <3> QED
      BY <1>1, <2>1, <2>4, <3>1, ConsideredAre DEF Pending
  <2>5. Leads(plan', db', found')
    BY <1>1, <1>5, <2>3, <2>4 DEF Leads, Path
  <2>6. Leads(plan, db, found)'
    BY <1>1, <2>5, SameProps
  <2> QED
    BY <1>1, <1>2, <1>3, <1>5, <2>6 DEF UpgradeInv, PlaceInv, SchemasInv, PlanInv, ServedWhole, Over
<1>6. \/ phase' \in {"serving", "failed"} /\ backup' = NULL
      \/ phase' = "backup" /\ plan' = Solution(modules) /\ plan' # NULL /\ backup' = backup
  BY DEF Solve, Quit
<1> QED
  BY <1>4, <1>5, <1>6

\* Of a known database a migration makes another.
LEMMA MigratedGains ==
    ASSUME world \in World, NEW d, Known(d), NEW m \in Migration, NEW sound \in BOOLEAN
    PROVE  /\ Gains(Migrated(d, m), d, m)
           /\ Gains([Migrated(d, m) EXCEPT !.sound = sound], d, m)
<1>1. d \in Database /\ m.ver \in Nat
  BY DEF Known, Migration
<1>2. Migrated(d, m) \in Database
  BY <1>1 DEF Database, Migrated
<1> HIDE DEF Migrated
<1> QED
  BY <1>2 DEF Gains, Database

\* A migration of the plan goes on with what is left of it, whether or not it is reported as applied.
LEMMA ApplyUpgrade == ASSUME IInv, UpgradeInv, Apply \/ ApplyFails PROVE UpgradeInv'
<1> DEFINE m == Head(plan)
<1>1. /\ phase = "apply" /\ plan # <<>> /\ world \in World /\ file = "there"
      /\ UNCHANGED <<world, file, modules, backup, orgOpen, found, lost>>
  BY DEF Apply, ApplyFails, plans, history, IInv, BackupIsWhole
<1>2. /\ Known(db) /\ Known(found) /\ Upwards(db, found) /\ Leads(plan, db, found)
  BY <1>1 DEF UpgradeInv, SchemasInv, PlanInv
<1>3. m \in Migration /\ plan \in Seq(Migration)
  <2>1. Considered(ModulesOf(found)) \subseteq Migration
    BY <1>1, <1>2, ModulesAre, ConsideredIs
  <2>2. plan \in Seq(Considered(ModulesOf(found)))
    BY <1>2 DEF Leads
  <2> QED
    BY <1>1, <2>1, <2>2, PathSplit, SeqSubset
<1>4. ASSUME NEW e, Gains(e, db, m)
      PROVE  Known(e) /\ Upwards(e, found) /\ Leads(Tail(plan), e, found) /\ Solvable(e)
  BY <1>1, <1>2, <1>4, LeadsOn, LeadsSolvable
<1>5. Solvable(db)
  BY <1>1, <1>2, LeadsSolvable
<1>6. \/ phase' = "apply" /\ Gains(db', db, m) /\ plan' = Tail(plan) /\ applied' = TRUE
      \/ phase' = "restore" /\ (db' = db \/ Gains(db', db, m)) /\ plan' = plan /\ applied' = applied
  <2>1. CASE Apply
    <3>1. \E sound \in BOOLEAN : db' = [Migrated(db, m) EXCEPT !.sound = sound]
      BY <2>1 DEF Apply
    <3>2. Gains(db', db, m)
      BY <1>1, <1>2, <1>3, <3>1, MigratedGains
    <3> QED
      BY <1>1, <2>1, <3>2 DEF Apply
  <2>2. CASE ApplyFails
    <3>1. db' = db \/ db' = Migrated(db, m)
      BY <2>2 DEF ApplyFails
    <3>2. db' = db \/ Gains(db', db, m)
      BY <1>1, <1>2, <1>3, <3>1, MigratedGains
    <3> QED
      BY <2>2, <3>2 DEF ApplyFails, plans, history
  <2> QED
    BY <2>1, <2>2
<1> HIDE DEF m
<1>7. Known(db') /\ Upwards(db', found') /\ Solvable(db')
  BY <1>1, <1>2, <1>4, <1>5, <1>6
<1>8. Known(db)' /\ Known(found)' /\ Upwards(db, found)'
  BY <1>1, <1>2, <1>7, SameProps DEF Known
<1>9. faults' \in 0..MaxFaults
  <2>1. faults' = faults \/ (faults < MaxFaults /\ faults' = faults + 1)
    BY DEF Apply, ApplyFails, Fault
  <2> QED
    BY <2>1, MigrateAssumption DEF UpgradeInv, PlaceInv
<1>10. PlaceInv'
  BY <1>1, <1>6, <1>9 DEF UpgradeInv, PlaceInv, Over
<1>11. SchemasInv'
  BY <1>1, <1>6, <1>8 DEF SchemasInv, Over
<1>12. PlanInv'
  <2>1. CASE phase' = "apply" /\ Gains(db', db, m) /\ plan' = Tail(plan)
    <3>1. Leads(plan', db', found')
      BY <1>1, <1>4, <2>1
    <3>2. Leads(plan, db, found)'
      BY <1>1, <3>1, SameProps
    <3> QED
      BY <2>1, <3>2 DEF PlanInv
  <2>2. CASE phase' = "restore" /\ plan' = plan
    BY <1>3, <2>2 DEF PlanInv
  <2> QED
    BY <1>6, <2>1, <2>2
<1>13. OrderInv'
  <2>1. Solvable(db)' /\ (Solvable(found) => Solvable(found)') /\ (Solvable(world.db)' => Solvable(world.db))
    BY <1>1, <1>7, SameProps, SameModules DEF Solvable
  <2> QED
    BY <1>1, <2>1 DEF UpgradeInv, OrderInv
<1>14. ServedWhole'
  BY <1>6 DEF ServedWhole
<1> QED
  BY <1>10, <1>11, <1>12, <1>13, <1>14 DEF UpgradeInv

\* What is restored is what was found.
LEMMA UnpackUpgrade == ASSUME IInv, UpgradeInv, Unpack PROVE UpgradeInv'
<1>1. /\ phase = "unpack" /\ phase' = "failed" /\ file' = "there" /\ backup' = NULL
      /\ UNCHANGED <<world, orgOpen, found, applied, lost, faults>>
      /\ db' = found
  BY DEF Unpack, Quit, history, IInv, BackupIsWhole
<1>2. Known(db)' /\ Known(found)'
  BY <1>1 DEF UpgradeInv, SchemasInv, Known
<1>3. OrderInv'
  BY <1>1, SameModules DEF UpgradeInv, OrderInv, Solvable
<1> QED
  BY <1>1, <1>2, <1>3 DEF UpgradeInv, PlaceInv, SchemasInv, PlanInv, ServedWhole, Over

\* A start that is cut off leaves the database as it is, or some of what was found.
LEMMA CutOffUpgrade == ASSUME IInv, UpgradeInv, CutOff PROVE UpgradeInv'
<1>1. /\ phase \notin Over \cup {"serving"} /\ phase' \in {"off", "unrestored"} /\ backup' = NULL
      /\ UNCHANGED <<world, orgOpen, found, applied>>
      /\ faults < MaxFaults /\ faults' = faults + 1
      /\ phase = "unpack" => CutShort
      /\ phase # "unpack" => UNCHANGED <<db, file, lost>>
  BY CutOffIs
<1>2. faults' \in 0..MaxFaults
  BY <1>1, MigrateAssumption DEF UpgradeInv, PlaceInv
<1>3. lost' \in BOOLEAN /\ (lost => lost')
  <2>1. lost' = TRUE \/ lost' = lost
    BY <1>1 DEF CutShort
  <2> QED
    BY <2>1 DEF UpgradeInv, PlaceInv
<1>4. PlaceInv'
  BY <1>1, <1>2, <1>3 DEF UpgradeInv, PlaceInv, Over
<1>5. PlanInv' /\ ServedWhole'
  BY <1>1 DEF PlanInv, ServedWhole
<1>6. CASE phase = "unpack"
  <2>1. lost' = TRUE /\ (db' = db \/ db' = [found EXCEPT !.data = FALSE])
    BY <1>1, <1>6 DEF CutShort, IInv, BackupIsWhole
  <2>2. Known(db') /\ Known(found')
    BY <1>1, <2>1 DEF UpgradeInv, SchemasInv, Known, Database
  <2>3. Known(db)' /\ Known(found)'
    BY <1>1, <2>2 DEF Known
  <2>4. SchemasInv' /\ OrderInv'
    BY <1>1, <2>1, <2>3 DEF SchemasInv, OrderInv
  <2> QED
    BY <1>4, <1>5, <2>4 DEF UpgradeInv
<1>7. CASE phase # "unpack"
  <2>1. Known(db)' /\ Known(found)' /\ (lost' \/ OrderInv')
    BY <1>1, <1>3, <1>7, SameDatabase
  <2>2. OrderInv'
    BY <2>1 DEF OrderInv
  <2>3. file' = "there"
    BY <1>1, <1>7 DEF IInv, BackupIsWhole, UpgradeInv, PlaceInv, Over
  <2>4. SchemasInv'
    BY <1>1, <2>1, <2>3 DEF SchemasInv
  <2> QED
    BY <1>4, <1>5, <2>2, <2>4 DEF UpgradeInv
<1> QED
  BY <1>6, <1>7

\* Of what else happens at any moment nothing matters to the database.
LEMMA OutsideUpgrade ==
    ASSUME IInv, UpgradeInv, Handshake \/ Stop \/ OrganizerRestarts
    PROVE  UpgradeInv'
<1>1. UNCHANGED <<world, db, found, applied>>
  BY DEF Handshake, Stop, OrganizerRestarts, disk, history
<1>2. lost' \in BOOLEAN /\ (lost => lost')
  BY DEF Handshake, Stop, OrganizerRestarts, history, UpgradeInv, PlaceInv
<1>3. /\ Known(db)' /\ Known(found)'
      /\ lost' \/ OrderInv'
  BY <1>1, <1>2, SameDatabase
<1>4. OrderInv'
  BY <1>3 DEF OrderInv
<1>5. ServedWhole => (phase' = "serving" /\ phase # "serving") \/ ServedWhole'
  <2>1. OrgPending(db)' = OrgPending(db)
    BY <1>1 DEF OrgPending
  <2> QED
    BY <1>1, <2>1 DEF ServedWhole
<1>6. CASE Handshake \/ OrganizerRestarts
  <2>1. /\ UNCHANGED <<file, phase, modules, plan, backup, lost, faults>>
        /\ orgOpen' \in BOOLEAN /\ phase \in Over \cup {"serving"}
    BY <1>6 DEF Handshake, OrganizerRestarts, disk, plans, history
  <2> QED
    BY <1>1, <1>3, <1>4, <1>5, <2>1 DEF UpgradeInv, PlaceInv, SchemasInv, PlanInv, Over
<1>7. CASE Stop
  <2>1. phase = "serving" /\ phase' = "off" /\ backup' = NULL /\ UNCHANGED <<file, orgOpen, lost, faults>>
    BY <1>7 DEF Stop, Quit, disk, history
  <2>2. file = "there"
    BY <2>1 DEF UpgradeInv, SchemasInv
  <2>3. SchemasInv'
    BY <1>1, <1>3, <2>1, <2>2 DEF SchemasInv
  <2> QED
    BY <1>1, <1>4, <1>5, <2>1, <2>3 DEF UpgradeInv, PlaceInv, PlanInv, Over
<1> QED
  BY <1>6, <1>7

\* Every step, or none, keeps all of it.
LEMMA NextUpgrade == IInv /\ UpgradeInv /\ [Next]_vars => UpgradeInv'
<1> SUFFICES ASSUME IInv, UpgradeInv, [Next]_vars PROVE UpgradeInv'
  OBVIOUS
<1>1. CASE \E migrate \in BOOLEAN : Start(migrate)
  BY <1>1, StartUpgrade
<1>2. CASE Go \/ ApplyFails
  BY <1>2, ReadUpgrade, SolveUpgrade, ApplyUpgrade, UnpackUpgrade DEF Go
<1>3. CASE Handshake \/ Stop \/ OrganizerRestarts \/ CutOff
  BY <1>3, OutsideUpgrade, CutOffUpgrade
<1>4. CASE UNCHANGED vars
  <2>1. UNCHANGED <<world, db, file, phase, modules, plan, backup, orgOpen, found, applied, lost, faults>>
    BY <1>4 DEF vars
  <2>2. /\ Known(db)' /\ Known(found)'
        /\ Upwards(db, found)' <=> Upwards(db, found)
        /\ Leads(plan, db, found)' <=> Leads(plan, db, found)
        /\ ModulesOf(found)' = ModulesOf(found)
        /\ lost' \/ OrderInv'
    BY <2>1, SameDatabase
  <2>3. OrderInv' /\ ServedWhole'
    BY <2>1, <2>2 DEF UpgradeInv, OrderInv, ServedWhole, OrgPending
  <2> QED
    BY <2>1, <2>2, <2>3 DEF UpgradeInv, PlaceInv, SchemasInv, PlanInv
<1> QED
  BY <1>1, <1>2, <1>3, <1>4 DEF Next, CutOff

\* Both invariants hold of every history of starts.
THEOREM UpgradeHolds == Spec => [](IInv /\ UpgradeInv)
<1>1. Init => IInv /\ UpgradeInv
  BY InitIInv, InitUpgrade
<1>2. IInv /\ UpgradeInv /\ [Next]_vars => (IInv /\ UpgradeInv)'
  BY NextIInv, NextUpgrade
<1> QED
  BY <1>1, <1>2, PTL DEF Spec

-----------------------------------------------------------------------------
\* The variables of migrate_db keep their types: there is a backup and a plan whenever something may
\* be changed or restored, and the file is away only while it is.
THEOREM TypeCorrect == Spec => []TypeOK
<1>1. IInv /\ UpgradeInv => TypeOK
  <2> SUFFICES ASSUME IInv, UpgradeInv PROVE TypeOK
    OBVIOUS
  <2>1. Known(db) /\ Known(found) /\ NULL \notin Database /\ NULL \notin Seq(Migration)
    BY MigrateAssumption DEF UpgradeInv, SchemasInv
  <2>2. /\ db.server \subseteq world.server /\ db.org \subseteq {m.ver : m \in world.org}
        /\ db.sound \in BOOLEAN /\ db.data \in BOOLEAN
    BY <2>1 DEF Known, Database
  <2>3. phase \in {"apply", "restore", "unpack"} => backup # NULL /\ plan # NULL
    <3>1. phase \in {"apply", "restore", "unpack"} => backup \in Database
      BY <2>1 DEF IInv, BackupIsWhole, Known
    <3>2. phase = "apply" => plan \in Seq(Considered(ModulesOf(found)))
      BY DEF UpgradeInv, PlanInv, Leads
    <3>3. phase \in {"restore", "unpack"} => plan \in Seq(Migration)
      BY DEF UpgradeInv, PlanInv
    <3>4. NULL \notin Seq(Considered(ModulesOf(found)))
      BY <2>1, ModulesAre, ConsideredIs, NullIsNoPath DEF IInv
    <3> QED
      BY <2>1, <3>1, <3>2, <3>3, <3>4
  <2>4. phase = "unpack" <=> file # "there" /\ backup # NULL
    BY <2>3 DEF IInv, BackupIsWhole, UpgradeInv, PlaceInv
  <2>5. file \in {"there", "missing", "torn"}
    BY DEF IInv, BackupIsWhole
  <2> QED
    BY <2>2, <2>3, <2>4, <2>5 DEF TypeOK, UpgradeInv, PlaceInv
<1> QED
  BY <1>1, UpgradeHolds, PTL

\* The orders that there are for a database are found, and a NULL says that there is none.
LEMMA SolvableIs ==
    ASSUME world \in World, NEW d, Known(d)
    PROVE  Solution(ModulesOf(d)) = NULL <=> ~Solvable(d)
<1>1. WellFormed(ModulesOf(d))
  BY ModulesAre
<1>2. NULL \notin GoodOrders(ModulesOf(d))
  BY <1>1, GoodOrdersAre, ConsideredIs, NullIsNoPath DEF Path
<1> QED
  BY <1>1, <1>2, SolverIsRight DEF Solvable

\* "find a valid path of migrations that upgrades all modules to their latest version": at every
\* start the search finds one exactly when there is one, and none is shorter.
THEOREM PlanIsShortestHolds == Spec => []PlanIsShortest
<1>1. IInv /\ UpgradeInv => PlanIsShortest
  <2> SUFFICES ASSUME IInv, UpgradeInv, phase = "solve"
               PROVE  LET p == Solution(modules)
                          good == GoodOrders(modules)
                      IN  IF good = {} THEN p = NULL ELSE p \in good /\ \A q \in good : Len(p) <= Len(q)
    BY DEF PlanIsShortest
  <2>1. modules = ModulesOf(found) /\ Known(found) /\ world \in World
    BY DEF IInv, UpgradeInv, PlanInv, SchemasInv
  <2>2. WellFormed(modules)
    BY <2>1, ModulesAre
  <2> QED
    BY <2>2, SolverIsRight
<1> QED
  BY <1>1, UpgradeHolds, PTL

\* When a server that migrated something comes up, both schemas are at their latest version and no
\* foreign key dangles.
THEOREM ServedWholeHolds == Spec => []ServedWhole
<1>1. UpgradeInv => ServedWhole
  BY DEF UpgradeInv
<1> QED
  BY <1>1, UpgradeHolds, PTL

\* An upgrade that had an order at first still has one after any failures and crashes but one in the
\* middle of a restoration: "unsolvable dependencies" is never the result of an interruption.
THEOREM NoDeadEndHolds == Spec => []NoDeadEnd
<1>1. IInv /\ UpgradeInv => NoDeadEnd
  <2> SUFFICES ASSUME IInv, UpgradeInv, phase = "solve", ~lost, Solution(modules) = NULL
               PROVE  Solution(ModulesOf(world.db)) = NULL
    BY DEF NoDeadEnd
  <2>1. modules = ModulesOf(found) /\ Known(found) /\ world \in World /\ Known(world.db)
    BY WorldIs DEF IInv, UpgradeInv, PlanInv, SchemasInv
  <2>2. ~Solvable(found)
    BY <2>1, SolvableIs
  <2>3. ~Solvable(world.db)
    BY <2>2 DEF UpgradeInv, OrderInv
  <2> QED
    BY <2>1, <2>3, SolvableIs
<1> QED
  BY <1>1, UpgradeHolds, PTL

\* The server's migrations are applied from the oldest, and the organizer's on schemas they were made
\* for only, over however many starts.
THEOREM InOrderHolds == Spec => InOrder
<1>1. ASSUME IInv, UpgradeInv, [Next]_vars
      PROVE  StepInOrder \/ UNCHANGED vars
  <2>1. CASE Apply \/ ApplyFails
    <3> DEFINE m == Head(plan)
    <3>1. /\ phase = "apply" /\ plan # <<>> /\ world \in World
          /\ Known(db) /\ Known(found) /\ Upwards(db, found) /\ Leads(plan, db, found)
      BY <1>1, <2>1 DEF Apply, ApplyFails, IInv, UpgradeInv, SchemasInv, PlanInv
    <3>2. m \in Migration /\ m.mod \in Module
      <4>1. Considered(ModulesOf(found)) \subseteq Migration /\ plan \in Seq(Considered(ModulesOf(found)))
        BY <3>1, ModulesAre, ConsideredIs DEF Leads
      <4> QED
        BY <3>1, <4>1, PathSplit DEF Migration
    <3>3. \/ db' = db \/ db' = Migrated(db, m)
          \/ \E sound \in BOOLEAN : db' = [Migrated(db, m) EXCEPT !.sound = sound]
      BY <2>1 DEF Apply, ApplyFails
    <3>4. Gains(Migrated(db, m), db, m) /\ (db' = db \/ Gains(db', db, m))
      <4>1. Gains(Migrated(db, m), db, m)
        BY <3>1, <3>2, MigratedGains
      <4>2. ASSUME NEW sound \in BOOLEAN PROVE Gains([Migrated(db, m) EXCEPT !.sound = sound], db, m)
        BY <3>1, <3>2, MigratedGains
      <4> HIDE DEF m
      <4> QED
        BY <3>3, <4>1, <4>2
    <3>5. /\ m \in Considered(ModulesOf(found)) /\ Fits(m, Current(ModulesOf(db)))
          /\ m.mod = "server" => m.ver \notin db.server
      BY <3>1, <3>4, LeadsOn
    <3> HIDE DEF m
    <3>6. CASE m.mod = "server"
      <4>1. /\ \A w \in Pending(db) : w = m.ver \/ m.ver < w
            /\ m.ver \in Pending(db)
        BY <3>1, <3>5, <3>6, ServerStep
      <4>2. db'.server \subseteq db.server \cup {m.ver} /\ db'.org \subseteq db.org
        BY <3>1, <3>4, <3>6 DEF Gains, Migrated, Known, Database
      <4>3. ASSUME NEW w \in world.server, w < m.ver
            PROVE  w \in db.server
        <5>1. w \in Nat /\ m.ver \in Nat
          BY <3>1, <4>1, WorldIs DEF Pending
        <5> QED
          BY <4>1, <4>3, <5>1 DEF Pending
      <4> QED
        BY <4>2, <4>3 DEF StepInOrder
    <3>7. CASE m.mod = "org"
      <4>1. m \in world.org
        BY <3>1, <3>5, <3>7, OrgStep
      <4>2. db'.org \subseteq db.org \cup {m.ver} /\ db'.server \subseteq db.server
        BY <3>1, <3>4, <3>7 DEF Gains, Migrated, Known, Database
      <4> QED
        BY <3>5, <4>1, <4>2 DEF StepInOrder
    <3> QED
      BY <3>2, <3>6, <3>7 DEF Module
  <2>2. CASE \E migrate \in BOOLEAN : Start(migrate)
    <3>1. db' = db \/ db' = Empty
      BY <1>1, <2>2 DEF Start, disk, IInv, BackupIsWhole
    <3> QED
      BY <3>1 DEF StepInOrder, Empty
  <2>3. CASE Unpack
    <3>1. phase = "unpack" /\ file' # file /\ db' = found /\ found.org \subseteq db.org
      BY <1>1, <2>3 DEF Unpack, IInv, BackupIsWhole, UpgradeInv, SchemasInv, Upwards
    <3> QED
      BY <3>1 DEF StepInOrder
  <2>4. CASE Check \/ Solve \/ Backup \/ CheckKeys \/ Restore \/ Handshake \/ Stop \/ OrganizerRestarts
    <3>1. db' = db
      BY <2>4 DEF Check, Solve, Backup, CheckKeys, Restore, Handshake, Stop, OrganizerRestarts, disk
    <3> QED
      BY <3>1 DEF StepInOrder
  <2>5. CASE CutOff
    <3>1. CASE phase = "unpack"
      <4>1. /\ db' = db \/ db' = [found EXCEPT !.data = FALSE]
            /\ found.server \subseteq db.server /\ found.org \subseteq db.org /\ Record(found)
        BY <1>1, <2>5, <3>1, CutOffIs
           DEF CutShort, IInv, BackupIsWhole, Records, UpgradeInv, SchemasInv, Upwards
      <4>2. db'.server \subseteq db.server /\ db'.org \subseteq db.org
        BY <4>1 DEF Record
      <4> QED
        BY <4>2 DEF StepInOrder
    <3>2. CASE phase # "unpack"
      <4>1. db' = db
        BY <2>5, <3>2, CutOffIs
      <4> QED
        BY <4>1 DEF StepInOrder
    <3> QED
      BY <3>1, <3>2
  <2> QED
    BY <1>1, <2>1, <2>2, <2>3, <2>4, <2>5 DEF Next, Go, CutOff
<1>2. IInv /\ UpgradeInv /\ [Next]_vars => [StepInOrder]_vars
  BY <1>1
<1> QED
  BY <1>2, UpgradeHolds, PTL DEF Spec, InOrder

-----------------------------------------------------------------------------
(* Starts are all or nothing *)

\* A database on its way up from f is ahead of f, as Upgrade has it.
LEMMA AheadIs ==
    ASSUME world \in World, NEW d, NEW f, d \in Database, Upwards(d, f), d.data = f.data
    PROVE  Promise!Ahead(f, d)
<1>1. d.server \subseteq Nat
  BY DEF Database
<1>2. ASSUME NEW v \in d.server \ f.server, NEW w \in world.server, w < v, w \notin d.server
      PROVE  FALSE
  <2>1. v < w /\ v \in Nat /\ w \in Nat
    BY <1>1, <1>2, WorldIs DEF Upwards
  <2> QED
    BY <1>2, <2>1
<1>3. schemaOf.server = world.server
  BY DEF schemaOf
<1> QED
  BY <1>2, <1>3 DEF Promise!Ahead, Upwards

\* A database without pending migrations is whole, as Upgrade has it.
LEMMA WholeIs ==
    ASSUME world \in World, NEW d, Known(d), d.server = world.server, OrgPending(d) = {}, d.sound
    PROVE  Promise!Whole(d)
<1>1. schemaOf.server = world.server /\ schemaOf.org = {m.ver : m \in world.org}
  BY DEF schemaOf
<1>2. ASSUME NEW m \in world.org
      PROVE  \E w \in d.org : m.ver <= w
  <2>1. m.ver \in Nat /\ OrgVersion(d) \in Nat /\ ~(m.ver > OrgVersion(d))
    BY <1>2, WorldIs, LatestIs DEF OrgPending, Migration
  <2>2. m.ver # 0
    <3>1. PICK dep \in m.deps : dep.max # NULL /\ dep.max < m.ver
      BY <1>2, WorldIs
    <3>2. m \in Migration
      BY <1>2, WorldIs
    <3>3. dep.max \in Nat
      BY <3>1, <3>2 DEF Migration, Dependency
    <3> QED
      BY <2>1, <3>1, <3>3
  <2>3. OrgVersion(d) \in d.org
    BY <2>1, <2>2, LatestIs
  <2> QED
    BY <2>1, <2>3
<1> QED
  BY <1>1, <1>2 DEF Promise!Whole

\* A start that finds a database serves it, or begins to work on it; nothing else has changed.
LEMMA StartStep ==
    ASSUME IInv, UpgradeInv, NEW migrate \in BOOLEAN, Start(migrate)
    PROVE  Promise!Serve \/ UNCHANGED <<schemaOf, modeOf, storedOf>>
<1>1. /\ phase \in Over /\ found' = db' /\ world' = world
      /\ file \in {"there", "missing", "torn"}
  BY DEF Start, IInv, BackupIsWhole
<1>2. schemaOf' = schemaOf /\ modeOf = "down"
  BY <1>1 DEF schemaOf, modeOf, Over
<1>3. storedOf = [there |-> db, missing |-> Empty, torn |-> NULL][file]
  BY <1>1 DEF storedOf, Working, Over
<1>4. CASE file = "torn"
  <2>1. phase' = "failed" /\ file' = "torn"
    BY <1>4 DEF Start, disk
  <2> QED
    BY <1>2, <1>3, <1>4, <2>1 DEF storedOf, modeOf, Working, Over
<1>5. CASE file = "there" /\ ~migrate
  <2>1. phase' = "serving" /\ file' = "there" /\ db' = db
    BY <1>5 DEF Start, disk
  <2>2. modeOf' = "up" /\ storedOf = db /\ storedOf' = db
    BY <1>3, <1>5, <2>1 DEF storedOf, modeOf, Working, Over
  <2>3. db # NULL
    BY MigrateAssumption DEF UpgradeInv, SchemasInv, Known
  <2> QED
    BY <1>2, <2>2, <2>3 DEF Promise!Serve, Promise!From
<1>6. CASE file = "there" /\ migrate
  <2>1. phase' = "check" /\ db' = db
    BY <1>6 DEF Start, disk
  <2> QED
    BY <1>1, <1>2, <1>3, <1>6, <2>1 DEF storedOf, modeOf, Working, Over
<1>7. CASE file = "missing"
  <2>1. phase' = "check" /\ db' = Empty
    BY <1>7 DEF Start
  <2> QED
    BY <1>1, <1>2, <1>3, <1>7, <2>1 DEF storedOf, modeOf, Working, Over
<1> QED
  BY <1>1, <1>4, <1>5, <1>6, <1>7

\* What is done to a database of which there is a backup, or on which nothing was done yet, does not
\* count until it is served.
LEMMA WorkStep ==
    ASSUME IInv, UpgradeInv, Check \/ Solve \/ Backup \/ Apply \/ ApplyFails \/ CheckKeys
    PROVE  Promise!Serve \/ UNCHANGED <<schemaOf, modeOf, storedOf>>
<1>1. /\ phase \in {"check", "solve", "backup", "apply"} /\ file = "there"
      /\ UNCHANGED <<world, file, found>>
      /\ phase' \in {"solve", "backup", "apply", "restore", "serving", "failed"}
  <2>1. CASE Check \/ Solve \/ Backup
    BY <2>1 DEF Check, Solve, Backup, Quit, disk, history, IInv, BackupIsWhole
  <2>2. CASE Apply \/ ApplyFails \/ CheckKeys
    BY <2>2 DEF Apply, ApplyFails, CheckKeys, Quit, disk, plans, history, IInv, BackupIsWhole
  <2> QED
    BY <2>1, <2>2
<1>2. schemaOf' = schemaOf /\ modeOf = "down" /\ storedOf = found
  BY <1>1 DEF schemaOf, modeOf, storedOf, Working
<1>3. CASE phase' \in {"solve", "backup", "apply", "restore"}
  BY <1>1, <1>2, <1>3 DEF modeOf, storedOf, Working
<1>4. CASE phase' = "failed"
  <2>1. Check \/ Solve \/ Backup
    BY <1>1, <1>4 DEF Apply, ApplyFails, CheckKeys, Quit
  <2>2. phase \in {"check", "solve", "backup"} /\ db' = db
    BY <2>1 DEF Check, Solve, Backup, disk
  <2>3. db' = found
    BY <2>2 DEF IInv, BackupIsWhole
  <2> QED
    BY <1>1, <1>2, <1>4, <2>3 DEF modeOf, storedOf, Working
<1>5. CASE phase' = "serving"
  <2>1. Solve \/ CheckKeys
    BY <1>1, <1>5 DEF Check, Backup, Apply, ApplyFails, Quit
  <2>2. modeOf' = "up" /\ storedOf' = db'
    BY <1>1, <1>5 DEF modeOf, storedOf, Working
  <2>3. Known(found) /\ found # NULL /\ Known(db) /\ world \in World
    BY MigrateAssumption DEF IInv, UpgradeInv, SchemasInv, Known
  <2>4. CASE Solve
    <3>1. db' = found
      BY <2>4 DEF Solve, disk, IInv, BackupIsWhole
    <3> QED
      BY <1>2, <2>2, <2>3, <3>1 DEF Promise!Serve, Promise!From
  <2>5. CASE CheckKeys
    <3>1. phase = "apply" /\ plan = <<>> /\ db' = db /\ db.sound
      BY <1>5, <2>5 DEF CheckKeys, disk
    <3>2. Upwards(db, found) /\ Leads(plan, db, found) /\ db.data = found.data
      BY <3>1 DEF UpgradeInv, SchemasInv, PlanInv, IInv, BackupIsWhole
    <3>3. Promise!Ahead(found, db)
      BY <2>3, <3>2, AheadIs DEF Known
    <3>4. Promise!Whole(db)
      BY <2>3, <3>1, <3>2, LeadsEnd, WholeIs
    <3> QED
      BY <1>2, <2>2, <2>3, <3>1, <3>3, <3>4 DEF Promise!Serve, Promise!From
  <2> QED
    BY <2>1, <2>4, <2>5
<1> QED
  BY <1>1, <1>3, <1>4, <1>5

\* The file goes and comes again, with all that was found.
LEMMA RestoreStep ==
    ASSUME IInv, UpgradeInv, Restore \/ Unpack
    PROVE  Promise!Replace \/ Promise!Replaced
<1>1. schemaOf' = schemaOf /\ found' = found
  BY DEF Restore, Unpack, schemaOf, history
<1>2. CASE Restore
  <2>1. phase = "restore" /\ phase' = "unpack"
    BY <1>2 DEF Restore
  <2>2. modeOf = "down" /\ modeOf' = "restoring" /\ storedOf' = storedOf
    BY <1>1, <2>1 DEF modeOf, storedOf, Working
  <2> QED
    BY <1>1, <2>2 DEF Promise!Replace, Promise!From
<1>3. CASE Unpack
  <2>1. phase = "unpack" /\ phase' = "failed" /\ file' = "there" /\ db' = found
    BY <1>3 DEF Unpack, Quit, IInv, BackupIsWhole
  <2>2. modeOf = "restoring" /\ modeOf' = "down" /\ storedOf = found /\ storedOf' = found
    BY <1>1, <2>1 DEF modeOf, storedOf, Working
  <2> QED
    BY <1>1, <2>2 DEF Promise!Replaced, Promise!From
<1> QED
  BY <1>2, <1>3

\* What is cut off leaves what had been done of the plan, but in the middle of a restoration nothing,
\* some of what was found, or nothing that can be opened.
LEMMA CutOffStep == ASSUME IInv, UpgradeInv, CutOff PROVE Promise!Killed \/ Promise!Replaced
<1>1. /\ phase \notin Over \cup {"serving"} /\ phase' \in {"off", "unrestored"}
      /\ world' = world /\ found' = found
      /\ phase = "unpack" => CutShort
      /\ phase # "unpack" => UNCHANGED <<db, file, lost>>
  BY CutOffIs
<1>2. schemaOf' = schemaOf /\ modeOf' = "down"
  BY <1>1 DEF schemaOf, modeOf
<1>3. phase \in Working
  BY <1>1 DEF UpgradeInv, PlaceInv, Working
<1>4. storedOf = found /\ storedOf' = [there |-> db', missing |-> Empty, torn |-> NULL][file']
  BY <1>1, <1>3 DEF storedOf, Working, Empty
<1>5. CASE phase = "unpack"
  <2>1. \/ file' \in {"missing", "torn"}
        \/ file' = "there" /\ db' = [found EXCEPT !.data = FALSE]
    BY <1>1, <1>5 DEF CutShort, IInv, BackupIsWhole
  <2>2. storedOf' \in {[found EXCEPT !.data = FALSE], Empty, NULL}
    <3>1. CASE file' = "missing"
      BY <1>4, <3>1
    <3>2. CASE file' = "torn"
      BY <1>4, <3>2
    <3>3. CASE file' = "there" /\ db' = [found EXCEPT !.data = FALSE]
      BY <1>4, <3>3
    <3> QED
      BY <2>1, <3>1, <3>2, <3>3
  <2>3. modeOf = "restoring"
    BY <1>5 DEF modeOf
  <2> QED
    BY <1>2, <1>4, <2>2, <2>3 DEF Promise!Replaced, Promise!From
<1>6. CASE phase # "unpack"
  <2>1. file = "there"
    BY <1>3, <1>6 DEF Working, IInv, BackupIsWhole
  <2>2. modeOf = "down" /\ storedOf' = db
    BY <1>1, <1>3, <1>4, <1>6, <2>1 DEF modeOf, Working
  <2>3. Known(db) /\ found # NULL /\ world \in World
    BY MigrateAssumption DEF IInv, UpgradeInv, SchemasInv, Known
  <2>4. Upwards(db, found) /\ db.data = found.data
    <3>1. CASE phase \in {"check", "solve", "backup"}
      <4>1. db = found
        BY <3>1 DEF IInv, BackupIsWhole
      <4> QED
        BY <4>1 DEF Upwards
    <3>2. CASE phase \in {"apply", "restore"}
      BY <3>2 DEF UpgradeInv, SchemasInv, IInv, BackupIsWhole
    <3> QED
      BY <1>3, <1>6, <3>1, <3>2 DEF Working
  <2>5. Promise!Ahead(found, db)
    BY <2>3, <2>4, AheadIs DEF Known
  <2> QED
    BY <1>2, <1>4, <2>2, <2>3, <2>5 DEF Promise!Killed, Promise!From
<1> QED
  BY <1>5, <1>6

\* A server is closed, and the organizer is not looked at.
LEMMA OutsideStep ==
    ASSUME IInv, UpgradeInv, Handshake \/ Stop \/ OrganizerRestarts
    PROVE  Promise!Close \/ UNCHANGED <<schemaOf, modeOf, storedOf>>
<1>1. schemaOf' = schemaOf /\ found' = found /\ db' = db
  BY DEF Handshake, Stop, OrganizerRestarts, schemaOf, disk, history
<1>2. CASE Handshake \/ OrganizerRestarts
  <2>1. phase' = phase /\ file' = file
    BY <1>2 DEF Handshake, OrganizerRestarts, disk
  <2> QED
    BY <1>1, <2>1 DEF modeOf, storedOf
<1>3. CASE Stop
  <2>1. phase = "serving" /\ phase' = "off" /\ file' = file
    BY <1>3 DEF Stop, Quit, disk
  <2>2. modeOf = "up" /\ modeOf' = "down" /\ storedOf' = storedOf
    BY <1>1, <2>1 DEF modeOf, storedOf, Working
  <2> QED
    BY <1>1, <2>2 DEF Promise!Close, Promise!From
<1> QED
  BY <1>2, <1>3

\* Every step of a start is one of Upgrade, or none.
LEMMA UpgradeStep ==
    ASSUME IInv, UpgradeInv, [Next]_vars
    PROVE  [Promise!UpgradeNext]_<<schemaOf, modeOf, storedOf>>
<1>1. CASE \E migrate \in BOOLEAN : Start(migrate)
  BY <1>1, StartStep DEF Promise!UpgradeNext
<1>2. CASE Check \/ Solve \/ Backup \/ Apply \/ ApplyFails \/ CheckKeys
  BY <1>2, WorkStep DEF Promise!UpgradeNext
<1>3. CASE Restore \/ Unpack
  BY <1>3, RestoreStep DEF Promise!UpgradeNext
<1>4. CASE Handshake \/ Stop \/ OrganizerRestarts \/ CutOff
  BY <1>4, OutsideStep, CutOffStep DEF Promise!UpgradeNext
<1>5. CASE UNCHANGED vars
  BY <1>5 DEF vars, schemaOf, modeOf, storedOf
<1> QED
  BY <1>1, <1>2, <1>3, <1>4, <1>5 DEF Next, Go, CutOff

\* Every history of starts is one of Upgrade: a start is all or nothing, and one that is killed, or
\* cannot be undone, costs neither the users' data nor the order of the migrations, unless a backup
\* was being unpacked.
THEOREM Refinement == Spec => ImplementsUpgrade
<1>1. Init => Promise!UpgradeInit
  <2> SUFFICES ASSUME Init PROVE Promise!UpgradeInit
    OBVIOUS
  <2>1. phase = "off" /\ file \in {"there", "missing"} /\ db \in Database
    BY MigrateAssumption DEF Init
  <2>2. Empty \in Database /\ NULL \notin Database
    BY MigrateAssumption DEF Empty, Database
  <2>3. modeOf = "down" /\ storedOf \in {db, Empty}
    BY <2>1 DEF modeOf, storedOf, Working
  <2> QED
    BY <2>1, <2>2, <2>3 DEF Promise!UpgradeInit
<1> QED
  BY <1>1, UpgradeStep, UpgradeHolds, PTL DEF Spec, ImplementsUpgrade, Promise!UpgradeSpec, Promise!upgradeVars
=============================================================================
