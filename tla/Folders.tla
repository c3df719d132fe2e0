------------------------------ MODULE Folders ------------------------------
(***************************************************************************)
(* The folders of the basic_folders organizer: trees of folders and media  *)
(* files in the database it shares with the server, who owns what in them, *)
(* and what navigating, moving, trashing and a restart do to them.         *)
(*                                                                         *)
(* The organizer is one asyncio loop over synchronous SQLAlchemy: what it  *)
(* does between two calls of the server is one step, and a step here is    *)
(* one transaction, with the lookup of the home folder that follows it     *)
(* when the page shown is the user's home.  The sort order and the titles  *)
(* of folders are left out.                                                *)
(***************************************************************************)
EXTENDS Naturals, FiniteSets

CONSTANTS Users,
          Admins,      \* users whose sessions are those of admins
          Uploaders,   \* bound: users whose files the server ingests
          Media,       \* media files the server may have
          MaxFolders,  \* bound: folders ever made
          NULL

ASSUME FoldersAssumption ==
    /\ Admins \subseteq Users
    /\ Uploaders \subseteq Users
    /\ MaxFolders \in Nat
    /\ NULL \notin Users \cup 1..MaxFolders

Folder == 1..MaxFolders  \* AUTOINCREMENT: an id is never used again

VARIABLES
    db,       \* owner of each folder, its parent, user of each media file, its folder
    bin,      \* media files each user's trash_folder has still to have deleted
    homes     \* users whose homes an admin's page has still to look up

vars == <<db, bin, homes>>

Database == [owner : [Folder -> Users \cup {NULL}],
             parent : [Folder -> Folder \cup {NULL}],
             holder : [Media -> Users \cup {NULL}],
             place : [Media -> Folder \cup {NULL}],
             made : 0..MaxFolders]

Exists(d, f) == d.owner[f] # NULL

\* Foreign keys: items are of folders and files that exist, and no folder is an item of itself.
KeysHold(d) ==
    /\ d \in Database
    /\ \A f \in Folder : /\ f > d.made => ~Exists(d, f)
                         /\ d.parent[f] # NULL => Exists(d, f) /\ Exists(d, d.parent[f])
                         /\ d.parent[f] # f
    /\ \A m \in Media : d.place[m] # NULL => d.holder[m] # NULL /\ Exists(d, d.place[m])

TypeOK ==
    /\ KeysHold(db)
    /\ bin \in [Users -> SUBSET Media]
    /\ homes \in [Users -> SUBSET Users]

Init ==
    /\ db = [owner |-> [f \in Folder |-> NULL], parent |-> [f \in Folder |-> NULL],
             holder |-> [m \in Media |-> NULL], place |-> [m \in Media |-> NULL], made |-> 0]
    /\ bin = [u \in Users |-> {}]
    /\ homes = [u \in Users |-> {}]

----------------------------------------------------------------------------
\* A folder with all that is below it: the least set with the subfolders of its members.
Subfolders(d) == {g \in Folder : d.parent[g] # NULL}

Tree(d, f) ==
    LET closed == {S \in SUBSET Subfolders(d) :
                       \A g \in Subfolders(d) : d.parent[g] \in S \cup {f} => g \in S}
    IN  {f} \cup {g \in Subfolders(d) : \A S \in closed : g \in S}

\* The folders with no top above them: those on a loop, and what is below these.
Astray(d) == UNION {S \in SUBSET Folder : \A g \in S : d.parent[g] \in S}

Looped(d) == {f \in Astray(d) : d.parent[f] \in Tree(d, f)}

FilesIn(d, fs) == {m \in Media : d.place[m] \in fs}

Tops(d, u) == {f \in Folder : d.owner[f] = u /\ d.parent[f] = NULL}

MayUse(d, u, f) == Exists(d, f) /\ (d.owner[f] = u \/ u \in Admins)

----------------------------------------------------------------------------
\* Transactions on the database.

\* The home: the oldest top folder, or the one that is then made.
Home(d, u) == IF Tops(d, u) = {} THEN d.made + 1 ELSE CHOOSE f \in Tops(d, u) : \A g \in Tops(d, u) : f <= g

RoomFor(d, u) == Tops(d, u) = {} => d.made < MaxFolders

\* Faulty: makes a folder, and moves none.
LookUpNoneMoved(d, u) ==
    LET home == Home(d, u) IN
    [d EXCEPT !.owner[home] = u, !.made = IF home > d.made THEN home ELSE d.made]

\* db_get_or_create_user_root_folder: a home is made if there is no
\* top folder; of several, the oldest gets the others; and the user's files that are in no folder.
LookUp(d, u) ==
    LET home == Home(d, u) IN
    [owner |-> [d.owner EXCEPT ![home] = u],
     parent |-> [f \in Folder |-> IF f \in Tops(d, u) \ {home} THEN home ELSE d.parent[f]],
     holder |-> d.holder,
     place |-> [m \in Media |-> IF d.holder[m] = u /\ d.place[m] = NULL THEN home ELSE d.place[m]],
     made |-> IF home > d.made THEN home ELSE d.made]

\* Faulty: the folder and its files, but not what is in folders below it.
TransferShallow(d, f, u) ==
    [d EXCEPT !.owner[f] = u,
              !.holder = [m \in Media |-> IF d.place[m] = f THEN u ELSE d.holder[m]]]

\* _recursive_set_folder_owner
Transfer(d, f, u) ==
    LET tree == Tree(d, f) IN
    [d EXCEPT !.owner = [g \in Folder |-> IF g \in tree THEN u ELSE d.owner[g]],
              !.holder = [m \in Media |-> IF d.place[m] \in tree THEN u ELSE d.holder[m]]]

\* Faulty: the folder alone; by the foreign keys what was in it is in no folder then.
DiscardAlone(d, f) ==
    [d EXCEPT !.owner[f] = NULL,
              !.parent = [g \in Folder |-> IF g = f \/ d.parent[g] = f THEN NULL ELSE d.parent[g]],
              !.place = [m \in Media |-> IF d.place[m] = f THEN NULL ELSE d.place[m]]]

\* trash_folder_recursive: the folders with their items are gone, the files are not.
Discard(d, f) ==
    LET tree == Tree(d, f) IN
    [d EXCEPT !.owner = [g \in Folder |-> IF g \in tree THEN NULL ELSE d.owner[g]],
              !.parent = [g \in Folder |-> IF g \in tree THEN NULL ELSE d.parent[g]],
              !.place = [m \in Media |-> IF d.place[m] \in tree THEN NULL ELSE d.place[m]]]

\* The row of a media file is deleted by the server, and its item with it.
Delete(d, m) == [d EXCEPT !.holder[m] = NULL, !.place[m] = NULL]

\* db_check_for_folder_loops: of every loop one item is deleted, that of the folder in cut.
Mend(d, cut) == [d EXCEPT !.parent = [f \in Folder |-> IF f \in cut THEN NULL ELSE d.parent[f]]]

\* Faulty: only loops of two folders are seen.
OnePerPair(d, cut) ==
    \A f \in Looped(d) : d.parent[d.parent[f]] = f => Cardinality(cut \cap Tree(d, f)) = 1

\* Which of a loop it is depends on the order of the rows.
OnePerLoop(d, cut) == \A f \in Looped(d) : Cardinality(cut \cap Tree(d, f)) = 1

----------------------------------------------------------------------------
\* An admin's page of the own home goes on, after a call of the server, to all the others' homes.
AtHome(u) == IF u \in Admins THEN [homes EXCEPT ![u] = Users \ {u}] ELSE homes

\* So does the page of any other folder that the path has alone.
ShowOne(u, d) ==
    /\ u \in Admins
    /\ \E f \in Folder : Exists(d, f)
    /\ homes' = AtHome(u)

\* construct_navi_page at the end of a command: it looks the home up when the cookie has no path, or
\* one with a folder that is gone.
Show(u, d) ==
    \/ db' = d /\ (homes' = homes \/ ShowOne(u, d))
    \/ /\ RoomFor(d, u)
       /\ db' = LookUp(d, u)
       /\ homes' = AtHome(u)

\* navigate_page, and any other request whose cookie has no path
Navigate(u) ==
    /\ RoomFor(db, u)
    /\ db' = LookUp(db, u)
    /\ homes' = AtHome(u)
    /\ UNCHANGED bin

\* ... and one whose page is a single folder.
Visit(u) ==
    /\ ShowOne(u, db)
    /\ UNCHANGED <<db, bin>>

\* _admin_show_all_user_homes: each in a transaction of its own, with a call of the server between
\* two of them only to report several top folders.
ShowHome(u, v) ==
    /\ v \in homes[u]
    /\ RoomFor(db, v)
    /\ db' = LookUp(db, v)
    /\ homes' = [homes EXCEPT ![u] = @ \ {v}]
    /\ UNCHANGED bin

\* new_folder in the last folder of the cookie's path; if the path is empty, in the home.
MakeIn(d, p) ==
    [d EXCEPT !.owner[d.made + 1] = d.owner[p], !.parent[d.made + 1] = p, !.made = d.made + 1]

NewFolder(u, p) ==
    /\ db.made < MaxFolders
    /\ MayUse(db, u, p)
    /\ Show(u, MakeIn(db, p))
    /\ UNCHANGED bin

NewFolderAtHome(u) ==
    LET d == LookUp(db, u) IN
    /\ RoomFor(db, u)
    /\ d.made < MaxFolders
    /\ db' = MakeIn(d, Home(db, u))
    /\ homes' = AtHome(u)
    /\ UNCHANGED bin

\* move_to_folder, one item of it: each has a transaction of its own, and when one is refused those
\* before it stay where they were moved to.  Nothing refuses a folder that dst is below.
MoveFolder(u, f, dst) ==
    /\ MayUse(db, u, dst) /\ MayUse(db, u, f)
    /\ f # dst
    /\ db.parent[f] # NULL
    /\ Show(u, Transfer([db EXCEPT !.parent[f] = dst], f, db.owner[dst]))
    /\ UNCHANGED bin

\* ... and a media file, which an admin may take from any user and give to any other.
MoveFile(u, m, dst) ==
    /\ MayUse(db, u, dst)
    /\ db.holder[m] # NULL
    /\ db.holder[m] = u \/ u \in Admins
    /\ Show(u, [db EXCEPT !.holder[m] = db.owner[dst], !.place[m] = dst])
    /\ UNCHANGED bin

\* trash_folder: the transaction.  On a loop it recurses until Python refuses, and changes nothing.
\* (bound: one such command of a user at a time)
TrashFolder(u, f) ==
    /\ bin[u] = {}
    /\ LET tree == Tree(db, f)
           files == FilesIn(db, tree)
       IN  /\ \A g \in tree : MayUse(db, u, g)
           /\ db.parent[f] \notin tree
           /\ bin' = [bin EXCEPT ![u] = files]
           /\ IF files = {} THEN Show(u, Discard(db, f))
              ELSE db' = Discard(db, f) /\ homes' = homes

\* ... and after it one call of the server for each of the files, which it answers for one that is
\* gone too, and whoever has the file by now.
DeleteNext(u, m) ==
    /\ m \in bin[u]
    /\ bin' = [bin EXCEPT ![u] = @ \ {m}]
    /\ IF bin'[u] = {} THEN Show(u, Delete(db, m))
       ELSE db' = Delete(db, m) /\ homes' = homes

\* A call that fails, by the connection or the server's database, ends the command: the other files
\* stay, and go home with their user's next lookup.
DeleteFails(u) ==
    /\ bin[u] # {}
    /\ bin' = [bin EXCEPT ![u] = {}]
    /\ UNCHANGED <<db, homes>>

\* The server, in its own process: a media file ingested, or deleted by a client.
Ingested(m, u) ==
    /\ u \in Uploaders
    /\ db.holder[m] = NULL
    /\ db' = [db EXCEPT !.holder[m] = u]
    /\ UNCHANGED <<bin, homes>>

Deleted(m) ==
    /\ db.holder[m] # NULL
    /\ db' = Delete(db, m)
    /\ UNCHANGED <<bin, homes>>

\* The organizer ends, and is started again by the next handshake, which mends the loops.
Restart ==
    /\ bin' = [u \in Users |-> {}]
    /\ homes' = [u \in Users |-> {}]
    /\ \E cut \in SUBSET Looped(db) : OnePerLoop(db, cut) /\ db' = Mend(db, cut)

Next ==
    \/ \E u \in Users : Navigate(u) \/ Visit(u) \/ NewFolderAtHome(u) \/ DeleteFails(u)
    \/ \E u, v \in Users : ShowHome(u, v)
    \/ \E u \in Users, f \in Folder : NewFolder(u, f) \/ TrashFolder(u, f)
    \/ \E u \in Users, f, dst \in Folder : MoveFolder(u, f, dst)
    \/ \E u \in Users, m \in Media, dst \in Folder : MoveFile(u, m, dst)
    \/ \E u \in Users, m \in Media : DeleteNext(u, m) \/ Ingested(m, u)
    \/ \E m \in Media : Deleted(m)
    \/ Restart

Spec == Init /\ [][Next]_vars

----------------------------------------------------------------------------
\* What is in a folder belongs to the owner of that folder.  Every check of permission looks at
\* one folder or file alone, and a folder with others' folders in it can be neither shown nor
\* trashed, so this must survive whatever admins move where, loops included.
Agree(d) ==
    /\ \A f \in Folder : d.parent[f] # NULL => d.owner[f] = d.owner[d.parent[f]]
    /\ \A m \in Media : d.place[m] # NULL => d.holder[m] = d.owner[d.place[m]]

OwnersAgree == Agree(db)

\* Only the repair of loops at a start gives a user a second top folder, the "inconsistent state"
\* of the lookup: two pages at once, an admin's page and homes trashed or moved do not.
OneHome ==
    [][\A u \in Users : \/ Cardinality(Tops(db', u)) <= 1
                        \/ Tops(db', u) \subseteq Tops(db, u)
                        \/ Restart]_db

\* Folders are on a loop only by a move of a folder to below itself, and none is after a start.
LoopsAreMended ==
    [][/\ Restart => Looped(db') = {}
       /\ db'.parent # db.parent =>
             \/ Looped(db') \subseteq Looped(db)
             \/ \E u \in Users, f, dst \in Folder :
                    MoveFolder(u, f, dst) /\ dst \in Tree(db, f)]_vars

\* After the lookup of a user's home all the user has is below it, but what a loop leads astray.
HasAll(d, u) ==
    LET below == Tree(d, Home(d, u)) \cup Astray(d)
    IN  /\ \A f \in Folder : d.owner[f] = u => f \in below
        /\ \A m \in Media : d.holder[m] = u => d.place[m] \in below

HomeHasAll == [][\A u \in Users : Navigate(u) => HasAll(db', u)]_db
=============================================================================
