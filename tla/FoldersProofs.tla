--------------------------- MODULE FoldersProofs ---------------------------
(***************************************************************************)
(* Proofs about Folders, for any users, admins, media files and number of  *)
(* folders.  The foreign keys and the agreement of owners are preserved by *)
(* every transaction together; that a subtree is closed under subfolders   *)
(* (TreeClosed) is what the transfer of owners and the trashing rest on.   *)
(* Of loops, and of what a home leaves out, one reasons about whole sets   *)
(* of folders, closed upwards or downwards, and never about paths.         *)
(***************************************************************************)
EXTENDS Folders, FiniteSetTheorems, WellFoundedInduction, TLAPS

\* The database is in order: its foreign keys hold and the owners agree.
Good(d) == KeysHold(d) /\ Agree(d)

\* Neither is inductive alone: a lookup gives an owner to the next id, which must be of no folder.
IInv == TypeOK /\ OwnersAgree

----------------------------------------------------------------------------
\* Of some folders one is the oldest, so the home of a user who has one is a folder of the user's.
LEMMA HomeIsTop ==
    ASSUME NEW d, NEW u, Tops(d, u) # {}
    PROVE  Home(d, u) \in Tops(d, u)
<1>1. Tops(d, u) \subseteq Nat
  BY FoldersAssumption DEF Tops, Folder
<1>2. PICK f \in Tops(d, u) : \A g \in Tops(d, u) : <<g, f>> \notin OpToRel(<, Nat)
  BY <1>1, WFMin, NatLessThanWellFounded, Zenon
<1>3. ASSUME NEW g \in Tops(d, u)
      PROVE  f <= g
  <2>1. ~(g < f)
    BY <1>1, <1>2, <1>3, Zenon DEF OpToRel
  <2> QED
    BY <1>1, <2>1
<1>4. \E h \in Tops(d, u) : \A g \in Tops(d, u) : h <= g
  BY <1>3
<1> QED
  BY <1>4, Zenon DEF Home

\* A subtree has its folder, subfolders beside it, and with a folder those in it.
LEMMA TreeClosed ==
    ASSUME NEW d, KeysHold(d), NEW f \in Folder
    PROVE  /\ Tree(d, f) \subseteq Folder
           /\ f \in Tree(d, f)
           /\ \A g \in Tree(d, f) : g = f \/ d.parent[g] # NULL
           /\ \A g \in Folder : d.parent[g] \in Tree(d, f) => g \in Tree(d, f)
           /\ \A g \in Tree(d, f) : g = f \/ d.parent[g] \in Tree(d, f)
<1>1. d.parent \in [Folder -> Folder \cup {NULL}]
  BY DEF KeysHold, Database
<1>2. NULL \notin Folder
  BY FoldersAssumption DEF Folder
<1>3. ASSUME NEW g \in Folder, d.parent[g] \in Tree(d, f)
      PROVE  g \in Tree(d, f)
  <2>1. g \in Subfolders(d)
    BY <1>2, <1>3 DEF Tree, Subfolders
  <2> QED
    BY <1>3, <2>1 DEF Tree
<1>4. ASSUME NEW g \in Tree(d, f), g # f, d.parent[g] \notin Tree(d, f)
      PROVE  FALSE
  <2> DEFINE S == (Tree(d, f) \cap Subfolders(d)) \ {g}
  <2>1. g \in Subfolders(d) /\ f \in Tree(d, f)
    BY <1>4 DEF Tree
  <2>2. ASSUME NEW h \in Subfolders(d), d.parent[h] \in S \cup {f}
        PROVE  h \in S
    BY <1>3, <1>4, <2>1, <2>2 DEF Subfolders
  <2>3. g \in S
    <3> HIDE DEF S
    <3>1. S \in SUBSET Subfolders(d)
      BY DEF S
    <3> QED
      BY <1>4, <2>2, <3>1 DEF Tree
  <2> QED
    BY <2>3
<1> QED
  BY <1>1, <1>2, <1>3, <1>4 DEF Tree, Subfolders

----------------------------------------------------------------------------
\* The transactions leave a database in order that was in order: here the lookup of the home.
LEMMA LookUpGood ==
    ASSUME NEW d, Good(d), NEW u \in Users, RoomFor(d, u)
    PROVE  Good(LookUp(d, u))
<1> DEFINE home == Home(d, u)
           e == LookUp(d, u)
<1>1. d \in Database /\ NULL \notin Users /\ NULL \notin Folder /\ MaxFolders \in Nat
  BY FoldersAssumption DEF Good, KeysHold, Folder
<1>2. home \in Folder /\ (home \in Tops(d, u) \/ (home = d.made + 1 /\ Tops(d, u) = {}))
  <2>1. CASE Tops(d, u) = {}
    <3>1. d.made \in 0..MaxFolders /\ d.made < MaxFolders /\ home = d.made + 1
      BY <1>1, <2>1 DEF Home, RoomFor, Database
    <3> QED
      BY <1>1, <2>1, <3>1 DEF Folder
  <2>2. CASE Tops(d, u) # {}
    BY <2>2, HomeIsTop DEF Tops
  <2> QED
    BY <2>1, <2>2
<1>3. /\ e.owner = [d.owner EXCEPT ![home] = u]
      /\ e.parent = [f \in Folder |-> IF f \in Tops(d, u) \ {home} THEN home ELSE d.parent[f]]
      /\ e.holder = d.holder
      /\ e.place = [m \in Media |-> IF d.holder[m] = u /\ d.place[m] = NULL THEN home ELSE d.place[m]]
      /\ e.made = IF home > d.made THEN home ELSE d.made
  BY DEF LookUp
<1>4. e \in Database
  <2>1. e.made \in 0..MaxFolders
    BY <1>1, <1>2, <1>3 DEF Database, Folder
  <2>2. e.owner \in [Folder -> Users \cup {NULL}] /\ e.holder \in [Media -> Users \cup {NULL}]
    BY <1>1, <1>2, <1>3 DEF Database
  <2>3. e.parent \in [Folder -> Folder \cup {NULL}] /\ e.place \in [Media -> Folder \cup {NULL}]
    BY <1>1, <1>2, <1>3 DEF Database
  <2> QED
    BY <2>1, <2>2, <2>3 DEF LookUp, Database
<1> HIDE DEF e, home
<1>5. \A f \in Folder : Exists(d, f) => Exists(e, f) /\ (f # home => e.owner[f] = d.owner[f])
  BY <1>1, <1>2, <1>3 DEF Exists, Database
<1>6. e.owner[home] = u /\ Exists(e, home)
  BY <1>1, <1>2, <1>3 DEF Exists, Database
<1>7. d.owner[home] = u \/ \A f \in Folder : d.parent[f] # home
  BY <1>1, <1>2 DEF Tops, Good, KeysHold, Exists, Folder, Database
<1>8. d.owner[home] = u \/ \A m \in Media : d.place[m] # home
  BY <1>1, <1>2 DEF Tops, Good, KeysHold, Exists, Folder, Database
<1>9. ASSUME NEW f \in Folder
      PROVE  /\ f > e.made => ~Exists(e, f)
             /\ e.parent[f] # NULL => Exists(e, f) /\ Exists(e, e.parent[f])
             /\ e.parent[f] # f
             /\ e.parent[f] # NULL => e.owner[f] = e.owner[e.parent[f]]
  <2>1. f > e.made => ~Exists(e, f)
    BY <1>1, <1>2, <1>3 DEF Good, KeysHold, Exists, Folder, Database
  <2>2. CASE f \in Tops(d, u) \ {home}
    BY <1>1, <1>2, <1>3, <1>5, <1>6, <2>1, <2>2 DEF Tops, Exists
  <2>3. CASE f \notin Tops(d, u) \ {home}
    <3>1. e.parent[f] = d.parent[f]
      BY <1>3, <2>3
    <3>2. d.parent[f] \in Folder \cup {NULL}
      BY <1>1 DEF Database
    <3>3. CASE d.parent[f] = NULL
      BY <1>1, <2>1, <3>1, <3>3
    <3>4. CASE d.parent[f] # NULL
      <4>1. /\ Exists(d, f) /\ Exists(d, d.parent[f]) /\ d.parent[f] # f
            /\ d.owner[f] = d.owner[d.parent[f]]
        BY <3>4 DEF Good, KeysHold, Agree
      <4>2. f # home
        <5>1. home \in Tops(d, u) \/ ~Exists(d, home)
          BY <1>1, <1>2 DEF Good, KeysHold, Exists, Folder, Database
        <5> QED
          BY <4>1, <3>4, <5>1 DEF Tops
      <4> QED
        BY <1>5, <1>6, <1>7, <2>1, <3>1, <3>2, <3>4, <4>1, <4>2
    <3> QED
      BY <3>3, <3>4
  <2> QED
    BY <2>2, <2>3
<1>10. ASSUME NEW m \in Media, e.place[m] # NULL
       PROVE  e.holder[m] # NULL /\ Exists(e, e.place[m]) /\ e.holder[m] = e.owner[e.place[m]]
  <2>1. CASE d.holder[m] = u /\ d.place[m] = NULL
    BY <1>1, <1>3, <1>6, <2>1
  <2>2. CASE ~(d.holder[m] = u /\ d.place[m] = NULL)
    <3>1. e.place[m] = d.place[m] /\ e.holder[m] = d.holder[m] /\ d.place[m] \in Folder
      BY <1>1, <1>3, <1>10, <2>2 DEF Database
    <3>2. d.holder[m] # NULL /\ Exists(d, d.place[m]) /\ d.holder[m] = d.owner[d.place[m]]
      BY <1>1, <3>1 DEF Good, KeysHold, Agree
    <3> QED
      BY <1>5, <1>6, <1>8, <3>1, <3>2
  <2> QED
    BY <2>1, <2>2
<1> QED
  BY <1>4, <1>9, <1>10 DEF Good, KeysHold, Agree, e

\* So does the transfer of a folder to another owner, with all that is in it.
LEMMA TransferGood ==
    ASSUME NEW d, Good(d), NEW f \in Folder, NEW dst \in Folder,
           Exists(d, dst), f # dst, d.parent[f] # NULL
    PROVE  Good(Transfer([d EXCEPT !.parent[f] = dst], f, d.owner[dst]))
<1> DEFINE c == [d EXCEPT !.parent[f] = dst]
           u == d.owner[dst]
           tree == Tree(c, f)
           e == Transfer(c, f, u)
<1>1. d \in Database /\ NULL \notin Users /\ NULL \notin Folder /\ u \in Users
  BY FoldersAssumption DEF Good, KeysHold, Folder, Exists, Database
<1>2. /\ c.owner = d.owner /\ c.holder = d.holder /\ c.place = d.place /\ c.made = d.made
      /\ c.parent = [d.parent EXCEPT ![f] = dst]
      /\ c \in Database
  BY <1>1 DEF Database
<1>3. KeysHold(c)
  BY <1>1, <1>2 DEF Good, KeysHold, Exists, Database
<1>4. /\ tree \subseteq Folder /\ f \in tree
      /\ \A g \in tree : g = f \/ c.parent[g] # NULL
      /\ \A g \in Folder : c.parent[g] \in tree => g \in tree
      /\ \A g \in tree : g = f \/ c.parent[g] \in tree
  BY <1>3, TreeClosed
<1>5. /\ e.owner = [g \in Folder |-> IF g \in tree THEN u ELSE d.owner[g]]
      /\ e.holder = [m \in Media |-> IF d.place[m] \in tree THEN u ELSE d.holder[m]]
      /\ e.parent = c.parent /\ e.place = d.place /\ e.made = d.made
  BY <1>1, <1>2 DEF Transfer, Database
<1>6. e \in Database
  BY <1>1, <1>2 DEF Transfer, Database
<1> HIDE DEF tree, c, e, u
<1>7. \A g \in tree : Exists(d, g)
  BY <1>1, <1>2, <1>4 DEF Good, KeysHold, Database
<1>8. \A g \in Folder : Exists(e, g) <=> Exists(d, g)
  BY <1>1, <1>5, <1>7 DEF Exists
<1>9. ASSUME NEW g \in Folder
      PROVE  /\ g > e.made => ~Exists(e, g)
             /\ e.parent[g] # NULL => Exists(e, g) /\ Exists(e, e.parent[g])
             /\ e.parent[g] # g
             /\ e.parent[g] # NULL => e.owner[g] = e.owner[e.parent[g]]
  <2>1. /\ g > e.made => ~Exists(e, g)
        /\ e.parent[g] # NULL => Exists(e, g) /\ Exists(e, e.parent[g])
        /\ e.parent[g] # g
    BY <1>1, <1>2, <1>3, <1>5, <1>8 DEF KeysHold, Exists, Database
  <2>2. ASSUME e.parent[g] # NULL
        PROVE  e.owner[g] = e.owner[e.parent[g]]
    <3>1. c.parent[g] \in Folder /\ e.parent[g] = c.parent[g]
      BY <1>2, <1>5, <2>2 DEF Database
    <3>2. CASE g = f
      <4>1. e.parent[g] = dst /\ e.owner[g] = u
        BY <1>1, <1>2, <1>4, <1>5, <3>2 DEF Database
      <4>2. e.owner[dst] = u
        BY <1>5 DEF u
      <4> QED
        BY <4>1, <4>2
    <3>3. CASE g # f /\ c.parent[g] \in tree
      BY <1>4, <1>5, <3>1, <3>3
    <3>4. CASE g # f /\ c.parent[g] \notin tree
      <4>1. d.parent[g] = c.parent[g]
        BY <1>1, <1>2, <3>4 DEF Database
      <4>2. d.owner[g] = d.owner[d.parent[g]]
        BY <3>1, <4>1, <1>1 DEF Good, Agree
      <4>3. g \notin tree
        BY <1>4, <3>4
      <4> QED
        BY <1>5, <3>1, <3>4, <4>1, <4>2, <4>3
    <3> QED
      BY <3>2, <3>3, <3>4
  <2> QED
    BY <2>1, <2>2
<1>10. ASSUME NEW m \in Media, e.place[m] # NULL
       PROVE  e.holder[m] # NULL /\ Exists(e, e.place[m]) /\ e.holder[m] = e.owner[e.place[m]]
  <2>1. d.place[m] \in Folder /\ e.place[m] = d.place[m]
    BY <1>1, <1>5, <1>10 DEF Database
  <2>2. d.holder[m] # NULL /\ Exists(d, d.place[m]) /\ d.holder[m] = d.owner[d.place[m]]
    BY <1>1, <2>1 DEF Good, KeysHold, Agree
  <2> QED
    BY <1>1, <1>5, <1>8, <2>1, <2>2
<1> QED
  BY <1>6, <1>9, <1>10 DEF Good, KeysHold, Agree, e, c, u

\* A folder that is discarded leaves nothing in it behind, and its files in no folder.
LEMMA DiscardGood ==
    ASSUME NEW d, Good(d), NEW f \in Folder
    PROVE  Good(Discard(d, f))
<1> DEFINE tree == Tree(d, f)
           e == Discard(d, f)
<1>1. d \in Database /\ NULL \notin Users /\ NULL \notin Folder
  BY FoldersAssumption DEF Good, KeysHold, Folder
<1>2. /\ tree \subseteq Folder
      /\ \A g \in Folder : d.parent[g] \in tree => g \in tree
  BY TreeClosed DEF Good
<1>3. /\ e.owner = [g \in Folder |-> IF g \in tree THEN NULL ELSE d.owner[g]]
      /\ e.parent = [g \in Folder |-> IF g \in tree THEN NULL ELSE d.parent[g]]
      /\ e.place = [m \in Media |-> IF d.place[m] \in tree THEN NULL ELSE d.place[m]]
      /\ e.holder = d.holder /\ e.made = d.made
  BY <1>1 DEF Discard, Database
<1>4. e \in Database
  BY <1>1 DEF Discard, Database
<1> HIDE DEF tree, e
<1>5. ASSUME NEW g \in Folder
      PROVE  /\ g > e.made => ~Exists(e, g)
             /\ e.parent[g] # NULL => Exists(e, g) /\ Exists(e, e.parent[g])
             /\ e.parent[g] # g
             /\ e.parent[g] # NULL => e.owner[g] = e.owner[e.parent[g]]
  <2>1. CASE g \in tree
    BY <1>1, <1>2, <1>3, <2>1 DEF Exists
  <2>2. CASE g \notin tree
    <3>1. e.parent[g] = d.parent[g] /\ e.owner[g] = d.owner[g] /\ d.parent[g] \notin tree
      BY <1>2, <1>3, <2>2
    <3>2. d.parent[g] # NULL => e.owner[d.parent[g]] = d.owner[d.parent[g]]
      BY <1>1, <1>3, <3>1 DEF Database
    <3> QED
      BY <1>1, <1>3, <3>1, <3>2 DEF Good, KeysHold, Agree, Exists
  <2> QED
    BY <2>1, <2>2
<1>6. ASSUME NEW m \in Media, e.place[m] # NULL
      PROVE  e.holder[m] # NULL /\ Exists(e, e.place[m]) /\ e.holder[m] = e.owner[e.place[m]]
  <2>1. /\ d.place[m] \in Folder /\ d.place[m] \notin tree
        /\ e.place[m] = d.place[m] /\ e.holder[m] = d.holder[m]
    BY <1>1, <1>3, <1>6 DEF Database
  <2> QED
    BY <1>1, <1>3, <2>1 DEF Good, KeysHold, Agree, Exists
<1> QED
  BY <1>4, <1>5, <1>6 DEF Good, KeysHold, Agree, e

\* A new folder is its maker's, as the one it is made in.
LEMMA MakeInGood ==
    ASSUME NEW d, Good(d), NEW p \in Folder, Exists(d, p), d.made < MaxFolders
    PROVE  Good(MakeIn(d, p))
<1> DEFINE e == MakeIn(d, p)
           new == d.made + 1
<1>1. /\ d \in Database /\ NULL \notin Users /\ NULL \notin Folder
      /\ d.owner[p] \in Users
  BY FoldersAssumption DEF Good, KeysHold, Folder, Exists, Database
<1>2. new \in Folder /\ new \in 0..MaxFolders /\ new > d.made /\ d.made \in Nat /\ MaxFolders \in Nat
  BY <1>1, FoldersAssumption DEF Folder, Database
<1>3. /\ e.owner = [d.owner EXCEPT ![new] = d.owner[p]]
      /\ e.parent = [d.parent EXCEPT ![new] = p]
      /\ e.place = d.place /\ e.holder = d.holder /\ e.made = new
  BY <1>1 DEF MakeIn, Database
<1>4. e \in Database
  BY <1>1, <1>2 DEF MakeIn, Database
<1>5. /\ ~Exists(d, new) /\ p # new
      /\ \A g \in Folder : d.parent[g] # new
      /\ \A m \in Media : d.place[m] # new
  BY <1>1, <1>2 DEF Good, KeysHold, Exists
<1> HIDE DEF e, new
<1>6. ASSUME NEW g \in Folder
      PROVE  /\ g > e.made => ~Exists(e, g)
             /\ e.parent[g] # NULL => Exists(e, g) /\ Exists(e, e.parent[g])
             /\ e.parent[g] # g
             /\ e.parent[g] # NULL => e.owner[g] = e.owner[e.parent[g]]
  <2>1. CASE g = new
    BY <1>1, <1>2, <1>3, <1>5, <2>1 DEF Exists, Folder, Database
  <2>2. CASE g # new
    <3>1. e.parent[g] = d.parent[g] /\ e.owner[g] = d.owner[g]
      BY <1>1, <1>3, <2>2 DEF Database
    <3>2. d.parent[g] # NULL => e.owner[d.parent[g]] = d.owner[d.parent[g]]
      BY <1>1, <1>3, <1>5 DEF Database
    <3>3. g > e.made => g > d.made
      BY <1>2, <1>3 DEF Folder
    <3> QED
      BY <1>1, <1>3, <3>1, <3>2, <3>3 DEF Good, KeysHold, Agree, Exists
  <2> QED
    BY <2>1, <2>2
<1>7. ASSUME NEW m \in Media, e.place[m] # NULL
      PROVE  e.holder[m] # NULL /\ Exists(e, e.place[m]) /\ e.holder[m] = e.owner[e.place[m]]
  <2>1. d.place[m] \in Folder /\ e.owner[d.place[m]] = d.owner[d.place[m]]
    BY <1>1, <1>3, <1>5, <1>7 DEF Database
  <2> QED
    BY <1>1, <1>3, <1>7, <2>1 DEF Good, KeysHold, Agree, Exists
<1> QED
  BY <1>4, <1>6, <1>7 DEF Good, KeysHold, Agree, e

\* Those of one media file alone, and the mending of loops, change no owner of a folder.
LEMMA FileGood ==
    ASSUME NEW d, Good(d), NEW m \in Media
    PROVE  /\ Good(Delete(d, m))
           /\ \A u \in Users : d.holder[m] = NULL => Good([d EXCEPT !.holder[m] = u])
           /\ \A dst \in Folder :
                 Exists(d, dst) => Good([d EXCEPT !.holder[m] = d.owner[dst], !.place[m] = dst])
<1>1. d \in Database /\ NULL \notin Users /\ NULL \notin Folder
  BY FoldersAssumption DEF Good, KeysHold, Folder
<1>2. Good(Delete(d, m))
  BY <1>1 DEF Good, KeysHold, Agree, Exists, Delete, Database
<1>3. ASSUME NEW u \in Users, d.holder[m] = NULL
      PROVE  Good([d EXCEPT !.holder[m] = u])
  BY <1>1, <1>3 DEF Good, KeysHold, Agree, Exists, Database
<1>4. ASSUME NEW dst \in Folder, Exists(d, dst)
      PROVE  Good([d EXCEPT !.holder[m] = d.owner[dst], !.place[m] = dst])
  BY <1>1, <1>4 DEF Good, KeysHold, Agree, Exists, Database
<1> QED
  BY <1>2, <1>3, <1>4

\* A folder taken out of a loop stays its owner's.
LEMMA MendGood ==
    ASSUME NEW d, Good(d), NEW cut
    PROVE  Good(Mend(d, cut))
<1>1. d \in Database /\ NULL \notin Folder
  BY FoldersAssumption DEF Good, KeysHold, Folder
<1> QED
  BY <1>1 DEF Good, KeysHold, Agree, Exists, Mend, Database

\* The end of a command: the database is left as it is, or the home looked up in it.
LEMMA ShowGood ==
    ASSUME NEW u \in Users, NEW d, Good(d), homes \in [Users -> SUBSET Users], Show(u, d)
    PROVE  Good(db') /\ homes' \in [Users -> SUBSET Users]
<1>1. AtHome(u) \in [Users -> SUBSET Users]
  BY DEF AtHome
<1>2. CASE db' = d /\ (homes' = homes \/ homes' = AtHome(u))
  BY <1>1, <1>2
<1>3. CASE RoomFor(d, u) /\ db' = LookUp(d, u) /\ homes' = AtHome(u)
  BY <1>1, <1>3, LookUpGood
<1> QED
  BY <1>2, <1>3 DEF Show, ShowOne

----------------------------------------------------------------------------
\* The organizer starts with an empty database.
LEMMA InitIInv == Init => IInv
<1> SUFFICES ASSUME Init
             PROVE  IInv
  OBVIOUS
<1>1. /\ db.owner = [f \in Folder |-> NULL] /\ db.parent = [f \in Folder |-> NULL]
      /\ db.holder = [m \in Media |-> NULL] /\ db.place = [m \in Media |-> NULL]
      /\ db.made = 0
      /\ db \in Database
  BY FoldersAssumption DEF Init, Database
<1>2. NULL \notin Folder
  BY FoldersAssumption DEF Folder
<1>3. KeysHold(db) /\ Agree(db)
  BY <1>1, <1>2 DEF KeysHold, Agree, Exists
<1> QED
  BY <1>3 DEF Init, IInv, TypeOK, OwnersAgree

\* Every command, of users and of the server, and every step of a command keeps the invariant.
LEMMA NextIInv == IInv /\ [Next]_vars => IInv'
<1> SUFFICES ASSUME IInv, [Next]_vars
             PROVE  Good(db') /\ bin' \in [Users -> SUBSET Media] /\ homes' \in [Users -> SUBSET Users]
  BY DEF IInv, TypeOK, OwnersAgree, Good, KeysHold, Agree, Exists
<1>1. Good(db) /\ bin \in [Users -> SUBSET Media] /\ homes \in [Users -> SUBSET Users]
  BY DEF IInv, TypeOK, OwnersAgree, Good
<1>2. ASSUME NEW u \in Users, Navigate(u)
      PROVE  Good(db') /\ homes' \in [Users -> SUBSET Users] /\ bin' = bin
  BY <1>1, <1>2, LookUpGood DEF Navigate, AtHome
<1>3. ASSUME NEW u \in Users, NEW v \in Users, ShowHome(u, v)
      PROVE  Good(db') /\ homes' \in [Users -> SUBSET Users] /\ bin' = bin
  BY <1>1, <1>3, LookUpGood DEF ShowHome
<1>4. ASSUME NEW u \in Users, NEW f \in Folder, NewFolder(u, f)
      PROVE  Good(db') /\ homes' \in [Users -> SUBSET Users] /\ bin' = bin
  <2>1. Good(MakeIn(db, f))
    BY <1>1, <1>4, MakeInGood DEF NewFolder, MayUse
  <2> QED
    BY <1>1, <1>4, <2>1, ShowGood DEF NewFolder
<1>5. ASSUME NEW u \in Users, NewFolderAtHome(u)
      PROVE  Good(db') /\ homes' \in [Users -> SUBSET Users] /\ bin' = bin
  <2> DEFINE d == LookUp(db, u)
             home == Home(db, u)
  <2>1. Good(d) /\ d.made < MaxFolders
    BY <1>1, <1>5, LookUpGood DEF NewFolderAtHome
  <2>2. home \in Folder /\ Exists(d, home)
    <3>1. d.owner \in [Folder -> Users \cup {NULL}] /\ db.owner \in [Folder -> Users \cup {NULL}]
      BY <1>1, <2>1 DEF Good, KeysHold, Database
    <3>2. d.owner = [db.owner EXCEPT ![home] = u]
      BY DEF LookUp
    <3>3. home \in Folder
      <4>1. CASE Tops(db, u) = {}
        <5>1. db.made \in 0..MaxFolders /\ db.made < MaxFolders /\ home = db.made + 1
          BY <1>1, <1>5, <4>1 DEF NewFolderAtHome, RoomFor, Home, Good, KeysHold, Database
        <5> QED
          BY <5>1, FoldersAssumption DEF Folder
      <4>2. CASE Tops(db, u) # {}
        BY <4>2, HomeIsTop DEF Tops
      <4> QED
        BY <4>1, <4>2
    <3>4. NULL \notin Users
      BY FoldersAssumption
    <3> HIDE DEF d, home
    <3> QED
      BY <3>1, <3>2, <3>3, <3>4 DEF Exists
  <2>3. Good(MakeIn(d, home))
    BY <2>1, <2>2, MakeInGood
  <2> QED
    BY <1>1, <1>5, <2>3 DEF NewFolderAtHome, AtHome
<1>6. ASSUME NEW u \in Users, NEW f \in Folder, NEW dst \in Folder, MoveFolder(u, f, dst)
      PROVE  Good(db') /\ homes' \in [Users -> SUBSET Users] /\ bin' = bin
  <2>1. Good(Transfer([db EXCEPT !.parent[f] = dst], f, db.owner[dst]))
    BY <1>1, <1>6, TransferGood DEF MoveFolder, MayUse
  <2> QED
    BY <1>1, <1>6, <2>1, ShowGood DEF MoveFolder
<1>7. ASSUME NEW u \in Users, NEW m \in Media, NEW dst \in Folder, MoveFile(u, m, dst)
      PROVE  Good(db') /\ homes' \in [Users -> SUBSET Users] /\ bin' = bin
  <2>1. Good([db EXCEPT !.holder[m] = db.owner[dst], !.place[m] = dst])
    BY <1>1, <1>7, FileGood DEF MoveFile, MayUse
  <2> QED
    BY <1>1, <1>7, <2>1, ShowGood DEF MoveFile
<1>8. ASSUME NEW u \in Users, NEW f \in Folder, TrashFolder(u, f)
      PROVE  /\ Good(db') /\ homes' \in [Users -> SUBSET Users]
             /\ bin' \in [Users -> SUBSET Media]
  <2>1. Good(Discard(db, f))
    BY <1>1, DiscardGood
  <2>2. bin' = [bin EXCEPT ![u] = FilesIn(db, Tree(db, f))]
    BY <1>8 DEF TrashFolder
  <2>3. Show(u, Discard(db, f)) \/ (db' = Discard(db, f) /\ homes' = homes)
    BY <1>8 DEF TrashFolder
  <2> QED
    BY <1>1, <2>1, <2>2, <2>3, ShowGood DEF FilesIn
<1>9. ASSUME NEW u \in Users, NEW m \in Media, DeleteNext(u, m)
      PROVE  /\ Good(db') /\ homes' \in [Users -> SUBSET Users]
             /\ bin' \in [Users -> SUBSET Media]
  <2>1. Good(Delete(db, m))
    BY <1>1, FileGood
  <2>2. bin' = [bin EXCEPT ![u] = @ \ {m}]
    BY <1>9 DEF DeleteNext
  <2>3. Show(u, Delete(db, m)) \/ (db' = Delete(db, m) /\ homes' = homes)
    BY <1>9 DEF DeleteNext
  <2> QED
    BY <1>1, <2>1, <2>2, <2>3, ShowGood
<1>10. ASSUME NEW u \in Users, DeleteFails(u)
       PROVE  bin' \in [Users -> SUBSET Media] /\ UNCHANGED <<db, homes>>
  BY <1>1, <1>10 DEF DeleteFails
<1>11. ASSUME NEW m \in Media, (\E u \in Users : Ingested(m, u)) \/ Deleted(m)
       PROVE  Good(db') /\ UNCHANGED <<bin, homes>>
  <2>1. ASSUME NEW u \in Users, Ingested(m, u)
        PROVE  Good(db') /\ UNCHANGED <<bin, homes>>
    <3>1. db.holder[m] = NULL /\ db' = [db EXCEPT !.holder[m] = u]
      BY <2>1 DEF Ingested
    <3>2. Good(db')
      BY <1>1, <3>1, FileGood
    <3> QED
      BY <2>1, <3>2 DEF Ingested
  <2>2. CASE Deleted(m)
    BY <1>1, <2>2, FileGood DEF Deleted
  <2> QED
    BY <1>11, <2>1, <2>2
<1>12. ASSUME Restart
       PROVE  /\ Good(db') /\ homes' \in [Users -> SUBSET Users]
              /\ bin' \in [Users -> SUBSET Media]
  BY <1>1, <1>12, MendGood DEF Restart
<1>13. ASSUME NEW u \in Users, Visit(u)
       PROVE  homes' \in [Users -> SUBSET Users] /\ UNCHANGED <<db, bin>>
  BY <1>1, <1>13 DEF Visit, ShowOne, AtHome
<1>14. CASE UNCHANGED vars
  BY <1>1, <1>14 DEF vars
<1> QED
  BY <1>1, <1>2, <1>3, <1>4, <1>5, <1>6, <1>7, <1>8, <1>9, <1>10, <1>11, <1>12, <1>13, <1>14 DEF Next

\* The database and what the commands remember of it are in order in every reachable state.
THEOREM InvariantHolds == Spec => []IInv
  BY InitIInv, NextIInv, PTL DEF Spec

\* The foreign keys of folders, items and media files hold whatever is moved, trashed or mended.
THEOREM TypeCorrect == Spec => []TypeOK
<1>1. IInv => TypeOK
  BY DEF IInv
<1> QED
  BY <1>1, InvariantHolds, PTL

\* Whatever admins and users move where, loops included, what is in a folder is its owner's.
THEOREM OwnersAgreeHolds == Spec => []OwnersAgree
<1>1. IInv => OwnersAgree
  BY DEF IInv
<1> QED
  BY <1>1, InvariantHolds, PTL

----------------------------------------------------------------------------
\* The lookup leaves its user one top folder, and every other user's as they are.
LEMMA LookUpTops ==
    ASSUME NEW d, Good(d), NEW u \in Users, RoomFor(d, u), NEW v \in Users
    PROVE  /\ v # u => Tops(LookUp(d, u), v) \subseteq Tops(d, v)
           /\ v = u => Tops(LookUp(d, u), v) \subseteq {Home(d, u)}
<1> DEFINE home == Home(d, u)
           e == LookUp(d, u)
<1>1. d \in Database /\ e \in Database /\ NULL \notin Folder
  BY LookUpGood, FoldersAssumption DEF Good, KeysHold, Folder
<1>2. /\ e.owner = [d.owner EXCEPT ![home] = u]
      /\ e.parent = [f \in Folder |-> IF f \in Tops(d, u) \ {home} THEN home ELSE d.parent[f]]
  BY DEF LookUp
<1>4. Tops(d, u) # {} => home \in Folder
  BY HomeIsTop DEF Tops
<1> HIDE DEF home, e
<1>5. \A f \in Folder : f # home => e.owner[f] = d.owner[f]
  BY <1>1, <1>2 DEF Database
<1>6. \A f \in Folder : f = home => e.owner[f] = u
  BY <1>1, <1>2 DEF Database
<1> QED
  BY <1>1, <1>2, <1>4, <1>5, <1>6 DEF Tops, home, e

\* A set has at most one member, or none that another has not.
AtMostOne(S, T) == (\E x : S \subseteq {x}) \/ S \subseteq T

\* So does a page that is shown, which looks the home up or leaves all as it is.
LEMMA ShowTops ==
    ASSUME NEW u \in Users, NEW d, Good(d), Show(u, d), NEW v \in Users
    PROVE  AtMostOne(Tops(db', v), Tops(d, v))
<1>1. CASE db' = d
  BY <1>1 DEF AtMostOne
<1>2. CASE RoomFor(d, u) /\ db' = LookUp(d, u)
  BY <1>2, LookUpTops DEF AtMostOne
<1> QED
  BY <1>1, <1>2 DEF Show

\* A set of one folder has at most one.
LEMMA SingletonAtMost ==
    ASSUME NEW S, NEW T, AtMostOne(S, T)
    PROVE  Cardinality(S) <= 1 \/ S \subseteq T
<1>1. ASSUME NEW x, S \subseteq {x}
      PROVE  Cardinality(S) <= 1
  <2>1. CASE S = {}
    BY <2>1, FS_EmptySet
  <2>2. CASE S = {x}
    BY <2>2, FS_Singleton
  <2> QED
    BY <1>1, <2>1, <2>2
<1> QED
  BY <1>1 DEF AtMostOne

\* No other transaction gives a user a top folder.
LEMMA OtherTops ==
    ASSUME NEW d, Good(d), NEW v \in Users
    PROVE  /\ \A p \in Folder :
                 d.made < MaxFolders => Tops(MakeIn(d, p), v) \subseteq Tops(d, v)
           /\ \A f, dst \in Folder :
                 Exists(d, dst) /\ f # dst /\ d.parent[f] # NULL =>
                    Tops(Transfer([d EXCEPT !.parent[f] = dst], f, d.owner[dst]), v)
                        \subseteq Tops(d, v)
           /\ \A f \in Folder : Tops(Discard(d, f), v) \subseteq Tops(d, v)
<1>1. d \in Database /\ NULL \notin Users /\ NULL \notin Folder
  BY FoldersAssumption DEF Good, KeysHold, Folder
<1>2. ASSUME NEW p \in Folder, d.made < MaxFolders
      PROVE  Tops(MakeIn(d, p), v) \subseteq Tops(d, v)
  <2>1. d.made + 1 \in Folder
    BY <1>1, <1>2, FoldersAssumption DEF Folder, Database
  <2>2. /\ MakeIn(d, p).owner = [d.owner EXCEPT ![d.made + 1] = d.owner[p]]
        /\ MakeIn(d, p).parent = [d.parent EXCEPT ![d.made + 1] = p]
    BY <1>1 DEF MakeIn, Database
  <2> QED
    BY <1>1, <2>1, <2>2 DEF Tops, Database
<1>3. ASSUME NEW f \in Folder, NEW dst \in Folder, Exists(d, dst), f # dst, d.parent[f] # NULL
      PROVE  Tops(Transfer([d EXCEPT !.parent[f] = dst], f, d.owner[dst]), v) \subseteq Tops(d, v)
  <2> DEFINE c == [d EXCEPT !.parent[f] = dst]
             tree == Tree(c, f)
             e == Transfer(c, f, d.owner[dst])
  <2>1. /\ c.parent = [d.parent EXCEPT ![f] = dst] /\ c \in Database
        /\ c.owner = d.owner /\ c.place = d.place /\ c.holder = d.holder /\ c.made = d.made
    BY <1>1 DEF Database
  <2>2. KeysHold(c)
    BY <1>1, <1>3, <2>1 DEF Good, KeysHold, Exists, Database
  <2>3. tree \subseteq Folder /\ \A g \in tree : g = f \/ c.parent[g] # NULL
    BY <2>2, TreeClosed
  <2>4. /\ e.owner = [g \in Folder |-> IF g \in tree THEN d.owner[dst] ELSE d.owner[g]]
        /\ e.parent = c.parent
    BY <1>1, <2>1 DEF Transfer, Database
  <2> HIDE DEF c, tree, e
  <2>5. ASSUME NEW g \in Folder, e.owner[g] = v, e.parent[g] = NULL
        PROVE  d.owner[g] = v /\ d.parent[g] = NULL
    <3>1. g # f /\ d.parent[g] = NULL
      BY <1>1, <2>1, <2>4, <2>5 DEF Database
    <3>2. g \notin tree
      BY <2>3, <2>4, <2>5, <3>1
    <3> QED
      BY <2>4, <2>5, <3>1, <3>2
  <2> QED
    BY <2>5 DEF Tops, e, c
<1>4. ASSUME NEW f \in Folder
      PROVE  Tops(Discard(d, f), v) \subseteq Tops(d, v)
  <2>1. /\ Discard(d, f).owner = [g \in Folder |-> IF g \in Tree(d, f) THEN NULL ELSE d.owner[g]]
        /\ Discard(d, f).parent = [g \in Folder |-> IF g \in Tree(d, f) THEN NULL ELSE d.parent[g]]
    BY <1>1 DEF Discard, Database
  <2> QED
    BY <1>1, <2>1 DEF Tops
<1> QED
  BY <1>2, <1>3, <1>4

\* Of two successive states the later has more tops of a user only by the repair.
LEMMA NextOneHome ==
    IInv /\ [Next]_vars =>
        \A v \in Users : AtMostOne(Tops(db', v), Tops(db, v)) \/ Restart
<1> SUFFICES ASSUME IInv, [Next]_vars, NEW v \in Users, ~Restart
             PROVE  AtMostOne(Tops(db', v), Tops(db, v))
  OBVIOUS
<1>1. Good(db)
  BY DEF IInv, TypeOK, OwnersAgree, Good
<1>2. ASSUME NEW u \in Users, NEW d, Good(d), Show(u, d) \/ db' = d,
             Tops(d, v) \subseteq Tops(db, v)
      PROVE  AtMostOne(Tops(db', v), Tops(db, v))
  BY <1>2, ShowTops DEF AtMostOne
<1>3. ASSUME NEW u \in Users, RoomFor(db, u)
      PROVE  AtMostOne(Tops(LookUp(db, u), v), Tops(db, v))
  BY <1>1, <1>3, LookUpTops DEF AtMostOne
<1>4. ASSUME NEW u \in Users, Navigate(u) \/ \E w \in Users : ShowHome(w, u)
      PROVE  AtMostOne(Tops(db', v), Tops(db, v))
  BY <1>3, <1>4 DEF Navigate, ShowHome
<1>5. ASSUME NEW u \in Users, NEW f \in Folder, NewFolder(u, f)
      PROVE  AtMostOne(Tops(db', v), Tops(db, v))
  <2>1. Good(MakeIn(db, f)) /\ Show(u, MakeIn(db, f)) /\ db.made < MaxFolders
    BY <1>1, <1>5, MakeInGood DEF NewFolder, MayUse
  <2> QED
    BY <1>1, <1>2, <2>1, OtherTops
<1>6. ASSUME NEW u \in Users, NewFolderAtHome(u)
      PROVE  AtMostOne(Tops(db', v), Tops(db, v))
  <2> DEFINE d == LookUp(db, u)
             home == Home(db, u)
  <2>1. Good(d) /\ d.made < MaxFolders /\ db' = MakeIn(d, home) /\ RoomFor(db, u)
    BY <1>1, <1>6, LookUpGood DEF NewFolderAtHome
  <2>2. home \in Folder
    <3>1. CASE Tops(db, u) = {}
      <4>1. db.made \in 0..MaxFolders /\ db.made < MaxFolders /\ home = db.made + 1
        BY <1>1, <2>1, <3>1 DEF RoomFor, Home, Good, KeysHold, Database
      <4> QED
        BY <4>1, FoldersAssumption DEF Folder
    <3>2. CASE Tops(db, u) # {}
      BY <3>2, HomeIsTop DEF Tops
    <3> QED
      BY <3>1, <3>2
  <2>3. Tops(db', v) \subseteq Tops(d, v)
    BY <2>1, <2>2, OtherTops
  <2> QED
    BY <1>3, <2>1, <2>3 DEF AtMostOne
<1>7. ASSUME NEW u \in Users, NEW f \in Folder, NEW dst \in Folder, MoveFolder(u, f, dst)
      PROVE  AtMostOne(Tops(db', v), Tops(db, v))
  <2> DEFINE d == Transfer([db EXCEPT !.parent[f] = dst], f, db.owner[dst])
  <2>1. Good(d) /\ Show(u, d)
    BY <1>1, <1>7, TransferGood DEF MoveFolder, MayUse
  <2>2. Tops(d, v) \subseteq Tops(db, v)
    BY <1>1, <1>7, OtherTops DEF MoveFolder, MayUse
  <2> QED
    BY <1>2, <2>1, <2>2
<1>8. ASSUME NEW d, d.owner = db.owner, d.parent = db.parent
      PROVE  Tops(d, v) \subseteq Tops(db, v)
  BY <1>8 DEF Tops
<1>9. ASSUME NEW u \in Users, NEW m \in Media, NEW dst \in Folder, MoveFile(u, m, dst)
      PROVE  AtMostOne(Tops(db', v), Tops(db, v))
  <2> DEFINE d == [db EXCEPT !.holder[m] = db.owner[dst], !.place[m] = dst]
  <2>1. Good(d) /\ Show(u, d)
    BY <1>1, <1>9, FileGood DEF MoveFile, MayUse
  <2>2. Tops(d, v) \subseteq Tops(db, v)
    BY <1>1, <1>8 DEF Good, KeysHold, Database
  <2> QED
    BY <1>2, <2>1, <2>2
<1>10. ASSUME NEW u \in Users, NEW f \in Folder, TrashFolder(u, f)
       PROVE  AtMostOne(Tops(db', v), Tops(db, v))
  <2>1. Show(u, Discard(db, f)) \/ db' = Discard(db, f)
    BY <1>10 DEF TrashFolder
  <2> QED
    BY <1>1, <1>2, <2>1, DiscardGood, OtherTops
<1>11. ASSUME NEW m \in Media
       PROVE  Good(Delete(db, m)) /\ Tops(Delete(db, m), v) \subseteq Tops(db, v)
  <2>1. Good(Delete(db, m))
    BY <1>1, FileGood
  <2>2. Delete(db, m).owner = db.owner /\ Delete(db, m).parent = db.parent
    BY <1>1 DEF Good, KeysHold, Database, Delete
  <2> QED
    BY <1>8, <2>1, <2>2
<1>12. ASSUME NEW u \in Users, NEW m \in Media, DeleteNext(u, m)
       PROVE  AtMostOne(Tops(db', v), Tops(db, v))
  <2>1. Show(u, Delete(db, m)) \/ db' = Delete(db, m)
    BY <1>12 DEF DeleteNext
  <2> QED
    BY <1>2, <1>11, <2>1
<1>13. ASSUME NEW m \in Media, Deleted(m)
       PROVE  AtMostOne(Tops(db', v), Tops(db, v))
  BY <1>11, <1>13 DEF Deleted, AtMostOne
<1>14. ASSUME NEW u \in Users, NEW m \in Media, Ingested(m, u)
       PROVE  AtMostOne(Tops(db', v), Tops(db, v))
  <2>1. db' = [db EXCEPT !.holder[m] = u]
    BY <1>14 DEF Ingested
  <2>2. db'.owner = db.owner /\ db'.parent = db.parent
    BY <1>1, <2>1 DEF Good, KeysHold, Database
  <2> QED
    BY <1>8, <2>2 DEF AtMostOne
<1>15. CASE UNCHANGED db
  BY <1>15 DEF AtMostOne
<1>16. ASSUME NEW u \in Users, DeleteFails(u) \/ Visit(u)
       PROVE  UNCHANGED db
  BY <1>16 DEF DeleteFails, Visit
<1> QED
  BY <1>4, <1>5, <1>6, <1>7, <1>9, <1>10, <1>12, <1>13, <1>14, <1>15, <1>16 DEF Next, vars

\* Only the repair of loops gives a user a second top folder, whatever the requests and pages.
THEOREM OneHomeHolds == Spec => OneHome
<1>1. IInv /\ [Next]_vars =>
          \A u \in Users : \/ Cardinality(Tops(db', u)) <= 1
                           \/ Tops(db', u) \subseteq Tops(db, u)
                           \/ Restart
  BY NextOneHome, SingletonAtMost
<1>2. IInv /\ [Next]_vars =>
          [\A u \in Users : \/ Cardinality(Tops(db', u)) <= 1
                            \/ Tops(db', u) \subseteq Tops(db, u)
                            \/ Restart]_db
  BY <1>1
<1> QED
  BY <1>2, InvariantHolds, PTL DEF Spec, OneHome

----------------------------------------------------------------------------
(* Loops *)

\* What a subtree has is in every set of folders that has its folder and, with any, those in it.
LEMMA TreeLeast ==
    ASSUME NEW d, NEW f \in Folder, NEW S, f \in S,
           \A g \in Folder : d.parent[g] \in S => g \in S
    PROVE  Tree(d, f) \subseteq S
<1> DEFINE T == S \cap Subfolders(d)
<1>1. \A g \in Subfolders(d) : d.parent[g] \in T \cup {f} => g \in T
  BY DEF Subfolders
<1>2. T \in SUBSET Subfolders(d)
  OBVIOUS
<1> HIDE DEF T
<1>3. \A g \in Tree(d, f) : g = f \/ g \in T
  BY <1>1, <1>2 DEF Tree
<1> QED
  BY <1>3 DEF T

\* Of a folder without a top above it, the folders above it are so too.
LEMMA AstrayIs ==
    ASSUME NEW d
    PROVE  /\ Astray(d) \subseteq Folder
           /\ \A g \in Astray(d) : d.parent[g] \in Astray(d)
           /\ \A S \in SUBSET Folder : (\A g \in S : d.parent[g] \in S) => S \subseteq Astray(d)
  BY DEF Astray

\* A loop is one where the folders above it are the same.
LEMMA LoopOf ==
    ASSUME NEW d, NEW e, NEW A, A \subseteq Folder, KeysHold(d),
           \A g \in A : e.parent[g] \in A /\ e.parent[g] = d.parent[g],
           NEW f \in A, f \in Looped(e)
    PROVE  f \in Looped(d)
<1> DEFINE S == Tree(d, f) \cup (Folder \ A)
<1>1. f \in Tree(d, f) /\ \A g \in Folder : d.parent[g] \in Tree(d, f) => g \in Tree(d, f)
  BY TreeClosed
<1>2. \A g \in Folder : e.parent[g] \in S => g \in S
  BY <1>1
<1>3. Tree(e, f) \subseteq S
  <2>1. f \in Folder /\ f \in S
    BY <1>1
  <2> HIDE DEF S
  <2> QED
    BY <1>2, <2>1, TreeLeast
<1>4. e.parent[f] \in Tree(d, f)
  BY <1>3 DEF Looped
<1>5. f \in Astray(d)
  BY AstrayIs
<1> QED
  BY <1>4, <1>5 DEF Looped

\* From a folder of a loop one comes back to all that one has come through.
LEMMA LoopBack ==
    ASSUME NEW d, KeysHold(d), NEW f \in Folder, NEW c \in Folder,
           c \in Tree(d, f), d.parent[c] \in Tree(d, c)
    PROVE  f \in Tree(d, c) /\ Tree(d, c) \subseteq Tree(d, f)
<1> DEFINE S == Tree(d, f) \ Tree(d, c)
<1>1. /\ c \in Tree(d, c) /\ f \in Tree(d, f)
      /\ \A g \in Folder : d.parent[g] \in Tree(d, f) => g \in Tree(d, f)
      /\ \A g \in Tree(d, c) : g = c \/ d.parent[g] \in Tree(d, c)
  BY TreeClosed
<1>2. \A g \in Folder : d.parent[g] \in S => g \in S
  BY <1>1
<1>3. ASSUME f \notin Tree(d, c)
      PROVE  FALSE
  <2>1. f \in S
    BY <1>1, <1>3
  <2> HIDE DEF S
  <2>2. Tree(d, f) \subseteq S
    BY <1>2, <2>1, TreeLeast
  <2> QED
    BY <1>1, <2>2 DEF S
<1>4. Tree(d, c) \subseteq Tree(d, f)
  BY <1>1, TreeLeast
<1> QED
  BY <1>3, <1>4

\* Loops are a matter of the items alone.
LEMMA SameLoops ==
    ASSUME NEW d, NEW e, e.parent = d.parent
    PROVE  Looped(e) = Looped(d)
  BY DEF Looped, Astray, Tree, Subfolders

\* The repair at a start leaves no loop: whatever one item of each it takes.
LEMMA MendLoops ==
    ASSUME NEW d, KeysHold(d), NEW cut \in SUBSET Looped(d), OnePerLoop(d, cut)
    PROVE  Looped(Mend(d, cut)) = {}
<1> DEFINE e == Mend(d, cut)
<1> SUFFICES ASSUME NEW f \in Looped(e)
             PROVE  FALSE
  OBVIOUS
<1>1. d \in Database /\ NULL \notin Folder
  BY FoldersAssumption DEF KeysHold, Folder
<1>2. e.parent = [g \in Folder |-> IF g \in cut THEN NULL ELSE d.parent[g]]
  BY <1>1 DEF Mend, Database
<1> HIDE DEF e
<1>3. /\ Astray(e) \subseteq Folder /\ f \in Astray(e)
      /\ \A g \in Astray(e) : e.parent[g] \in Astray(e) /\ e.parent[g] = d.parent[g] /\ g \notin cut
  BY <1>1, <1>2, AstrayIs DEF Looped
<1>4. f \in Looped(d)
  BY <1>3, LoopOf
<1>5. PICK c \in cut : c \in Tree(d, f)
  <2>1. Cardinality(cut \cap Tree(d, f)) = 1
    BY <1>4 DEF OnePerLoop
  <2> QED
    BY <2>1, FS_EmptySet
<1>6. c \in Folder /\ d.parent[c] \in Tree(d, c)
  BY AstrayIs DEF Looped
<1>7. f \in Tree(d, c)
  BY <1>3, <1>5, <1>6, LoopBack
<1>8. \A g \in Folder : d.parent[g] \in Folder \ Astray(e) => g \in Folder \ Astray(e)
  BY <1>3
<1>9. Tree(d, c) \subseteq Folder \ Astray(e)
  BY <1>3, <1>5, <1>6, <1>8, TreeLeast
<1> QED
  BY <1>3, <1>7, <1>9

\* The home that is looked up is then a folder of the user's, and a top.
LEMMA HomeExists ==
    ASSUME NEW d, Good(d), NEW u \in Users, RoomFor(d, u)
    PROVE  /\ Home(d, u) \in Folder /\ d.parent[Home(d, u)] = NULL
           /\ LookUp(d, u).parent[Home(d, u)] = NULL
           /\ LookUp(d, u).owner[Home(d, u)] = u /\ Exists(LookUp(d, u), Home(d, u))
<1> DEFINE home == Home(d, u)
<1>1. /\ d \in Database /\ KeysHold(d) /\ NULL \notin Folder /\ NULL \notin Users
  BY FoldersAssumption DEF Good, KeysHold, Folder
<1>2. home \in Folder /\ d.parent[home] = NULL
  <2>1. CASE Tops(d, u) = {}
    <3>1. home = d.made + 1 /\ d.made \in 0..MaxFolders /\ d.made < MaxFolders
      BY <1>1, <2>1 DEF Home, RoomFor, Database
    <3>2. home \in Folder /\ home > d.made
      BY <3>1, FoldersAssumption DEF Folder
    <3> QED
      BY <1>1, <3>2 DEF KeysHold
  <2>2. CASE Tops(d, u) # {}
    BY <2>2, HomeIsTop DEF Tops
  <2> QED
    BY <2>1, <2>2
<1> HIDE DEF home
<1>3. LookUp(d, u).owner = [d.owner EXCEPT ![home] = u]
  BY DEF LookUp, home
<1>4. LookUp(d, u).parent = [f \in Folder |-> IF f \in Tops(d, u) \ {home} THEN home ELSE d.parent[f]]
  BY DEF LookUp, home
<1> QED
  BY <1>1, <1>2, <1>3, <1>4 DEF Exists, Database, home

\* The lookup of a home makes no loop: the home is a top.
LEMMA LookUpLoops ==
    ASSUME NEW d, Good(d), NEW u \in Users, RoomFor(d, u)
    PROVE  Looped(LookUp(d, u)) \subseteq Looped(d)
<1> DEFINE e == LookUp(d, u)
           home == Home(d, u)
<1>1. /\ d \in Database /\ KeysHold(d) /\ NULL \notin Folder
  BY FoldersAssumption DEF Good, KeysHold, Folder
<1>2. home \in Folder /\ d.parent[home] = NULL
  BY HomeExists
<1>3. e.parent = [f \in Folder |-> IF f \in Tops(d, u) \ {home} THEN home ELSE d.parent[f]]
  BY DEF LookUp
<1> HIDE DEF e, home
<1>4. home \notin Astray(e)
  BY <1>1, <1>2, <1>3, AstrayIs
<1>5. \A g \in Astray(e) : e.parent[g] \in Astray(e) /\ e.parent[g] = d.parent[g]
  BY <1>3, <1>4, AstrayIs
<1>6. \A f \in Looped(e) : f \in Astray(e)
  BY DEF Looped
<1> QED
  BY <1>1, <1>5, <1>6, LoopOf, AstrayIs DEF e

\* A new folder is on no loop, and in none that was not there.
LEMMA MakeInLoops ==
    ASSUME NEW d, Good(d), NEW p \in Folder, Exists(d, p), d.made < MaxFolders
    PROVE  Looped(MakeIn(d, p)) \subseteq Looped(d)
<1> DEFINE e == MakeIn(d, p)
           new == d.made + 1
           A == Astray(e) \ {new}
<1>1. d \in Database /\ KeysHold(d) /\ NULL \notin Folder
  BY FoldersAssumption DEF Good, KeysHold, Folder
<1>2. new \in Folder /\ new > d.made
  BY <1>1, FoldersAssumption DEF Folder, Database
<1>3. e.parent = [d.parent EXCEPT ![new] = p]
  BY <1>1 DEF MakeIn, Database
<1>4. p # new /\ \A g \in Folder : d.parent[g] # new
  BY <1>1, <1>2 DEF KeysHold, Exists
<1> HIDE DEF e, new
<1>5. \A g \in Folder : e.parent[g] # new /\ (g # new => e.parent[g] = d.parent[g])
  BY <1>1, <1>2, <1>3, <1>4 DEF Database
<1>6. /\ A \subseteq Folder
      /\ \A g \in A : e.parent[g] \in A /\ e.parent[g] = d.parent[g]
  BY <1>5, AstrayIs
<1>7. new \notin Looped(e)
  <2>1. Tree(e, new) \subseteq {new}
    BY <1>2, <1>5, TreeLeast
  <2> QED
    BY <1>2, <1>5, <2>1 DEF Looped
<1>8. \A f \in Looped(e) : f \in A
  BY <1>7 DEF Looped
<1> HIDE DEF A
<1> QED
  BY <1>1, <1>6, <1>8, LoopOf DEF e

\* A folder is put on a loop only by moving one to below itself.
LEMMA MoveLoops ==
    ASSUME NEW d, Good(d), NEW f \in Folder, NEW dst \in Folder,
           Exists(d, dst), f # dst, d.parent[f] # NULL, dst \notin Tree(d, f)
    PROVE  Looped(Transfer([d EXCEPT !.parent[f] = dst], f, d.owner[dst])) \subseteq Looped(d)
<1> DEFINE e == Transfer([d EXCEPT !.parent[f] = dst], f, d.owner[dst])
           A == Astray(e) \ Tree(e, f)
<1>1. d \in Database /\ KeysHold(d) /\ KeysHold(e)
  <2>1. Good(e)
    BY TransferGood
  <2> QED
    BY <2>1 DEF Good, KeysHold
<1>2. e.parent = [d.parent EXCEPT ![f] = dst]
  BY <1>1 DEF Transfer, Database
<1> HIDE DEF e
<1>3. e.parent[f] = dst /\ \A g \in Folder : g # f => e.parent[g] = d.parent[g]
  BY <1>1, <1>2 DEF Database
<1>4. dst \notin Tree(e, f)
  <2>1. \A g \in Folder : e.parent[g] \in Tree(d, f) => g \in Tree(d, f)
    BY <1>1, <1>3, TreeClosed
  <2>2. Tree(e, f) \subseteq Tree(d, f)
    BY <1>1, <2>1, TreeClosed, TreeLeast
  <2> QED
    BY <2>2
<1>5. /\ f \in Tree(e, f)
      /\ \A g \in Folder : e.parent[g] \in Tree(e, f) => g \in Tree(e, f)
  BY <1>1, TreeClosed
<1>6. ASSUME NEW h \in Looped(e)
      PROVE  h \notin Tree(e, f)
  <2> SUFFICES ASSUME h \in Tree(e, f)
               PROVE  FALSE
    OBVIOUS
  <2>1. h \in Folder /\ e.parent[h] \in Tree(e, h)
    BY AstrayIs DEF Looped
  <2>2. f \in Tree(e, h) /\ Tree(e, h) \subseteq Tree(e, f)
    BY <1>1, <2>1, LoopBack
  <2>3. f = h \/ e.parent[f] \in Tree(e, h)
    BY <1>1, <2>1, <2>2, TreeClosed
  <2> QED
    BY <1>3, <1>4, <2>1, <2>2, <2>3
<1>7. /\ A \subseteq Folder
      /\ \A g \in A : e.parent[g] \in A /\ e.parent[g] = d.parent[g]
  <2>1. ASSUME NEW g \in A
        PROVE  e.parent[g] \in A /\ e.parent[g] = d.parent[g]
    <3>1. g \in Folder /\ e.parent[g] \in Astray(e) /\ g \notin Tree(e, f)
      BY AstrayIs
    <3> QED
      BY <1>3, <1>5, <3>1
  <2> QED
    BY <2>1, AstrayIs
<1>8. \A h \in Looped(e) : h \in A
  BY <1>6 DEF Looped
<1> HIDE DEF A
<1> QED
  BY <1>1, <1>7, <1>8, LoopOf DEF e

\* Trashing makes none.
LEMMA DiscardLoops ==
    ASSUME NEW d, Good(d), NEW f \in Folder
    PROVE  Looped(Discard(d, f)) \subseteq Looped(d)
<1> DEFINE e == Discard(d, f)
<1>1. d \in Database /\ KeysHold(d) /\ NULL \notin Folder
  BY FoldersAssumption DEF Good, KeysHold, Folder
<1>2. e.parent = [g \in Folder |-> IF g \in Tree(d, f) THEN NULL ELSE d.parent[g]]
  BY <1>1 DEF Discard, Database
<1> HIDE DEF e
<1>3. \A g \in Astray(e) : e.parent[g] \in Astray(e) /\ e.parent[g] = d.parent[g]
  BY <1>1, <1>2, AstrayIs
<1>4. \A g \in Looped(e) : g \in Astray(e)
  BY DEF Looped
<1> QED
  BY <1>1, <1>3, <1>4, LoopOf, AstrayIs DEF e

\* Neither does the page shown at the end of a command.
LEMMA ShowLoops ==
    ASSUME NEW u \in Users, NEW d, Good(d), Show(u, d) \/ db' = d
    PROVE  Looped(db') \subseteq Looped(d)
  BY LookUpLoops DEF Show

\* A step makes a loop only by moving a folder to below itself, and the start after it mends it.
LEMMA NextLoops ==
    ASSUME IInv, [Next]_vars
    PROVE  /\ Restart => Looped(db') = {}
           /\ \/ Looped(db') \subseteq Looped(db)
              \/ \E u \in Users, f, dst \in Folder : MoveFolder(u, f, dst) /\ dst \in Tree(db, f)
<1>1. Good(db) /\ KeysHold(db) /\ db \in Database
  BY DEF IInv, TypeOK, OwnersAgree, Good, KeysHold
<1>2. ASSUME NEW u \in Users, Navigate(u) \/ \E w \in Users : ShowHome(w, u)
      PROVE  Looped(db') \subseteq Looped(db)
  BY <1>1, <1>2, LookUpLoops DEF Navigate, ShowHome
<1>3. ASSUME NEW u \in Users, NEW f \in Folder, NewFolder(u, f)
      PROVE  Looped(db') \subseteq Looped(db)
  <2>1. Exists(db, f) /\ db.made < MaxFolders /\ Show(u, MakeIn(db, f))
    BY <1>3 DEF NewFolder, MayUse
  <2> QED
    BY <1>1, <2>1, MakeInGood, MakeInLoops, ShowLoops
<1>4. ASSUME NEW u \in Users, NewFolderAtHome(u)
      PROVE  Looped(db') \subseteq Looped(db)
  <2> DEFINE d == LookUp(db, u)
             home == Home(db, u)
  <2>1. Good(d) /\ d.made < MaxFolders /\ db' = MakeIn(d, home) /\ RoomFor(db, u)
    BY <1>1, <1>4, LookUpGood DEF NewFolderAtHome
  <2>2. home \in Folder /\ Exists(d, home)
    BY <1>1, <2>1, HomeExists
  <2> QED
    BY <1>1, <2>1, <2>2, MakeInLoops, LookUpLoops
<1>5. ASSUME NEW u \in Users, NEW f \in Folder, NEW dst \in Folder, MoveFolder(u, f, dst), dst \notin Tree(db, f)
      PROVE  Looped(db') \subseteq Looped(db)
  <2> DEFINE d == Transfer([db EXCEPT !.parent[f] = dst], f, db.owner[dst])
  <2>1. Show(u, d) /\ Exists(db, dst) /\ f # dst /\ db.parent[f] # NULL
    BY <1>5 DEF MoveFolder, MayUse
  <2>2. Good(d) /\ Looped(d) \subseteq Looped(db)
    BY <1>1, <1>5, <2>1, TransferGood, MoveLoops
  <2> QED
    BY <2>1, <2>2, ShowLoops
<1>6. ASSUME NEW u \in Users, NEW m \in Media, NEW dst \in Folder, MoveFile(u, m, dst)
      PROVE  Looped(db') \subseteq Looped(db)
  <2> DEFINE d == [db EXCEPT !.holder[m] = db.owner[dst], !.place[m] = dst]
  <2>1. Good(d) /\ Show(u, d)
    BY <1>1, <1>6, FileGood DEF MoveFile, MayUse
  <2>2. d.parent = db.parent
    BY <1>1 DEF Database
  <2> HIDE DEF d
  <2> QED
    BY <2>1, <2>2, SameLoops, ShowLoops
<1>7. ASSUME NEW u \in Users, NEW f \in Folder, TrashFolder(u, f)
      PROVE  Looped(db') \subseteq Looped(db)
  <2>1. Show(u, Discard(db, f)) \/ db' = Discard(db, f)
    BY <1>7 DEF TrashFolder
  <2> QED
    BY <1>1, <2>1, DiscardGood, DiscardLoops, ShowLoops
<1>8. ASSUME NEW m \in Media, NEW u \in Users, DeleteNext(u, m) \/ Deleted(m) \/ Ingested(m, u)
      PROVE  Looped(db') \subseteq Looped(db)
  <2>1. \/ Show(u, Delete(db, m)) \/ db' = Delete(db, m)
        \/ db' = [db EXCEPT !.holder[m] = u]
    BY <1>8 DEF DeleteNext, Deleted, Ingested
  <2>2. Good(Delete(db, m)) /\ Delete(db, m).parent = db.parent
    BY <1>1, FileGood DEF Delete, Database
  <2>3. [db EXCEPT !.holder[m] = u].parent = db.parent
    BY <1>1 DEF Database
  <2>4. Looped(Delete(db, m)) = Looped(db)
    BY <2>2, SameLoops
  <2>5. Looped([db EXCEPT !.holder[m] = u]) = Looped(db)
    BY <2>3, SameLoops
  <2> QED
    BY <2>1, <2>2, <2>4, <2>5, ShowLoops
<1>9. ASSUME NEW m \in Media, Deleted(m)
      PROVE  Looped(db') \subseteq Looped(db)
  <2>1. db' = Delete(db, m) /\ Delete(db, m).parent = db.parent
    BY <1>1, <1>9 DEF Deleted, Delete, Database
  <2> QED
    BY <2>1, SameLoops
<1>10. Restart => Looped(db') = {}
  BY <1>1, MendLoops DEF Restart
<1>11. ASSUME UNCHANGED db
       PROVE  Looped(db') \subseteq Looped(db)
  BY <1>11
<1>12. ASSUME NEW u \in Users, DeleteFails(u) \/ Visit(u)
       PROVE  UNCHANGED db
  BY <1>12 DEF DeleteFails, Visit
<1>13. ASSUME NEW u \in Users, NEW f \in Folder, NEW dst \in Folder, MoveFolder(u, f, dst)
       PROVE  \/ Looped(db') \subseteq Looped(db)
              \/ \E v \in Users, g, e \in Folder : MoveFolder(v, g, e) /\ e \in Tree(db, g)
  BY <1>5, <1>13
<1> QED
  BY <1>2, <1>3, <1>4, <1>6, <1>7, <1>8, <1>9, <1>10, <1>11, <1>12, <1>13 DEF Next, vars

\* Whatever admins and users move where: a loop comes of a move of a folder to below itself only, and
\* a start of the organizer mends all there are.
THEOREM LoopsAreMendedHolds == Spec => LoopsAreMended
<1>1. IInv /\ [Next]_vars =>
          [/\ Restart => Looped(db') = {}
           /\ db'.parent # db.parent =>
                 \/ Looped(db') \subseteq Looped(db)
                 \/ \E u \in Users, f, dst \in Folder :
                        MoveFolder(u, f, dst) /\ dst \in Tree(db, f)]_vars
  BY NextLoops
<1> QED
  BY <1>1, InvariantHolds, PTL DEF Spec, LoopsAreMended

----------------------------------------------------------------------------
(* Homes *)

\* After the lookup the home is the only top folder, so no other folder of the user's is outside of
\* its subtree but with all that is above it.
LEMMA LookUpHasAll ==
    ASSUME NEW d, Good(d), NEW u \in Users, RoomFor(d, u)
    PROVE  HasAll(LookUp(d, u), u)
<1> DEFINE e == LookUp(d, u)
           home == Home(d, u)
           T == Tree(e, Home(e, u))
           S == {f \in Folder : e.owner[f] = u /\ f \notin T}
<1>1. Good(e) /\ KeysHold(e) /\ Agree(e) /\ e \in Database /\ d \in Database
  BY LookUpGood DEF Good, KeysHold
<1>2. home \in Folder /\ e.owner[home] = u /\ NULL \notin Folder /\ NULL \notin Users
  BY FoldersAssumption, HomeExists DEF Folder
<1>3. e.parent[home] = NULL
  BY <1>1, <1>2, HomeExists
<1>4. Tops(e, u) = {home}
  BY <1>2, <1>3, LookUpTops DEF Tops
<1>5. Home(e, u) = home
  BY <1>4, HomeIsTop
<1>6. /\ home \in T
      /\ \A g \in Folder : e.parent[g] \in T => g \in T
  BY <1>1, <1>2, <1>5, TreeClosed
<1>7. \A m \in Media : e.holder[m] = u => e.place[m] # NULL
  BY <1>1, <1>2 DEF LookUp, Database
<1> HIDE DEF e, T, home
<1>8. \A g \in S : e.parent[g] \in S
  <2> SUFFICES ASSUME NEW g \in S
               PROVE  e.parent[g] \in S
    OBVIOUS
  <2>1. g \in Folder /\ e.owner[g] = u /\ g \notin T
    OBVIOUS
  <2>2. e.parent[g] # NULL
    BY <1>4, <1>6, <2>1 DEF Tops
  <2>3. e.parent[g] \in Folder /\ e.owner[e.parent[g]] = u
    BY <1>1, <2>1, <2>2 DEF Agree, Database
  <2> QED
    BY <1>6, <2>1, <2>3
<1>9. S \subseteq Astray(e)
  BY <1>8, AstrayIs
<1>10. \A f \in Folder : e.owner[f] = u => f \in T \cup Astray(e)
  BY <1>9
<1>11. \A m \in Media : e.holder[m] = u => e.place[m] \in Folder /\ e.owner[e.place[m]] = u
  BY <1>1, <1>7 DEF Agree, Database
<1> QED
  BY <1>10, <1>11 DEF HasAll, T, e

\* Whoever navigates to the home finds all there, but what a loop has led astray.
THEOREM HomeHasAllHolds == Spec => HomeHasAll
<1>1. IInv /\ [Next]_vars => [\A u \in Users : Navigate(u) => HasAll(db', u)]_db
  <2> SUFFICES ASSUME IInv, NEW u \in Users, Navigate(u)
               PROVE  HasAll(db', u)
    OBVIOUS
  <2>1. Good(db)
    BY DEF IInv, TypeOK, OwnersAgree, Good
  <2> QED
    BY <2>1, LookUpHasAll DEF Navigate
<1> QED
  BY <1>1, InvariantHolds, PTL DEF Spec, HomeHasAll
=============================================================================
