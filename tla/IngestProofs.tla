---------------------------- MODULE IngestProofs ----------------------------
(***************************************************************************)
(* Proofs about Ingest, for any files, users, names, scenes and number of  *)
(* restarts: what is delivered is not lost, is ingested for its user, and  *)
(* goes with its row.                                                      *)
(*                                                                         *)
(* Three threads move files under names that all of them use.  The proofs  *)
(* rest on who can be at a path: the pipeline alone makes directories and  *)
(* fills them, the monitor is at no path of which a submission is under    *)
(* way, and where submissions are prompt there is one of a path at a time. *)
(***************************************************************************)
EXTENDS Ingest, TLAPS

P == doing["pipeline"]
M == doing["monitor"]

\* What happens to a file that the pipeline has taken and not moved yet.
Ingesting == {"check", "lookup", "wipe", "create", "move"}

-----------------------------------------------------------------------------
(* Places *)

\* The places are told apart by their kinds and by what they are named after.
LEMMA Kinds ==
    /\ \A n : Incoming(n)[1] = "incoming" /\ Incoming(n)[2] = n
    /\ \A f : Upload(f)[1] = "upload" /\ Upload(f)[2] = f
    /\ \A i : Orig(i)[1] = "orig" /\ Orig(i)[2] = i
    /\ \A n : Rejected(n)[1] = "rejected" /\ Rejected(n)[2] = n
    /\ \A i : ById(i)[1] = "byId" /\ ById(i)[2] = i
    /\ \A f : ByUuid(f)[1] = "byUuid" /\ ByUuid(f)[2] = f
    /\ Trash[1] = "trash" /\ Gone[1] = "gone" /\ Nowhere[1] = "nowhere"
  BY DEF Incoming, Upload, Orig, Rejected, ById, ByUuid, Trash, Gone, Nowhere

\* Where the monitor and the uploads leave files for the pipeline.
LEMMA Sources ==
    ASSUME NEW p \in Source
    PROVE  /\ \/ \E n \in Name : p = Incoming(n)
              \/ \E f \in Uploaded : p = Upload(f)
           /\ p[1] \in {"incoming", "upload"}
           /\ NameAt(p) \in Name
<1>1. CASE \E n \in Name : p = Incoming(n)
  BY <1>1, Kinds DEF NameAt
<1>2. CASE \E f \in Uploaded : p = Upload(f)
  BY <1>2, Kinds, IngestAssumption DEF NameAt, Name
<1> QED
  BY <1>1, <1>2 DEF Source

\* No file is at the empty path.
LEMMA NoFiles == NoFile \notin Place
<1>1. NoFile[1] = "none" /\ NoFile \notin Source
  BY Sources DEF NoFile
<1> QED
  BY <1>1, Kinds DEF Place

\* Every path the threads use is a place.
LEMMA Places ==
    /\ Source \subseteq Place
    /\ \A n \in Name : Incoming(n) \in Source /\ Rejected(n) \in Place
    /\ \A f \in Uploaded : Upload(f) \in Source
    /\ \A i \in Id : Orig(i) \in Place /\ ById(i) \in Place
    /\ \A f \in File : ByUuid(f) \in Place
    /\ {Trash, Gone, Nowhere} \subseteq Place
  BY DEF Place, Source

\* The rejected directory has places by name, by id and by uuid.
LEMMA RejectedPlaces ==
    ASSUME NEW p \in Place, p[1] \in {"rejected", "byId", "byUuid"}
    PROVE  \/ \E n \in Name : p = Rejected(n)
           \/ \E i \in Id : p = ById(i)
           \/ \E f \in File : p = ByUuid(f)
<1>1. p \notin Source
  BY Sources
<1>2. p \notin {Orig(i) : i \in Id} /\ p \notin {Trash, Gone, Nowhere}
  BY Kinds
<1>3. p \in {Rejected(n) : n \in Name} \cup {ById(i) : i \in Id} \cup {ByUuid(f) : f \in File}
  BY <1>1, <1>2 DEF Place
<1> QED
  BY <1>3

\* What the code computes of a file: its name, its user, its id.
LEMMA Inputs ==
    ASSUME NEW f \in File
    PROVE  /\ NameOf[f] \in Name /\ UserOf[f] \in User /\ UserOf[f] # NULL
           /\ \A u \in User : <<u, SampleOf[f]>> \in Id /\ <<u, SampleOf[f]>> # NULL
  BY IngestAssumption DEF Name, User, Id

\* A move brings the file to the destination, and what was there before is gone.
LEMMA MovedIs ==
    ASSUME where \in [File -> Place], NEW p \in Place, NEW q \in Place
    PROVE  /\ Moved(p, q) \in [File -> Place]
           /\ \A f \in File : /\ where[f] = p => Moved(p, q)[f] = q
                              /\ where[f] = q /\ p # q => Moved(p, q)[f] = Gone
                              /\ where[f] \notin {p, q} => Moved(p, q)[f] = where[f]
  BY Places DEF Moved

\* What the threads are at.
LEMMA Doings ==
    ASSUME NEW d \in Doing
    PROVE  /\ d.at \in {"idle", "insert", "reject", "rename"} \cup Ingesting
           /\ d.at = "idle" <=> d = Idle
           /\ d # Idle => d.path \in Source
           /\ d.at \in Ingesting \cup {"insert"} => d.user \in User /\ d.id \in Id /\ d.id # NULL
           /\ d.at = "reject" => d.id \in Id \cup {NULL}
           /\ d.at = "rename" => d.to \in Place
  BY IngestAssumption DEF Doing, Idle, Ingesting

-----------------------------------------------------------------------------
(* The inductive invariant *)

\* The place of each file, the directories, and what the two threads are at.
PlaceInv ==
    /\ \A f \in File : f \notin scene.files => where[f] = Nowhere
    /\ \A p \in Source : \A f, g \in File : where[f] = p /\ where[g] = p => f = g
    /\ \A u \in Uploaded, f \in File : where[f] = Upload(u) => f = u
    /\ \A i \in Id, f \in File : where[f] = Orig(i) => i \in dirs
    /\ P.at = "rename" => P.to[1] \in {"rejected", "byId", "byUuid"}
    /\ M.at = "rename" => M.to[1] \in {"rejected", "byUuid"}
    /\ M.at = "reject" => M.id = NULL
    /\ M # Idle => /\ M.at \in {"reject", "rename"} /\ M.path[1] = "incoming"
                   /\ scene.files \cap Unnamed # {}
    /\ P.at \in Ingesting \cup {"insert"} => P.id[1] = P.user
    /\ P.at = "create" => P.id \notin dirs
    /\ P.at = "move" => \A f \in File : where[f] # Orig(P.id)

\* Files that are not there yet have not been submitted.
FreshInv ==
    \A u \in Uploaded : where[u] = Nowhere =>
        /\ \A j \in Job : j.path = Upload(u) => jobs[j] = 0
        /\ ~(P # Idle /\ P.path = Upload(u))

\* The submissions of files.
FileJob == {j \in Job : j.path # NoFile}

\* Where submissions are prompt there is one of a path at a time, which the monitor keeps away from.
OnePerPath ==
    /\ \A j \in FileJob : jobs[j] > 0 =>
          /\ jobs[j] = 1
          /\ ~(P # Idle /\ P.path = j.path)
          /\ \A k \in FileJob : jobs[k] > 0 /\ k.path = j.path => k = j
          /\ \E f \in File : where[f] = j.path /\ UserOf[f] = j.user
          /\ j.path[1] = "incoming" => j.path[2] \in submitted
    /\ P # Idle /\ P.path[1] = "incoming" => P.path[2] \in submitted
    /\ M # Idle => M.path[2] \notin submitted
    /\ P.at \in Ingesting => \E f \in File : where[f] = P.path /\ UserOf[f] = P.user
    /\ \A i \in Id, f \in File : where[f] = Orig(i) => UserOf[f] = i[1]

PromptInv == scene.prompt => OnePerPath

\* The monitor does not interfere with the pipeline if submissions are prompt, or if there is
\* nothing for it to reject; then what the pipeline took is still there when it is moved.
Calm == scene.prompt \/ scene.files \cap Unnamed = {}

SampleInv ==
    Calm =>
        /\ P.at \in Ingesting => \E f \in File : where[f] = P.path /\ SampleOf[f] = P.id[2]
        /\ P.at = "reject" /\ P.id # NULL => \E f \in File : where[f] = P.path /\ SampleOf[f] = P.id[2]
        /\ P.at = "rename" => \A i \in Id : P.to = ById(i) =>
              \E f \in File : where[f] = P.path /\ SampleOf[f] = i[2]
        /\ \A i \in Id, f \in File : where[f] \in {Orig(i), ById(i)} => SampleOf[f] = i[2]

\* While the monitor rejects nothing, the destination the pipeline has found free is still free.
KeptInv ==
    scene.files \cap Unnamed = {} =>
        /\ ContentKept
        /\ \A f, g \in File : where[g] = ByUuid(f) => g = f
        /\ P.at = "rename" =>
              /\ \A n \in Name, f \in File : P.to = Rejected(n) => where[f] # Rejected(n)
              /\ \A f \in File : P.to = ByUuid(f) => where[f] = P.path

\* Files without a row are about to be given one, or to go to the trash.
DanglingInv ==
    restarts = 0 => \A i \in Id, f \in File : where[f] = Orig(i) /\ i[1] \in Registered /\ owner[i] = NULL =>
        \/ P.at = "insert" /\ P.id = i
        \/ \E d \in Deletion : deleting[d].at = "unlisted" /\ deleting[d].id = i

\* No two of the files ever delivered are alike.
NoCopies == \A f, g \in File : SampleOf[f] = SampleOf[g] => f = g

\* Then what is being deleted does not come in again.
RowsAndFiles ==
    /\ \A i \in Id : owner[i] # NULL => \E f \in File : where[f] = Orig(i)
    /\ P.at = "wipe" => owner[P.id] = NULL
    /\ P.at = "insert" => /\ \E f \in File : where[f] = Orig(P.id)
                          /\ owner[P.id] = NULL
                          /\ \A d \in Deletion : deleting[d] # Idle => deleting[d].id # P.id
    /\ \A d \in Deletion : deleting[d] # Idle =>
          /\ deleting[d].at = "unlisted" => owner[deleting[d].id] = NULL
          /\ \A f \in File : SampleOf[f] = deleting[d].id[2] => where[f] \notin Source \cup {Nowhere}

RowInv == scene.prompt /\ NoCopies => RowsAndFiles

IInv == TypeOK /\ PlaceInv /\ FreshInv /\ PromptInv /\ SampleInv /\ KeptInv /\ DanglingInv /\ RowInv

\* At first no file has been delivered, and nothing is under way.
LEMMA Initial == Init => IInv
<1> SUFFICES ASSUME Init PROVE IInv
  OBVIOUS
<1>1. TypeOK
  BY IngestAssumption, Places DEF Init, TypeOK, Doing, Deleting
<1>2. P = Idle /\ M = Idle /\ Idle.at = "idle" /\ \A d \in Deletion : deleting[d] = Idle
  BY DEF Init, P, M, Idle
<1>3. \A f \in File : where[f] = Nowhere /\ where[f][1] = "nowhere"
  BY Kinds DEF Init
<1>4. (\A j \in Job : jobs[j] = 0) /\ \A i \in Id : owner[i] = NULL
  BY DEF Init
<1>5. \A p \in Source : p[1] # "nowhere"
  BY Sources
<1>6. PlaceInv /\ FreshInv
  BY <1>2, <1>3, <1>4, <1>5, Kinds DEF PlaceInv, FreshInv, Ingesting
<1>7. PromptInv /\ SampleInv
  BY <1>2, <1>3, <1>4, Kinds DEF PromptInv, OnePerPath, FileJob, SampleInv, Ingesting
<1>8. KeptInv /\ DanglingInv /\ RowInv
  BY <1>2, <1>3, <1>4, Kinds DEF KeptInv, ContentKept, DanglingInv, RowInv, RowsAndFiles
<1> QED
  BY <1>1, <1>6, <1>7, <1>8 DEF IInv

-----------------------------------------------------------------------------
(* Types *)

\* A thread changes what it is at, and the other one does not.
LEMMA Becomes ==
    ASSUME TypeOK, NEW w \in {"pipeline", "monitor"}, NEW state, Become(w, state)
    PROVE  /\ doing'[w] = state
           /\ \A v \in {"pipeline", "monitor"} \ {w} : doing'[v] = doing[v]
           /\ w = "pipeline" => P' = state /\ M' = M
           /\ w = "monitor" => M' = state /\ P' = P
           /\ state \in Doing => doing' \in [{"pipeline", "monitor"} -> Doing]
  BY DEF TypeOK, Become, P, M

\* The pipeline goes on with what it has in hand,
LEMMA Ontos ==
    ASSUME TypeOK, NEW at \in {"lookup", "wipe", "create", "move", "insert"},
           P.at \in Ingesting, Onto(at)
    PROVE  /\ P' \in Doing /\ M' = M
           /\ P'.at = at /\ P'.path = P.path /\ P'.user = P.user /\ P'.id = P.id
           /\ P' # Idle
           /\ doing' \in [{"pipeline", "monitor"} -> Doing]
<1>1. P \in [at : Ingesting, path : Source, user : User, id : Id]
  BY DEF TypeOK, P, Doing, Idle, Ingesting
<1>2. Become("pipeline", [P EXCEPT !.at = at])
  BY DEF Onto, P
<1> DEFINE state == [P EXCEPT !.at = at]
<1>3. /\ state \in [at : {at}, path : Source, user : User, id : Id]
      /\ state.at = at /\ state.path = P.path /\ state.user = P.user /\ state.id = P.id
  BY <1>1
<1>4. state \in Doing /\ state # Idle
  BY <1>3 DEF Doing, Idle
<1>5. P' = state /\ M' = M /\ doing' \in [{"pipeline", "monitor"} -> Doing]
  BY <1>2, <1>4, Becomes
<1> QED
  BY <1>3, <1>4, <1>5

\* or gives it up.
LEMMA Rejects ==
    ASSUME TypeOK, NEW path \in Source, NEW id \in Id \cup {NULL}, Reject(path, id)
    PROVE  /\ P' \in Doing /\ M' = M
           /\ P'.at = "reject" /\ P'.path = path /\ P'.id = id
           /\ P' # Idle
           /\ doing' \in [{"pipeline", "monitor"} -> Doing]
<1> DEFINE state == [at |-> "reject", path |-> path, id |-> id]
<1>1. state \in Doing /\ state # Idle
  BY DEF Doing, Idle
<1>2. P' = state /\ M' = M /\ doing' \in [{"pipeline", "monitor"} -> Doing]
  BY <1>1, Becomes DEF Reject
<1> QED
  BY <1>1, <1>2

\* What it takes up, with the id of the file at the path; an empty path it drops.
LEMMA Takes ==
    ASSUME TypeOK, NEW j \in Job, Take(j)
    PROVE  /\ P = Idle /\ P' \in Doing /\ M' = M
           /\ doing' \in [{"pipeline", "monitor"} -> Doing]
           /\ \/ j.path = NoFile /\ P' = Idle
              \/ /\ P' # Idle /\ P'.path = j.path
                 /\ \/ /\ P'.at = "check" /\ P'.user = j.user /\ P'.id[1] = j.user
                       /\ \E f \in File : where[f] = j.path /\ P'.id[2] = SampleOf[f]
                    \/ P'.at = "reject" /\ P'.id = NULL
<1>1. j.user \in User /\ (j.path # NoFile => j.path \in Source)
  BY DEF Job
<1>2. P = Idle /\ doing \in [{"pipeline", "monitor"} -> Doing]
  BY Doings DEF Take, Step, P, TypeOK
<1>3. ASSUME NEW f \in File, where[f] = j.path,
             Become("pipeline", [at |-> "check", path |-> j.path, user |-> j.user, id |-> <<j.user, SampleOf[f]>>])
      PROVE  /\ P' \in Doing /\ M' = M
             /\ P' # Idle /\ P'.path = j.path
             /\ doing' \in [{"pipeline", "monitor"} -> Doing]
             /\ P'.at = "check" /\ P'.user = j.user /\ P'.id[1] = j.user /\ P'.id[2] = SampleOf[f]
  <2> DEFINE state == [at |-> "check", path |-> j.path, user |-> j.user, id |-> <<j.user, SampleOf[f]>>]
  <2>0. j.path \in Source
    BY <1>1, <1>3, NoFiles DEF TypeOK
  <2>1. state \in Doing /\ state # Idle
    BY <1>1, <2>0, Inputs DEF Doing, Idle
  <2>2. P' = state /\ M' = M /\ doing' \in [{"pipeline", "monitor"} -> Doing]
    BY <1>3, <2>1, Becomes
  <2> QED
    BY <2>1, <2>2
<1>4. CASE \E f \in File : /\ where[f] = j.path
                           /\ Become("pipeline", [at |-> "check", path |-> j.path, user |-> j.user,
                                                  id |-> <<j.user, SampleOf[f]>>])
  BY <1>2, <1>3, <1>4
<1>5. CASE j.path # NoFile /\ Reject(j.path, NULL)
  BY <1>1, <1>2, <1>5, Rejects
<1>6. CASE j.path = NoFile /\ UNCHANGED doing
  BY <1>2, <1>6 DEF P, M
<1> QED
  BY <1>4, <1>5, <1>6 DEF Take, At

\* Where a rejected file is to go.
LEMMA RejectsTo ==
    ASSUME TypeOK, NEW w \in {"pipeline", "monitor"}, RejectWhere(w)
    PROVE  /\ doing[w].at = "reject" /\ doing'[w] \in Doing
           /\ doing' \in [{"pipeline", "monitor"} -> Doing]
           /\ \A v \in {"pipeline", "monitor"} \ {w} : doing'[v] = doing[v]
           /\ \/ doing'[w] = Idle
              \/ /\ doing'[w].at = "rename" /\ doing'[w].path = doing[w].path /\ doing'[w] # Idle
                 /\ \/ \E n \in Name : /\ doing'[w].to = Rejected(n)
                                       /\ \A f \in File : where[f] # Rejected(n)
                    \/ \E f \in File : /\ doing[w].id = NULL /\ where[f] = doing[w].path
                                      /\ doing'[w].to = ByUuid(f)
                    \/ /\ doing[w].id \in Id /\ doing'[w].to = ById(doing[w].id)
                       /\ \E f \in File : where[f] = doing[w].path
<1> DEFINE p == doing[w]
<1>1. p \in Doing /\ p.at = "reject" /\ p.path \in Source /\ NameAt(p.path) \in Name /\ p.id \in Id \cup {NULL}
  <2>1. p \in Doing /\ p.at = "reject"
    BY DEF TypeOK, RejectWhere
  <2> QED
    BY <2>1, Doings, Sources
<1>2. ASSUME NEW to \in Place, Become(w, [at |-> "rename", path |-> p.path, to |-> to])
      PROVE  /\ doing'[w] \in Doing /\ doing'[w].at = "rename" /\ doing'[w].path = p.path
             /\ doing'[w].to = to /\ doing'[w] # Idle
             /\ doing' \in [{"pipeline", "monitor"} -> Doing]
             /\ \A v \in {"pipeline", "monitor"} \ {w} : doing'[v] = doing[v]
  <2> DEFINE state == [at |-> "rename", path |-> p.path, to |-> to]
  <2>1. state \in Doing /\ state # Idle
    BY <1>1 DEF Doing, Idle
  <2>2. /\ doing'[w] = state /\ doing' \in [{"pipeline", "monitor"} -> Doing]
        /\ \A v \in {"pipeline", "monitor"} \ {w} : doing'[v] = doing[v]
    BY <1>2, <2>1, Becomes
  <2> QED
    BY <2>1, <2>2
<1>3. CASE /\ At(Rejected(NameAt(p.path))) = {}
           /\ Become(w, [at |-> "rename", path |-> p.path, to |-> Rejected(NameAt(p.path))])
  <2>1. Rejected(NameAt(p.path)) \in Place
    BY <1>1, Places
  <2> QED
    BY <1>1, <1>2, <1>3, <2>1 DEF At
<1>4. CASE \E f \in At(p.path) :
              Become(w, [at |-> "rename", path |-> p.path, to |-> IF p.id = NULL THEN ByUuid(f) ELSE ById(p.id)])
  <2>1. PICK f \in File :
           /\ where[f] = p.path
           /\ Become(w, [at |-> "rename", path |-> p.path, to |-> IF p.id = NULL THEN ByUuid(f) ELSE ById(p.id)])
    BY <1>4 DEF At
  <2>2. ByUuid(f) \in Place /\ (p.id # NULL => ById(p.id) \in Place)
    BY <1>1, Places
  <2>3. CASE p.id = NULL
    BY <1>1, <1>2, <2>1, <2>2, <2>3
  <2>4. CASE p.id # NULL
    BY <1>1, <1>2, <2>1, <2>2, <2>4
  <2> QED
    BY <2>3, <2>4
<1>5. CASE Become(w, Idle)
  <2>1. Idle \in Doing
    BY DEF Doing
  <2> QED
    BY <1>1, <1>5, <2>1, Becomes
<1> QED
  BY <1>3, <1>4, <1>5 DEF RejectWhere

\* The types are preserved by every step.
LEMMA NextType == IInv /\ [Next]_vars => TypeOK'
<1> SUFFICES ASSUME IInv, [Next]_vars PROVE TypeOK'
  OBVIOUS
<1> USE DEF IInv
<1>0. P \in Doing /\ M \in Doing
  BY DEF TypeOK, P, M
<1>1. CASE \E f \in File : Drop(f)
  BY <1>1, Inputs, Places DEF TypeOK, Drop
<1>2. CASE \E f \in File : ReceiveUpload(f)
  <2>1. PICK f \in File : ReceiveUpload(f)
    BY <1>2
  <2>2. SentJob(Upload(f), UserOf[f]) \in Job /\ Upload(f) \in Place
    BY <2>1, Inputs, Places DEF SentJob, Job, ReceiveUpload
  <2>3. jobs[SentJob(Upload(f), UserOf[f])] = 0
    BY <2>1, <2>2 DEF ReceiveUpload, FreshInv, SentJob
  <2> QED
    BY <2>1, <2>2, <2>3, IngestAssumption DEF TypeOK, ReceiveUpload, Put
<1>2a. CASE \E u \in User : ReceiveNothing(u)
  <2>1. PICK u \in User : ReceiveNothing(u)
    BY <1>2a
  <2>2. SentJob(NoFile, u) \in Job
    BY DEF SentJob, Job
  <2> QED
    BY <2>1, <2>2, IngestAssumption DEF TypeOK, ReceiveNothing, Put, disk
<1>3. CASE \E n \in Name : Submit(n)
  <2>1. PICK n \in Name : Submit(n)
    BY <1>3
  <2>2. PICK f \in File : /\ jobs[SentJob(Incoming(n), UserOf[f])] < MaxJobs
                          /\ Put(SentJob(Incoming(n), UserOf[f]))
    BY <2>1 DEF Submit, At
  <2>3. SentJob(Incoming(n), UserOf[f]) \in Job
    BY Inputs, Places DEF SentJob, Job
  <2> QED
    BY <2>1, <2>2, <2>3, IngestAssumption DEF TypeOK, Submit, Put, disk
<1>4. CASE \E n \in Name : Refuse(n)
  <2>1. PICK n \in Name : Refuse(n)
    BY <1>4
  <2>2. [at |-> "reject", path |-> Incoming(n), id |-> NULL] \in Doing
    BY Places DEF Doing
  <2> QED
    BY <2>1, <2>2, Becomes DEF Refuse, TypeOK, disk
<1>5. CASE \E n \in Name : Forget(n)
  BY <1>5 DEF Forget, TypeOK, disk
<1>6. CASE \E j \in Queued : ReadMetadata(j)
  <2>1. PICK j \in Job : ReadMetadata(j)
    BY <1>6 DEF Queued
  <2>2. PICK stage \in {"read", "failed"} :
           /\ jobs[[j EXCEPT !.stage = stage]] < MaxJobs
           /\ jobs' = [jobs EXCEPT ![j] = @ - 1, ![[j EXCEPT !.stage = stage]] = @ + 1]
    BY <2>1 DEF ReadMetadata
  <2>3. [j EXCEPT !.stage = stage] \in Job /\ [j EXCEPT !.stage = stage].stage = stage
    BY DEF Job
  <2>4. j.stage = "sent" /\ jobs[j] > 0
    BY <2>1 DEF ReadMetadata
  <2> QED
    BY <2>1, <2>2, <2>3, <2>4, IngestAssumption DEF TypeOK, ReadMetadata, disk
<1>7. CASE \E j \in Queued : Take(j)
  <2>1. PICK j \in Job : Take(j) /\ jobs[j] > 0
    BY <1>7 DEF Queued
  <2>2. doing' \in [{"pipeline", "monitor"} -> Doing]
    BY <2>1, Takes
  <2> QED
    BY <2>1, <2>2, IngestAssumption DEF Take, TypeOK, disk
<1>8. CASE CheckDir
  <2>1. doing' \in [{"pipeline", "monitor"} -> Doing]
    BY <1>8, Ontos DEF CheckDir, Step, P, Ingesting
  <2> QED
    BY <1>8, <2>1 DEF CheckDir, TypeOK, disk
<1>9. CASE LookUp
  <2>1. P.path \in Source /\ P.id \in Id /\ P.at \in Ingesting
    BY <1>0, <1>9, Doings DEF LookUp, Step, P, Ingesting
  <2>2. doing' \in [{"pipeline", "monitor"} -> Doing]
    BY <1>9, <2>1, Ontos, Rejects DEF LookUp, P
  <2> QED
    BY <1>9, <2>2 DEF LookUp, TypeOK, disk
<1>10. CASE Wipe
  <2>1. P.path \in Source /\ P.id \in Id /\ P.at \in Ingesting
    BY <1>0, <1>10, Doings DEF Wipe, Step, P, Ingesting
  <2>2. doing' \in [{"pipeline", "monitor"} -> Doing]
    BY <1>10, <2>1, Ontos, Rejects DEF Wipe, P
  <2>3. where' \in [File -> Place]
    BY <1>10, <2>1, Places, MovedIs DEF Wipe, P, TypeOK
  <2> QED
    BY <1>10, <2>2, <2>3 DEF Wipe, TypeOK
<1>11. CASE CreateDir
  <2>1. P.id \in Id /\ P.at \in Ingesting
    BY <1>0, <1>11, Doings DEF CreateDir, Step, P, Ingesting
  <2>2. doing' \in [{"pipeline", "monitor"} -> Doing]
    BY <1>11, <2>1, Ontos DEF CreateDir
  <2> QED
    BY <1>11, <2>1, <2>2 DEF CreateDir, TypeOK, P
<1>12. CASE MoveToOrig
  <2>1. P.path \in Source /\ P.id \in Id /\ P.at \in Ingesting
    BY <1>0, <1>12, Doings DEF MoveToOrig, Step, P, Ingesting
  <2>2. doing' \in [{"pipeline", "monitor"} -> Doing]
    BY <1>12, <2>1, Ontos, Rejects DEF MoveToOrig, P
  <2>3. where' \in [File -> Place]
    BY <1>12, <2>1, Places, MovedIs DEF MoveToOrig, P, TypeOK
  <2> QED
    BY <1>12, <2>2, <2>3 DEF MoveToOrig, TypeOK
<1>13. CASE InsertRow
  <2>1. P.path \in Source /\ P.id \in Id /\ P.user \in User
    BY <1>0, <1>13, Doings DEF InsertRow, Step, P
  <2>2. Idle \in Doing
    BY DEF Doing
  <2>3. doing' \in [{"pipeline", "monitor"} -> Doing]
    BY <1>13, <2>1, <2>2, Becomes, Rejects DEF InsertRow, P
  <2> QED
    BY <1>13, <2>1, <2>3 DEF InsertRow, TypeOK, P, disk
<1>14. ASSUME NEW w \in {"pipeline", "monitor"}, Clean(w)
       PROVE  TypeOK'
  <2>1. CASE RejectWhere(w)
    <3>1. doing' \in [{"pipeline", "monitor"} -> Doing]
      BY <2>1, RejectsTo
    <3> QED
      BY <2>1, <3>1 DEF RejectWhere, TypeOK, disk
  <2>2. CASE RejectRename(w)
    <3>1. doing[w] \in Doing /\ Idle \in Doing
      BY DEF TypeOK, Doing
    <3>2. doing[w].path \in Place /\ doing[w].to \in Place /\ Gone \in Place
      BY <2>2, <3>1, Doings, Places DEF RejectRename
    <3>3. where' \in [File -> Place]
      BY <2>2, <3>2, MovedIs DEF RejectRename, TypeOK
    <3>4. doing' \in [{"pipeline", "monitor"} -> Doing]
      BY <2>2, <3>1, Becomes DEF RejectRename
    <3> QED
      BY <2>2, <3>3, <3>4 DEF RejectRename, TypeOK
  <2> QED
    BY <1>14, <2>1, <2>2 DEF Clean
<1>15. CASE \E d \in Deletion, i \in Id : Delete(d, i)
  <2>1. \A i \in Id : [at |-> "found", id |-> i] \in Deleting
    BY DEF Deleting
  <2> QED
    BY <1>15, <2>1 DEF Delete, TypeOK, disk
<1>16. CASE \E d \in Deletion : DeleteRow(d)
  <2>1. PICK d \in Deletion : DeleteRow(d)
    BY <1>16
  <2>2. deleting[d] \in [at : {"found", "unlisted"}, id : Id]
    BY <2>1 DEF DeleteRow, TypeOK, Deleting, Idle
  <2>3. [deleting[d] EXCEPT !.at = "unlisted"] \in Deleting
    BY <2>2 DEF Deleting
  <2> QED
    BY <2>1, <2>2, <2>3 DEF DeleteRow, TypeOK, disk
<1>17. CASE \E d \in Deletion : MoveToTrash(d)
  <2>1. Idle \in Deleting
    BY DEF Deleting
  <2> QED
    BY <1>17, <2>1, Places DEF MoveToTrash, TypeOK
<1>18. CASE \E i \in Id, u \in User : Transfer(i, u)
  BY <1>18 DEF Transfer, TypeOK, disk
<1>19. CASE Restart
  <2>1. Idle \in Deleting /\ Idle \in Doing
    BY DEF Deleting, Doing
  <2> QED
    BY <1>19, <2>1, IngestAssumption DEF Restart, TypeOK, disk
<1>20. CASE UNCHANGED vars
  BY <1>20 DEF vars, TypeOK
<1> QED
  BY <1>1, <1>2, <1>2a, <1>3, <1>4, <1>5, <1>6, <1>7, <1>8, <1>9, <1>10, <1>11, <1>12, <1>13, <1>14, <1>15,
     <1>16, <1>17, <1>18, <1>19, <1>20 DEF Next, Poll, Go

-----------------------------------------------------------------------------
(* What the steps do to files *)

\* The pipeline still has the same file in hand, or has given it up.
Holds == P' # Idle /\ M' = M /\ P'.path = P.path /\ P'.user = P.user /\ P'.id = P.id

GivesUp(id) == P' # Idle /\ M' = M /\ P'.at = "reject" /\ P'.path = P.path /\ P'.id = id

\* The steps of the pipeline: the place each is taken at, what it changes, and where it leads.
LEMMA PipelineSteps ==
    ASSUME TypeOK
    PROVE  /\ CheckDir => /\ P.at = "check" /\ Holds /\ UNCHANGED <<where, dirs, owner>>
                          /\ P'.at = IF P.id \in dirs THEN "lookup" ELSE "create"
           /\ LookUp => /\ P.at = "lookup" /\ UNCHANGED <<where, dirs, owner>>
                        /\ \/ GivesUp(P.id)
                           \/ GivesUp(NULL)
                           \/ Holds /\ P'.at = "wipe" /\ owner[P.id] = NULL
           /\ Wipe => /\ P.at = "wipe" /\ UNCHANGED owner /\ dirs' = dirs \ {P.id}
                      /\ \A f \in File : where'[f] = IF where[f] = Orig(P.id) THEN Gone ELSE where[f]
                      /\ (Holds /\ P'.at = "create") \/ GivesUp(NULL)
           /\ CreateDir => /\ P.at = "create" /\ Holds /\ P'.at = "move" /\ UNCHANGED <<where, owner>>
                           /\ dirs' = dirs \cup {P.id}
           /\ MoveToOrig => /\ P.at = "move" /\ UNCHANGED <<dirs, owner>>
                            /\ \/ /\ Holds /\ P'.at = "insert" /\ P.id \in dirs
                                  /\ \E f \in File : where[f] = P.path
                                  /\ where' = Moved(P.path, Orig(P.id))
                               \/ /\ GivesUp(NULL) /\ UNCHANGED where
                                  /\ P.id \notin dirs \/ \A f \in File : where[f] # P.path
           /\ InsertRow => /\ P.at = "insert" /\ UNCHANGED <<where, dirs>>
                           /\ \/ /\ P' = Idle /\ M' = M /\ P.user \in Registered /\ owner[P.id] = NULL
                                 /\ owner' = [owner EXCEPT ![P.id] = P.user]
                              \/ /\ GivesUp(NULL) /\ UNCHANGED owner
                                 /\ P.user \notin Registered \/ owner[P.id] # NULL
<1>0. P \in Doing
  BY DEF TypeOK, P
<1>1. CheckDir => /\ P.at = "check" /\ Holds /\ UNCHANGED <<where, dirs, owner>>
                  /\ P'.at = IF P.id \in dirs THEN "lookup" ELSE "create"
  BY Ontos DEF CheckDir, Step, P, Ingesting, disk, Holds
<1>2. LookUp => /\ P.at = "lookup" /\ UNCHANGED <<where, dirs, owner>>
                /\ \/ GivesUp(P.id)
                   \/ GivesUp(NULL)
                   \/ Holds /\ P'.at = "wipe" /\ owner[P.id] = NULL
  <2> SUFFICES ASSUME LookUp PROVE /\ P.at = "lookup" /\ UNCHANGED <<where, dirs, owner>>
                                   /\ \/ GivesUp(P.id)
                                      \/ GivesUp(NULL)
                                      \/ Holds /\ P'.at = "wipe" /\ owner[P.id] = NULL
    OBVIOUS
  <2>1. P.at = "lookup" /\ P.at \in Ingesting
    BY DEF LookUp, Step, P, Ingesting
  <2>2. P.path \in Source /\ P.id \in Id \cup {NULL}
    BY <1>0, <2>1, Doings
  <2>3. \/ Reject(P.path, P.id)
        \/ Reject(P.path, NULL)
        \/ Onto("wipe") /\ owner[P.id] = NULL
    BY DEF LookUp, P
  <2>4. Reject(P.path, P.id) => GivesUp(P.id)
    BY <2>2, Rejects DEF GivesUp
  <2>5. Reject(P.path, NULL) => GivesUp(NULL)
    BY <2>2, Rejects DEF GivesUp
  <2>6. Onto("wipe") => Holds /\ P'.at = "wipe"
    BY <2>1, Ontos DEF Holds
  <2> QED
    BY <2>1, <2>3, <2>4, <2>5, <2>6 DEF LookUp, disk
<1>3. Wipe => /\ P.at = "wipe" /\ UNCHANGED owner /\ dirs' = dirs \ {P.id}
              /\ \A f \in File : where'[f] = IF where[f] = Orig(P.id) THEN Gone ELSE where[f]
              /\ (Holds /\ P'.at = "create") \/ GivesUp(NULL)
  <2> SUFFICES ASSUME Wipe PROVE /\ P.at = "wipe" /\ UNCHANGED owner /\ dirs' = dirs \ {P.id}
                                 /\ \A f \in File : where'[f] = IF where[f] = Orig(P.id) THEN Gone ELSE where[f]
                                 /\ (Holds /\ P'.at = "create") \/ GivesUp(NULL)
    OBVIOUS
  <2>1. P.at = "wipe" /\ P.at \in Ingesting
    BY DEF Wipe, Step, P, Ingesting
  <2>2. P.path \in Source /\ P.id \in Id \cup {NULL}
    BY <1>0, <2>1, Doings
  <2>3. (Holds /\ P'.at = "create") \/ GivesUp(NULL)
    BY <2>1, <2>2, Ontos, Rejects DEF Wipe, P, Holds, GivesUp
  <2>4. where' = Moved(Orig(P.id), Gone)
    BY DEF Wipe, P
  <2> QED
    BY <2>1, <2>3, <2>4 DEF Wipe, P, Moved
<1>4. CreateDir => /\ P.at = "create" /\ Holds /\ P'.at = "move" /\ UNCHANGED <<where, owner>>
                   /\ dirs' = dirs \cup {P.id}
  BY Ontos DEF CreateDir, Step, P, Ingesting, disk, Holds
<1>5. MoveToOrig => /\ P.at = "move" /\ UNCHANGED <<dirs, owner>>
                    /\ \/ /\ Holds /\ P'.at = "insert" /\ P.id \in dirs
                          /\ \E f \in File : where[f] = P.path
                          /\ where' = Moved(P.path, Orig(P.id))
                       \/ /\ GivesUp(NULL) /\ UNCHANGED where
                          /\ P.id \notin dirs \/ \A f \in File : where[f] # P.path
  <2> SUFFICES ASSUME MoveToOrig
               PROVE  /\ P.at = "move" /\ UNCHANGED <<dirs, owner>>
                      /\ \/ /\ Holds /\ P'.at = "insert" /\ P.id \in dirs
                            /\ \E f \in File : where[f] = P.path
                            /\ where' = Moved(P.path, Orig(P.id))
                         \/ /\ GivesUp(NULL) /\ UNCHANGED where
                            /\ P.id \notin dirs \/ \A f \in File : where[f] # P.path
    OBVIOUS
  <2>1. P.at = "move" /\ P.at \in Ingesting
    BY DEF MoveToOrig, Step, P, Ingesting
  <2>2. P.path \in Source
    BY <1>0, <2>1, Doings
  <2>3. Onto("insert") => Holds /\ P'.at = "insert"
    BY <2>1, Ontos DEF Holds
  <2>4. Reject(P.path, NULL) => GivesUp(NULL)
    BY <2>2, Rejects DEF GivesUp
  <2> QED
    BY <2>1, <2>3, <2>4 DEF MoveToOrig, P, At
<1>6. InsertRow => /\ P.at = "insert" /\ UNCHANGED <<where, dirs>>
                   /\ \/ /\ P' = Idle /\ M' = M /\ P.user \in Registered /\ owner[P.id] = NULL
                         /\ owner' = [owner EXCEPT ![P.id] = P.user]
                      \/ /\ GivesUp(NULL) /\ UNCHANGED owner
                         /\ P.user \notin Registered \/ owner[P.id] # NULL
  <2> SUFFICES ASSUME InsertRow
               PROVE  /\ P.at = "insert" /\ UNCHANGED <<where, dirs>>
                      /\ \/ /\ P' = Idle /\ M' = M /\ P.user \in Registered /\ owner[P.id] = NULL
                            /\ owner' = [owner EXCEPT ![P.id] = P.user]
                         \/ /\ GivesUp(NULL) /\ UNCHANGED owner
                            /\ P.user \notin Registered \/ owner[P.id] # NULL
    OBVIOUS
  <2>1. P.at = "insert" /\ P.path \in Source
    BY <1>0, Doings DEF InsertRow, Step, P
  <2>2. Reject(P.path, NULL) => GivesUp(NULL)
    BY <2>1, Rejects DEF GivesUp
  <2>3. Become("pipeline", Idle) => P' = Idle /\ M' = M
    BY Becomes
  <2> QED
    BY <2>1, <2>2, <2>3 DEF InsertRow, P, disk
<1> QED
  BY <1>1, <1>2, <1>3, <1>4, <1>5, <1>6

\* A rejected file is renamed, or deleted where there is another one; or it was not there.
LEMMA Renames ==
    ASSUME TypeOK, NEW w \in {"pipeline", "monitor"}, RejectRename(w)
    PROVE  /\ doing[w].at = "rename" /\ doing[w].path \in Source /\ doing'[w] = Idle
           /\ \A v \in {"pipeline", "monitor"} \ {w} : doing'[v] = doing[v]
           /\ \/ /\ doing[w].to[1] = "byId" /\ \E f \in File : where[f] = doing[w].to
                 /\ where' = Moved(doing[w].path, Gone)
              \/ /\ \E f \in File : where[f] = doing[w].path
                 /\ doing[w].to[1] = "byId" => \A f \in File : where[f] # doing[w].to
                 /\ where' = Moved(doing[w].path, doing[w].to)
              \/ UNCHANGED where
<1>1. doing[w] \in Doing /\ doing[w].at = "rename"
  BY DEF TypeOK, RejectRename
<1>2. doing[w].path \in Source
  BY <1>1, Doings
<1>3. doing'[w] = Idle /\ \A v \in {"pipeline", "monitor"} \ {w} : doing'[v] = doing[v]
  BY Becomes DEF RejectRename
<1> QED
  BY <1>1, <1>2, <1>3 DEF RejectRename, At

-----------------------------------------------------------------------------
(* Where files are *)

\* Steps that move nothing and leave the threads of the pipeline and of the monitor where they are.
LEMMA Quiet ==
    ASSUME \/ \E n \in Name : Submit(n) \/ Forget(n)
           \/ \E u \in User : ReceiveNothing(u)
           \/ \E j \in Queued : ReadMetadata(j)
           \/ \E d \in Deletion : (\E i \in Id : Delete(d, i)) \/ DeleteRow(d)
           \/ \E i \in Id, u \in User : Transfer(i, u)
           \/ UNCHANGED vars
    PROVE  UNCHANGED <<scene, where, dirs, doing>>
  BY DEF Submit, ReceiveNothing, Forget, ReadMetadata, Delete, DeleteRow, Transfer, vars, disk

\* Which of the scenes is played does not change.
LEMMA SceneStays == [Next]_vars => UNCHANGED scene
<1> SUFFICES ASSUME [Next]_vars PROVE UNCHANGED scene
  OBVIOUS
<1>1. CASE Go
  BY <1>1 DEF Go, CheckDir, LookUp, Wipe, CreateDir, MoveToOrig, InsertRow, Clean, RejectWhere, RejectRename, disk
<1>2. CASE Clean("monitor")
  BY <1>2 DEF Clean, RejectWhere, RejectRename, disk
<1> QED
  BY <1>1, <1>2, Quiet DEF Next, Poll, Drop, ReceiveUpload, Refuse, Take, MoveToTrash, Restart, disk

\* Only the pipeline and the monitor move files that are in the incoming and upload directories.
LEMMA PathsOfThreads ==
    ASSUME TypeOK
    PROVE  /\ P \in Doing /\ M \in Doing
           /\ P # Idle => P.path \in Source /\ P.path[1] \in {"incoming", "upload"}
           /\ M # Idle => M.path \in Source /\ M.path[1] \in {"incoming", "upload"}
           /\ P.at \in Ingesting \cup {"insert"} => P # Idle /\ P.id \in Id /\ P.id # NULL
           /\ P.at \in {"reject", "rename"} => P # Idle
           /\ M.at \in {"reject", "rename"} => M # Idle
           /\ Idle.at = "idle"
<1>1. P \in Doing /\ M \in Doing
  BY DEF TypeOK, P, M
<1>2. Idle.at = "idle"
  BY DEF Idle
<1> QED
  BY <1>1, <1>2, Doings, Sources DEF Ingesting

\* Each thread keeps to the paths it may write to.
LEMMA NextPlace == IInv /\ [Next]_vars => PlaceInv'
<1> SUFFICES ASSUME IInv, [Next]_vars PROVE PlaceInv'
  OBVIOUS
<1>0. TypeOK /\ PlaceInv /\ TypeOK' /\ UNCHANGED scene
  BY NextType, SceneStays DEF IInv
<1> USE <1>0
<1> HIDE DEF P, M
<1>1. CASE \E f \in File : Drop(f)
  <2>1. PICK f \in File : Drop(f)
    BY <1>1
  <2>2. /\ f \in scene.files /\ where[f] = Nowhere /\ UNCHANGED <<dirs, doing>>
        /\ \A g \in File : where[g] # Incoming(NameOf[f])
        /\ \A g \in File : where'[g] = IF g = f THEN Incoming(NameOf[f]) ELSE where[g]
    BY <2>1 DEF Drop, At, TypeOK
  <2>3. P' = P /\ M' = M
    BY <2>2 DEF P, M
  <2> QED
    BY <2>2, <2>3, Kinds DEF PlaceInv
<1>2. CASE \E f \in File : ReceiveUpload(f)
  <2>1. PICK f \in File : ReceiveUpload(f)
    BY <1>2
  <2>2. /\ f \in scene.files /\ where[f] = Nowhere /\ UNCHANGED <<dirs, doing>>
        /\ f \in Uploaded
        /\ \A g \in File : where'[g] = IF g = f THEN Upload(f) ELSE where[g]
    BY <2>1 DEF ReceiveUpload, At, TypeOK
  <2>3. P' = P /\ M' = M
    BY <2>2 DEF P, M
  <2> QED
    BY <2>2, <2>3, Kinds DEF PlaceInv
<1>3. CASE UNCHANGED <<scene, where, dirs, doing>>
  BY <1>3 DEF PlaceInv, P, M
<1>4. CASE \E n \in Name : Refuse(n)
  <2>1. PICK n \in Name : Refuse(n)
    BY <1>4
  <2>2. PICK f \in Unnamed \cap File : where[f] = Incoming(n)
    BY <2>1 DEF Refuse, At
  <2>3. f \in scene.files
    BY <2>2, Kinds DEF PlaceInv
  <2>4. UNCHANGED <<where, dirs>>
    BY <2>1 DEF Refuse, disk
  <2>5. M' = [at |-> "reject", path |-> Incoming(n), id |-> NULL] /\ P' = P
    BY <2>1, Becomes DEF Refuse
  <2> QED
    BY <2>2, <2>3, <2>4, <2>5, Kinds DEF PlaceInv
<1>5. CASE \E j \in Queued : Take(j)
  <2>1. PICK j \in Job : Take(j)
    BY <1>5 DEF Queued
  <2>2. UNCHANGED <<where, dirs>>
    BY <2>1 DEF Take, disk
  <2> QED
    BY <2>1, <2>2, Takes DEF PlaceInv, Ingesting
<1>6. CASE CheckDir
  BY <1>6, PipelineSteps DEF PlaceInv, Holds, Ingesting
<1>7. CASE LookUp
  BY <1>7, PipelineSteps DEF PlaceInv, Holds, GivesUp, Ingesting
<1>8. CASE Wipe
  BY <1>8, PipelineSteps, Kinds, Sources DEF PlaceInv, Holds, GivesUp, Ingesting
<1>9. CASE CreateDir
  BY <1>9, PipelineSteps, PathsOfThreads DEF PlaceInv, Holds, GivesUp, Ingesting
<1>10. CASE MoveToOrig
  <2>1. P.path \in Source /\ P.id \in Id /\ P.path \in Place /\ Orig(P.id) \in Place
    BY <1>10, PipelineSteps, PathsOfThreads, Places DEF Ingesting
  <2>2. CASE /\ Holds /\ P'.at = "insert" /\ P.id \in dirs
             /\ where' = Moved(P.path, Orig(P.id))
    <3>1. \A f \in File : \/ where[f] = P.path /\ where'[f] = Orig(P.id)
                          \/ where'[f] = where[f]
                          \/ where[f] = Orig(P.id) /\ where'[f] = Gone
      BY <2>2 DEF Moved
    <3>2. P.path[1] \in {"incoming", "upload"} /\ P.path # Nowhere
      BY <2>1, Sources, Kinds
    <3>3. UNCHANGED dirs /\ P.at = "move"
      BY <1>10, PipelineSteps
    <3> QED
      BY <2>1, <2>2, <3>1, <3>2, <3>3, Kinds, Sources DEF PlaceInv, Holds, Ingesting
  <2>3. CASE GivesUp(NULL) /\ UNCHANGED where
    BY <1>10, <2>3, PipelineSteps DEF PlaceInv, GivesUp, Ingesting
  <2> QED
    BY <1>10, <2>2, <2>3, PipelineSteps
<1>11. CASE InsertRow
  BY <1>11, PipelineSteps, PathsOfThreads DEF PlaceInv, Holds, GivesUp, Ingesting
<1>12. ASSUME NEW w \in {"pipeline", "monitor"}, RejectWhere(w)
       PROVE  PlaceInv'
  <2>1. UNCHANGED <<where, dirs>>
    BY <1>12 DEF RejectWhere, disk
  <2>2. CASE w = "pipeline"
    <3>1. M' = M /\ P.at = "reject" /\ P'.at \in {"idle", "rename"}
      BY <1>12, <2>2, RejectsTo, PathsOfThreads DEF P, M
    <3>2. P'.at = "rename" => P'.to[1] \in {"rejected", "byId", "byUuid"}
      BY <1>12, <2>2, RejectsTo, PathsOfThreads, Kinds DEF P, M
    <3> QED
      BY <2>1, <3>1, <3>2 DEF PlaceInv, Ingesting
  <2>3. CASE w = "monitor"
    <3>1. P' = P /\ M.at = "reject" /\ (M' = Idle \/ (M'.at = "rename" /\ M'.path = M.path))
      BY <1>12, <2>3, RejectsTo, PathsOfThreads DEF P, M
    <3>2. M'.at = "rename" => M'.to[1] \in {"rejected", "byUuid"}
      <4>1. M.id = NULL /\ NULL \notin Id
        BY <3>1, IngestAssumption DEF PlaceInv
      <4> QED
        BY <1>12, <2>3, <4>1, RejectsTo, PathsOfThreads, Kinds DEF P, M
    <3> QED
      BY <2>1, <3>1, <3>2, PathsOfThreads DEF PlaceInv, Ingesting
  <2> QED
    BY <2>2, <2>3
<1>13. ASSUME NEW w \in {"pipeline", "monitor"}, RejectRename(w)
       PROVE  PlaceInv'
  <2>1. /\ doing[w].path[1] \in {"incoming", "upload"}
        /\ doing[w].path \in Place /\ doing[w].to \in Place
        /\ doing[w].to[1] \in {"rejected", "byId", "byUuid"}
    <3>1. doing[w] \in Doing /\ doing[w].at = "rename" /\ doing[w].path \in Source
      BY <1>13, Renames DEF TypeOK
    <3>2. doing[w].to \in Place
      BY <3>1, Doings
    <3>3. doing[w] \in {P, M}
      BY DEF P, M
    <3> QED
      BY <3>1, <3>2, <3>3, Sources, Places DEF PlaceInv
  <2>2. \A f \in File : \/ where'[f] = where[f]
                        \/ where[f] = doing[w].path /\ where'[f] = doing[w].to
                        \/ where[f] \in {doing[w].path, doing[w].to} /\ where'[f] = Gone
    <3>1. \/ where' = Moved(doing[w].path, Gone)
          \/ where' = Moved(doing[w].path, doing[w].to)
          \/ UNCHANGED where
      BY <1>13, Renames
    <3> QED
      BY <3>1 DEF Moved
  <2>3. \A f \in File : where'[f] = where[f] \/ where'[f][1] \in {"rejected", "byId", "byUuid", "gone"}
    BY <2>1, <2>2, Kinds
  <2>4. \A f \in File : where[f] = Nowhere => where'[f] = Nowhere
    BY <2>1, <2>2, Kinds
  <2>5. UNCHANGED dirs /\ (P' = P \/ P'.at = "idle") /\ (M' = M \/ M' = Idle)
    BY <1>13, Renames, PathsOfThreads DEF RejectRename, P, M
  <2> QED
    BY <2>3, <2>4, <2>5, Kinds, Sources, PathsOfThreads DEF PlaceInv, Ingesting
<1>14. CASE \E d \in Deletion : MoveToTrash(d)
  <2>1. PICK d \in Deletion : MoveToTrash(d)
    BY <1>14
  <2>2. /\ \A f \in File : where'[f] = IF where[f] = Orig(deleting[d].id) THEN Trash ELSE where[f]
        /\ dirs' = dirs \ {deleting[d].id}
        /\ UNCHANGED doing
    BY <2>1 DEF MoveToTrash
  <2>3. P' = P /\ M' = M
    BY <2>2 DEF P, M
  <2> QED
    BY <2>2, <2>3, Kinds, Sources DEF PlaceInv
<1>15. CASE Restart
  <2>1. UNCHANGED <<where, dirs>> /\ P' = Idle /\ M' = Idle
    BY <1>15 DEF Restart, disk, P, M, TypeOK
  <2> QED
    BY <2>1, PathsOfThreads DEF PlaceInv, Ingesting
<1> QED
  BY <1>1, <1>2, <1>3, <1>4, <1>5, <1>6, <1>7, <1>8, <1>9, <1>10, <1>11, <1>12, <1>13, <1>14, <1>15, Quiet
     DEF Next, Poll, Go, Clean

-----------------------------------------------------------------------------
(* What a thread leaves alone *)

\* A step of the pipeline moves no file in the incoming and upload directories but the one at its path.
LEMMA GoMoves ==
    ASSUME TypeOK, PlaceInv, Go
    PROVE  /\ UNCHANGED <<jobs, submitted, deleting, restarts>> /\ M' = M
           /\ P # Idle /\ (P' # Idle => P'.path = P.path) /\ P'.at # "check"
           /\ \A f \in File : \/ where'[f] = where[f]
                              \/ where'[f][1] \notin {"incoming", "upload", "nowhere"}
           /\ \A f \in File : \/ where'[f] = where[f]
                              \/ where[f] = P.path
                              \/ where[f][1] \notin {"incoming", "upload", "nowhere"}
<1> USE DEF Ingesting
<1>1. CASE CheckDir \/ LookUp \/ CreateDir
  BY <1>1, PipelineSteps, PathsOfThreads DEF Holds, GivesUp, CheckDir, LookUp, CreateDir, disk
<1>2. CASE Wipe
  BY <1>2, PipelineSteps, PathsOfThreads, Kinds DEF Holds, GivesUp, Wipe
<1>3. CASE MoveToOrig
  <2>1. \A f \in File : where'[f] = where[f] \/ (where[f] = P.path /\ where'[f] = Orig(P.id))
                        \/ (where[f] = Orig(P.id) /\ where'[f] = Gone)
    BY <1>3, PipelineSteps DEF Moved
  <2> QED
    BY <1>3, <2>1, PipelineSteps, PathsOfThreads, Kinds DEF Holds, GivesUp, MoveToOrig
<1>4. CASE InsertRow
  BY <1>4, PipelineSteps, PathsOfThreads DEF Holds, GivesUp, InsertRow, disk
<1>5. CASE RejectWhere("pipeline")
  BY <1>5, RejectsTo, PathsOfThreads DEF RejectWhere, disk, P, M
<1>6. CASE RejectRename("pipeline")
  <2>1. P.at = "rename" /\ P.to[1] \in {"rejected", "byId", "byUuid"}
    BY <1>6, Renames DEF P, PlaceInv
  <2>2. \/ where' = Moved(P.path, Gone)
        \/ where' = Moved(P.path, P.to)
        \/ UNCHANGED where
    BY <1>6, Renames DEF P
  <2>3. \A f \in File : where'[f] = where[f] \/ (where[f] = P.path /\ where'[f] = P.to)
                        \/ (where[f] \in {P.path, P.to} /\ where'[f] = Gone)
                        \/ (where[f] = Gone /\ where'[f] = Gone)
    BY <2>2 DEF Moved
  <2> QED
    BY <1>6, <2>1, <2>3, Renames, PathsOfThreads, Kinds DEF RejectRename, P, M
<1> QED
  BY <1>1, <1>2, <1>3, <1>4, <1>5, <1>6 DEF Go, Clean

\* A step of the monitor moves but the file at its path, and never among the media files or to a
\* directory named by a media id.
LEMMA MonitorMoves ==
    ASSUME TypeOK, PlaceInv, Clean("monitor")
    PROVE  /\ UNCHANGED <<dirs, owner, jobs, submitted, deleting, restarts>> /\ P' = P
           /\ M # Idle /\ (M' # Idle => M'.path = M.path)
           /\ \A f \in File : \/ where'[f] = where[f]
                              \/ where'[f][1] \notin {"incoming", "upload", "nowhere", "orig", "byId"}
           /\ \A f \in File : \/ where'[f] = where[f]
                              \/ where[f] = M.path
                              \/ where[f][1] \notin {"incoming", "upload", "nowhere", "orig", "byId"}
<1>1. CASE RejectWhere("monitor")
  BY <1>1, RejectsTo, PathsOfThreads DEF RejectWhere, disk, P, M
<1>2. CASE RejectRename("monitor")
  <2>1. M.at = "rename" /\ M.to[1] \in {"rejected", "byUuid"}
    BY <1>2, Renames DEF M, PlaceInv
  <2>2. \/ where' = Moved(M.path, M.to)
        \/ UNCHANGED where
    BY <1>2, <2>1, Renames DEF M
  <2>3. \A f \in File : where'[f] = where[f] \/ (where[f] = M.path /\ where'[f] = M.to)
                        \/ (where[f] \in {M.path, M.to} /\ where'[f] = Gone)
    BY <2>2 DEF Moved
  <2> QED
    BY <1>2, <2>1, <2>3, Renames, PathsOfThreads, Kinds DEF RejectRename, P, M
<1> QED
  BY <1>1, <1>2 DEF Clean

-----------------------------------------------------------------------------
(* Submissions *)

\* Nobody has a path in hand to which nothing was uploaded yet.
LEMMA NextFresh == IInv /\ [Next]_vars => FreshInv'
<1> SUFFICES ASSUME IInv, [Next]_vars PROVE FreshInv'
  OBVIOUS
<1>0. TypeOK /\ PlaceInv /\ FreshInv /\ TypeOK'
  BY NextType DEF IInv
<1> USE <1>0
<1>1. CASE \E f \in File : Drop(f)
  BY <1>1, Kinds DEF Drop, FreshInv, TypeOK, P
<1>2. CASE \E f \in File : ReceiveUpload(f)
  <2>1. PICK f \in File : ReceiveUpload(f)
    BY <1>2
  <2>2. /\ \A g \in File : where'[g] = IF g = f THEN Upload(f) ELSE where[g]
        /\ P' = P
        /\ \A j \in Job : j.path # Upload(f) => jobs'[j] = jobs[j]
    BY <2>1 DEF ReceiveUpload, TypeOK, Put, SentJob, P
  <2> QED
    BY <2>2, Kinds, IngestAssumption DEF FreshInv
<1>2a. CASE \E u \in User : ReceiveNothing(u)
  <2>1. PICK u \in User : ReceiveNothing(u)
    BY <1>2a
  <2>2. /\ UNCHANGED where /\ P' = P
        /\ \A j \in Job : j.path # NoFile => jobs'[j] = jobs[j]
    BY <2>1 DEF ReceiveNothing, TypeOK, Put, SentJob, disk, P
  <2>3. \A u1 \in Uploaded : Upload(u1) # NoFile
    BY Places, NoFiles
  <2> QED
    BY <2>2, <2>3 DEF FreshInv
<1>3. CASE \E n \in Name : Submit(n)
  <2>1. PICK n \in Name : Submit(n)
    BY <1>3
  <2>2. /\ UNCHANGED where /\ P' = P
        /\ \A j \in Job : j.path # Incoming(n) => jobs'[j] = jobs[j]
    BY <2>1 DEF Submit, TypeOK, Put, SentJob, disk, P
  <2>3. \A u : Upload(u) # Incoming(n)
    BY Kinds
  <2> QED
    BY <2>2, <2>3 DEF FreshInv
<1>4. CASE \E j \in Queued : ReadMetadata(j)
  <2>1. PICK j \in Job : ReadMetadata(j) /\ jobs[j] > 0
    BY <1>4 DEF Queued
  <2>2. \A k \in Job : k.path # j.path => jobs'[k] = jobs[k]
    <3>1. \A stage : [j EXCEPT !.stage = stage].path = j.path
      BY DEF Job
    <3> QED
      BY <2>1, <3>1 DEF ReadMetadata, TypeOK
  <2>3. UNCHANGED where /\ P' = P
    BY <2>1 DEF ReadMetadata, disk, P
  <2> QED
    BY <2>1, <2>2, <2>3 DEF FreshInv, TypeOK
<1>5. CASE \E j \in Queued : Take(j)
  <2>1. PICK j \in Job : Take(j) /\ jobs[j] > 0
    BY <1>5 DEF Queued
  <2>2. UNCHANGED where /\ (\A k \in Job \ {j} : jobs'[k] = jobs[k]) /\ (P' # Idle => P'.path = j.path)
    BY <2>1, Takes DEF Take, disk, TypeOK
  <2>3. jobs'[j] = jobs[j] - 1 /\ jobs[j] \in Nat
    BY <2>1, IngestAssumption DEF Take, TypeOK
  <2>4. ASSUME NEW u \in Uploaded, where'[u] = Nowhere, NEW k \in Job, k.path = Upload(u)
        PROVE  jobs'[k] = 0 /\ k # j
    BY <2>1, <2>2, <2>4 DEF FreshInv
  <2> QED
    BY <2>1, <2>2, <2>4 DEF FreshInv
<1>6. CASE Go
  <2>1. \A f \in File : where'[f] = Nowhere => where[f] = Nowhere
    BY <1>6, GoMoves, Kinds
  <2> QED
    BY <1>6, <2>1, GoMoves, IngestAssumption DEF FreshInv
<1>7. CASE Clean("monitor")
  <2>1. \A f \in File : where'[f] = Nowhere => where[f] = Nowhere
    BY <1>7, MonitorMoves, Kinds
  <2> QED
    BY <1>7, <2>1, MonitorMoves, IngestAssumption DEF FreshInv
<1>8. CASE \E d \in Deletion : MoveToTrash(d)
  BY <1>8, Kinds, IngestAssumption DEF MoveToTrash, FreshInv, P
<1>9. CASE Restart
  BY <1>9 DEF Restart, disk, FreshInv, P, TypeOK
<1>10. CASE UNCHANGED <<where, jobs>> /\ P' = P
  BY <1>10 DEF FreshInv
<1>11. ASSUME \/ \E n \in Name : Forget(n) \/ Refuse(n)
              \/ \E d \in Deletion : (\E i \in Id : Delete(d, i)) \/ DeleteRow(d)
              \/ \E i \in Id, u \in User : Transfer(i, u)
              \/ UNCHANGED vars
       PROVE  UNCHANGED <<where, jobs>> /\ P' = P
  BY <1>11, Becomes DEF Forget, Refuse, Delete, DeleteRow, Transfer, vars, disk, P
<1> QED
  BY <1>1, <1>2, <1>2a, <1>3, <1>4, <1>5, <1>6, <1>7, <1>8, <1>9, <1>10, <1>11 DEF Next, Poll

\* What the pipeline is ingesting stays where it is, and gets into no directory but in the step from
\* "move" to "insert".
LEMMA GoIngests ==
    ASSUME TypeOK, PlaceInv, Go
    PROVE  /\ P'.at \in Ingesting => /\ P.at \in Ingesting /\ Holds
                                     /\ \A f \in File : where[f] = P.path => where'[f] = P.path
           /\ P'.at = "insert" => /\ P.at = "move" /\ Holds
                                  /\ \E f \in File : where[f] = P.path /\ where'[f] = Orig(P.id)
           /\ \A i \in Id, f \in File : where'[f] = Orig(i) =>
                 \/ where[f] = Orig(i)
                 \/ where[f] = P.path /\ P.at = "move" /\ P'.at = "insert" /\ P'.id = P.id /\ i = P.id
           /\ \A i \in Id, f \in File : where[f] = Orig(i) =>
                 \/ where'[f] = Orig(i)
                 \/ P.at = "wipe" /\ i = P.id /\ where'[f] = Gone
<1> USE DEF Ingesting
<1>1. CASE CheckDir \/ LookUp \/ CreateDir \/ InsertRow
  BY <1>1, PipelineSteps, PathsOfThreads DEF Holds, GivesUp
<1>2. CASE Wipe
  BY <1>2, PipelineSteps, PathsOfThreads, Kinds DEF Holds, GivesUp
<1>3. CASE MoveToOrig
  <2>1. \/ where' = Moved(P.path, Orig(P.id))
        \/ UNCHANGED where
    BY <1>3, PipelineSteps
  <2>2. \A f \in File : where'[f] = where[f] \/ (where[f] = P.path /\ where'[f] = Orig(P.id))
                        \/ (where[f] = Orig(P.id) /\ where'[f] = Gone)
    BY <2>1 DEF Moved
  <2>3. \A f \in File : where[f] # Orig(P.id)
    BY <1>3, PipelineSteps DEF PlaceInv
  <2>4. CASE /\ Holds /\ P'.at = "insert" /\ where' = Moved(P.path, Orig(P.id))
             /\ \E f \in File : where[f] = P.path
    <3>1. \A f \in File : where[f] = P.path => where'[f] = Orig(P.id)
      BY <2>4 DEF Moved
    <3> QED
      BY <1>3, <2>2, <2>3, <2>4, <3>1, PipelineSteps, PathsOfThreads, Kinds DEF Holds
  <2>5. CASE GivesUp(NULL) /\ UNCHANGED where
    BY <2>5 DEF GivesUp
  <2> QED
    BY <1>3, <2>4, <2>5, PipelineSteps
<1>4. CASE RejectWhere("pipeline")
  <2>1. UNCHANGED where /\ P'.at \in {"idle", "rename"}
    BY <1>4, RejectsTo, PathsOfThreads DEF RejectWhere, disk, P
  <2> QED
    BY <2>1
<1>5. CASE RejectRename("pipeline")
  <2>1. P.at = "rename" /\ P.to[1] \in {"rejected", "byId", "byUuid"} /\ P'.at = "idle"
    BY <1>5, Renames, PathsOfThreads DEF P, PlaceInv
  <2>2. \/ where' = Moved(P.path, Gone)
        \/ where' = Moved(P.path, P.to)
        \/ UNCHANGED where
    BY <1>5, Renames DEF P
  <2>3. \A f \in File : where'[f] = where[f] \/ (where[f] = P.path /\ where'[f] = P.to)
                        \/ (where[f] \in {P.path, P.to} /\ where'[f] = Gone)
    BY <2>2 DEF Moved
  <2>4. P.path[1] \in {"incoming", "upload"}
    BY <2>1, PathsOfThreads
  <2> QED
    BY <2>1, <2>3, <2>4, Kinds
<1> QED
  BY <1>1, <1>2, <1>3, <1>4, <1>5 DEF Go, Clean

\* Where submissions are prompt, one path is in one hand at a time.
LEMMA NextPrompt == IInv /\ [Next]_vars => PromptInv'
<1> SUFFICES ASSUME IInv, [Next]_vars, scene.prompt PROVE OnePerPath'
  BY SceneStays DEF PromptInv
<1>0. TypeOK /\ PlaceInv /\ FreshInv /\ OnePerPath /\ TypeOK' /\ \A j \in Job : jobs[j] \in Nat
  BY NextType, IngestAssumption DEF IInv, PromptInv, TypeOK
<1> USE <1>0
<1>00. \A j \in FileJob : j \in Job /\ j.path \in Source /\ j.path[1] \in {"incoming", "upload"}
  BY Sources DEF FileJob, Job
<1>1. CASE \E f \in File : Drop(f)
  <2>1. PICK f \in File : Drop(f)
    BY <1>1
  <2>2. /\ where[f] = Nowhere /\ UNCHANGED <<jobs, submitted>> /\ P' = P /\ M' = M
        /\ \A g \in File : where'[g] = IF g = f THEN Incoming(NameOf[f]) ELSE where[g]
    BY <2>1 DEF Drop, TypeOK, P, M
  <2>3. P.at \in Ingesting => P.path # Nowhere
    BY PathsOfThreads, Kinds
  <2>4. \A j \in FileJob : j.path # Nowhere
    BY <1>00, Kinds
  <2> QED
    BY <2>2, <2>3, <2>4, Kinds DEF OnePerPath
<1>2. CASE \E f \in File : ReceiveUpload(f)
  <2>1. PICK f \in File : ReceiveUpload(f)
    BY <1>2
  <2> DEFINE J == SentJob(Upload(f), UserOf[f])
  <2>2. J \in FileJob /\ J.path = Upload(f) /\ J.user = UserOf[f] /\ f \in Uploaded /\ where[f] = Nowhere
    BY <2>1, Inputs, Places, NoFiles DEF SentJob, FileJob, Job, ReceiveUpload
  <2>3. /\ UNCHANGED submitted /\ P' = P /\ M' = M
        /\ \A g \in File : where'[g] = IF g = f THEN Upload(f) ELSE where[g]
        /\ \A j \in FileJob \ {J} : jobs'[j] = jobs[j]
        /\ jobs'[J] \in {jobs[J], jobs[J] + 1}
    BY <1>00, <2>1, <2>2 DEF ReceiveUpload, TypeOK, P, M, Put
  <2> HIDE DEF J
  <2>4. /\ \A j \in FileJob : j.path = Upload(f) => jobs[j] = 0
        /\ ~(P # Idle /\ P.path = Upload(f))
    BY <1>00, <2>2 DEF FreshInv
  <2>5. jobs'[J] \in {0, 1}
    BY <2>2, <2>3, <2>4
  <2>6. P.at \in Ingesting => P.path # Nowhere
    BY PathsOfThreads, Kinds
  <2>7. \A j \in FileJob : j.path # Nowhere
    BY <1>00, Kinds
  <2>8. \A j \in FileJob : jobs'[j] > 0 =>
          /\ jobs'[j] = 1
          /\ ~(P # Idle /\ P.path = j.path)
          /\ \A k \in FileJob : jobs'[k] > 0 /\ k.path = j.path => k = j
    BY <2>2, <2>3, <2>4, <2>5 DEF OnePerPath
  <2>9. \A j \in FileJob : jobs'[j] > 0 =>
          /\ \E g \in File : where'[g] = j.path /\ UserOf[g] = j.user
          /\ j.path[1] = "incoming" => j.path[2] \in submitted
    BY <2>2, <2>3, <2>7, Kinds DEF OnePerPath
  <2>10. P.at \in Ingesting => \E g \in File : where'[g] = P.path /\ UserOf[g] = P.user
    BY <2>2, <2>3, <2>6 DEF OnePerPath
  <2>11. \A i \in Id, g \in File : where'[g] = Orig(i) => UserOf[g] = i[1]
    BY <2>3, Kinds DEF OnePerPath
  <2> QED
    BY <2>3, <2>8, <2>9, <2>10, <2>11 DEF OnePerPath
<1>3. CASE \E n \in Name : Submit(n)
  <2>1. PICK n \in Name : Submit(n)
    BY <1>3
  <2>2. PICK f \in File : where[f] = Incoming(n) /\ Put(SentJob(Incoming(n), UserOf[f]))
    BY <2>1 DEF Submit, At
  <2> DEFINE J == SentJob(Incoming(n), UserOf[f])
  <2>3. J \in FileJob /\ J.path = Incoming(n) /\ J.user = UserOf[f]
    BY Inputs, Places, NoFiles DEF SentJob, FileJob, Job
  <2>4. /\ UNCHANGED where /\ P' = P /\ M' = M /\ M = Idle /\ n \notin submitted
        /\ submitted' = submitted \cup {n}
        /\ \A j \in FileJob \ {J} : jobs'[j] = jobs[j]
        /\ jobs'[J] = jobs[J] + 1
    BY <1>00, <2>1, <2>2, <2>3 DEF Submit, TypeOK, P, M, Put, disk
  <2> HIDE DEF J
  <2>5. \A j \in FileJob : j.path = Incoming(n) => jobs[j] = 0
    BY <1>00, <2>4, Kinds DEF OnePerPath
  <2>6. ~(P # Idle /\ P.path = Incoming(n))
    BY <2>4, Kinds DEF OnePerPath
  <2>7. jobs'[J] = 1
    BY <2>3, <2>4, <2>5
  <2>8. \A j \in FileJob : jobs'[j] > 0 =>
          /\ jobs'[j] = 1
          /\ ~(P # Idle /\ P.path = j.path)
          /\ \A k \in FileJob : jobs'[k] > 0 /\ k.path = j.path => k = j
    BY <2>3, <2>4, <2>5, <2>6, <2>7 DEF OnePerPath
  <2>9. \A j \in FileJob : jobs'[j] > 0 =>
          /\ \E g \in File : where[g] = j.path /\ UserOf[g] = j.user
          /\ j.path[1] = "incoming" => j.path[2] \in submitted'
    BY <2>2, <2>3, <2>4, Kinds DEF OnePerPath
  <2> QED
    BY <2>4, <2>8, <2>9 DEF OnePerPath
<1>4. CASE \E n \in Name : Forget(n)
  <2>1. PICK n \in Name : Forget(n)
    BY <1>4
  <2>2. UNCHANGED <<where, jobs, doing>> /\ submitted' = submitted \ {n} /\ ~Pending(Incoming(n))
    BY <2>1 DEF Forget, disk
  <2>3. /\ \A j \in FileJob : jobs[j] > 0 => j.path # Incoming(n)
        /\ P # Idle => P.path # Incoming(n)
    BY <1>00, <2>2 DEF Pending, P, TypeOK
  <2>4. \A p \in Source : p[1] = "incoming" => p = Incoming(p[2])
    BY Sources, Kinds
  <2>5. P' = P /\ M' = M
    BY <2>2 DEF P, M
  <2> QED
    BY <1>00, <2>2, <2>3, <2>4, <2>5, PathsOfThreads DEF OnePerPath
<1>5. CASE \E n \in Name : Refuse(n)
  <2>1. PICK n \in Name : Refuse(n)
    BY <1>5
  <2>2. M' = [at |-> "reject", path |-> Incoming(n), id |-> NULL] /\ P' = P
    BY <2>1, Becomes DEF Refuse
  <2>3. UNCHANGED <<where, jobs, submitted>> /\ n \notin submitted
    BY <2>1 DEF Refuse, disk
  <2> QED
    BY <2>2, <2>3, Kinds DEF OnePerPath
<1>6. CASE \E j \in Queued : ReadMetadata(j)
  <2>1. PICK j \in Job : ReadMetadata(j) /\ jobs[j] > 0
    BY <1>6 DEF Queued
  <2>2. PICK stage \in {"read", "failed"} :
           jobs' = [jobs EXCEPT ![j] = @ - 1, ![[j EXCEPT !.stage = stage]] = @ + 1]
    BY <2>1 DEF ReadMetadata
  <2> DEFINE k == [j EXCEPT !.stage = stage]
  <2>3. k \in Job /\ k.stage = stage /\ k.path = j.path /\ k.user = j.user /\ k # j
    BY <2>1 DEF Job, ReadMetadata
  <2>4. jobs'[j] = jobs[j] - 1 /\ jobs'[k] = jobs[k] + 1 /\ \A l \in Job \ {j, k} : jobs'[l] = jobs[l]
    BY <2>2, <2>3 DEF TypeOK
  <2>5. UNCHANGED <<where, submitted>> /\ P' = P /\ M' = M
    BY <2>1 DEF ReadMetadata, disk, P, M
  <2> HIDE DEF k
  <2>6. CASE j.path = NoFile
    <3>1. \A l \in FileJob : jobs'[l] = jobs[l]
      BY <2>3, <2>4, <2>6 DEF FileJob
    <3> QED
      BY <2>5, <3>1 DEF OnePerPath
  <2>7. CASE j.path # NoFile
    <3>1. j \in FileJob /\ k \in FileJob
      BY <2>3, <2>7 DEF FileJob
    <3>2. jobs[j] = 1 /\ jobs[k] = 0
      BY <2>1, <2>3, <3>1 DEF OnePerPath
    <3>3. jobs'[j] = 0 /\ jobs'[k] = 1
      BY <2>4, <3>2
    <3>4. \A l \in FileJob : jobs'[l] > 0 => l = k \/ (jobs[l] > 0 /\ l.path # j.path /\ jobs'[l] = jobs[l])
      BY <1>00, <2>1, <2>3, <2>4, <3>1, <3>3 DEF OnePerPath
    <3> QED
      BY <2>1, <2>3, <2>5, <3>1, <3>3, <3>4 DEF OnePerPath
  <2> QED
    BY <2>6, <2>7
<1>7. CASE \E j \in Queued : Take(j)
  <2>1. PICK j \in Job : Take(j) /\ jobs[j] > 0
    BY <1>7 DEF Queued
  <2>2. UNCHANGED <<where, submitted>> /\ jobs'[j] = jobs[j] - 1 /\ \A l \in Job \ {j} : jobs'[l] = jobs[l]
    BY <2>1 DEF Take, disk, TypeOK
  <2>3. CASE P' = Idle /\ j.path = NoFile
    <3>1. M' = M /\ \A l \in FileJob : jobs'[l] = jobs[l]
      BY <2>1, <2>2, <2>3, Takes DEF FileJob
    <3> QED
      BY <2>2, <2>3, <3>1 DEF OnePerPath, Idle, Ingesting
  <2>4. CASE P'.path = j.path /\ P' # Idle
    <3>1. /\ M' = M /\ j \in FileJob
          /\ P'.at \in Ingesting => P'.user = j.user
      <4>1. P' \in Doing
        BY <2>1, Takes
      <4>2. j.path # NoFile
        BY <2>4, <4>1, Doings, Places, NoFiles
      <4> QED
        BY <2>1, <2>4, <4>2, Takes DEF FileJob, Ingesting
    <3>2. jobs'[j] = 0
      BY <2>1, <2>2, <3>1 DEF OnePerPath
    <3> QED
      BY <1>00, <2>1, <2>2, <2>4, <3>1, <3>2 DEF OnePerPath
  <2> QED
    BY <2>1, <2>3, <2>4, Takes
<1>8. CASE Go
  <2>1. \A j \in FileJob : jobs[j] > 0 => j.path # P.path
    BY <1>8, GoMoves DEF OnePerPath
  <2>2. \A j \in FileJob : jobs[j] > 0 => \E f \in File : where'[f] = j.path /\ UserOf[f] = j.user
    BY <1>00, <1>8, <2>1, GoMoves DEF OnePerPath
  <2>3. P'.at \in Ingesting => \E f \in File : where'[f] = P'.path /\ UserOf[f] = P'.user
    BY <1>8, GoIngests DEF OnePerPath, Holds
  <2>4. ASSUME NEW i \in Id, NEW f \in File, where'[f] = Orig(i) PROVE UserOf[f] = i[1]
    <3>1. CASE where[f] = Orig(i)
      BY <3>1 DEF OnePerPath
    <3>2. CASE where[f] = P.path /\ P.at = "move" /\ i = P.id
      <4>1. PICK g \in File : where[g] = P.path /\ UserOf[g] = P.user
        BY <3>2 DEF OnePerPath, Ingesting
      <4>2. g = f /\ P.id[1] = P.user
        BY <3>2, <4>1, PathsOfThreads DEF PlaceInv, Ingesting
      <4> QED
        BY <3>2, <4>1, <4>2
    <3> QED
      BY <1>8, <2>4, <3>1, <3>2, GoIngests
  <2> QED
    BY <1>8, <2>2, <2>3, <2>4, GoMoves DEF OnePerPath
<1>9. CASE Clean("monitor")
  <2>1. M # Idle /\ M.path[1] = "incoming" /\ M.path[2] \notin submitted
    BY <1>9, MonitorMoves DEF PlaceInv, OnePerPath
  <2>2. \A j \in FileJob : jobs[j] > 0 => \E f \in File : where'[f] = j.path /\ UserOf[f] = j.user
    BY <1>00, <1>9, <2>1, MonitorMoves DEF OnePerPath
  <2>3. P.at \in Ingesting => \E f \in File : where'[f] = P.path /\ UserOf[f] = P.user
    BY <1>9, <2>1, MonitorMoves, PathsOfThreads DEF OnePerPath
  <2>4. \A i \in Id, f \in File : where'[f] = Orig(i) => where[f] = Orig(i)
    BY <1>9, MonitorMoves, Kinds
  <2> QED
    BY <1>9, <2>1, <2>2, <2>3, <2>4, MonitorMoves DEF OnePerPath
<1>10. CASE \E d \in Deletion : MoveToTrash(d)
  <2>1. /\ UNCHANGED <<jobs, submitted>> /\ P' = P /\ M' = M
        /\ \A f \in File : where'[f] = where[f] \/ (where[f][1] = "orig" /\ where'[f] = Trash)
    BY <1>10, Kinds DEF MoveToTrash, P, M
  <2> QED
    BY <1>00, <2>1, Kinds, PathsOfThreads DEF OnePerPath
<1>11. CASE Restart
  <2>1. UNCHANGED where /\ P' = Idle /\ M' = Idle /\ \A j \in FileJob : jobs'[j] = 0
    BY <1>00, <1>11 DEF Restart, disk, P, M, TypeOK
  <2> QED
    BY <2>1 DEF OnePerPath, Idle, Ingesting
<1>12. CASE UNCHANGED <<where, jobs, submitted, doing>>
  BY <1>12 DEF OnePerPath, P, M
<1>13. ASSUME \/ \E d \in Deletion : (\E i \in Id : Delete(d, i)) \/ DeleteRow(d)
              \/ \E i \in Id, u \in User : Transfer(i, u)
              \/ UNCHANGED vars
       PROVE  UNCHANGED <<where, jobs, submitted, doing>>
  BY <1>13 DEF Delete, DeleteRow, Transfer, vars, disk
<1>14. CASE \E u \in User : ReceiveNothing(u)
  <2>1. PICK u \in User : ReceiveNothing(u)
    BY <1>14
  <2>2. /\ UNCHANGED <<where, submitted>> /\ P' = P /\ M' = M
        /\ \A j \in FileJob : jobs'[j] = jobs[j]
    BY <1>00, <2>1 DEF ReceiveNothing, TypeOK, Put, SentJob, FileJob, disk, P, M
  <2> QED
    BY <2>2 DEF OnePerPath
<1> QED
  BY <1>1, <1>2, <1>3, <1>4, <1>5, <1>6, <1>7, <1>8, <1>9, <1>10, <1>11, <1>12, <1>13, <1>14 DEF Next, Poll

-----------------------------------------------------------------------------
(* Contents *)

\* All other steps bring files in, or take media files to the trash.
Outside ==
    /\ P' = P
    /\ \A f \in File : \/ where'[f] = where[f]
                       \/ where[f] = Nowhere /\ where'[f] \in Source
                       \/ where[f][1] = "orig" /\ where'[f] = Trash

\* Files are moved by the pipeline, by the monitor when it cleans up, and from outside.
LEMMA Steps ==
    ASSUME TypeOK, [Next]_vars
    PROVE  \/ Go
           \/ Clean("monitor")
           \/ \E j \in Job : Take(j) /\ UNCHANGED where
           \/ Restart /\ P' = Idle /\ UNCHANGED where
           \/ Outside
<1>1. CASE \E f \in File : Drop(f)
  <2>1. PICK f \in File : Drop(f)
    BY <1>1
  <2>2. /\ where[f] = Nowhere /\ Incoming(NameOf[f]) \in Source /\ UNCHANGED doing
        /\ \A g \in File : where'[g] = IF g = f THEN Incoming(NameOf[f]) ELSE where[g]
    BY <2>1, Inputs, Places DEF Drop, TypeOK
  <2> QED
    BY <2>2 DEF Outside, P
<1>2. CASE \E f \in File : ReceiveUpload(f)
  <2>1. PICK f \in File : ReceiveUpload(f)
    BY <1>2
  <2>2. /\ where[f] = Nowhere /\ Upload(f) \in Source /\ UNCHANGED doing
        /\ \A g \in File : where'[g] = IF g = f THEN Upload(f) ELSE where[g]
    BY <2>1, Places DEF ReceiveUpload, TypeOK
  <2> QED
    BY <2>2 DEF Outside, P
<1>3. CASE \E n \in Name : Refuse(n)
  BY <1>3, Becomes DEF Refuse, disk, Outside
<1>4. CASE \E d \in Deletion : MoveToTrash(d)
  BY <1>4, Kinds DEF MoveToTrash, Outside, P
<1>5. CASE UNCHANGED <<scene, where, dirs, doing>>
  BY <1>5 DEF Outside, P
<1>6. CASE \E j \in Queued : Take(j)
  BY <1>6 DEF Take, disk, Queued
<1>7. CASE Restart
  BY <1>7 DEF Restart, disk, TypeOK, P
<1> QED
  BY <1>1, <1>2, <1>3, <1>4, <1>5, <1>6, <1>7, Quiet DEF Next, Poll

\* How the pipeline comes to reject a file, and what then becomes of it.
LEMMA GoRejects ==
    ASSUME TypeOK, PlaceInv, Go
    PROVE  /\ P'.at = "reject" /\ P'.id # NULL =>
                 P.at = "lookup" /\ P'.id = P.id /\ P'.path = P.path /\ UNCHANGED where
           /\ P'.at = "rename" =>
                 /\ P.at = "reject" /\ P'.path = P.path /\ UNCHANGED where
                 /\ \/ \E n \in Name : P'.to = Rejected(n) /\ \A f \in File : where[f] # Rejected(n)
                    \/ \E f \in File : P'.to = ByUuid(f) /\ where[f] = P.path
                    \/ P.id \in Id /\ P'.to = ById(P.id)
           /\ \A f \in File : \/ where'[f] = where[f]
                              \/ where'[f][1] \notin {"rejected", "byId", "byUuid"}
                              \/ P.at = "rename" /\ where[f] = P.path /\ where'[f] = P.to
<1> USE DEF Ingesting
<1>1. CASE CheckDir \/ LookUp \/ CreateDir \/ InsertRow
  BY <1>1, PipelineSteps, PathsOfThreads DEF Holds, GivesUp
<1>2. CASE Wipe
  BY <1>2, PipelineSteps, PathsOfThreads, Kinds DEF Holds, GivesUp
<1>3. CASE MoveToOrig
  <2>1. \/ where' = Moved(P.path, Orig(P.id))
        \/ UNCHANGED where
    BY <1>3, PipelineSteps
  <2>2. \A f \in File : where'[f] = where[f] \/ where'[f] \in {Orig(P.id), Gone}
    BY <2>1 DEF Moved
  <2> QED
    BY <1>3, <2>2, PipelineSteps, Kinds DEF Holds, GivesUp
<1>4. CASE RejectWhere("pipeline")
  <2>1. UNCHANGED where /\ P'.at \in {"idle", "rename"} /\ P.at = "reject"
    BY <1>4, RejectsTo, PathsOfThreads DEF RejectWhere, disk, P
  <2>2. P'.at = "rename" =>
           /\ P'.path = P.path
           /\ \/ \E n \in Name : P'.to = Rejected(n) /\ \A f \in File : where[f] # Rejected(n)
              \/ \E f \in File : P'.to = ByUuid(f) /\ where[f] = P.path
              \/ P.id \in Id /\ P'.to = ById(P.id)
    BY <1>4, RejectsTo, PathsOfThreads DEF P
  <2> QED
    BY <2>1, <2>2
<1>5. CASE RejectRename("pipeline")
  <2>1. P.at = "rename" /\ P.to[1] \in {"rejected", "byId", "byUuid"} /\ P'.at = "idle"
    BY <1>5, Renames, PathsOfThreads DEF P, PlaceInv
  <2>2. \/ where' = Moved(P.path, Gone)
        \/ where' = Moved(P.path, P.to)
        \/ UNCHANGED where
    BY <1>5, Renames DEF P
  <2>3. \A f \in File : where'[f] = where[f] \/ (where[f] = P.path /\ where'[f] = P.to)
                        \/ where'[f] = Gone
    BY <2>2 DEF Moved
  <2> QED
    BY <2>1, <2>3, Kinds
<1> QED
  BY <1>1, <1>2, <1>3, <1>4, <1>5 DEF Go, Clean

\* The monitor is not where the pipeline is.
LEMMA Apart == IInv /\ Calm /\ M # Idle /\ P # Idle => scene.prompt /\ M.path # P.path
  BY DEF IInv, Calm, PlaceInv, PromptInv, OnePerPath

\* What the pipeline has in hand stays what its id was computed from.
LEMMA NextSample == IInv /\ [Next]_vars => SampleInv'
<1> SUFFICES ASSUME IInv, [Next]_vars, Calm'
             PROVE  /\ P'.at \in Ingesting => \E f \in File : where'[f] = P'.path /\ SampleOf[f] = P'.id[2]
                    /\ P'.at = "reject" /\ P'.id # NULL =>
                          \E f \in File : where'[f] = P'.path /\ SampleOf[f] = P'.id[2]
                    /\ P'.at = "rename" => \A i \in Id : P'.to = ById(i) =>
                          \E f \in File : where'[f] = P'.path /\ SampleOf[f] = i[2]
                    /\ \A i \in Id, f \in File : where'[f] \in {Orig(i), ById(i)} => SampleOf[f] = i[2]
  BY DEF SampleInv
<1>0. TypeOK /\ PlaceInv /\ SampleInv /\ Calm
  BY SceneStays DEF IInv, Calm
<1> USE <1>0
<1>1. CASE Go
  <2>1. P'.at \in Ingesting => \E f \in File : where'[f] = P'.path /\ SampleOf[f] = P'.id[2]
    BY <1>1, GoIngests DEF SampleInv, Holds
  <2>2. P'.at = "reject" /\ P'.id # NULL => \E f \in File : where'[f] = P'.path /\ SampleOf[f] = P'.id[2]
    BY <1>1, GoRejects DEF SampleInv, Ingesting
  <2>3. ASSUME P'.at = "rename", NEW i \in Id, P'.to = ById(i)
        PROVE  \E f \in File : where'[f] = P'.path /\ SampleOf[f] = i[2]
    <3>1. P.at = "reject" /\ P.id = i /\ P'.path = P.path /\ UNCHANGED where
      BY <1>1, <2>3, GoRejects, Kinds
    <3> QED
      BY <3>1, IngestAssumption DEF SampleInv
  <2>4. ASSUME NEW i \in Id, NEW f \in File, where'[f] = Orig(i) PROVE SampleOf[f] = i[2]
    <3>1. CASE where[f] = Orig(i)
      BY <3>1 DEF SampleInv
    <3>2. CASE where[f] = P.path /\ P.at = "move" /\ i = P.id
      <4>1. PICK g \in File : where[g] = P.path /\ SampleOf[g] = P.id[2]
        BY <3>2 DEF SampleInv, Ingesting
      <4>2. g = f
        BY <3>2, <4>1, PathsOfThreads DEF PlaceInv, Ingesting
      <4> QED
        BY <3>2, <4>1, <4>2
    <3> QED
      BY <1>1, <2>4, <3>1, <3>2, GoIngests
  <2>5. ASSUME NEW i \in Id, NEW f \in File, where'[f] = ById(i) PROVE SampleOf[f] = i[2]
    <3>1. CASE where[f] = ById(i)
      BY <3>1 DEF SampleInv
    <3>2. CASE P.at = "rename" /\ where[f] = P.path /\ P.to = ById(i)
      <4>1. PICK g \in File : where[g] = P.path /\ SampleOf[g] = i[2]
        BY <3>2 DEF SampleInv
      <4>2. g = f
        BY <3>2, <4>1, PathsOfThreads DEF PlaceInv
      <4> QED
        BY <4>1, <4>2
    <3> QED
      BY <1>1, <2>5, <3>1, <3>2, GoRejects, Kinds
  <2> QED
    BY <2>1, <2>2, <2>3, <2>4, <2>5
<1>2. CASE Clean("monitor")
  <2>1. P' = P
    BY <1>2, MonitorMoves
  <2>2. \A f \in File : P # Idle /\ where[f] = P.path => where'[f] = P.path
    BY <1>2, MonitorMoves, Apart, PathsOfThreads
  <2>3. \A i \in Id, f \in File : where'[f] \in {Orig(i), ById(i)} => where[f] = where'[f]
    BY <1>2, MonitorMoves, Kinds
  <2> QED
    BY <2>1, <2>2, <2>3, PathsOfThreads DEF SampleInv
<1>3. CASE \E j \in Job : Take(j) /\ UNCHANGED where
  BY <1>3, Takes DEF SampleInv, Ingesting
<1>4. CASE P' = Idle /\ UNCHANGED where
  BY <1>4 DEF SampleInv, Idle, Ingesting
<1>5. CASE Outside
  <2>1. \A f \in File : P # Idle /\ where[f] = P.path => where'[f] = P.path
    BY <1>5, PathsOfThreads, Kinds DEF Outside
  <2>2. \A i \in Id, f \in File : where'[f] \in {Orig(i), ById(i)} => where[f] = where'[f]
    BY <1>5, Kinds, Sources DEF Outside
  <2> QED
    BY <1>5, <2>1, <2>2, PathsOfThreads DEF SampleInv, Outside
<1> QED
  BY <1>1, <1>2, <1>3, <1>4, <1>5, Steps

-----------------------------------------------------------------------------
(* What is delivered is kept *)

Alive(f) == where[f] \notin {Gone, Nowhere}

\* What the pipeline deletes has a copy: the file it is about to ingest in its place, or the one that
\* was rejected before.
LEMMA GoKeeps ==
    ASSUME TypeOK, PlaceInv, SampleInv, KeptInv, scene.files \cap Unnamed = {}, Go,
           NEW f \in File, Alive(f) \/ where[f] = Gone
    PROVE  \E g \in File : SampleOf[g] = SampleOf[f] /\ where'[g] \notin {Gone, Nowhere}
<1> USE DEF Ingesting
<1>1. PICK e \in File : SampleOf[e] = SampleOf[f] /\ Alive(e)
  BY DEF KeptInv, ContentKept, Alive
<1>2. CASE CheckDir \/ LookUp \/ CreateDir \/ InsertRow
  BY <1>1, <1>2, PipelineSteps DEF Alive
<1>3. CASE Wipe
  <2>1. CASE where[e] = Orig(P.id)
    <3>1. P.at = "wipe" /\ P.id \in Id /\ P.path \in Source
      BY <1>3, PipelineSteps, PathsOfThreads
    <3>2. PICK g \in File : where[g] = P.path /\ SampleOf[g] = P.id[2]
      BY <3>1 DEF SampleInv, Calm
    <3>3. SampleOf[e] = P.id[2]
      BY <2>1, <3>1 DEF SampleInv, Calm
    <3>4. where'[g] = P.path
      BY <1>3, <3>1, <3>2, PipelineSteps, Sources, Kinds
    <3> QED
      BY <1>1, <3>1, <3>2, <3>3, <3>4, Sources, Kinds
  <2>2. CASE where[e] # Orig(P.id)
    BY <1>1, <1>3, <2>2, PipelineSteps DEF Alive
  <2> QED
    BY <2>1, <2>2
<1>4. CASE MoveToOrig
  <2>1. where'[e] \in {where[e], Orig(P.id)}
    <3>1. \/ where' = Moved(P.path, Orig(P.id))
          \/ UNCHANGED where
      BY <1>4, PipelineSteps
    <3>2. where[e] # Orig(P.id)
      BY <1>4, PipelineSteps DEF PlaceInv
    <3> QED
      BY <3>1, <3>2 DEF Moved
  <2> QED
    BY <1>1, <2>1, Kinds DEF Alive
<1>5. CASE RejectWhere("pipeline")
  BY <1>1, <1>5 DEF RejectWhere, disk, Alive
<1>6. CASE RejectRename("pipeline")
  <2>1. P.at = "rename" /\ P.to[1] \in {"rejected", "byId", "byUuid"} /\ P.to \in Place /\ P.path \in Source
    BY <1>6, Renames, PathsOfThreads, Doings DEF P, PlaceInv
  <2>2. CASE P.to[1] = "byId" /\ (\E g \in File : where[g] = P.to) /\ where' = Moved(P.path, Gone)
    <3>1. PICK g \in File : where[g] = P.to
      BY <2>2
    <3>2. where'[g] = P.to /\ P.to \notin {Gone, Nowhere}
      BY <2>1, <2>2, <3>1, Sources, Kinds DEF Moved
    <3>3. CASE where[e] = P.path
      <4>1. PICK i \in Id : P.to = ById(i)
        BY <2>1, <2>2, RejectedPlaces, Kinds
      <4>2. PICK h \in File : where[h] = P.path /\ SampleOf[h] = i[2]
        BY <2>1, <4>1 DEF SampleInv, Calm
      <4>3. h = e
        BY <2>1, <3>3, <4>2 DEF PlaceInv
      <4>4. SampleOf[g] = i[2]
        BY <3>1, <4>1 DEF SampleInv, Calm
      <4> QED
        BY <1>1, <3>2, <4>2, <4>3, <4>4
    <3>4. CASE where[e] # P.path
      BY <1>1, <2>2, <3>4 DEF Moved, Alive
    <3> QED
      BY <3>3, <3>4
  <2>3. CASE where' = Moved(P.path, P.to) /\ (P.to[1] = "byId" => \A g \in File : where[g] # P.to)
    <3>1. \A g \in File : where[g] # P.to
      <4>1. CASE \E n \in Name : P.to = Rejected(n)
        BY <2>1, <4>1 DEF KeptInv
      <4>2. CASE \E h \in File : P.to = ByUuid(h)
        <5>1. PICK h \in File : P.to = ByUuid(h)
          BY <4>2
        <5>2. where[h] = P.path
          BY <2>1, <5>1 DEF KeptInv
        <5>3. P.path # ByUuid(h)
          BY <2>1, Sources, Kinds
        <5> QED
          BY <5>1, <5>2, <5>3 DEF KeptInv
      <4>3. CASE P.to[1] = "byId"
        BY <2>3, <4>3
      <4> QED
        BY <2>1, <4>1, <4>2, <4>3, RejectedPlaces, Kinds
    <3>2. where'[e] \in {where[e], P.to}
      BY <2>3, <3>1 DEF Moved
    <3> QED
      BY <1>1, <2>1, <3>2, Kinds DEF Alive
  <2>4. CASE UNCHANGED where
    BY <1>1, <2>4 DEF Alive
  <2> QED
    BY <1>6, <2>2, <2>3, <2>4, Renames DEF P
<1> QED
  BY <1>2, <1>3, <1>4, <1>5, <1>6 DEF Go, Clean

\* A destination that was found free stays so, and what is deleted has a copy.
LEMMA NextKept == IInv /\ [Next]_vars => KeptInv'
<1> SUFFICES ASSUME IInv, [Next]_vars, scene.files \cap Unnamed = {}
             PROVE  /\ ContentKept'
                    /\ \A f, g \in File : where'[g] = ByUuid(f) => g = f
                    /\ P'.at = "rename" =>
                          /\ \A n \in Name, f \in File : P'.to = Rejected(n) => where'[f] # Rejected(n)
                          /\ \A f \in File : P'.to = ByUuid(f) => where'[f] = P'.path
  BY SceneStays DEF KeptInv
<1>0. TypeOK /\ PlaceInv /\ SampleInv /\ KeptInv /\ M = Idle
  BY DEF IInv, PlaceInv
<1>00. \A f \in File : where[f] = Gone => \E g \in File : SampleOf[g] = SampleOf[f] /\ where[g] \notin {Gone, Nowhere}
  BY <1>0 DEF KeptInv, ContentKept
<1> USE <1>0
<1>1. CASE Go
  <2>1. ASSUME NEW f \in File, where'[f] = Gone
        PROVE  \E g \in File : SampleOf[g] = SampleOf[f] /\ where'[g] \notin {Gone, Nowhere}
    <3>1. where[f] # Nowhere
      BY <1>1, <2>1, GoMoves, PathsOfThreads, Kinds
    <3> QED
      BY <1>1, <3>1, GoKeeps DEF Alive
  <2>2. ASSUME NEW f \in File, NEW g \in File, where'[g] = ByUuid(f) PROVE g = f
    <3>1. CASE where[g] = ByUuid(f)
      BY <3>1 DEF KeptInv
    <3>2. CASE P.at = "rename" /\ where[g] = P.path /\ P.to = ByUuid(f)
      <4>1. where[f] = P.path /\ P.path \in Source
        BY <3>2, PathsOfThreads DEF KeptInv
      <4> QED
        BY <3>2, <4>1 DEF PlaceInv
    <3> QED
      BY <1>1, <2>2, <3>1, <3>2, GoRejects, Kinds
  <2>3. P'.at = "rename" =>
           /\ \A n \in Name, f \in File : P'.to = Rejected(n) => where'[f] # Rejected(n)
           /\ \A f \in File : P'.to = ByUuid(f) => where'[f] = P'.path
    BY <1>1, GoRejects, Kinds
  <2> QED
    BY <2>1, <2>2, <2>3 DEF ContentKept
<1>2. CASE Clean("monitor")
  BY <1>2, MonitorMoves
<1>3. CASE \E j \in Job : Take(j) /\ UNCHANGED where
  BY <1>00, <1>3, Takes DEF KeptInv, ContentKept
<1>4. CASE P' = Idle /\ UNCHANGED where
  BY <1>00, <1>4 DEF KeptInv, ContentKept, Idle
<1>5. CASE Outside
  <2>1. \A f \in File : /\ where'[f] = Gone => where[f] = Gone
                        /\ where[f] \notin {Gone, Nowhere} => where'[f] \notin {Gone, Nowhere}
    BY <1>5, Kinds, Sources DEF Outside
  <2>2. \A f \in File : where'[f][1] \in {"rejected", "byUuid"} => where'[f] = where[f]
    BY <1>5, Kinds, Sources DEF Outside
  <2>3. \A f \in File : P # Idle /\ where[f] = P.path => where'[f] = P.path
    BY <1>5, PathsOfThreads, Kinds DEF Outside
  <2>4. P' = P
    BY <1>5 DEF Outside
  <2> QED
    BY <1>00, <2>1, <2>2, <2>3, <2>4, Kinds, PathsOfThreads DEF KeptInv, ContentKept
<1> QED
  BY <1>1, <1>2, <1>3, <1>4, <1>5, Steps

-----------------------------------------------------------------------------
(* Files and rows *)

\* The pipeline makes a row only at the insertion, of an id that has none.
LEMMA GoOwns ==
    ASSUME TypeOK, PlaceInv, Go
    PROVE  /\ \A i \in Id : \/ owner'[i] = owner[i]
                            \/ /\ P.at = "insert" /\ P.id = i /\ owner[i] = NULL /\ owner'[i] # NULL
                               /\ P'.at = "idle"
           /\ P.at = "insert" => /\ UNCHANGED where
                                 /\ P.id[1] \in Registered /\ owner[P.id] = NULL => owner'[P.id] # NULL
           /\ P'.at = "wipe" => owner'[P.id] = NULL
<1> USE DEF Ingesting
<1>1. CASE CheckDir \/ LookUp \/ Wipe \/ CreateDir \/ MoveToOrig
  BY <1>1, PipelineSteps DEF Holds, GivesUp
<1>2. CASE InsertRow
  <2>1. P.at = "insert" /\ P.id \in Id /\ P.user \in User /\ P.id[1] = P.user /\ P.user # NULL
    BY <1>2, PipelineSteps, PathsOfThreads, Doings, IngestAssumption DEF PlaceInv
  <2> QED
    BY <1>2, <2>1, PipelineSteps, PathsOfThreads DEF GivesUp, TypeOK
<1>3. CASE RejectWhere("pipeline")
  <2>1. UNCHANGED owner /\ P'.at \in {"idle", "rename"} /\ P.at = "reject"
    BY <1>3, RejectsTo, PathsOfThreads DEF RejectWhere, disk, P
  <2> QED
    BY <2>1
<1>4. CASE RejectRename("pipeline")
  <2>1. UNCHANGED owner /\ P'.at = "idle" /\ P.at = "rename"
    BY <1>4, Renames, PathsOfThreads DEF RejectRename, P
  <2> QED
    BY <2>1
<1> QED
  BY <1>1, <1>2, <1>3, <1>4 DEF Go, Clean

\* A deletion of a user.
LEMMA Deletes ==
    ASSUME TypeOK, NEW d \in Deletion
    PROVE  /\ \A i \in Id : Delete(d, i) =>
                 /\ deleting'[d].at = "found" /\ deleting'[d].id = i /\ owner[i] # NULL
                 /\ \A e \in Deletion \ {d} : deleting'[e] = deleting[e]
                 /\ deleting[d] = Idle /\ UNCHANGED <<where, owner, doing, restarts>>
           /\ DeleteRow(d) =>
                 /\ deleting[d] # Idle /\ deleting[d].id \in Id
                 /\ deleting'[d].at = "unlisted" /\ deleting'[d].id = deleting[d].id
                 /\ \A e \in Deletion \ {d} : deleting'[e] = deleting[e]
                 /\ owner'[deleting[d].id] = NULL
                 /\ \A i \in Id \ {deleting[d].id} : owner'[i] = owner[i]
                 /\ UNCHANGED <<where, doing, restarts>>
           /\ MoveToTrash(d) =>
                 /\ deleting[d].at = "unlisted" /\ deleting[d] # Idle /\ deleting[d].id \in Id
                 /\ \A f \in File : where'[f] = IF where[f] = Orig(deleting[d].id) THEN Trash ELSE where[f]
                 /\ deleting'[d] = Idle
                 /\ \A e \in Deletion \ {d} : deleting'[e] = deleting[e]
                 /\ UNCHANGED <<owner, doing, restarts>>
<1>1. deleting[d] # Idle => deleting[d] \in [at : {"found", "unlisted"}, id : Id]
  BY DEF TypeOK, Deleting
<1>2. ASSUME NEW i \in Id, Delete(d, i)
      PROVE  /\ deleting'[d].at = "found" /\ deleting'[d].id = i /\ owner[i] # NULL
             /\ \A e \in Deletion \ {d} : deleting'[e] = deleting[e]
             /\ deleting[d] = Idle /\ UNCHANGED <<where, owner, doing, restarts>>
  BY <1>2 DEF Delete, TypeOK, disk
<1>3. ASSUME DeleteRow(d)
      PROVE  /\ deleting[d] # Idle /\ deleting[d].id \in Id
             /\ deleting'[d].at = "unlisted" /\ deleting'[d].id = deleting[d].id
             /\ \A e \in Deletion \ {d} : deleting'[e] = deleting[e]
             /\ owner'[deleting[d].id] = NULL
             /\ \A i \in Id \ {deleting[d].id} : owner'[i] = owner[i]
             /\ UNCHANGED <<where, doing, restarts>>
  <2>1. deleting[d] # Idle
    BY <1>3 DEF DeleteRow, Idle
  <2>2. deleting'[d] = [deleting[d] EXCEPT !.at = "unlisted"]
    BY <1>3 DEF DeleteRow, TypeOK
  <2>3. deleting'[d].at = "unlisted" /\ deleting'[d].id = deleting[d].id
    BY <1>1, <2>1, <2>2
  <2> QED
    BY <1>1, <1>3, <2>1, <2>3 DEF DeleteRow, TypeOK, disk
<1>4. ASSUME MoveToTrash(d)
      PROVE  /\ deleting[d].at = "unlisted" /\ deleting[d] # Idle /\ deleting[d].id \in Id
             /\ \A f \in File : where'[f] = IF where[f] = Orig(deleting[d].id) THEN Trash ELSE where[f]
             /\ deleting'[d] = Idle
             /\ \A e \in Deletion \ {d} : deleting'[e] = deleting[e]
             /\ UNCHANGED <<owner, doing, restarts>>
  <2>1. deleting[d] # Idle
    BY <1>4 DEF MoveToTrash, Idle
  <2> QED
    BY <1>1, <1>4, <2>1 DEF MoveToTrash, TypeOK
<1> QED
  BY <1>2, <1>3, <1>4

\* A new owner of a row moves no file and makes no row.
LEMMA Transfers ==
    ASSUME TypeOK, NEW i \in Id, NEW u \in User, Transfer(i, u)
    PROVE  /\ \A j \in Id : owner'[j] = NULL <=> owner[j] = NULL
           /\ UNCHANGED <<where, doing, deleting, restarts>>
  BY IngestAssumption DEF Transfer, TypeOK, disk

\* All other steps, with the rows and the deletions left as they are.
LEMMA Leaves ==
    ASSUME TypeOK,
           \/ \E f \in File : Drop(f) \/ ReceiveUpload(f)
           \/ \E n \in Name : Poll(n) \/ Forget(n)
           \/ \E u \in User : ReceiveNothing(u)
           \/ \E j \in Queued : ReadMetadata(j)
           \/ UNCHANGED vars
    PROVE  /\ UNCHANGED <<owner, deleting, restarts>> /\ P' = P
           /\ \A f \in File : where'[f] = where[f] \/ (where[f] = Nowhere /\ where'[f] \in Source)
<1>1. CASE \E f \in File : Drop(f)
  <2>1. PICK f \in File : Drop(f)
    BY <1>1
  <2>2. /\ where[f] = Nowhere /\ Incoming(NameOf[f]) \in Source /\ UNCHANGED <<owner, deleting, restarts, doing>>
        /\ \A g \in File : where'[g] = IF g = f THEN Incoming(NameOf[f]) ELSE where[g]
    BY <2>1, Inputs, Places DEF Drop, TypeOK
  <2> QED
    BY <2>2 DEF P
<1>2. CASE \E f \in File : ReceiveUpload(f)
  <2>1. PICK f \in File : ReceiveUpload(f)
    BY <1>2
  <2>2. /\ where[f] = Nowhere /\ Upload(f) \in Source /\ UNCHANGED <<owner, deleting, restarts, doing>>
        /\ \A g \in File : where'[g] = IF g = f THEN Upload(f) ELSE where[g]
    BY <2>1, Places DEF ReceiveUpload, TypeOK
  <2> QED
    BY <2>2 DEF P
<1>3. CASE \E n \in Name : Refuse(n)
  BY <1>3, Becomes DEF Refuse, disk
<1>4. CASE \/ \E n \in Name : Submit(n) \/ Forget(n)
           \/ \E u \in User : ReceiveNothing(u)
           \/ \E j \in Queued : ReadMetadata(j)
           \/ UNCHANGED vars
  BY <1>4 DEF Submit, ReceiveNothing, Forget, ReadMetadata, vars, disk, P
<1> QED
  BY <1>1, <1>2, <1>3, <1>4 DEF Poll

\* A file among the media files has its row, or is in the hand that will make or delete it.
LEMMA NextDangling == IInv /\ [Next]_vars => DanglingInv'
<1> SUFFICES ASSUME IInv, [Next]_vars, restarts' = 0, NEW i \in Id, NEW f \in File,
                    where'[f] = Orig(i), i[1] \in Registered, owner'[i] = NULL
             PROVE  \/ P'.at = "insert" /\ P'.id = i
                    \/ \E d \in Deletion : deleting'[d].at = "unlisted" /\ deleting'[d].id = i
  BY DEF DanglingInv
<1>0. TypeOK /\ PlaceInv /\ DanglingInv
  BY DEF IInv
<1>00. restarts = 0 /\ where[f] = Orig(i) /\ owner[i] = NULL =>
          \/ P.at = "insert" /\ P.id = i
          \/ \E d \in Deletion : deleting[d].at = "unlisted" /\ deleting[d].id = i
  BY <1>0 DEF DanglingInv
<1> USE <1>0
<1>1. CASE Go
  <2>1. restarts = 0 /\ UNCHANGED deleting /\ owner[i] = NULL
    BY <1>1, GoMoves, GoOwns
  <2>2. CASE where[f] = Orig(i)
    <3>1. CASE P.at = "insert" /\ P.id = i
      BY <1>1, <2>1, <3>1, GoOwns
    <3>2. CASE \E d \in Deletion : deleting[d].at = "unlisted" /\ deleting[d].id = i
      BY <2>1, <3>2
    <3> QED
      BY <1>00, <2>1, <2>2, <3>1, <3>2
  <2>3. CASE P'.at = "insert" /\ P'.id = i
    BY <2>3
  <2> QED
    BY <1>1, <2>2, <2>3, GoIngests
<1>2. CASE Clean("monitor")
  BY <1>00, <1>2, MonitorMoves, Kinds
<1>3. CASE \E j \in Queued : Take(j)
  <2>1. PICK j \in Job : Take(j)
    BY <1>3 DEF Queued
  <2>2. P = Idle /\ UNCHANGED <<where, owner, deleting, restarts>>
    BY <2>1, Takes DEF Take, disk
  <2> QED
    BY <1>00, <2>2 DEF Idle
<1>4. CASE \E d \in Deletion : (\E k \in Id : Delete(d, k)) \/ DeleteRow(d)
  <2>1. PICK d \in Deletion : (\E k \in Id : Delete(d, k)) \/ DeleteRow(d)
    BY <1>4
  <2>2. CASE \E k \in Id : Delete(d, k)
    BY <1>00, <2>2, Deletes DEF P, Idle
  <2>3. CASE DeleteRow(d)
    <3>1. CASE i = deleting[d].id
      BY <2>3, <3>1, Deletes
    <3>2. CASE i # deleting[d].id
      BY <1>00, <2>3, <3>2, Deletes DEF P
    <3> QED
      BY <3>1, <3>2
  <2> QED
    BY <2>1, <2>2, <2>3
<1>5. CASE \E d \in Deletion : MoveToTrash(d)
  <2>1. PICK d \in Deletion : MoveToTrash(d)
    BY <1>5
  <2>2. i # deleting[d].id /\ where[f] = Orig(i)
    BY <2>1, Deletes, Kinds
  <2> QED
    BY <1>00, <2>1, <2>2, Deletes DEF P
<1>6. CASE \E k \in Id, u \in User : Transfer(k, u)
  BY <1>00, <1>6, Transfers DEF P
<1>7. CASE Restart
  BY <1>7 DEF Restart, TypeOK
<1>8. CASE \/ \E g \in File : Drop(g) \/ ReceiveUpload(g)
           \/ \E n \in Name : Poll(n) \/ Forget(n)
           \/ \E u \in User : ReceiveNothing(u)
           \/ \E j \in Queued : ReadMetadata(j)
           \/ UNCHANGED vars
  BY <1>00, <1>8, Leaves, Sources, Kinds
<1> QED
  BY <1>1, <1>2, <1>3, <1>4, <1>5, <1>6, <1>7, <1>8 DEF Next

\* A row has its file, or is in the hand that will delete it.
LEMMA NextRow == IInv /\ [Next]_vars => RowInv'
<1> SUFFICES ASSUME IInv, [Next]_vars, scene.prompt, NoCopies PROVE RowsAndFiles'
  BY SceneStays DEF RowInv, NoCopies
<1>0. TypeOK /\ PlaceInv /\ SampleInv /\ Calm /\ RowsAndFiles
  BY DEF IInv, RowInv, Calm
<1> USE <1>0
<1>1. CASE Go
  <2>1. UNCHANGED deleting
    BY <1>1, GoMoves
  <2>2. ASSUME NEW i \in Id, owner'[i] # NULL PROVE \E f \in File : where'[f] = Orig(i)
    <3>1. CASE owner[i] # NULL
      <4>1. PICK f \in File : where[f] = Orig(i)
        BY <3>1 DEF RowsAndFiles
      <4>2. ~(P.at = "wipe" /\ i = P.id)
        BY <3>1 DEF RowsAndFiles
      <4> QED
        BY <1>1, <4>1, <4>2, GoIngests
    <3>2. CASE P.at = "insert" /\ P.id = i
      BY <1>1, <3>2, GoOwns DEF RowsAndFiles
    <3> QED
      BY <1>1, <2>2, <3>1, <3>2, GoOwns
  <2>3. P'.at = "wipe" => owner'[P'.id] = NULL
    BY <1>1, GoOwns, GoIngests DEF Ingesting, Holds
  <2>4. ASSUME P'.at = "insert"
        PROVE  /\ \E f \in File : where'[f] = Orig(P'.id)
               /\ owner'[P'.id] = NULL
               /\ \A d \in Deletion : deleting'[d] # Idle => deleting'[d].id # P'.id
    <3>1. P.at = "move" /\ P'.id = P.id /\ P.id \in Id /\ P.path \in Source
      BY <1>1, <2>4, GoIngests, PathsOfThreads DEF Holds, Ingesting
    <3>2. owner'[P.id] = NULL
      <4>1. owner[P.id] = NULL
        BY <3>1 DEF RowsAndFiles, PlaceInv
      <4> QED
        BY <1>1, <3>1, <4>1, GoOwns
    <3>3. PICK f \in File : where[f] = P.path /\ SampleOf[f] = P.id[2]
      BY <3>1 DEF SampleInv, Ingesting
    <3>4. \A d \in Deletion : deleting[d] # Idle => deleting[d].id # P.id
      BY <3>1, <3>3 DEF RowsAndFiles
    <3> QED
      BY <1>1, <2>1, <2>4, <3>1, <3>2, <3>4, GoIngests
  <2>5. ASSUME NEW d \in Deletion, deleting'[d] # Idle
        PROVE  /\ deleting'[d].at = "unlisted" => owner'[deleting'[d].id] = NULL
               /\ \A f \in File : SampleOf[f] = deleting'[d].id[2] => where'[f] \notin Source \cup {Nowhere}
    <3>1. deleting[d] # Idle /\ deleting'[d] = deleting[d] /\ deleting[d].id \in Id
      BY <2>1, <2>5 DEF TypeOK, Deleting
    <3>2. deleting[d].at = "unlisted" => owner'[deleting[d].id] = NULL
      BY <1>1, <3>1, GoOwns DEF RowsAndFiles
    <3>3. \A f \in File : SampleOf[f] = deleting[d].id[2] => where'[f] \notin Source \cup {Nowhere}
      BY <1>1, <3>1, GoMoves, Sources, Kinds DEF RowsAndFiles
    <3> QED
      BY <3>1, <3>2, <3>3
  <2> QED
    BY <2>2, <2>3, <2>4, <2>5 DEF RowsAndFiles
<1>2. CASE Clean("monitor")
  <2>1. UNCHANGED <<owner, deleting>> /\ P' = P
    BY <1>2, MonitorMoves
  <2>2. \A i \in Id, f \in File : where[f] = Orig(i) => where'[f] = Orig(i)
    BY <1>2, MonitorMoves, PathsOfThreads, Kinds
  <2>3. \A f \in File : where[f] \notin Source \cup {Nowhere} => where'[f] \notin Source \cup {Nowhere}
    BY <1>2, MonitorMoves, Sources, Kinds
  <2> QED
    BY <2>1, <2>2, <2>3, PathsOfThreads DEF RowsAndFiles
<1>3. CASE \E j \in Queued : Take(j)
  <2>1. PICK j \in Job : Take(j)
    BY <1>3 DEF Queued
  <2>2. P'.at \in {"check", "reject", "idle"} /\ UNCHANGED <<where, owner, deleting>>
    BY <2>1, Takes, PathsOfThreads DEF Take, disk
  <2> QED
    BY <2>2 DEF RowsAndFiles
<1>4. CASE \E d \in Deletion, i \in Id : Delete(d, i)
  <2>1. PICK d \in Deletion, i \in Id : Delete(d, i)
    BY <1>4
  <2>2. /\ deleting'[d].at = "found" /\ deleting'[d].id = i /\ owner[i] # NULL
        /\ \A e \in Deletion \ {d} : deleting'[e] = deleting[e]
        /\ UNCHANGED <<where, owner>> /\ P' = P
    BY <2>1, Deletes DEF P
  <2>3. PICK f \in File : where[f] = Orig(i)
    BY <2>2 DEF RowsAndFiles
  <2>4. \A g \in File : SampleOf[g] = i[2] => where[g] \notin Source \cup {Nowhere}
    <3>1. SampleOf[f] = i[2]
      BY <2>3 DEF SampleInv
    <3>2. \A g \in File : SampleOf[g] = i[2] => g = f
      BY <3>1 DEF NoCopies
    <3> QED
      BY <2>3, <3>2, Sources, Kinds
  <2> QED
    BY <2>2, <2>4 DEF RowsAndFiles
<1>5. CASE \E d \in Deletion : DeleteRow(d)
  <2>1. PICK d \in Deletion : DeleteRow(d)
    BY <1>5
  <2>2. /\ deleting[d] # Idle /\ deleting[d].id \in Id
        /\ deleting'[d].at = "unlisted" /\ deleting'[d].id = deleting[d].id
        /\ \A e \in Deletion \ {d} : deleting'[e] = deleting[e]
        /\ owner'[deleting[d].id] = NULL
        /\ \A i \in Id \ {deleting[d].id} : owner'[i] = owner[i]
        /\ UNCHANGED where /\ P' = P
    BY <2>1, Deletes DEF P
  <2>3. \A i \in Id : owner[i] = NULL => owner'[i] = NULL
    BY <2>2
  <2>4. \A e \in Deletion : deleting[e] # Idle => deleting[e].id \in Id
    BY DEF TypeOK, Deleting
  <2>5. \A e \in Deletion : deleting'[e] # Idle => deleting[e] # Idle /\ deleting'[e].id = deleting[e].id
    BY <2>2
  <2> QED
    BY <2>2, <2>3, <2>4, <2>5, PathsOfThreads DEF RowsAndFiles, Ingesting
<1>6. CASE \E d \in Deletion : MoveToTrash(d)
  <2>1. PICK d \in Deletion : MoveToTrash(d)
    BY <1>6
  <2>2. /\ deleting[d].at = "unlisted" /\ deleting[d] # Idle /\ deleting[d].id \in Id
        /\ \A f \in File : where'[f] = IF where[f] = Orig(deleting[d].id) THEN Trash ELSE where[f]
        /\ deleting'[d] = Idle
        /\ \A e \in Deletion \ {d} : deleting'[e] = deleting[e]
        /\ UNCHANGED owner /\ P' = P
    BY <2>1, Deletes DEF P
  <2>3. owner[deleting[d].id] = NULL /\ (P.at = "insert" => P.id # deleting[d].id)
    BY <2>2 DEF RowsAndFiles
  <2>4. \A i \in Id, f \in File : where[f] = Orig(i) /\ i # deleting[d].id => where'[f] = Orig(i)
    BY <2>2, Kinds
  <2>5. \A f \in File : where[f] \notin Source \cup {Nowhere} => where'[f] \notin Source \cup {Nowhere}
    BY <2>2, Sources, Kinds
  <2>6. \A e \in Deletion : deleting'[e] # Idle => deleting[e] # Idle /\ deleting'[e] = deleting[e]
    BY <2>2
  <2> QED
    BY <2>2, <2>3, <2>4, <2>5, <2>6, PathsOfThreads DEF RowsAndFiles, Ingesting
<1>7. CASE \E i \in Id, u \in User : Transfer(i, u)
  <2>1. (\A j \in Id : owner'[j] = NULL <=> owner[j] = NULL) /\ UNCHANGED <<where, deleting>> /\ P' = P
    BY <1>7, Transfers DEF P
  <2>2. \A e \in Deletion : deleting[e] # Idle => deleting[e].id \in Id
    BY DEF TypeOK, Deleting
  <2> QED
    BY <2>1, <2>2, PathsOfThreads DEF RowsAndFiles, Ingesting
<1>8. CASE Restart
  <2>1. UNCHANGED <<where, owner>> /\ P' = Idle /\ \A d \in Deletion : deleting'[d] = Idle
    BY <1>8 DEF Restart, disk, P, TypeOK
  <2> QED
    BY <2>1 DEF RowsAndFiles, Idle
<1>9. CASE \/ \E f \in File : Drop(f) \/ ReceiveUpload(f)
           \/ \E n \in Name : Poll(n) \/ Forget(n)
           \/ \E u \in User : ReceiveNothing(u)
           \/ \E j \in Queued : ReadMetadata(j)
           \/ UNCHANGED vars
  <2>1. /\ UNCHANGED <<owner, deleting>> /\ P' = P
        /\ \A f \in File : where[f] # Nowhere => where'[f] = where[f]
    BY <1>9, Leaves
  <2>2. \A i \in Id, f \in File : where[f] = Orig(i) => where'[f] = Orig(i)
    BY <2>1, Kinds
  <2> QED
    BY <2>1, <2>2, PathsOfThreads DEF RowsAndFiles, Ingesting
<1> QED
  BY <1>1, <1>2, <1>3, <1>4, <1>5, <1>6, <1>7, <1>8, <1>9 DEF Next

-----------------------------------------------------------------------------
(* Theorems *)

\* All parts of the invariant together.
LEMMA Preserved == IInv /\ [Next]_vars => IInv'
  BY NextType, NextPlace, NextFresh, NextPrompt, NextSample, NextKept, NextDangling, NextRow DEF IInv

\* Every reachable state satisfies the inductive invariant.
THEOREM Invariant == Spec => []IInv
  BY Initial, Preserved, PTL DEF Spec

\* Every variable keeps to its type: among others, the queues of equal submissions keep to their bound.
THEOREM TypeCorrect == Spec => []TypeOK
<1>1. IInv => TypeOK
  BY DEF IInv
<1> QED
  BY <1>1, Invariant, PTL

\* Where the monitor rejects nothing, whatever is deleted or overwritten has a copy on the disk, for
\* any files, copies, deletions, submissions and restarts.
THEOREM ContentKeptHolds == Spec => []ContentKept
<1>1. IInv => ContentKept
  BY DEF IInv, KeptInv, ContentKept
<1> QED
  BY <1>1, Invariant, PTL

\* Until a restart, a file of a registered user that is among the media files while all is quiet has
\* its row.
THEOREM NothingDanglingHolds == Spec => []NothingDangling
<1>1. IInv => NothingDangling
  <2> SUFFICES ASSUME IInv,
                      \A w \in DOMAIN doing : doing[w] = Idle,
                      \A d \in Deletion : deleting[d] = Idle,
                      restarts = 0,
                      NEW i \in Id, At(Orig(i)) # {}, i[1] \in Registered
               PROVE  owner[i] # NULL
    BY DEF NothingDangling
  <2>1. PICK f \in File : where[f] = Orig(i)
    BY DEF At
  <2>2. P.at = "idle" /\ \A d \in Deletion : deleting[d].at = "idle"
    BY DEF IInv, TypeOK, P, Idle
  <2> QED
    BY <2>1, <2>2 DEF IInv, DanglingInv
<1> QED
  BY <1>1, Invariant, PTL

\* Where submissions are prompt, what is among a user's media files came from that user.
THEOREM IngestedForItsUserHolds == Spec => []IngestedForItsUser
<1>1. IInv => IngestedForItsUser
  BY DEF IInv, PromptInv, OnePerPath, IngestedForItsUser, At
<1> QED
  BY <1>1, Invariant, PTL

\* Where submissions are prompt and no file has a copy, every row of the database has its file, through
\* all deletions and restarts.
THEOREM RowHasFileHolds == NoCopies => (Spec => []RowHasFile)
<1> SUFFICES ASSUME NoCopies PROVE Spec => []RowHasFile
  OBVIOUS
<1>1. IInv => RowHasFile
  <2> SUFFICES ASSUME IInv, scene.prompt, NEW i \in Id, owner[i] # NULL
               PROVE  \E f \in At(Orig(i)) : SampleOf[f] = i[2]
    BY DEF RowHasFile
  <2>1. PICK f \in File : where[f] = Orig(i)
    BY DEF IInv, RowInv, RowsAndFiles
  <2>2. SampleOf[f] = i[2]
    BY <2>1 DEF IInv, SampleInv, Calm
  <2> QED
    BY <2>1, <2>2 DEF At
<1> QED
  BY <1>1, Invariant, PTL
=============================================================================
