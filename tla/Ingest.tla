------------------------------- MODULE Ingest -------------------------------
(***************************************************************************)
(* How media files get into the system and out of it: the HTTP upload, the *)
(* monitor of the incoming directory, the metadata reader, the ingestion   *)
(* on the thread of the video pipeline, the clean-up of rejected files,    *)
(* and the deletion of media files by users.                               *)
(*                                                                         *)
(* Nothing but the file system and the database ties these together.  A    *)
(* step is one call to either: existence is checked in one step and the    *)
(* file renamed in another, and a restart may come between any two.        *)
(*                                                                         *)
(* A media file id is a hash of the user id and of what is sampled of the  *)
(* file (name, size, cookies, the first 32 kB); hashes are taken not to    *)
(* collide.  The monitor's waiting for a file to stop growing, and         *)
(* transcoding, are not modelled: files are delivered whole, and an upload *)
(* that breaks off, which is removed again, is not delivered.              *)
(***************************************************************************)
EXTENDS Naturals

CONSTANTS File,         \* the files ever delivered
          Uploaded,     \* those that come by HTTP; the others are put in the incoming directory
          Unreadable,   \* those the metadata reader cannot make sense of
          Unnamed,      \* those in the incoming directory whose OS user has no name
          LooksEmpty,   \* those of 4096 bytes, or of one at most, which the monitor takes for empty
          NameOf,       \* the file name of each
          UserOf,       \* the user each comes from
          SampleOf,     \* what of each file goes into its id
          Registered,   \* users with a row in the users table
          Deletion,     \* threads that delete media files for users
          Scene,        \* what happens: the files that are delivered, the threads that delete, whether
                        \* a submission is always dealt with before the file is submitted again, and
                        \* whether requests come that carry no file
          MaxJobs,      \* bound: equal submissions under way
          MaxRestarts,  \* bound: restarts of the server
          NULL

Name == {NameOf[f] : f \in File}
User == {UserOf[f] : f \in File}
Id == User \X {SampleOf[f] : f \in File}

ASSUME IngestAssumption ==
    /\ Uploaded \cup Unreadable \cup Unnamed \cup LooksEmpty \subseteq File
    /\ Uploaded \cap Unnamed = {}
    /\ DOMAIN NameOf = File /\ DOMAIN UserOf = File /\ DOMAIN SampleOf = File
    /\ \A f, g \in File : SampleOf[f] = SampleOf[g] => NameOf[f] = NameOf[g]
    /\ \A c \in Scene : /\ c.files \subseteq File /\ c.deletions \subseteq Deletion
                         /\ c.prompt \in BOOLEAN /\ c.empty \in BOOLEAN
    /\ MaxJobs \in Nat \ {0} /\ MaxRestarts \in Nat
    /\ NULL \notin User \cup Id

\* Where a file can be.  Trash directories are never shared; the rejected directory has
\* subdirectories named by media id or by a fresh UUID, for which the file itself stands.
Incoming(n) == <<"incoming", n>>
Upload(f) == <<"upload", f>>
Orig(i) == <<"orig", i>>
Rejected(n) == <<"rejected", n>>
ById(i) == <<"byId", i>>
ByUuid(f) == <<"byUuid", f>>
Trash == <<"trash">>
Gone == <<"gone">>
Nowhere == <<"nowhere">>

\* The empty path that is submitted for a request without a file: no file is ever there.
NoFile == <<"none">>

Source == {Incoming(n) : n \in Name} \cup {Upload(f) : f \in Uploaded}
Place == Source \cup {Orig(i) : i \in Id} \cup {Rejected(n) : n \in Name}
         \cup {ById(i) : i \in Id} \cup {ByUuid(f) : f \in File} \cup {Trash, Gone, Nowhere}

Job == [path : Source \cup {NoFile}, user : User, stage : {"sent", "read", "failed"}]

Idle == [at |-> "idle"]
Doing == {Idle}
         \cup [at : {"check", "lookup", "wipe", "create", "move", "insert"}, path : Source, user : User, id : Id]
         \cup [at : {"reject"}, path : Source, id : Id \cup {NULL}]
         \cup [at : {"rename"}, path : Source, to : Place]

Deleting == {Idle} \cup [at : {"found", "unlisted"}, id : Id]

VARIABLES
    scene,      \* never changes
    where,      \* the place of each file
    dirs,       \* the media ids with a directory under videos/
    owner,      \* user_id of each row of media_files, NULL where there is none
    jobs,       \* how many of each submission are queued, for the metadata reader or from it
    submitted,  \* the monitor's submission_time
    doing,      \* what the threads of the pipeline and of the monitor are at
    deleting,   \* what the threads that delete are at
    restarts

vars == <<scene, where, dirs, owner, jobs, submitted, doing, deleting, restarts>>
disk == <<scene, where, dirs>>

TypeOK ==
    /\ scene \in Scene
    /\ where \in [File -> Place]
    /\ dirs \subseteq Id
    /\ owner \in [Id -> User \cup {NULL}]
    /\ jobs \in [Job -> 0..MaxJobs]
    /\ submitted \subseteq Name
    /\ doing \in [{"pipeline", "monitor"} -> Doing]
    /\ deleting \in [Deletion -> Deleting]
    /\ restarts \in 0..MaxRestarts

Init ==
    /\ scene \in Scene
    /\ where = [f \in File |-> Nowhere]
    /\ dirs = {}
    /\ owner = [i \in Id |-> NULL]
    /\ jobs = [j \in Job |-> 0]
    /\ submitted = {}
    /\ doing = [w \in {"pipeline", "monitor"} |-> Idle]
    /\ deleting = [d \in Deletion |-> Idle]
    /\ restarts = 0

-----------------------------------------------------------------------------
At(p) == {f \in File : where[f] = p}

\* rename(2): what was at the destination is gone.
Moved(p, q) == [f \in File |-> IF where[f] = p THEN q ELSE IF where[f] = q THEN Gone ELSE where[f]]

Become(w, state) == doing' = [doing EXCEPT ![w] = state]

NameAt(p) == IF p[1] = "upload" THEN NameOf[p[2]] ELSE p[2]

SentJob(p, u) == [path |-> p, user |-> u, stage |-> "sent"]

Pending(p) == (\E j \in Job : j.path = p /\ jobs[j] > 0)
              \/ \E w \in DOMAIN doing : doing[w] # Idle /\ doing[w].path = p

Put(j) == jobs' = [jobs EXCEPT ![j] = @ + 1]

-----------------------------------------------------------------------------
(* Files come in *)

\* A file is put in the incoming directory, under a name that is free there.
Drop(f) ==
    /\ f \in scene.files \ Uploaded
    /\ where[f] = Nowhere
    /\ At(Incoming(NameOf[f])) = {}
    /\ where' = [where EXCEPT ![f] = Incoming(NameOf[f])]
    /\ UNCHANGED <<scene, dirs, owner, jobs, submitted, doing, deleting, restarts>>

\* handle_multipart_upload, for each file of a request: it gets a directory of its own.  The last
\* one is handed to the pipeline; one that others follow, or a field that is refused, is not.
ReceiveUpload(f) ==
    /\ f \in scene.files \cap Uploaded
    /\ where[f] = Nowhere
    /\ where' = [where EXCEPT ![f] = Upload(f)]
    /\ Put(SentJob(Upload(f), UserOf[f])) \/ UNCHANGED jobs
    /\ UNCHANGED <<scene, dirs, owner, submitted, doing, deleting, restarts>>

\* A request in which there was no file is handed over too, with an empty path.
ReceiveNothing(u) ==
    /\ scene.empty
    /\ jobs[SentJob(NoFile, u)] < MaxJobs
    /\ Put(SentJob(NoFile, u))
    /\ UNCHANGED <<disk, owner, submitted, doing, deleting, restarts>>

\* A mutant: the time of the submission is not kept.
SubmitAgain(n) ==
    /\ doing["monitor"] = Idle
    /\ n \notin submitted
    /\ \E f \in At(Incoming(n)) \ (Unnamed \cup LooksEmpty) :
          /\ jobs[SentJob(Incoming(n), UserOf[f])] < MaxJobs
          /\ Put(SentJob(Incoming(n), UserOf[f]))
    /\ UNCHANGED <<disk, owner, submitted, doing, deleting, restarts>>

\* The monitor submits a file that it has not submitted lately, for its OS owner, unless its size
\* is that of an empty file ("sz > 1 && sz != 4096").
Submit(n) ==
    /\ doing["monitor"] = Idle
    /\ n \notin submitted
    /\ \E f \in At(Incoming(n)) \ (Unnamed \cup LooksEmpty) :
          /\ jobs[SentJob(Incoming(n), UserOf[f])] < MaxJobs
          /\ Put(SentJob(Incoming(n), UserOf[f]))
    /\ submitted' = submitted \cup {n}
    /\ UNCHANGED <<disk, owner, doing, deleting, restarts>>

\* resubmit_delay is over.  The clock knows nothing of what became of the submission.
Forget(n) ==
    /\ n \in submitted
    /\ scene.prompt => ~Pending(Incoming(n))
    /\ submitted' = submitted \ {n}
    /\ UNCHANGED <<disk, owner, jobs, doing, deleting, restarts>>

\* "Cannot ingest. Failed to get owner's name for file.": the monitor cleans up on its own thread.
Refuse(n) ==
    /\ doing["monitor"] = Idle
    /\ n \notin submitted
    /\ (At(Incoming(n)) \cap Unnamed) \ LooksEmpty # {}
    /\ Become("monitor", [at |-> "reject", path |-> Incoming(n), id |-> NULL])
    /\ UNCHANGED <<disk, owner, jobs, submitted, deleting, restarts>>

\* The metadata reader has several workers, so submissions may overtake each other.
ReadMetadata(j) ==
    /\ j.stage = "sent"
    /\ jobs[j] > 0
    /\ LET stage == IF At(j.path) \ Unreadable # {} THEN "read" ELSE "failed"
       IN  /\ jobs[[j EXCEPT !.stage = stage]] < MaxJobs
           /\ jobs' = [jobs EXCEPT ![j] = @ - 1, ![[j EXCEPT !.stage = stage]] = @ + 1]
    /\ UNCHANGED <<disk, owner, submitted, doing, deleting, restarts>>

-----------------------------------------------------------------------------
(* The thread of the pipeline *)

Reject(path, id) == Become("pipeline", [at |-> "reject", path |-> path, id |-> id])

Step(from) == doing["pipeline"].at = from

Onto(at) == Become("pipeline", [doing["pipeline"] EXCEPT !.at = at])

\* A mutant: failures of the metadata reader are only logged.
TakeIfRead(j) ==
    /\ Step("idle")
    /\ j.stage # "sent"
    /\ jobs[j] > 0
    /\ jobs' = [jobs EXCEPT ![j] = @ - 1]
    /\ IF j.stage = "read" /\ At(j.path) # {}
       THEN \E f \in At(j.path) :
               Become("pipeline", [at |-> "check", path |-> j.path, user |-> j.user,
                                   id |-> <<j.user, SampleOf[f]>>])
       ELSE UNCHANGED doing
    /\ UNCHANGED <<disk, owner, submitted, deleting, restarts>>

\* A result of the metadata reader: the id is computed from the file as it is now, if it still is there.
\* An empty path has no file name to be cleaned up under, which is an error of its own.
Take(j) ==
    /\ Step("idle")
    /\ j.stage # "sent"
    /\ jobs[j] > 0
    /\ jobs' = [jobs EXCEPT ![j] = @ - 1]
    /\ IF j.stage = "read" /\ At(j.path) # {}
       THEN \E f \in At(j.path) :
               Become("pipeline", [at |-> "check", path |-> j.path, user |-> j.user,
                                   id |-> <<j.user, SampleOf[f]>>])
       ELSE IF j.path = NoFile THEN UNCHANGED doing ELSE Reject(j.path, NULL)
    /\ UNCHANGED <<disk, owner, submitted, deleting, restarts>>

\* ingest_media_file: is there a directory for the id?
CheckDir ==
    /\ Step("check")
    /\ Onto(IF doing["pipeline"].id \in dirs THEN "lookup" ELSE "create")
    /\ UNCHANGED <<disk, owner, jobs, submitted, deleting, restarts>>

\* There is: "User already has this media file", or somebody else does (to whom the organizer gave
\* it), or the directory is a leftover.
LookUp ==
    LET p == doing["pipeline"]
    IN  /\ Step("lookup")
        /\ CASE owner[p.id] = p.user -> Reject(p.path, p.id)
             [] owner[p.id] = NULL -> Onto("wipe")
             [] OTHER -> Reject(p.path, NULL)
        /\ UNCHANGED <<disk, owner, jobs, submitted, deleting, restarts>>

\* "Dir exists, but not in DB. Deleting old dir and reprocessing."  If it has gone by itself, that
\* is an error.
Wipe ==
    LET p == doing["pipeline"]
    IN  /\ Step("wipe")
        /\ where' = Moved(Orig(p.id), Gone)
        /\ dirs' = dirs \ {p.id}
        /\ IF p.id \in dirs THEN Onto("create") ELSE Reject(p.path, NULL)
        /\ UNCHANGED <<scene, owner, jobs, submitted, deleting, restarts>>

\* Only this thread makes these directories.
CreateDir ==
    /\ Step("create")
    /\ dirs' = dirs \cup {doing["pipeline"].id}
    /\ Onto("move")
    /\ UNCHANGED <<scene, where, owner, jobs, submitted, deleting, restarts>>

MoveToOrig ==
    LET p == doing["pipeline"]
    IN  /\ Step("move")
        /\ IF At(p.path) # {} /\ p.id \in dirs
           THEN where' = Moved(p.path, Orig(p.id)) /\ Onto("insert")
           ELSE UNCHANGED where /\ Reject(p.path, NULL)
        /\ UNCHANGED <<scene, dirs, owner, jobs, submitted, deleting, restarts>>

\* A mutant: orig_filename and user_id are both strings, and easily swapped.
InsertSwapped ==
    LET p == doing["pipeline"]
    IN  /\ Step("insert")
        /\ owner' = [owner EXCEPT ![p.id] = NameAt(p.path)]
        /\ Become("pipeline", Idle)
        /\ UNCHANGED <<disk, jobs, submitted, deleting, restarts>>

\* The row.  It refers to the users table; a user unknown there, or a row that is there already,
\* fails the ingestion, when the file has already been moved.
InsertRow ==
    LET p == doing["pipeline"]
    IN  /\ Step("insert")
        /\ IF p.user \in Registered /\ owner[p.id] = NULL
           THEN owner' = [owner EXCEPT ![p.id] = p.user] /\ Become("pipeline", Idle)
           ELSE UNCHANGED owner /\ Reject(p.path, NULL)
        /\ UNCHANGED <<disk, jobs, submitted, deleting, restarts>>

-----------------------------------------------------------------------------
(* clean_up_rejected_file, on the thread of the pipeline or of the monitor *)

\* A mutant: the destination is not looked at.
RejectBlindly(w) ==
    /\ doing[w].at = "reject"
    /\ Become(w, [at |-> "rename", path |-> doing[w].path, to |-> Rejected(NameAt(doing[w].path))])
    /\ UNCHANGED <<disk, owner, jobs, submitted, deleting, restarts>>

\* Where to: the rejected directory, or, when the name is taken there, a subdirectory.
RejectWhere(w) ==
    LET p == doing[w]
        n == NameAt(p.path)
    IN  /\ p.at = "reject"
        /\ \/ /\ At(Rejected(n)) = {}
              /\ Become(w, [at |-> "rename", path |-> p.path, to |-> Rejected(n)])
           \/ /\ At(Rejected(n)) # {}
              /\ \E f \in At(p.path) :
                    Become(w, [at |-> "rename", path |-> p.path,
                               to |-> IF p.id = NULL THEN ByUuid(f) ELSE ById(p.id)])
           \/ /\ At(Rejected(n)) # {} /\ At(p.path) = {}
              /\ Become(w, Idle)
        /\ UNCHANGED <<disk, owner, jobs, submitted, deleting, restarts>>

\* In a subdirectory there may be a file of that id already, of the same size then: the new one is
\* deleted.  A source that is gone is an error, of which a message tells.
RejectRename(w) ==
    LET p == doing[w]
    IN  /\ p.at = "rename"
        /\ where' = IF p.to[1] = "byId" /\ At(p.to) # {} THEN Moved(p.path, Gone)
                    ELSE IF At(p.path) # {} THEN Moved(p.path, p.to)
                    ELSE where
        /\ Become(w, Idle)
        /\ UNCHANGED <<scene, dirs, owner, jobs, submitted, deleting, restarts>>

-----------------------------------------------------------------------------
(* del_media_file_and_cleanup *)

\* A mutant: the row stays.
DeleteKeepsRow(d, i) ==
    /\ d \in scene.deletions
    /\ deleting[d] = Idle
    /\ owner[i] # NULL
    /\ deleting' = [deleting EXCEPT ![d] = [at |-> "unlisted", id |-> i]]
    /\ UNCHANGED <<disk, owner, jobs, submitted, doing, restarts>>

\* The row is read and the organizer asked for leave; a refusal ends it with nothing changed.
Delete(d, i) ==
    /\ d \in scene.deletions
    /\ deleting[d] = Idle
    /\ owner[i] # NULL
    /\ deleting' = [deleting EXCEPT ![d] = [at |-> "found", id |-> i]]
    /\ UNCHANGED <<disk, owner, jobs, submitted, doing, restarts>>

\* The row goes, or another one with its id that has come in the meantime.
DeleteRow(d) ==
    /\ deleting[d].at = "found"
    /\ owner' = [owner EXCEPT ![deleting[d].id] = NULL]
    /\ deleting' = [deleting EXCEPT ![d].at = "unlisted"]
    /\ UNCHANGED <<disk, jobs, submitted, doing, restarts>>

\* A mutant: an error of the backup ends it here.
LeaveDir(d) ==
    /\ deleting[d].at = "unlisted"
    /\ deleting' = [deleting EXCEPT ![d] = Idle]
    /\ UNCHANGED <<disk, owner, jobs, submitted, doing, restarts>>

\* And then the directory is moved to the trash, if it is there.
MoveToTrash(d) ==
    LET i == deleting[d].id
    IN  /\ deleting[d].at = "unlisted"
        /\ where' = [f \in File |-> IF where[f] = Orig(i) THEN Trash ELSE where[f]]
        /\ dirs' = dirs \ {i}
        /\ deleting' = [deleting EXCEPT ![d] = Idle]
        /\ UNCHANGED <<scene, owner, jobs, submitted, doing, restarts>>

\* The organizer makes another user the owner, moving the file to that user's folder.
Transfer(i, u) ==
    /\ owner[i] # NULL
    /\ u \in Registered \cap {UserOf[f] : f \in scene.files}
    /\ owner' = [owner EXCEPT ![i] = u]
    /\ UNCHANGED <<disk, jobs, submitted, doing, deleting, restarts>>

-----------------------------------------------------------------------------
\* The server stops between two steps and starts again: the disk and the database is all there is.
Restart ==
    /\ restarts < MaxRestarts
    /\ restarts' = restarts + 1
    /\ jobs' = [j \in Job |-> 0]
    /\ submitted' = {}
    /\ doing' = [w \in DOMAIN doing |-> Idle]
    /\ deleting' = [d \in Deletion |-> Idle]
    /\ UNCHANGED <<disk, owner>>

Clean(w) == RejectWhere(w) \/ RejectRename(w)

Go == CheckDir \/ LookUp \/ Wipe \/ CreateDir \/ MoveToOrig \/ InsertRow \/ Clean("pipeline")

Poll(n) == Submit(n) \/ Refuse(n)

Queued == {j \in Job : jobs[j] > 0}

Next ==
    \/ \E f \in File : Drop(f) \/ ReceiveUpload(f)
    \/ \E u \in User : ReceiveNothing(u)
    \/ \E n \in Name : Poll(n) \/ Forget(n)
    \/ \E j \in Queued : ReadMetadata(j) \/ Take(j)
    \/ Go
    \/ Clean("monitor")
    \/ \E d \in Deletion : (\E i \in Id : Delete(d, i)) \/ DeleteRow(d) \/ MoveToTrash(d)
    \/ \E i \in Id, u \in User : Transfer(i, u)
    \/ Restart

Spec == Init /\ [][Next]_vars

\* The pipeline, the reader's pool and the monitor have threads of their own, which take what is
\* there; every poll goes through all files, so a file that could be submitted again and again is.
\* The queues are served in order, so requests without a file do not keep the others back.  Users
\* need do nothing, and the server need not restart.
FairSpec ==
    /\ Spec
    /\ WF_vars(\E j \in Queued : j.path # NoFile /\ ReadMetadata(j))
    /\ WF_vars(\E j \in Queued : j.path # NoFile /\ Take(j))
    /\ WF_vars(Go)
    /\ WF_vars(Clean("monitor"))
    /\ \A n \in Name : SF_vars(Poll(n)) /\ WF_vars(Forget(n))

-----------------------------------------------------------------------------
(* Properties *)

\* What a user delivered is not lost: when a file is deleted or overwritten, wherever the server
\* stopped and whatever was deleted meanwhile, another copy is on the disk.  That is so while the
\* monitor does not reject files itself: it does that beside the pipeline, and either may take the
\* name in the rejected directory that the other has just found free.
ContentKept ==
    scene.files \cap Unnamed = {} =>
        \A f \in File : where[f] = Gone =>
            \E g \in File : SampleOf[g] = SampleOf[f] /\ where[g] \notin {Gone, Nowhere}

\* A media file of the database is there to be played: its original is in its directory, after a
\* restart at whatever moment too.
RowHasFile ==
    scene.prompt => \A i \in Id : owner[i] # NULL => \E f \in At(Orig(i)) : SampleOf[f] = i[2]

\* While nothing is going on, no file is among the media files without a row in the database: what
\* could not be ingested is in the rejected directory, and what was deleted in the trash.  Files of
\* users without a row of their own are left there, for the row of a media file refers to its user's.
NothingDangling ==
    /\ \A w \in DOMAIN doing : doing[w] = Idle
    /\ \A d \in Deletion : deleting[d] = Idle
    /\ restarts = 0
    => \A i \in Id : At(Orig(i)) # {} /\ i[1] \in Registered => owner[i] # NULL

\* Files are ingested for the user they came from.
IngestedForItsUser == scene.prompt => \A i \in Id : \A f \in At(Orig(i)) : UserOf[f] = i[1]

\* Whatever becomes of the processing, a file put in the incoming directory does not stay there,
\* though the server be restarted, unless it has the size of an empty one; nor does an upload that
\* was handed to the pipeline stay in its directory, unless the server was restarted.
FilesAreHandled ==
    /\ \A n \in Name : At(Incoming(n)) \ LooksEmpty # {} ~> At(Incoming(n)) \subseteq LooksEmpty
    /\ \A f \in Uploaded : At(Upload(f)) # {} /\ Pending(Upload(f)) ~> At(Upload(f)) = {} \/ restarts > 0
=============================================================================
