# Clapshot in TLA+

Clapshot is a self-hosted tool for reviewing video: users upload media files, the server ingests and
transcodes them, and any number of browsers show a file, comment on it and play it together.  This directory
holds specifications of the server, of its organizer plug-in and of what they share with the browsers, the
TLC configurations that check them, and the proofs that TLAPS checks.

Paths are relative to the root of the repository.  Everything is translated from the code; where a comment
or a document says something else, that is recorded under *Findings*.

    tlc -workers 2 -config MCSessions_lists.cfg MCSessions.tla   # one run
    tlapm SessionsProofs.tla                                     # one module of proofs

## 1. The system

| component | code | state it keeps | operations | modules |
|---|---|---|---|---|
| session registry and collabs | `src/server/src/api_server/server_state.rs`, `user_session.rs` | five maps under read-write locks: session id -> session, user -> senders, media file -> senders, collab -> senders, collab -> media file | register, link to a file, join and leave a collab, send to a list; entries go with the drop of a guard | Sessions, SessionLocks |
| life of a session | `api_server/mod.rs` (`handle_ws_session`) | a channel, the session's own copy of itself | connect, login, handle a command, logout or loss, drops | Sessions |
| comments | `api_server/ws_handers.rs`, `src/client/src/App.svelte` | rows; a queue to each browser; what it shows | open, comment, edit, delete | CommentSync |
| ingestion, deletion | `video_pipeline/mod.rs`, `incoming_monitor.rs`, `metadata_reader.rs`, `cleanup_rejected.rs`, `api_server/file_upload.rs` | directories `incoming`, `upload`, `videos/<id>`, `rejected`; queues; the monitor's memory of submissions | upload, poll, read metadata, hash, move, insert, reject, delete | Ingest |
| transcoding, thumbnails | `video_pipeline/mod.rs`, `ffmpeg_processor.rs` | queues, a pool of workers, progress, flags in `media_files` | queue, transcode, link and mark the result, thumbnail old files | Transcoding |
| migrations | `lib.rs` (`migrate_db`), `database/migration_solver.rs`, `database/db_backup.rs`, the organizer's `database/migrations.py` | schema versions of server and organizer, a backup | solve an order, back up, apply, check, restore | Migrate |
| start and end | `lib.rs`, `api_server/mod.rs`, `video_pipeline/mod.rs`, `grpc/` | threads, tasks, the termination flag | start, handshakes both ways, poll, join | Lifecycle |
| organizer (basic folders) | `src/organizer/basic_folders/organizer/` | folders and their items in the same database | pages, make, move, trash, give away, repair | Folders |
| database | `src/server/src/database/` | SQLite tables | statements, retried while the file is locked; paging | steps of the others |
| browser | `src/client/src/` | file and comments on the screen, player, collab id, socket, cookies | messages, reconnection, collab playback, time codes | CommentSync, in part |

The parts meet in four places.  Browsers send commands over a WebSocket, and every session has one unbounded channel
back, which keeps order.  Server threads share the maps of the registry and the database, and take locks for one
access each.  The pipeline and the API server share the file system and the database, and two queues.
The server asks the organizer before most commands (an await in the middle of each handler), and the organizer
calls back, on other threads, to open files, show pages, delete files and send messages.

What is hard about it, and what makes each part correct:

* **Registry.**  One thread per session, more for the organizer's calls.  A session leaves the lists by chains of drops
  whose order follows from the order of declarations.  Correct: no list holds a sender whose receiver is gone (a
  broadcast stops at the first error); a session that is gone has left nothing; participants of a collab are all in
  front of one file; a session is listed for the file it watches; the locks cannot deadlock.
* **Comments.**  Handlers read, await, write and send without a lock around it.  Correct: when all is quiet, no viewer
  lacks a comment, and a screen shows one file's comments only.
* **Ingestion and deletion.**  Existence is checked in one step and a file is renamed in the next, by three
  threads; a restart may come between any two.  Correct: no content is lost, rows and files go together, every file
  that is handed over is dealt with, and for the right user.
* **Transcoding.**  Results of workers come when their media file may be gone, or there again.  Correct: what a row says of
  its files is so; whoever waits for a transcoding gets it or is told; files get their thumbnails.
* **Migrations.**  Correct: the order respects the dependencies, reaches the targets and is a shortest one; a failed start
  leaves the database as it was; an interrupted upgrade can go on.
* **Folders.**  Correct: what is in a folder belongs to its owner; one home per user, which has everything.
* **Start and end.**  Correct: nothing is served before the organizer is connected; no thread waits for one that waits
  for it; what the main thread joins has ended when it returns.

`PROJECT.json` lists the components with what is modelled of each, and the hazards at their lines with the properties
that watch them.

## 2. Modules

    CollabRooms <---implements--- SessionsRefinement --> Sessions       MCSessions        SessionsProofs
                                                         SessionLocks                     SessionLocksProofs
                                                         CommentSync    MCCommentSync     CommentSyncProofs
                                                         Ingest         MCIngest          IngestProofs
                                                         Transcoding    MCTranscoding     TranscodingProofs
    Upgrade <-------implements--- MigrateRefinement ---> Migrate        MCMigrate         MigrateProofs
                                                         Lifecycle                        LifecycleProofs
                                                         Folders        MCFolders         FoldersProofs

The `MC` modules hold what TLC needs only: symmetry, and values that a `.cfg` cannot write.  Definitions whose comment
begins *A mutant* or *Faulty* are operations with a plausible bug in them; no specification uses them, and each shows
that some property notices it.

### Sessions

The maps of `ServerState`, `handle_ws_session`, and the handlers that enter and leave the maps.  A step is what happens
under one lock or between two awaits.

| variables | code |
|---|---|
| `userSenders`, `sidMap`, `mediaSenders`, `collabSenders`, `collabMedia` | the five maps |
| `mediaGuard` | `media_session_guard` in the copy of the session kept in `sid_to_session` |
| `collabGuard`, `curCollab` | `collab_session_guard` and `cur_collab_id` of the session's own copy |
| `rxAlive` | the receiver `msgq_rx`, a local of `handle_ws_session` |
| `sidLock`, `collabLock` | the two locks held over more than one step |
| `pc`, `subject`, `want`, `wantCollab` | where a thread is in a handler, and its arguments |
| `joinedWith`, `sendFailed` | history: the file a session came to its collab with; whether any send failed |

`LinkPush` and `Relink` are the two halves of `link_session_to_media_file`, `JoinGC`, `JoinMap` and `JoinAdd` are
`link_session_to_collab`, and `DropUserGuard` to `DropReceiver` the end of a session in the order `DropAfter` of its
drops.  `ClientOpenMediaFile` is the organizer's call.  Every send is a test that the list has live receivers
only; what goes wrong after a failed send is not modelled, since it is proved that there is none.

`CollabRooms` is the abstract specification: a room belongs to whoever enters it empty, all its members
are in front of one file, and a person is in one room.  `SessionsRefinement` maps the registry to it.

### SessionLocks

The same calls as programs of lock steps over parking_lot's read-write locks: a writer first claims a lock, which shuts
out later readers, then waits for those inside.  It also has what Sessions leaves out, the reading locks of broadcasts and
of `client_show_user_message`.

### CommentSync

The comments table with its cascade, the handlers for opening, adding, editing and deleting
statement by statement, one ordered queue to each browser, and what `App.svelte` does with what arrives (`Receive`).
`viewers` and `guard` are the registry's lists, linked in one step (Sessions has the details, among them the session that
drops off its own list: `OpenLink` keeps that).  `doing` holds what a handler has read on its way.

### Ingest

`where` is the place of every file ever delivered, `dirs` and `owner` are the directories and the rows of media
files, `jobs` the queues to and from the metadata reader as a bag (its workers overtake each other), `submitted` the
monitor's memory, `doing` the states of the two threads that move files, `deleting` those of
the sessions that delete.  `CheckDir` to `InsertRow` are `ingest_media_file`, `RejectWhere` and
`RejectRename` are `clean_up_rejected_file`, `Delete` to `MoveToTrash` `del_media_file_and_cleanup`, and `Transfer` what the
organizer does to owners.  `Restart` forgets all but the disk and the database.  `ReceiveUpload` is one file of a request, which is
handed to the pipeline or, when others follow it in the request, is not; `ReceiveNothing` is a request without a file, for which
an empty path is handed over.  `LooksEmpty` are the files of a size that the monitor skips.

### Transcoding

`queue` is the input channel of the transcoder with the queue of its thread pool, `worker` the pool, `progress` and
`results` the two channels back, `pipeline` the place of the pipeline's thread in what it does for a result.  `rows` and
`marks` are the `media_files` table, `files`, `made` and `link` the directory of each media file: the originals, pictures,
transcodings, and what `video.mp4` points to.  `Ingest` and `Delete` are single steps here; `Ask` sends the requests.
`Start`, `Report` and `Finish` are a worker around FFmpeg; `Link`, `SetRecompressed`, `SetHasThumb` and so on are the
statements of the pipeline after a result, and `NextLegacy` and `FindNext` the chain of requests for files without thumbnails.
A worker whose directory was moved goes on writing into it where it is (`inPlace`).

### Migrate

`modules`, `plan` and `backup` are locals of `migrate_db`; `phase` is where it is.  `Search` is one call of
`depth_first_search`, with its tie-breaking, from a set of migrations done and the versions reached, and `Solution` the
recursive function of those calls; `ModulesOf` is the collection of what is pending on both sides.  `Apply` is one migration
in its transaction, `ApplyFails` its error before or after the commit, `CheckKeys` the check of foreign keys at the end,
`Restore` and `Unpack` the two halves of `restore_sqlite_database`, and `RestoreFails` and `UnpackFails` their errors, which end a
start as "unrestored"; `CutShort` is what an unpacking that stops half way leaves.  `Crash` comes anywhere, `Handshake` makes the organizer
open the file, which then refuses to look for migrations (`orgOpen`).

`Upgrade` is what starts promise of the database, whatever plan they follow.  There a start is one step: the database is served
as it is stored, or brought to the latest version of every schema; a start that fails and is undone is no step at all; one that is killed
or cannot undo what it did leaves some of the migrations done, the server's from the oldest, and all the data.  Only while a
backup is being restored can data, or everything, be lost.  `MigrateRefinement` maps Migrate to it: until a start has come up or was
killed, what is stored is what
it found (`storedOf`), because that is what the backup would bring back.

### Lifecycle

`main` is `run_clapshot` from the migration to the last join; `api`, `http`, `relay`, `grpc` what the thread of the API has in it;
`pipeline` and `monitor` the two threads of the pipeline that are joined, `helper` and `atWork` the metadata reader and the transcoder,
which nobody joins, and their pools; `sessions` and `upload` the clients; `organizer` and `connected` the
handshakes each way.  The flag is polled by all but the pipeline, which leaves when a channel it selects on is
disconnected (`Disconnected`, `WorkerDied`) or looks at the flag after an event (`Look`).  The second signal kills.

### Folders

`db` is one record, the organizer's view of the database: the owner and the parent of each folder, the user and the folder of
each media file.  The operators from `LookUp` to `Mend` are its transactions; the actions are the handlers, each with the
lookup of the home that ends it when the page shown is the home (`Show`), or without it when an admin's page is any other single
folder (`ShowOne`).  What awaits a call of the server has steps of
its own: the deletions of the files in a trashed folder (`bin`) and an admin's page of all homes (`homes`).

## 3. What is checked

Deadlock is checked except in the runs of Ingest, Transcoding, Lifecycle and Migrate, whose systems come
to an end (all files are dealt with, the process is over, nothing may fail any more), and in `MCSessionLocks_show`, which looks
for a deadlock by a liveness property.

| run | properties | what it shows |
|---|---|---|
| `MCSessions_lists` | `SendsNeverFail`, `NoStaleViewer`, `ClosedLeavesNothing`, `CollabAgreement`, `OneCollab`, `ImplementsRooms` | two sessions of one user, two files, two collabs, an organizer that opens files for sessions that may be closing: what is proved of Sessions, on a small instance |
| `MCSessions_live` | `RequestsEnd` | every handler and every closing session comes to its end |
| `MCSessionLocks_server` | `NoCircularWait` | three threads in any of nine calls |
| `MCCommentSync_sync` | `NothingMissed`, `CommentsArrive` | two sessions, two comments (one may be a reply), every operation: in the end no viewer lacks a comment, and each comment reaches each viewer that stays |
| `MCCommentSync_files` | `ScreensAgree`, `OneFileOnScreen` | two sessions and the organizer move between three files, one of them without playback, while comments are added: screens show one file and agree with the database exactly |
| `MCIngest_server` | `TypeOK`, `ContentKept`, `NothingDangling`, `RowHasFile`, `IngestedForItsUser`, `FilesAreHandled` | three scenes in one run: a file, a copy of it and an unreadable one, two deletions, a restart and repeated submissions; files of two users, of a user without a row and of nobody, a deletion, a restart; an upload among requests without a file, beside a file that looks empty |
| `MCTranscoding_server` | `TypeOK`, `MarksAreTrue`, `TranscodedOrTold`, `ThumbnailedAtLast` | one video ingested, deleted and ingested again at any moment, failures of FFmpeg, two workers, a restart; or, when all is calm, a video and an audio file of an older version beside a new video, or behind an image or audio of that version |
| `MCLifecycle_server` | `EndsInOrder`, `OrganizerFirst`, `BackchannelIsThere`, `Ends`, `UploadsAreTaken` | a session, two uploads, an organizer or none, one failure of whatever can fail, the metadata reader and the transcoder too, signals at any moment |
| `MCMigrate_server` | `PlanIsShortest`, `NoDeadEnd`, `FailureUndone`, `DataKept`, `ServedWhole`, `InOrder`, `ImplementsUpgrade`, `GetsDone` | 416 installations: a server of three versions, an organizer with a chain of two migrations or a chain and a shortcut and any version windows, four databases found; two failures or crashes anywhere in any number of starts, in their restorations too |
| `MCFolders_organizer` | `OwnersAgree`, `OneHome`, `LoopsAreMended`, `HomeHasAll` | a user and an admin, four folders, two files ingested and deleted by the server, restarts |

`PlanIsShortest` compares the search with its definition: `GoodOrders` enumerates all sequences of distinct migrations that
respect the windows and reach the targets.

**Bounds.**  In Sessions nothing is bounded but the sets: a session connects once and the identifiers are finite.  Two
sessions, one organizer call and two files contain every pair of racing drops, links and joins (two joiners with different
files at an empty collab among them); the proofs do without the sets.  In SessionLocks a circle of waiting
threads needs no more threads than locks it goes through, and no call holds more than two, so three
threads show a circle of two with a third thread between them; proved for any number.  In CommentSync
`MaxComments` bounds the comments ever made (two: a comment and its reply, or two at once) and `MaxInbox`
keeps handlers from starting while more than that many messages wait in a queue; a running handler still adds to them, so a queue holds
the messages of several
handlers, which is what the order of messages is about.  `MCCommentSync_files` gives up edits and deletions and the second
comment for the third file and the organizer.  In Ingest all files have one name, the only way they can meet in a
directory; `MaxJobs = 1` keeps one submission of a kind per stage, so the same path can be in the pipeline up to three
times (sent, read, being ingested); one restart comes at every step.  A file that looks empty has a scene of its own, since nothing
ever happens to it but
an upload of its name beside it.  In Transcoding `MaxIngests = 2` lets a file come again once while
requests for its first ingestion are anywhere; one report in the channel is enough for it to be late.  In Lifecycle one fault is one
death of any thread; what follows a death is what the run is about, and two signals may come besides; sessions
do nothing to each other, and two uploads are one that is queued while another is sent.  In Migrate two faults are a
failure and a crash or an error of its restoration, or two crashes in a row.  In Folders four folders are a home, a loop of two and one
below
or beside it, or two homes with a subfolder each; each user has one trash command under way at a time.  Files are permuted there, no
liveness being stated.

In the scenes of Ingest, `prompt` says that a submission is dealt with before `resubmit_delay` is over.  With it a file is
submitted again only after it was dealt with; `RowHasFile` and `IngestedForItsUser` are stated for such scenes, since a submission
overtaken by the resubmission is ingested for the user of the first file (hazard at `incoming_monitor.rs:39`).  In Transcoding
`calm` says that users delete nothing and FFmpeg does not fail; `ThumbnailedAtLast` is stated for it, and for the files that no audio
and no image is newer than (`Overtaken`): after one of these the chain of old files ends (§4).

**Fairness.**  In Sessions each task is strongly fair: it has its own thread, and the step it waits with is the taking
of a lock, which parking_lot hands over after half a millisecond of contention; this is what keeps a joiner from being
passed over for ever.  Clients are not fair: nobody has to ask for anything or leave.  In SessionLocks the same.
In CommentSync handlers and connections are weakly fair, and each step of a handler stays
enabled until it is taken.  In Ingest the threads of the pipeline, of the monitor and of the reader's pool are weakly
fair in what they do for files, requests without one being in the same ordered queues; so is the passing of the time after which a
submission is forgotten.  Only polling is strongly fair, name
by name, because a poll goes through all the files and the thread may in between be busy with another.
Deletions, uploads and restarts are not fair.  In Transcoding workers and the relay of reports are weakly fair, FFmpeg coming to an
end; the handling of results is strongly fair because `tokio::select!` chooses at random among the channels that are ready.
In Lifecycle every thread and task that polls is weakly fair, and so are the organizer that was called, a run of FFmpeg and an upload
under way (the
proxy before the server ends it, if nobody else); failures, new work of the threads that are not joined, signals and
new clients are not.  In Migrate the steps of a start are
weakly fair; that a server is started again with `--migrate`, and with a fresh organizer, is assumed of the administrator, which is
what `GetsDone` asks of one.

## 4. Findings

Each is a run that TLC must find violated.

| run | property | what happens |
|---|---|---|
| `MCSessions_reopen` | `ViewerIsRegistered` | opening the file that is open already lists the sender first and drops the old guard next, which takes it off the same list: that window hears of no further comment |
| `MCSessionLocks_show` | `CallsReturn` | `client_show_user_message` reads `sid_to_session` twice, one inside the other; a session that registers in between blocks both, for ever |

More behaviours of the code that the models show, without a run of their own:

* *Collabs.*  The mapping of a collab is collected under one lock and looked up under the next (`JoinGC`, `JoinMap`).  When the
  last participant leaves in between, the next joiner is turned away from an empty collab.
* *Comments.*  A reply made between the check for replies and the deletion (`DelCheck`, `DelRow`, `ws_handers.rs:364`) goes with
  the comment, by the cascade, and nobody is told.  A comment read for an opening (`OpenRead`) that is deleted, and announced as
  deleted, before it is sent stays on the new viewer's screen.  Of two edits of one comment at once the older text may be sent
  last and stay on the screens.  `ScreensAgree` is checked without edits and deletions for these reasons.
* *Ingestion.*  A file of an OS user who never connected is moved first and has its row refused next
  (`video_pipeline/mod.rs:174`); the clean-up looks for it where it was, and it stays among the media files without a row.
  `NothingDangling` speaks of registered users. The pipeline and the monitor may reject two files of one name at once, and the
  second rename replaces the first file (`cleanup_rejected.rs:17`); `ContentKept` speaks of files that the monitor does not
  reject.  A copy that arrives between the two steps of a deletion has its new directory moved to the trash and keeps its new row;
  `RowHasFile` is checked without copies. A file of 4096 bytes, or of one at most, is taken for empty by the monitor
  (`incoming_monitor.rs:65`): it is neither submitted nor rejected and stays in the incoming directory without a message, though
  `main.rs:24` says that the files there are processed; `FilesAreHandled` leaves it out.  Of a request with several files only the
  last is handed over (`file_upload.rs:147`), and of one that is refused in the middle none: the others stay in the upload
  directory for good, as does any upload that a restart finds in the queue.  A request without a file hands over an empty path,
  which the reader refuses.
* *Transcoding.*  A file that is deleted and ingested again while its old transcoding runs can be marked as recompressed with a
  `video.mp4` that leads nowhere; `MarksAreTrue` leaves out such files (`overlapped`).  The chain of old files thumbnails each
  video twice, since the next is chosen before this one is marked as done (`mod.rs:634`).  The next one is looked for only after a
  thumbnail sheet (line 632): at audio and at an image, of which there is none, at a failure and at a deletion the chain ends, and
  the older files wait for the next start of the server, though the comment there says "find next file to thumbnail, if any".  A
  late progress report shows a progress bar again that was at its end.  Requests to transcode are lost with a restart, and only
  thumbnails are asked for again.
* *Start and end.*  A comment says that the organizer has already been contacted when the API waits for it
  (`api_server/mod.rs:401`); the handshake comes after the bind of the gRPC server (`BackchannelIsThere`).  An organizer that
  never answers, or an upload that never ends, would keep the process alive; a second signal ends it.  The metadata reader and the
  transcoder are joined by nobody (`video_pipeline/mod.rs:332`, `364`): when the main thread returns they and their pools may be
  at work, with FFmpeg still running and its output half written, and uploads that were answered `Ok` may not have been taken.
* *Migrations.*  A first start that fails leaves an empty database file, which a later start without `--migrate` serves.  A crash
  after the last migration and before the check of the foreign keys leaves them unchecked for good.  The restoration replaces the
  files in place, so a crash or an error in it leaves no database, from which the next start makes an empty one, or a torn one, or
  one without its write-ahead log (`db_backup.rs:54`); and a backup that cannot be read ends the start with what the migrations
  left (`lib.rs:273`). Errors at the end of writing the backup go unnoticed (`db_backup.rs:34`).  A start that fails so is
  "unrestored" in Migrate.  An organizer that is kept running after a handshake refuses to look for migrations, so a migrating
  restart of the server alone fails.  A hole in the server's migrations (an older one added later) is not solvable.
* *Folders.*  A folder can be moved to below itself (`folder_op_methods.py:47`), though the code calls the result something that
  should not happen (line 89): it is out of reach until the organizer starts again and cuts the loop somewhere, and trashing it
  recurses until Python refuses.  The cut makes more than one top folder, of which the oldest becomes the home and adopts the
  others (`OneHome`, `HomeHasAll`).  The files of a trashed folder are deleted by one call each: the first failure leaves the
  rest, which come back to the home, and a file that an admin gave to somebody else meanwhile is deleted all the same.  Of a move
  of several items the earlier ones stay moved when a later one is refused.  The page of all homes tells an admin that trashing a
  user's home folder deletes everything the user has (`pages.py:59`); a file ingested since the last lookup of that home is in no
  folder yet, and stays.

## 5. What is proved

The proofs hold for every value of the constants, under the modules' `ASSUME`s, which TLC evaluates in the runs: they say
which sets are disjoint, what is a function over what, and that bounds are natural numbers; that of Migrate also says what an
installation can be.  In each module the invariants that
matter are not inductive by themselves; the strengthening is `IInv`, and `Initial` and `Preserved` (or one lemma for each part and
action) show it inductive.

**Sessions** (`SessionsProofs`): `TypeCorrect`; `BroadcastsAreComplete` (`ReceiversAlive`, `SendsNeverFail`); `CollabsAgree`
(`CollabAgreement`, `OneCollab`); `ViewersAreCurrent` (`NoStaleViewer`); `NothingIsLeftBehind` (`ClosedLeavesNothing`);
`Refinement` (`Spec => ImplementsRooms`).  That a sender on a list has its receiver depends on where its session is in the chain
of drops, and that two participants agree depends on who holds the lock between the lookup and the listing.  So:

* `TaskInv`: what a task knows at each place (its file, its collab);
* `LockInv`: a lock is held exactly in the places the code holds it, so by one task;
* `RegistryInv`: the places a session must be at to have its receiver, its list entry, its map entry;
* `ViewerInv`: a guard lives in the map's entry, and a viewer has a guard for the file or is about to be given one;
* `CollabInv`: id, guard and list of a collab agree, and who has passed the lookup finds the mapping as it made it.

`ListsAlive` derives from it that every list is alive, which is also what makes `~sendFailed` inductive.  `RoomStep` shows
that, in a state with `IInv`, `JoinAdd` enters a room, `JoinCollab`, `LeaveDrop` and `DropSession` leave one if there is one, and all
other steps leave the rooms as they are; for the garbage collection this is because the room of an empty collab shows nothing.

**SessionLocks** (`SessionLocksProofs`): `TypeCorrect` and `NoCircularWaitHolds`, for any number of threads in any calls but
`client_show_user_message`, which does wait in a circle (§4); that is the assumption `NoShow` of both.  A table (`Held`) says which
locks a thread holds at each step of each program, and each program is shown to follow it.  Locks have ranks: `sid_to_session`, the
users' senders and the media files of collabs come first, the senders at media files and in collabs second.  A thread that holds a
lock waits only for one of a higher rank, and one that is inside a lock for reading waits for nothing; so in any set of threads that
wait for each other, one that waits for the highest rank waits for a thread that does not wait.

**CommentSync** (`CommentSyncProofs`): `TypeCorrect`, `OneFileOnScreenHolds`, `NothingMissedHolds`, for any sessions, files and
comments and any overlap of handlers, and `ScreensAgreeHolds`, for handlers that only open files and add comments.
`IdsInv`: an id is never used again and a comment never changes its file.  `PlayInv`: only files
that can be played get onto a screen.  `MissInv`: a comment that a viewer lacks is in the hands of a handler that will
send it to that viewer (`WillSend`), or in the queue with nothing behind it that would take it off again (`Arrives`).  Two
lemmas about queues carry it: what a message at the end (`AppendShows`) and the delivery of the first one (`DeliverShows`) do to
what will have been shown in the end.  Without edits and deletions all that handlers, queues and screens hold of comments are rows
(`OnlyRows`), so that nothing too much is shown either; with them it is (§4).

**Ingest** (`IngestProofs`): `TypeCorrect`, `ContentKeptHolds`, `NothingDanglingHolds`, `IngestedForItsUserHolds`, and
`RowHasFileHolds`, which assumes that no two files are alike (`NoCopies`; with copies it is false, §4).  Everything depends on who may
be at a path.  `PlaceInv`: the pipeline alone fills directories, after it made them; the two threads move files to the rejected
directory only; one file is in a place of the incoming directory.  `PromptInv`: where submissions are prompt, there is one of each path, for
the user of the file that is there, and the monitor is at other paths.  `SampleInv`: what the pipeline has in hand is still at its
path, and is what its id was computed from.  `KeptInv`: a destination that was found free is free, since the monitor rejects
nothing; what the pipeline wipes or deletes is then a copy of the file in its hand or of one rejected before.  `DanglingInv` and `RowInv`
relate files to rows while one is made or deleted.

**Transcoding** (`TranscodingProofs`): `TypeCorrect`, `MarksAreTrueHolds`, for any media files, old ones included, any number of workers,
failures and restarts.  A row is marked by a thread that did not make the file, long after it was made, so what was made is followed from
the worker (`WorkersInv`: it writes to where the media file is) through the channel of results (`ResultsInv`: what is said to have been
made is there) to each place of the pipeline (`PipelineInv`: what it is about to say of a row is so), and then for as long as the row
is there (`LinksInv`).  All of these speak of `Fresh` media files, those in the table that did not come again while requests for
them were being served.  That there is one row of each (`RowsInv`) makes a deletion end what is said of it.

**Folders** (`FoldersProofs`): `TypeCorrect`, `OwnersAgreeHolds`, `OneHomeHolds`, `LoopsAreMendedHolds`, `HomeHasAllHolds`,
for any users, admins, files and number of folders.  `IInv` is `TypeOK` and `OwnersAgree`, the latter as
`Good`: the foreign keys hold and owners agree along the tree.  It is preserved by each transaction (one lemma each, from
`LookUpGood` to `ShowGood`), and every handler is a sequence of transactions.  What carries it is that a subtree is closed under
subfolders (`TreeClosed`), so giving it away or trashing it leaves no edge between two owners; that there is an oldest
top folder to become the home (`HomeIsTop`) follows from the order of identifiers.

A subtree is the least set closed under subfolders (`TreeLeast`), and the folders with no top above them are the greatest
closed under parents (`AstrayIs`), so what is said of paths of any length is shown with one well-chosen set.  If the items of a set closed
under parents are as they were, the loops in it are (`LoopOf`): that settles every transaction but a move, where the set is what is
outside of the moved subtree (`MoveLoops`).  Two folders of which each is below the other are on the same loop (`LoopBack`), so the
item that the repair takes from a loop is above all of it (`MendLoops`).  A folder of a user's outside of the home has its
parent outside too, since the home is the only top left and owners agree (`LookUpHasAll`).

**Lifecycle** (`LifecycleProofs`): `TypeCorrect`, `EndsInOrderHolds`, `OrganizerFirstHolds`, `BackchannelIsThereHolds`, for any clients and
any number of faults and signals.  Parts of `IInv`: what has been joined has ended (`Joined`), what the API's thread contains runs while it
does (`ApiHas`, `ClientsIn`), the organizer is known before anything is served (`OrganizerKnown`, `OrganizerFirst`).
`EndsInOrder` is of what is joined: nothing is said, and nothing could be, of the metadata reader and
the transcoder, whose steps no other part waits for (`HelperIInv`).

**Migrate** (`MigrateProofs`), in four parts, for any schemas, any database found, any migrations of the organizer and any
number of faults and starts.

* `FailureUndoneHolds`, of starts whose restoration did not fail itself, and `DataKeptHolds`, as long as no restoration was cut
  short; both hold whatever plan is made.  Parts of `IInv`: what a start remembers has the form its place asks for (`Records`),
  nothing is changed before there is a backup, which has all that was found (`BackupIsWhole`), and what was found had the data
  (`DataFound`).
* `SolverIsRight`, of `solve_migration_graph` itself, for any modules whose migrations have ids of their own (`WellFormed`):
  `None` exactly if there is no order, and a shortest one otherwise.  A recursive definition in TLA+ is a choice of a function
  that satisfies the recursion, so first there is one: it is built for the sets of visited migrations with at most `k` left, for
  each `k` (what a call returns depends on the calls below it only), and a least `k` for which it could not be built leads to a
  contradiction.  Then, by the same argument, each call returns `NULL` or a shortest path from its versions
  (`SolutionIsShortest`): a path that is not empty is a migration that fits and a path from where it leads (`PathFirst`), so the
  best of the paths through each first migration is the best.  Those paths are the orders of `GoodOrders`, which is defined
  without the search.
* `TypeCorrect`, `PlanIsShortestHolds`, `ServedWholeHolds`, `NoDeadEndHolds`, `InOrderHolds`.  Parts of `UpgradeInv`: while a
  start migrates, the server's schema is on its way up from what was found (`Upwards` in `SchemasInv`); what is left of a plan
  still leads to the targets from what has been applied of it (`Leads` in `PlanInv`); and if there was an order for what was
  installed, there is one for every database that came of it (`Solvable` in `OrderInv`), namely the rest of the plan
  (`LeadsSolvable`).  What makes that work is that the dependencies of the server's migrations, which are made anew by every start
  from what is pending, come out the same for those still pending (`SameMigration`), and that each step of the organizer's in a
  plan advances its schema (`OrgAhead`).
* `Refinement`: `Spec => ImplementsUpgrade`, with a lemma for each kind of step: the start (`StartStep`), the work on the plan
  (`WorkStep`), the two halves of restoring (`RestoreStep`), what ends a start half way, by a crash or by an error of the
  restoration (`CutOffStep`), what comes from outside (`OutsideStep`).  A killed start leaves what `Upgrade` allows because the
  server's schema was on its way up (`AheadIs`, from `Upwards`); a start that comes up serves a database that is whole, because
  what is left of the plan is nothing (`WholeIs`); and a start that fails after it restored is no step, because the backup had all
  that was found (`BackupIsWhole`).

`MigrateAssumption` gives the migrations of the organizer what all in `ALL_MIGRATIONS` have: an id of their own, and a dependency on the
organizer's own schema at some version below theirs.  Without the latter a plan could take that schema back, and an
interrupted upgrade would end elsewhere.

**Only model-checked.**  Liveness (`RequestsEnd`, `CommentsArrive`, `FilesAreHandled`, `TranscodedOrTold`,
`ThumbnailedAtLast`, `Ends`, `UploadsAreTaken`, `GetsDone`), since TLAPS has no rules for fairness and `ENABLED`.  Every
invariant and every action property of the passing runs is a theorem, and so are the two refinements.  Three of these have a hypothesis,
given with them above: `NoCircularWait`, `RowHasFile` and `ScreensAgree`.

## 6. What is not modelled

* **In Sessions:** the contents of messages and the commands that do not touch the maps (they are `Notify` and `CollabReport`,
  which send to one list); database errors at login, which end a session before it is registered.
* **In CommentSync:** errors of the database, ends of sessions, deletion of the media file under its comments, navigation away
  from the file, drawings other than the await they cost.
* **In Ingest:** files are delivered whole, so the monitor's test that a file has stopped growing is left out (a guess from two
  sizes, which any slow writer defeats), but not that of its size; hashes do not collide; creating the rejected directory does not
  fail; a deletion keeps no backup of its row; an upload that breaks off is removed again and is not delivered.
* **In Transcoding:** FFmpeg's commands and output, files that are written in part.
* **In Migrate:** SQL; branches that cannot be taken (a plan without a backup of what it changes); the journal files of SQLite;
  organizers that answer with NotFound or Unimplemented.
* **In Lifecycle:** the command line.
* **In Folders:** renaming (which compares the owner of the folder with the literal `admin`, `user_session_methods.py:129`), the
  order of items, titles, cookies.
* **Subtitles** have no module.  Files, rows and the default are changed in separate steps without a lock, and each invariant that
  one would state fails: a file that does not parse, or whose conversion is there already, leaves files behind on which the next
  attempt is refused (`ws_handers.rs:429`); `a.srt` and `a.ass` added at once write the same `.vtt`, and of two rows with the same
  file the second insert fails; of two added at once neither may become the default (line 476), and unsetting the default after a
  stale read may clear another's; a deletion removes the files before the row.  No document promises otherwise.
* **User messages:** storing one is one insert after one send; the sending is in Sessions and SessionLocks.
* **The browser's player, collab playback, reconnection and widgets:** what a player does depends on the events of the media
  element and on floating point arithmetic; reconnection is a timer and the opening of the file shown.
* **Protocol definitions, logging, packaging, tests:** no state of the system.

Seen in passing and not modelled, because each is local to a line or two: cutting a message for the log panics inside a character of several
bytes (`api_server/mod.rs:85`); `page_num * page_size` overflows its 32 bits for an absurd page
(`database/mod.rs:243`); the report loop of a collab takes its flag from `paused` (`ws_handers.rs:618`); the first 32 kB
of a file are all that is hashed (`video_pipeline/mod.rs:84`); the channel to a session has no bound (`api_server/mod.rs:100`) and a session
occupies a thread of the blocking pool (line 476).
