---------------------------- MODULE Transcoding ----------------------------
(***************************************************************************)
(* Transcoding and thumbnails: the requests the pipeline sends when it     *)
(* ingests a media file, the pool of FFmpeg workers that serves them, the  *)
(* results and progress reports it relays, and the chain of requests for   *)
(* "legacy" files, those in the database without thumbnails.               *)
(*                                                                         *)
(* Requests, reports and results are channels in memory; the pipeline does *)
(* one thing at a time and calls the database once in a step.  Users       *)
(* delete media files meanwhile, and the server stops and starts again.    *)
(*                                                                         *)
(* Ingestion and deletion, which Ingest has in detail, are single steps.   *)
(* What FFmpeg writes before it fails is left out.                         *)
(***************************************************************************)
EXTENDS Naturals, Sequences

CONSTANTS Media,        \* ids of media files
          Audio, Image, \* those of them that are not video
          Unplayable,   \* those that need transcoding
          World,        \* the surroundings the server may find itself in, see Surroundings
          Worker,       \* the threads of the pool
          MaxIngests,   \* bound: ingestions of a media file
          MaxReports,   \* bound: progress reports in the channel
          MaxRestarts,  \* bound: restarts of the server
          NULL

Video == Media \ (Audio \cup Image)

Elements(s) == {s[k] : k \in DOMAIN s}

\* The media files there are, those of them that are in the database at the start, newest first,
\* and whether all is calm: users delete nothing and FFmpeg does not fail.
Surroundings == [media : SUBSET Media, old : Seq(Media), calm : BOOLEAN]

ASSUME TranscodingAssumption ==
    /\ Audio \cup Image \subseteq Unplayable
    /\ Audio \cap Image = {}
    /\ Unplayable \subseteq Media
    /\ World \subseteq Surroundings
    /\ \A w \in World : \A i, j \in DOMAIN w.old : w.old[i] = w.old[j] => i = j
    /\ MaxIngests \in Nat \ {0} /\ MaxReports \in Nat /\ MaxRestarts \in Nat
    /\ NULL \notin Media

Attempt == 1..MaxIngests

\* What can be in the directory of a media file, itself included, but for its transcodings.  Of
\* these there is one for each ingestion, which the UUID in the name stands for.
File == {"dir", "orig", "thumb", "sheet"}

Transcode == [op : {"transcode"}, of : Media, dst : Attempt]
Thumbs == [op : {"thumbs"}, of : Media, src : {"orig", "video.mp4"}]
Request == Transcode \cup Thumbs

Idle == [at |-> "idle"]

\* A worker's job, whether its input was found, and whether the directory it writes to still is
\* in its place.
Job == [at : {"ffmpeg"}, req : Request, found : BOOLEAN, inPlace : BOOLEAN]

VARIABLES
    world,      \* what the surroundings are; they do not change
    rows,       \* the media_files table, newest first
    marks,      \* what is set in each row
    files,      \* what is in the directory of each media file
    made,       \* the transcodings in it
    link,       \* video.mp4: the transcoding it points to, or 0
    queue,      \* CmprInput, and the queue of the thread pool
    worker,     \* what each worker is at
    progress,   \* the channel of progress reports
    results,    \* CmprOutput
    pipeline,   \* what the pipeline is at
    legacy,     \* legacy_media_file_now_thumnailing
    told,       \* media files about which an error was sent to the user
    bar,        \* what the user's browser last heard of the progress of each
    ingests,    \* how many times each was ingested
    overlapped, \* those that came again while earlier requests for them were being served
    restarts

vars == <<world, rows, marks, files, made, link, queue, worker, progress, results, pipeline, legacy, told, bar,
          ingests, overlapped, restarts>>
disk == <<files, made, link>>
seen == <<told, bar>>
counts == <<ingests, overlapped, restarts>>

Mark == {"recompressed", "thumb", "sheet", "thumbs_done"}

Busy == [at : {"request", "thumb", "sheet", "next", "done"}, of : Media]
        \cup [at : {"link", "recompressed"}, of : Media, dst : Attempt]

TypeOK ==
    /\ world \in World
    /\ rows \in Seq(Media)
    /\ marks \in [Media -> SUBSET Mark]
    /\ files \in [Media -> SUBSET File]
    /\ made \in [Media -> SUBSET Attempt]
    /\ link \in [Media -> Attempt \cup {0}]
    /\ queue \in Seq(Request)
    /\ worker \in [Worker -> Job \cup {Idle}]
    /\ progress \in Seq(Media)
    /\ results \in Seq([req : Request, ok : BOOLEAN])
    /\ pipeline \in Busy \cup {Idle}
    /\ legacy \in Media \cup {NULL}
    /\ told \subseteq Media
    /\ bar \in [Media -> {"none", "some", "full"}]
    /\ ingests \in [Media -> Attempt \cup {0}]
    /\ overlapped \subseteq Media
    /\ restarts \in 0..MaxRestarts

-----------------------------------------------------------------------------
(* The chain of legacy files *)

\* get_all_with_missing_thumbnails: where they are in the table.
Missing(table, set) == {k \in DOMAIN table : "thumbs_done" \notin set[table[k]]}

ThumbsRequest(m, set) ==
    [op |-> "thumbs", of |-> m, src |-> IF "recompressed" \in set[m] THEN "video.mp4" ELSE "orig"]

\* A mutant: the newest file is looked at only.
NewestIfMissing(table, set) ==
    IF table # <<>> /\ "thumbs_done" \notin set[Head(table)] THEN <<ThumbsRequest(Head(table), set)>> ELSE <<>>

\* legacy_thumbnail_next_media_file: the request for the newest file without thumbnails, if any.
NextLegacy(table, set) ==
    LET missing == Missing(table, set)
    IN  IF missing = {} THEN <<>>
        ELSE <<ThumbsRequest(table[CHOOSE k \in missing : \A j \in missing : k <= j], set)>>

Chained(requests) == IF requests = <<>> THEN NULL ELSE requests[1].of

Init ==
    /\ world \in World
    /\ rows = world.old
    /\ marks = [m \in Media |-> {}]
    /\ files = [m \in Media |-> IF m \in Elements(world.old) THEN {"dir", "orig"} ELSE {}]
    /\ made = [m \in Media |-> {}]
    /\ link = [m \in Media |-> 0]
    /\ queue = NextLegacy(rows, marks)
    /\ legacy = Chained(queue)
    /\ worker = [w \in Worker |-> Idle]
    /\ progress = <<>> /\ results = <<>>
    /\ pipeline = Idle
    /\ told = {}
    /\ bar = [m \in Media |-> "none"]
    /\ ingests = [m \in Media |-> 0]
    /\ overlapped = {}
    /\ restarts = 0

-----------------------------------------------------------------------------
(* Media files come and go *)

Listed(m) == m \in Elements(rows)

Served(m) ==
    \/ \E k \in DOMAIN queue : queue[k].of = m
    \/ \E w \in Worker : worker[w] # Idle /\ worker[w].req.of = m
    \/ \E k \in DOMAIN results : results[k].req.of = m
    \/ pipeline # Idle /\ pipeline.of = m
    \/ \E k \in DOMAIN progress : progress[k] = m

\* Jobs that write to the directory of m go on writing to it after it was moved or deleted.
Displaced(m) ==
    [w \in Worker |-> IF worker[w] # Idle /\ worker[w].req.of = m
                      THEN [worker[w] EXCEPT !.inPlace = FALSE] ELSE worker[w]]

\* ingest_media_file: a directory left behind is wiped, the file moved into a new one and the row
\* inserted.
Ingest(m) ==
    /\ pipeline = Idle
    /\ m \in world.media
    /\ ~Listed(m)
    /\ ingests[m] < MaxIngests
    /\ rows' = <<m>> \o rows
    /\ marks' = [marks EXCEPT ![m] = {}]
    /\ files' = [files EXCEPT ![m] = {"dir", "orig"}]
    /\ made' = [made EXCEPT ![m] = {}]
    /\ link' = [link EXCEPT ![m] = 0]
    /\ worker' = Displaced(m)
    /\ pipeline' = [at |-> "request", of |-> m]
    /\ told' = told \ {m}
    /\ bar' = [bar EXCEPT ![m] = "none"]
    /\ ingests' = [ingests EXCEPT ![m] = @ + 1]
    /\ overlapped' = IF Served(m) THEN overlapped \cup {m} ELSE overlapped \ {m}
    /\ UNCHANGED <<world, queue, progress, results, legacy, restarts>>

\* A mutant: the output is named for the ingestion before.
AskTooEarly ==
    LET m == pipeline.of
    IN  /\ pipeline.at = "request"
        /\ queue' = queue
              \o (IF m \in Unplayable THEN <<[op |-> "transcode", of |-> m, dst |-> ingests[m] - 1]>> ELSE <<>>)
              \o <<[op |-> "thumbs", of |-> m, src |-> "orig"]>>
        /\ pipeline' = Idle
        /\ UNCHANGED <<world, rows, marks, disk, worker, progress, results, legacy, seen, counts>>

\* The rest of ingest_media_file: requests to transcode, if need be, and to make thumbnails.
Ask ==
    LET m == pipeline.of
    IN  /\ pipeline.at = "request"
        /\ queue' = queue
              \o (IF m \in Unplayable THEN <<[op |-> "transcode", of |-> m, dst |-> ingests[m]]>> ELSE <<>>)
              \o <<[op |-> "thumbs", of |-> m, src |-> "orig"]>>
        /\ pipeline' = Idle
        /\ UNCHANGED <<world, rows, marks, disk, worker, progress, results, legacy, seen, counts>>

Without(t, k) == SubSeq(t, 1, k - 1) \o SubSeq(t, k + 1, Len(t))

\* del_media_file_and_cleanup: the row is deleted and the directory moved to the trash.
Delete(m) ==
    /\ ~world.calm
    /\ Listed(m)
    /\ \E k \in DOMAIN rows : rows[k] = m /\ rows' = Without(rows, k)
    /\ files' = [files EXCEPT ![m] = {}]
    /\ made' = [made EXCEPT ![m] = {}]
    /\ link' = [link EXCEPT ![m] = 0]
    /\ worker' = Displaced(m)
    /\ UNCHANGED <<world, marks, queue, progress, results, pipeline, legacy, seen, counts>>

-----------------------------------------------------------------------------
(* The workers *)

Transcoded(r) == r.op = "thumbs" /\ r.src = "video.mp4"

Found(r) ==
    \/ Transcoded(r) /\ link[r.of] \in made[r.of]
    \/ ~Transcoded(r) /\ "orig" \in files[r.of]

\* A worker takes a request.  The thumbnailer makes its directory, and all above it, if need be.
Start(w) ==
    LET r == Head(queue)
    IN  /\ worker[w] = Idle
        /\ queue # <<>>
        /\ queue' = Tail(queue)
        /\ worker' = [worker EXCEPT ![w] = [at |-> "ffmpeg", req |-> r, found |-> Found(r), inPlace |-> TRUE]]
        /\ files' = IF r.op = "thumbs" THEN [files EXCEPT ![r.of] = @ \cup {"dir"}] ELSE files
        /\ UNCHANGED <<world, rows, marks, made, link, progress, results, pipeline, legacy, seen, counts>>

\* A report read from FFmpeg's progress pipe.
Report(w) ==
    /\ worker[w] # Idle
    /\ worker[w].req.op = "transcode"
    /\ worker[w].found
    /\ Len(progress) < MaxReports
    /\ progress' = Append(progress, worker[w].req.of)
    /\ UNCHANGED <<world, rows, marks, disk, queue, worker, results, pipeline, legacy, seen, counts>>

\* What run_ffmpeg_thumbnailer makes: a poster of what can be seen, a sheet of videos.
Pictures(m) == (IF m \in Audio THEN {} ELSE {"thumb"}) \cup (IF m \in Video THEN {"sheet"} ELSE {})

\* FFmpeg is done; for audio there was no thumbnail to make, and nothing to fail.
Finish(w, ok) ==
    LET j == worker[w]
        silent == j.req.op = "thumbs" /\ j.req.of \in Audio
    IN  /\ j # Idle
        /\ ok => j.found \/ silent
        /\ ~ok => (~j.found \/ ~j.inPlace \/ ~world.calm) /\ ~silent
        /\ IF ok /\ j.inPlace /\ j.req.op = "transcode"
           THEN made' = [made EXCEPT ![j.req.of] = @ \cup {j.req.dst}] ELSE UNCHANGED made
        /\ IF ok /\ j.inPlace /\ j.req.op = "thumbs"
           THEN files' = [files EXCEPT ![j.req.of] = @ \cup Pictures(j.req.of)] ELSE UNCHANGED files
        /\ results' = Append(results, [req |-> j.req, ok |-> ok])
        /\ worker' = [worker EXCEPT ![w] = Idle]
        /\ UNCHANGED <<world, rows, marks, link, queue, progress, pipeline, legacy, seen, counts>>

-----------------------------------------------------------------------------
(* The pipeline takes what comes from the workers, in either order *)

Relay ==
    /\ pipeline = Idle
    /\ progress # <<>>
    /\ progress' = Tail(progress)
    /\ bar' = [bar EXCEPT ![Head(progress)] = "some"]
    /\ UNCHANGED <<world, rows, marks, disk, queue, worker, results, pipeline, legacy, told, counts>>

\* A mutant: of transcodings, failures are only logged.
LogFailure ==
    /\ pipeline = Idle
    /\ results # <<>>
    /\ ~Head(results).ok
    /\ results' = Tail(results)
    /\ told' = IF Head(results).req.op = "thumbs" THEN told \cup {Head(results).req.of} ELSE told
    /\ UNCHANGED <<world, rows, marks, disk, queue, worker, progress, pipeline, legacy, bar, counts>>

\* A failure is told to the user, and that is all.
TakeFailure ==
    /\ pipeline = Idle
    /\ results # <<>>
    /\ ~Head(results).ok
    /\ results' = Tail(results)
    /\ told' = told \cup {Head(results).req.of}
    /\ UNCHANGED <<world, rows, marks, disk, queue, worker, progress, pipeline, legacy, bar, counts>>

\* A mutant: that FFmpeg failed is not looked at.
TakeAnyResult ==
    LET r == Head(results).req
    IN  /\ pipeline = Idle
        /\ results # <<>>
        /\ results' = Tail(results)
        /\ pipeline' = IF r.op = "transcode" THEN [at |-> "link", of |-> r.of, dst |-> r.dst]
                       ELSE [at |-> IF r.of \in Audio THEN "done" ELSE "thumb", of |-> r.of]
        /\ UNCHANGED <<world, rows, marks, disk, queue, worker, progress, legacy, seen, counts>>

TakeSuccess ==
    LET r == Head(results).req
    IN  /\ pipeline = Idle
        /\ results # <<>>
        /\ Head(results).ok
        /\ results' = Tail(results)
        /\ pipeline' = IF r.op = "transcode" THEN [at |-> "link", of |-> r.of, dst |-> r.dst]
                       ELSE [at |-> IF r.of \in Audio THEN "done" ELSE "thumb", of |-> r.of]
        /\ UNCHANGED <<world, rows, marks, disk, queue, worker, progress, legacy, seen, counts>>

At(step) == pipeline.at = step

Onto(step) == pipeline' = [at |-> step, of |-> pipeline.of]

\* An UPDATE of a row that is gone does nothing, and is no error.
Set(mark) ==
    marks' = IF Listed(pipeline.of) THEN [marks EXCEPT ![pipeline.of] = @ \cup {mark}] ELSE marks

\* The directory is made again if it is missing, and video.mp4 linked to the transcoding, unless
\* there is a video.mp4.
Link ==
    LET m == pipeline.of
    IN  /\ At("link")
        /\ files' = [files EXCEPT ![m] = @ \cup {"dir"}]
        /\ IF link[m] = 0
           THEN /\ link' = [link EXCEPT ![m] = pipeline.dst]
                /\ pipeline' = [pipeline EXCEPT !.at = "recompressed"]
                /\ UNCHANGED seen
           ELSE /\ pipeline' = Idle
                /\ told' = told \cup {m}
                /\ bar' = [bar EXCEPT ![m] = "full"]
                /\ UNCHANGED link
        /\ UNCHANGED <<world, rows, marks, made, queue, worker, progress, results, legacy, counts>>

\* set_recompressed, and the messages that say so.
SetRecompressed ==
    /\ At("recompressed")
    /\ Set("recompressed")
    /\ bar' = [bar EXCEPT ![pipeline.of] = "full"]
    /\ pipeline' = Idle
    /\ UNCHANGED <<world, rows, disk, queue, worker, progress, results, legacy, told, counts>>

SetHasThumb ==
    /\ At("thumb")
    /\ Set("thumb")
    /\ Onto(IF pipeline.of \in Video THEN "sheet" ELSE "done")
    /\ UNCHANGED <<world, rows, disk, queue, worker, progress, results, legacy, seen, counts>>

SetSheet ==
    /\ At("sheet")
    /\ Set("sheet")
    /\ Onto("next")
    /\ UNCHANGED <<world, rows, disk, queue, worker, progress, results, legacy, seen, counts>>

\* "Thumbnailer for old media files: find next file to thumbnail, if any"
FindNext ==
    /\ At("next")
    /\ LET next == IF pipeline.of = legacy THEN NextLegacy(rows, marks) ELSE <<>>
       IN  /\ queue' = queue \o next
           /\ legacy' = IF pipeline.of = legacy THEN Chained(next) ELSE legacy
    /\ Onto("done")
    /\ UNCHANGED <<world, rows, marks, disk, worker, progress, results, seen, counts>>

SetThumbsDone ==
    /\ At("done")
    /\ Set("thumbs_done")
    /\ pipeline' = Idle
    /\ UNCHANGED <<world, rows, disk, queue, worker, progress, results, legacy, seen, counts>>

Handle == TakeFailure \/ TakeSuccess \/ Link \/ SetRecompressed
          \/ SetHasThumb \/ SetSheet \/ FindNext \/ SetThumbsDone

-----------------------------------------------------------------------------
\* A bar that hears nothing for six seconds goes.
Expire(m) ==
    /\ bar[m] = "some"
    /\ bar' = [bar EXCEPT ![m] = "none"]
    /\ UNCHANGED <<world, rows, marks, disk, queue, worker, progress, results, pipeline, legacy, told, counts>>

\* The server stops, FFmpeg with it, and starts again.
Restart ==
    /\ restarts < MaxRestarts
    /\ restarts' = restarts + 1
    /\ queue' = NextLegacy(rows, marks)
    /\ legacy' = Chained(queue')
    /\ worker' = [w \in Worker |-> Idle]
    /\ progress' = <<>> /\ results' = <<>>
    /\ pipeline' = Idle
    /\ UNCHANGED <<world, rows, marks, disk, seen, ingests, overlapped>>

Work(w) == Start(w) \/ Finish(w, TRUE) \/ Finish(w, FALSE)

Next ==
    \/ \E m \in Media : Ingest(m) \/ Delete(m) \/ Expire(m)
    \/ \E w \in Worker : Work(w) \/ Report(w)
    \/ Ask \/ Relay \/ Handle
    \/ Restart

Spec == Init /\ [][Next]_vars

\* FFmpeg comes to an end, and the pool and the pipeline take what is in their channels; select!
\* chooses at random, so neither channel starves the other.
FairSpec ==
    /\ Spec
    /\ \A w \in Worker : WF_vars(Work(w))
    /\ WF_vars(Ask) /\ SF_vars(Handle) /\ WF_vars(Relay)

-----------------------------------------------------------------------------
(* Properties *)

\* What a row says of its media file is so, whatever was deleted, came again or was interrupted
\* meanwhile: of one marked as recompressed video.mp4 leads to a file that was transcoded to the
\* end, and one said to have thumbnails has them on the disk.  Media files that came again while
\* earlier requests for them were still being served are left out.
MarksAreTrue ==
    \A m \in Elements(rows) \ overlapped :
        /\ "recompressed" \in marks[m] => link[m] \in made[m]
        /\ marks[m] \cap {"thumb", "sheet"} \subseteq files[m]

\* A media file that needs transcoding is transcoded, or its user told that it was not, unless it
\* is deleted; but a server that stops forgets about it.
TranscodedOrTold ==
    \A m \in Unplayable :
        Listed(m) ~> "recompressed" \in marks[m] \/ m \in told \/ ~Listed(m) \/ restarts > 0 \/ ingests[m] = 0

\* A file that is no video is newer than m.
Overtaken(m) == \E k, l \in DOMAIN rows : k < l /\ rows[l] = m /\ rows[k] \notin Video

\* The chain, which goes from the newest to the oldest, ends at the first file of which no sheet is
\* made.  While nothing fails and nothing is deleted, a media file gets its thumbnails, though the
\* server be stopped and started at any moment and lose its requests, unless a file newer than it
\* is no video.
ThumbnailedAtLast ==
    \A m \in Media : world.calm /\ Listed(m) ~> "thumbs_done" \in marks[m] \/ Overtaken(m)
=============================================================================
