----------------------------- MODULE Lifecycle -----------------------------
(***************************************************************************)
(* The start of the server and its end: the main thread, the threads of    *)
(* the API and of the video pipeline with what runs in them, the organizer *)
(* that is called and calls back, and the termination flag.                *)
(*                                                                         *)
(* The flag is polled, never waited for.  The pipeline does not even poll: *)
(* it looks at the flag after an event, and without one wakes up only when *)
(* a channel it receives from is disconnected.                             *)
(*                                                                         *)
(* The metadata reader and the transcoder are threads that nobody joins,   *)
(* each with a pool of its own, which it does not wait for either.  They   *)
(* end, at some time, when the pipeline is no more.                        *)
(*                                                                         *)
(* Times are abstract: whatever waits with a timeout may find it over.     *)
(***************************************************************************)
EXTENDS Naturals

CONSTANTS Ses,          \* WebSocket sessions
          Up,           \* HTTP uploads
          MaxFaults     \* bound: failures of a thread, of a bind, of the organizer

ASSUME LifecycleAssumption == MaxFaults \in Nat

\* The threads that the pipeline starts and that are not joined.
Helper == {"reader", "transcoder"}

VARIABLES
    main,       \* where the main thread is
    flag,       \* terminate_flag
    organizer,  \* "none" configured; "unaware" of the server; "called", by the handshake
    connected,  \* organizer_has_connected
    grpc,       \* the gRPC server for the organizer
    api,        \* the thread of the API
    http,       \* its server, and in it the sending end of the channel of uploads
    relay,      \* its message relay
    sessions,   \* the open sessions, each on a blocking thread of the API's runtime
    upload,     \* each upload
    pipeline,   \* the thread of the video pipeline
    monitor,    \* the thread of its monitor
    helper,     \* the threads of the metadata reader and of the transcoder
    atWork,     \* those of them whose pools are reading a file or running FFmpeg
    faults

vars == <<main, flag, organizer, connected, grpc, api, http, relay, sessions, upload, pipeline,
          monitor, helper, atWork, faults>>
apiVars == <<grpc, api, http, relay>>
clients == <<sessions, upload>>
helpers == <<helper, atWork>>
workers == <<pipeline, monitor, helpers>>
peer == <<organizer, connected>>

Ended == {"ended", "failed", "killed"}

TypeOK ==
    /\ main \in {"init", "listening", "handshake", "spawn", "wait", "join", "joinApi"} \cup Ended
    /\ flag \in BOOLEAN
    /\ organizer \in {"none", "unaware", "called"}
    /\ connected \in BOOLEAN
    /\ grpc \in {"none", "starting", "listening", "ended", "failed"}
    /\ api \in {"none", "organizer", "serving", "grpc", "drop", "ended"}
    /\ http \in {"none", "open", "closing", "closed"}
    /\ relay \in {"none", "running", "ended"}
    /\ sessions \subseteq Ses
    /\ upload \in [Up -> {"none", "sending", "queued", "taken", "refused"}]
    /\ pipeline \in {"none", "running", "leaving", "joining", "ended"}
    /\ monitor \in {"none", "running", "ended"}
    /\ faults \in 0..MaxFaults
    /\ helper \in [Helper -> {"none", "running", "ended"}]
    /\ atWork \subseteq Helper
    /\ (pipeline = "none") <=> (monitor = "none")
    /\ api = "serving" => http # "none" /\ relay # "none"

Init ==
    /\ main = "init"
    /\ flag = FALSE
    /\ organizer \in {"none", "unaware"}
    /\ connected = FALSE
    /\ grpc = "none" /\ api = "none" /\ http = "none" /\ relay = "none"
    /\ sessions = {}
    /\ upload = [u \in Up |-> "none"]
    /\ pipeline = "none" /\ monitor = "none"
    /\ helper = [h \in Helper |-> "none"] /\ atWork = {}
    /\ faults = 0

\* The process is there; with the main thread all others are gone, whatever they were at.
Alive == main \notin Ended

Fault ==
    /\ faults < MaxFaults
    /\ faults' = faults + 1

-----------------------------------------------------------------------------
(* The main thread *)

\* The migration of the database fails, or the organizer does not answer its handshake, or the
\* gRPC server was not seen to listen within three seconds: the error ends the process.
Fail ==
    /\ main \in {"init", "listening", "handshake"}
    /\ Fault
    /\ main' = "failed"
    /\ UNCHANGED <<flag, peer, apiVars, clients, workers>>

\* init_and_spawn_workers, as far as the thread of the API.
SpawnApi ==
    /\ main = "init"
    /\ IF organizer = "none"
       THEN api' = "serving" /\ http' = "open" /\ relay' = "running" /\ main' = "spawn" /\ UNCHANGED grpc
       ELSE api' = "organizer" /\ grpc' = "starting" /\ main' = "listening" /\ UNCHANGED <<http, relay>>
    /\ UNCHANGED <<flag, peer, clients, workers, faults>>

\* A mutant: nobody waits for the gRPC server.
SeeNothing ==
    /\ main = "listening"
    /\ main' = "handshake"
    /\ UNCHANGED <<flag, peer, apiVars, clients, workers, faults>>

\* grpc_srv_listening_flag, which is not taken back.
SeeListening ==
    /\ main = "listening"
    /\ grpc \in {"listening", "ended"}
    /\ main' = "handshake"
    /\ UNCHANGED <<flag, peer, apiVars, clients, workers, faults>>

\* "gRPC server failed to start within 3 seconds."
GiveUpListening ==
    /\ main = "listening"
    /\ grpc = "failed"
    /\ main' = "failed"
    /\ UNCHANGED <<flag, peer, apiVars, clients, workers, faults>>

\* blocking_handshake_organizer: the organizer hears of the server...
Call ==
    /\ main = "handshake"
    /\ organizer = "unaware"
    /\ organizer' = "called"
    /\ UNCHANGED <<main, flag, connected, apiVars, clients, workers, faults>>

\* ... and answers.
Answer ==
    /\ main = "handshake"
    /\ organizer = "called"
    /\ main' = "spawn"
    /\ UNCHANGED <<flag, peer, apiVars, clients, workers, faults>>

SpawnPipeline ==
    /\ main = "spawn"
    /\ pipeline' = "running" /\ monitor' = "running"
    /\ helper' = [h \in Helper |-> "running"]
    /\ main' = "wait"
    /\ UNCHANGED <<flag, peer, apiVars, clients, atWork, faults>>

\* wait_for_termination: a pipeline that has ended sets the flag (it has done so itself, unless it
\* panicked).
Watch ==
    /\ main = "wait"
    /\ \/ flag /\ main' = "join" /\ UNCHANGED flag
       \/ ~flag /\ pipeline = "ended" /\ flag' = TRUE /\ UNCHANGED main
    /\ UNCHANGED <<peer, apiVars, clients, workers, faults>>

\* A mutant: the API is not joined.
JoinPipelineAlone ==
    /\ main = "join"
    /\ pipeline = "ended"
    /\ main' = "ended"
    /\ UNCHANGED <<flag, peer, apiVars, clients, workers, faults>>

JoinPipeline ==
    /\ main = "join"
    /\ pipeline = "ended"
    /\ main' = "joinApi"
    /\ UNCHANGED <<flag, peer, apiVars, clients, workers, faults>>

\* If that thread panicked, "API thread failed" is a panic of this one, with the same end.
JoinApi ==
    /\ main = "joinApi"
    /\ api = "ended"
    /\ main' = "ended"
    /\ UNCHANGED <<flag, peer, apiVars, clients, workers, faults>>

\* SIGINT or SIGTERM: the first sets the flag, which lets any other end the process.
Signal ==
    /\ Alive
    /\ flag' = TRUE
    /\ main' = IF flag THEN "killed" ELSE main
    /\ UNCHANGED <<peer, apiVars, clients, workers, faults>>

Main == SeeListening \/ GiveUpListening \/ Call \/ Answer \/ SpawnApi \/ SpawnPipeline
        \/ Watch \/ JoinPipeline \/ JoinApi

-----------------------------------------------------------------------------
(* The thread of the API *)

GrpcBind ==
    /\ Alive
    /\ grpc = "starting"
    /\ \/ grpc' = "listening" /\ UNCHANGED faults
       \/ grpc' = "failed" /\ Fault
    /\ UNCHANGED <<main, flag, peer, api, http, relay, clients, workers>>

GrpcEnd ==
    /\ Alive
    /\ grpc = "listening"
    /\ flag
    /\ grpc' = "ended"
    /\ UNCHANGED <<main, flag, peer, api, http, relay, clients, workers, faults>>

\* The organizer calls back, while its answer is under way or later.
CallBack ==
    /\ Alive
    /\ organizer = "called"
    /\ grpc = "listening"
    /\ connected' = TRUE
    /\ UNCHANGED <<main, flag, organizer, apiVars, clients, workers, faults>>

\* A mutant: the server opens without waiting for the organizer.
ServeAtOnce ==
    /\ Alive
    /\ api = "organizer"
    /\ api' = "serving" /\ http' = "open" /\ relay' = "running"
    /\ UNCHANGED <<main, flag, peer, grpc, clients, workers, faults>>

Serve ==
    /\ Alive
    /\ api = "organizer"
    /\ connected
    /\ api' = "serving" /\ http' = "open" /\ relay' = "running"
    /\ UNCHANGED <<main, flag, peer, grpc, clients, workers, faults>>

\* No organizer has called when the flag is set: the thread ends, and the gRPC server with it.
ServeNever ==
    /\ Alive
    /\ api = "organizer"
    /\ ~connected
    /\ flag
    /\ api' = "ended"
    /\ http' = "closed"
    /\ grpc' = IF grpc = "starting" THEN "failed" ELSE IF grpc = "listening" THEN "ended" ELSE grpc
    /\ UNCHANGED <<main, flag, peer, relay, clients, workers, faults>>

\* The port is taken, as it turns out before there is any client: a panic, which drops all that the
\* thread had.
ApiPanic ==
    /\ Alive
    /\ api = "serving" /\ http = "open"
    /\ sessions = {} /\ \A u \in Up : upload[u] = "none"
    /\ Fault
    /\ api' = "ended" /\ http' = "closed" /\ relay' = "ended"
    /\ grpc' = IF grpc = "listening" THEN "ended" ELSE grpc
    /\ UNCHANGED <<main, flag, peer, clients, workers>>

\* The graceful shutdown: no new connections, and an end when the requests under way are answered.
\* Sessions, whose connections are not HTTP any more, are not waited for.
HttpSeesFlag ==
    /\ Alive
    /\ http = "open"
    /\ flag
    /\ http' = "closing"
    /\ UNCHANGED <<main, flag, peer, grpc, api, relay, clients, workers, faults>>

HttpCloses ==
    /\ Alive
    /\ http = "closing"
    /\ \A u \in Up : upload[u] # "sending"
    /\ http' = "closed"
    /\ UNCHANGED <<main, flag, peer, grpc, api, relay, clients, workers, faults>>

RelayEnds ==
    /\ Alive
    /\ relay = "running"
    /\ flag
    /\ relay' = "ended"
    /\ UNCHANGED <<main, flag, peer, grpc, api, http, clients, workers, faults>>

\* join!(server, msg_relay), the gRPC server, and the runtime with the threads of its sessions.
ApiEnds ==
    /\ Alive
    /\ \/ api = "serving" /\ http = "closed" /\ relay = "ended" /\ api' = "grpc"
       \/ api = "grpc" /\ grpc \notin {"starting", "listening"} /\ api' = "drop"
       \/ api = "drop" /\ sessions = {} /\ api' = "ended"
    /\ UNCHANGED <<main, flag, peer, grpc, http, relay, clients, workers, faults>>

Api == GrpcBind \/ GrpcEnd \/ Serve \/ ServeNever \/ HttpSeesFlag \/ HttpCloses \/ RelayEnds \/ ApiEnds

-----------------------------------------------------------------------------
(* Clients *)

OpenSession(s) ==
    /\ Alive
    /\ http = "open"
    /\ sessions' = sessions \cup {s}
    /\ UNCHANGED <<main, flag, peer, apiVars, upload, workers, faults>>

\* A session ends by itself when the flag is set, and before that when its client leaves.
EndSession(s) ==
    /\ Alive
    /\ s \in sessions
    /\ sessions' = sessions \ {s}
    /\ UNCHANGED <<main, flag, peer, apiVars, upload, workers, faults>>

StartUpload(u) ==
    /\ Alive
    /\ http = "open"
    /\ upload[u] = "none"
    /\ upload' = [upload EXCEPT ![u] = "sending"]
    /\ UNCHANGED <<main, flag, peer, apiVars, sessions, workers, faults>>

\* "Ok", or "failed to send upload ok signal" when the pipeline has ended.
EndUpload(u) ==
    /\ Alive
    /\ upload[u] = "sending"
    /\ upload' = [upload EXCEPT ![u] = IF pipeline = "ended" THEN "refused" ELSE "queued"]
    /\ UNCHANGED <<main, flag, peer, apiVars, sessions, workers, faults>>

-----------------------------------------------------------------------------
(* The thread of the video pipeline, and its monitor *)

\* What the loop does after an event.
Look == pipeline' = IF monitor = "ended" \/ flag THEN "leaving" ELSE "running"

\* A message of the monitor, of the metadata reader or of the workers.
Event ==
    /\ Alive
    /\ pipeline = "running"
    /\ Look
    /\ UNCHANGED <<main, flag, peer, apiVars, clients, monitor, helpers, faults>>

\* A mutant: what select! received is thrown away.
DiscardUpload(u) ==
    /\ Alive
    /\ pipeline = "running"
    /\ upload[u] = "queued"
    /\ upload' = [upload EXCEPT ![u] = "refused"]
    /\ Look
    /\ UNCHANGED <<main, flag, peer, apiVars, sessions, monitor, helpers, faults>>

TakeUpload(u) ==
    /\ Alive
    /\ pipeline = "running"
    /\ upload[u] = "queued"
    /\ upload' = [upload EXCEPT ![u] = "taken"]
    /\ Look
    /\ UNCHANGED <<main, flag, peer, apiVars, sessions, monitor, helpers, faults>>

\* A mutant: an error of the upload channel is ignored.
MonitorDisconnected ==
    /\ Alive
    /\ pipeline = "running"
    /\ monitor = "ended"
    /\ pipeline' = "leaving"
    /\ UNCHANGED <<main, flag, peer, apiVars, clients, monitor, helpers, faults>>

\* The API's server has closed and every upload is taken, or the monitor has ended.
Disconnected ==
    /\ Alive
    /\ pipeline = "running"
    /\ \/ http = "closed" /\ \A u \in Up : upload[u] # "queued"
       \/ monitor = "ended"
    /\ pipeline' = "leaving"
    /\ UNCHANGED <<main, flag, peer, apiVars, clients, monitor, helpers, faults>>

\* "Metadata reader disconnected", "Transcoder is dead": its thread has died, and no job of its pool
\* has a sending end any more.
WorkerDied(h) ==
    /\ Alive
    /\ pipeline = "running"
    /\ helper[h] = "ended" /\ h \notin atWork
    /\ pipeline' = "leaving"
    /\ UNCHANGED <<main, flag, peer, apiVars, clients, monitor, helpers, faults>>

\* drop(mon_exit), and the flag.
Leave ==
    /\ Alive
    /\ pipeline = "leaving"
    /\ flag' = TRUE
    /\ pipeline' = "joining"
    /\ UNCHANGED <<main, peer, apiVars, clients, monitor, helpers, faults>>

JoinMonitor ==
    /\ Alive
    /\ pipeline = "joining"
    /\ monitor = "ended"
    /\ pipeline' = "ended"
    /\ UNCHANGED <<main, flag, peer, apiVars, clients, monitor, helpers, faults>>

\* exit_evt is disconnected.
MonitorEnds ==
    /\ Alive
    /\ monitor = "running"
    /\ pipeline = "joining"
    /\ monitor' = "ended"
    /\ UNCHANGED <<main, flag, peer, apiVars, clients, pipeline, helpers, faults>>

\* "Directory listing failed. Cannot continue monitoring."
MonitorFails ==
    /\ Alive
    /\ monitor = "running"
    /\ Fault
    /\ monitor' = "ended"
    /\ UNCHANGED <<main, flag, peer, apiVars, clients, pipeline, helpers>>

Pipeline == (\E u \in Up : TakeUpload(u)) \/ Disconnected \/ (\E h \in Helper : WorkerDied(h))
            \/ Leave \/ JoinMonitor

-----------------------------------------------------------------------------
(* The metadata reader and the transcoder *)

\* A request that was sent is given to the pool, after the end of the pipeline too.
StartWork(h) ==
    /\ Alive
    /\ helper[h] = "running"
    /\ atWork' = atWork \cup {h}
    /\ UNCHANGED <<main, flag, peer, apiVars, clients, pipeline, monitor, helper, faults>>

EndWork(h) ==
    /\ Alive
    /\ h \in atWork
    /\ atWork' = atWork \ {h}
    /\ UNCHANGED <<main, flag, peer, apiVars, clients, pipeline, monitor, helper, faults>>

\* "Input queue closed": the pipeline has dropped its end.  The pool goes on with what it has.
HelperEnds(h) ==
    /\ Alive
    /\ helper[h] = "running"
    /\ pipeline = "ended"
    /\ helper' = [helper EXCEPT ![h] = "ended"]
    /\ UNCHANGED <<main, flag, peer, apiVars, clients, pipeline, monitor, atWork, faults>>

\* A panic.
HelperDies(h) ==
    /\ Alive
    /\ helper[h] = "running"
    /\ Fault
    /\ helper' = [helper EXCEPT ![h] = "ended"]
    /\ UNCHANGED <<main, flag, peer, apiVars, clients, pipeline, monitor, atWork>>

-----------------------------------------------------------------------------
Next ==
    \/ Main \/ Fail \/ Signal
    \/ Api \/ CallBack \/ ApiPanic
    \/ \E s \in Ses : OpenSession(s) \/ EndSession(s)
    \/ \E u \in Up : StartUpload(u) \/ EndUpload(u)
    \/ Pipeline \/ Event
    \/ MonitorEnds \/ MonitorFails
    \/ \E h \in Helper : StartWork(h) \/ EndWork(h) \/ HelperEnds(h) \/ HelperDies(h)

Spec == Init /\ [][Next]_vars

\* Threads and tasks run, and poll the flag: every one of them gets to its next step.  An organizer
\* that was called answers and calls back; an upload comes to an end, if only by a timeout of the
\* proxy before the server, and so does a run of FFmpeg.  Of the threads that are not joined nothing
\* else is assumed.
FairSpec ==
    /\ Spec
    /\ WF_vars(Main)
    /\ WF_vars(GrpcBind) /\ WF_vars(GrpcEnd) /\ WF_vars(CallBack) /\ WF_vars(Serve) /\ WF_vars(ServeNever)
    /\ WF_vars(HttpSeesFlag) /\ WF_vars(HttpCloses) /\ WF_vars(RelayEnds) /\ WF_vars(ApiEnds)
    /\ \A s \in Ses : WF_vars(flag /\ EndSession(s))
    /\ \A u \in Up : WF_vars(EndUpload(u))
    /\ WF_vars(Pipeline) /\ WF_vars(MonitorEnds)
    /\ \A h \in Helper : WF_vars(EndWork(h))

-----------------------------------------------------------------------------
(* Properties *)

\* When the main thread returns, all that is joined has ended, in the API and in the pipeline,
\* whoever ended first: no client is in the middle of a request or of a session, and neither the
\* organizer nor any thread is still to read or write the database.  That goes for what is joined
\* only: the metadata reader and the transcoder may be there, their pools at work and FFmpeg
\* running, and uploads that were received may not have been taken.
EndsInOrder ==
    main = "ended" =>
        /\ sessions = {} /\ \A u \in Up : upload[u] # "sending"
        /\ grpc \notin {"starting", "listening"} /\ relay # "running"
        /\ pipeline = "ended" /\ monitor = "ended"

\* Where there is an organizer, nobody is served before it is connected both ways: sessions would
\* act without its authorization.
OrganizerFirst == sessions # {} \/ (\E u \in Up : upload[u] # "none") => organizer = "none" \/ connected

\* The organizer is not told of a gRPC server that it cannot reach: one that has been listening.
BackchannelIsThere == organizer = "called" => grpc \in {"listening", "ended"}

\* Once the flag is set the process ends, with no second signal, and "abort on SIGINT/SIGTERM or if
\* child threads die": whichever thread dies first, the others follow, and nobody waits for a thread
\* that waits for it.
Ends ==
    /\ flag ~> ~Alive
    /\ pipeline = "ended" ~> ~Alive
    /\ monitor = "ended" ~> ~Alive
    /\ api = "ended" ~> ~Alive
    /\ grpc = "failed" ~> ~Alive
    /\ \A h \in Helper : helper[h] = "ended" ~> ~Alive

\* A client that was told that its upload is complete was right, unless the server is ending.
UploadsAreTaken == \A u \in Up : upload[u] = "queued" ~> upload[u] = "taken" \/ flag \/ ~Alive
=============================================================================
