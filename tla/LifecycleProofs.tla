-------------------------- MODULE LifecycleProofs --------------------------
(***************************************************************************)
(* Lifecycle, for any number of sessions, uploads and faults: what has     *)
(* ended when the main thread returns, and who was there before the first  *)
(* client.  The invariant orders the threads by who waits for whom: main   *)
(* for the pipeline, the pipeline for its monitor, main for the API, and   *)
(* the API for all that runs in it.  For the metadata reader and the       *)
(* transcoder nobody waits, so that they have no part in it.               *)
(***************************************************************************)
EXTENDS Lifecycle, TLAPS

GrpcUp == grpc \in {"listening", "ended"}
GrpcOver == grpc \notin {"starting", "listening"}

\* Whom the main thread has joined, and who was joined before.
Joined ==
    /\ main \in {"joinApi", "ended"} => pipeline = "ended"
    /\ pipeline = "ended" => monitor = "ended"
    /\ main = "ended" => api = "ended"

\* What the thread of the API has, by where it is.
ApiHas ==
    /\ main = "init" => api = "none"
    /\ api = "none" => grpc = "none"
    /\ api \in {"none", "organizer"} => http = "none" /\ relay = "none"
    /\ api \in {"grpc", "drop", "ended"} => http = "closed" /\ relay # "running"
    /\ api \in {"drop", "ended"} => GrpcOver
    /\ api = "ended" => sessions = {}

\* Clients come through an open server, and uploads are over before it is closed.
ClientsIn ==
    /\ http = "none" => sessions = {} /\ \A u \in Up : upload[u] = "none"
    /\ http = "closed" => \A u \in Up : upload[u] # "sending"

\* What is known of the organizer.
OrganizerKnown ==
    /\ organizer = "none" => grpc = "none"
    /\ main = "handshake" \/ organizer = "called" \/ connected => GrpcUp
    /\ api = "serving" \/ http \in {"open", "closing"} => organizer = "none" \/ connected

IInv == TypeOK /\ Joined /\ ApiHas /\ ClientsIn /\ OrganizerKnown /\ OrganizerFirst

-----------------------------------------------------------------------------
\* The process starts with one thread.
LEMMA InitIInv == Init => IInv
<1> SUFFICES ASSUME Init PROVE IInv
  OBVIOUS
<1> USE DEF Init
<1>1. TypeOK
  <2>1. upload \in [Up -> {"none", "sending", "queued", "taken", "refused"}]
    OBVIOUS
  <2>2. flag \in BOOLEAN /\ connected \in BOOLEAN
    OBVIOUS
  <2>3. faults \in 0..MaxFaults
    BY LifecycleAssumption
  <2>4. helper \in [Helper -> {"none", "running", "ended"}] /\ atWork \subseteq Helper
    OBVIOUS
  <2> QED
    BY <2>1, <2>2, <2>3, <2>4 DEF TypeOK, Ended
<1>2. Joined /\ ApiHas
  BY DEF Joined, ApiHas, GrpcOver
<1>3. ClientsIn /\ OrganizerKnown /\ OrganizerFirst
  BY DEF ClientsIn, OrganizerKnown, OrganizerFirst, GrpcUp
<1> QED
  BY <1>1, <1>2, <1>3 DEF IInv

\* What each step of the main thread, of the API, of the clients and of the pipeline keeps.
LEMMA MainIInv == ASSUME IInv, Main \/ Fail \/ Signal PROVE IInv'
<1> USE DEF IInv, TypeOK, Joined, ApiHas, ClientsIn, OrganizerKnown, OrganizerFirst, GrpcUp, GrpcOver,
        Ended, peer, apiVars, clients, workers, helpers, Alive, Fault
<1>1. CASE SeeListening
  BY <1>1 DEF SeeListening
<1>2. CASE GiveUpListening
  BY <1>2 DEF GiveUpListening
<1>3. CASE Call
  BY <1>3 DEF Call
<1>4. CASE Answer
  BY <1>4 DEF Answer
<1>5. CASE SpawnApi
  BY <1>5 DEF SpawnApi
<1>6. CASE SpawnPipeline
  BY <1>6 DEF SpawnPipeline
<1>7. CASE Watch
  <2>1. CASE main' = "join" /\ UNCHANGED flag
    BY <1>7, <2>1 DEF Watch
  <2>2. CASE pipeline = "ended" /\ flag' = TRUE /\ UNCHANGED main
    BY <1>7, <2>2 DEF Watch
  <2> QED
    BY <1>7, <2>1, <2>2 DEF Watch
<1>8. CASE JoinPipeline
  BY <1>8 DEF JoinPipeline
<1>9. CASE JoinApi
  BY <1>9 DEF JoinApi
<1>10. CASE Fail
  BY <1>10, LifecycleAssumption DEF Fail
<1>11. CASE Signal
  BY <1>11 DEF Signal
<1> QED
  BY <1>1, <1>2, <1>3, <1>4, <1>5, <1>6, <1>7, <1>8, <1>9, <1>10, <1>11 DEF Main

\* The thread of the API takes what it has down with it, and what runs in it is over before it is.
LEMMA ApiIInv == ASSUME IInv, Api \/ CallBack \/ ApiPanic PROVE IInv'
<1> USE DEF IInv, TypeOK, Joined, ApiHas, ClientsIn, OrganizerKnown, OrganizerFirst, GrpcUp, GrpcOver,
        Ended, peer, apiVars, clients, workers, helpers, Alive, Fault
<1>1. CASE GrpcBind
  BY <1>1, LifecycleAssumption DEF GrpcBind
<1>2. CASE GrpcEnd
  BY <1>2 DEF GrpcEnd
<1>3. CASE Serve
  BY <1>3 DEF Serve
<1>4. CASE ServeNever
  BY <1>4 DEF ServeNever
<1>5. CASE HttpSeesFlag
  BY <1>5 DEF HttpSeesFlag
<1>6. CASE HttpCloses
  BY <1>6 DEF HttpCloses
<1>7. CASE RelayEnds
  BY <1>7 DEF RelayEnds
<1>8. CASE ApiEnds
  BY <1>8 DEF ApiEnds
<1>9. CASE CallBack
  BY <1>9 DEF CallBack
<1>10. CASE ApiPanic
  BY <1>10, LifecycleAssumption DEF ApiPanic
<1> QED
  BY <1>1, <1>2, <1>3, <1>4, <1>5, <1>6, <1>7, <1>8, <1>9, <1>10 DEF Api

\* Sessions come while the server is open.
LEMMA SessionIInv == ASSUME IInv, NEW s \in Ses, OpenSession(s) \/ EndSession(s) PROVE IInv'
<1> USE DEF IInv, TypeOK, Joined, ApiHas, ClientsIn, OrganizerKnown, OrganizerFirst, GrpcUp, GrpcOver,
        Ended, peer, apiVars, clients, workers, helpers, Alive, Fault
<1>1. CASE OpenSession(s)
  BY <1>1 DEF OpenSession
<1>2. CASE EndSession(s)
  BY <1>2 DEF EndSession
<1> QED
  BY <1>1, <1>2

\* So do uploads; one that was begun may end, and be taken, later.
LEMMA UploadIInv == ASSUME IInv, NEW u \in Up, StartUpload(u) \/ EndUpload(u) \/ TakeUpload(u) PROVE IInv'
<1> USE DEF IInv, TypeOK, Joined, ApiHas, ClientsIn, OrganizerKnown, OrganizerFirst, GrpcUp, GrpcOver,
        Ended, peer, apiVars, clients, workers, helpers, Alive, Fault
<1>1. CASE StartUpload(u)
  BY <1>1 DEF StartUpload
<1>2. CASE EndUpload(u)
  BY <1>2 DEF EndUpload
<1>3. CASE TakeUpload(u)
  BY <1>3 DEF TakeUpload, Look
<1> QED
  BY <1>1, <1>2, <1>3

\* The pipeline ends after its monitor.
LEMMA PipelineIInv ==
    ASSUME IInv, \/ Disconnected \/ Leave \/ JoinMonitor \/ Event \/ MonitorEnds \/ MonitorFails
                 \/ \E h \in Helper : WorkerDied(h)
    PROVE IInv'
<1> USE DEF IInv, TypeOK, Joined, ApiHas, ClientsIn, OrganizerKnown, OrganizerFirst, GrpcUp, GrpcOver,
        Ended, peer, apiVars, clients, workers, helpers, Alive, Fault
<1>1. CASE Disconnected
  BY <1>1 DEF Disconnected
<1>2. CASE Leave
  BY <1>2 DEF Leave
<1>3. CASE JoinMonitor
  BY <1>3 DEF JoinMonitor
<1>4. CASE Event
  BY <1>4 DEF Event, Look
<1>5. CASE \E h \in Helper : WorkerDied(h)
  BY <1>5 DEF WorkerDied
<1>6. CASE MonitorEnds
  BY <1>6 DEF MonitorEnds
<1>7. CASE MonitorFails
  BY <1>7, LifecycleAssumption DEF MonitorFails
<1> QED
  BY <1>1, <1>2, <1>3, <1>4, <1>5, <1>6, <1>7

\* Nobody waits for the reader and the transcoder, and their steps change nothing but themselves.
LEMMA HelperIInv ==
    ASSUME IInv, NEW h \in Helper, StartWork(h) \/ EndWork(h) \/ HelperEnds(h) \/ HelperDies(h)
    PROVE IInv'
<1> USE DEF IInv, TypeOK, Joined, ApiHas, ClientsIn, OrganizerKnown, OrganizerFirst, GrpcUp, GrpcOver,
        Ended, peer, apiVars, clients, workers, helpers, Alive, Fault
<1>1. CASE StartWork(h)
  BY <1>1 DEF StartWork
<1>2. CASE EndWork(h)
  BY <1>2 DEF EndWork
<1>3. CASE HelperEnds(h)
  BY <1>3 DEF HelperEnds
<1>4. CASE HelperDies(h)
  BY <1>4, LifecycleAssumption DEF HelperDies
<1> QED
  BY <1>1, <1>2, <1>3, <1>4

\* Every step, or none, keeps the invariant.
LEMMA NextIInv == IInv /\ [Next]_vars => IInv'
<1> SUFFICES ASSUME IInv, [Next]_vars PROVE IInv'
  OBVIOUS
<1>1. CASE Main \/ Fail \/ Signal
  BY <1>1, MainIInv
<1>2. CASE Api \/ CallBack \/ ApiPanic
  BY <1>2, ApiIInv
<1>3. CASE \E s \in Ses : OpenSession(s) \/ EndSession(s)
  BY <1>3, SessionIInv
<1>4. CASE \E u \in Up : StartUpload(u) \/ EndUpload(u)
  BY <1>4, UploadIInv
<1>5. CASE Pipeline \/ Event
  BY <1>5, UploadIInv, PipelineIInv DEF Pipeline
<1>6. CASE MonitorEnds \/ MonitorFails
  BY <1>6, PipelineIInv
<1>7. CASE \E h \in Helper : StartWork(h) \/ EndWork(h) \/ HelperEnds(h) \/ HelperDies(h)
  BY <1>7, HelperIInv
<1>8. CASE UNCHANGED vars
  BY <1>8 DEF vars, IInv, TypeOK, Joined, ApiHas, ClientsIn, OrganizerKnown, OrganizerFirst, GrpcUp, GrpcOver
<1> QED
  BY <1>1, <1>2, <1>3, <1>4, <1>5, <1>6, <1>7, <1>8 DEF Next

\* The invariant holds of every behaviour of the server.
THEOREM InvariantHolds == Spec => []IInv
<1> QED
  BY InitIInv, NextIInv, PTL DEF Spec

-----------------------------------------------------------------------------
\* Every thread, session and upload is in one of its states, and the pipeline has a monitor.
THEOREM TypeCorrect == Spec => []TypeOK
<1>1. IInv => TypeOK
  BY DEF IInv
<1> QED
  BY <1>1, InvariantHolds, PTL

\* When the main thread returns, all that is joined has ended: main has joined the pipeline and the
\* API, the pipeline its monitor, and the API all that ran in it.  The reader and the transcoder are
\* joined by nobody, and nothing is said of them.
THEOREM EndsInOrderHolds == Spec => []EndsInOrder
<1>1. IInv => EndsInOrder
  BY DEF IInv, Joined, ApiHas, ClientsIn, EndsInOrder, GrpcOver
<1> QED
  BY <1>1, InvariantHolds, PTL

\* No session and no upload is there before the organizer, if there is one, has called back.
THEOREM OrganizerFirstHolds == Spec => []OrganizerFirst
<1>1. IInv => OrganizerFirst
  BY DEF IInv
<1> QED
  BY <1>1, InvariantHolds, PTL

\* The organizer is called only when the server for its calls has been listening.
THEOREM BackchannelIsThereHolds == Spec => []BackchannelIsThere
<1>1. IInv => BackchannelIsThere
  BY DEF IInv, OrganizerKnown, BackchannelIsThere, GrpcUp
<1> QED
  BY <1>1, InvariantHolds, PTL
=============================================================================
