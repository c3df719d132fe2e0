---------------------------- MODULE SessionLocks ----------------------------
(***************************************************************************)
(* The read-write locks of ServerState and the order in which the code     *)
(* takes them.  Every call of the server on its maps is a short program of *)
(* lock steps, run by one of several threads: the sessions' threads, the   *)
(* message relay and the organizer's RPCs.                                 *)
(*                                                                         *)
(* The locks are parking_lot's: a writer first claims the lock, which      *)
(* keeps later readers out, and then waits for the readers inside to       *)
(* leave; a lock is not reentrant, not even for readers.                   *)
(***************************************************************************)
EXTENDS Naturals, Sequences, FiniteSets

CONSTANTS Thread,   \* the threads of the server that use the maps
          Jobs,     \* the calls they make
          NULL

Lock == {"sid", "user", "media", "collab", "collabMedia"}

R(l) == [op |-> "read", lock |-> l]
W(l) == [op |-> "write", lock |-> l]
U(l) == [op |-> "unlock", lock |-> l]
Reading(l) == <<R(l), U(l)>>
Writing(l) == <<W(l), U(l)>>

\* register_user_session: one list after the other.
Register == Writing("user") \o Writing("sid")

\* A mutant: the session is found first, and looked up for writing with its media list locked.
LinkListFirst == <<W("media"), W("sid"), U("sid"), U("media")>>

\* link_session_to_media_file: the new sender is listed, and the old guard dropped, under "sid".
Link == <<W("sid")>> \o Writing("media") \o Writing("media") \o <<U("sid")>>

\* link_session_to_collab, after the check for a double join.
JoinCollab ==
    Reading("collab")
        \o <<W("collabMedia")>> \o Reading("collab") \o <<U("collabMedia")>>
        \o <<W("collabMedia")>> \o Writing("collab") \o <<U("collabMedia")>>

\* msg_leave_collab: tell the others, drop the guard.
LeaveCollab == Reading("collab") \o Writing("collab")

\* The drops at the end of handle_ws_session; the media guard dies with the entry of sid_to_session.
EndSession ==
    Writing("user") \o <<W("sid")>> \o Writing("media") \o <<U("sid")>> \o Writing("collab")

\* emit_cmd to one session, to a user, to the viewers of a file, to a collab.
Send(l) == Reading(l)

\* client_show_user_message to a session: get_session's guard is alive when push_notify_message
\* comes to send_to_user_session, which takes the same lock.
ShowToSession == <<R("sid")>> \o Send("sid") \o <<U("sid")>>

Program ==
    [register |-> Register, link |-> Link, joinCollab |-> JoinCollab, leaveCollab |-> LeaveCollab,
     endSession |-> EndSession, sendSession |-> Send("sid"), sendUser |-> Send("user"),
     sendMedia |-> Send("media"), sendCollab |-> Send("collab"), showToSession |-> ShowToSession]

ASSUME LocksAssumption == Jobs \subseteq DOMAIN Program /\ NULL \notin Thread \cup Jobs

VARIABLES
    job,      \* the call each thread is in, NULL between calls
    step,     \* the lock step it is about to take
    writer,   \* the thread that has claimed each lock for writing
    readers   \* how many read guards of each lock each thread has

vars == <<job, step, writer, readers>>

TypeOK ==
    /\ job \in [Thread -> Jobs \cup {NULL}]
    /\ step \in [Thread -> Nat]
    /\ \A t \in Thread : job[t] # NULL => step[t] \in 1..Len(Program[job[t]])
    /\ writer \in [Lock -> Thread \cup {NULL}]
    /\ readers \in [Lock -> [Thread -> Nat]]

Init ==
    /\ job = [t \in Thread |-> NULL]
    /\ step = [t \in Thread |-> 1]
    /\ writer = [l \in Lock |-> NULL]
    /\ readers = [l \in Lock |-> [t \in Thread |-> 0]]

Current(t) == Program[job[t]][step[t]]

Claimed(t) == Current(t).op = "write" /\ writer[Current(t).lock] = t

\* The step is done: on to the next, or the call returns.
Advance(t) ==
    IF step[t] < Len(Program[job[t]])
    THEN step' = [step EXCEPT ![t] = @ + 1] /\ UNCHANGED job
    ELSE step' = [step EXCEPT ![t] = 1] /\ job' = [job EXCEPT ![t] = NULL]

Call(t, j) ==
    /\ job[t] = NULL
    /\ job' = [job EXCEPT ![t] = j]
    /\ UNCHANGED <<step, writer, readers>>

AcquireRead(t) ==
    /\ job[t] # NULL
    /\ Current(t).op = "read"
    /\ writer[Current(t).lock] = NULL
    /\ readers' = [readers EXCEPT ![Current(t).lock][t] = @ + 1]
    /\ Advance(t)
    /\ UNCHANGED writer

\* A writer claims the lock: from here on no reader gets in.
Claim(t) ==
    /\ job[t] # NULL
    /\ Current(t).op = "write"
    /\ writer[Current(t).lock] = NULL
    /\ writer' = [writer EXCEPT ![Current(t).lock] = t]
    /\ UNCHANGED <<job, step, readers>>

\* The readers are gone and the lock is the writer's.
AcquireWrite(t) ==
    /\ job[t] # NULL
    /\ Claimed(t)
    /\ \A u \in Thread : readers[Current(t).lock][u] = 0
    /\ Advance(t)
    /\ UNCHANGED <<writer, readers>>

\* A guard is dropped.
Unlock(t) ==
    /\ job[t] # NULL
    /\ Current(t).op = "unlock"
    /\ IF writer[Current(t).lock] = t
       THEN writer' = [writer EXCEPT ![Current(t).lock] = NULL] /\ UNCHANGED readers
       ELSE readers' = [readers EXCEPT ![Current(t).lock][t] = @ - 1] /\ UNCHANGED writer
    /\ Advance(t)

Proceed(t) == AcquireRead(t) \/ Claim(t) \/ AcquireWrite(t) \/ Unlock(t)

Next == \E t \in Thread : Proceed(t) \/ \E j \in Jobs : Call(t, j)

Spec == Init /\ [][Next]_vars

\* parking_lot hands a contended lock over after half a millisecond: nobody who waits for a lock
\* that is free again and again is passed over for ever.
FairSpec == Spec /\ \A t \in Thread : SF_vars(Proceed(t))

-----------------------------------------------------------------------------
\* The threads a thread has to wait for: the writer of its lock, or the readers it shuts out.
WaitsFor(t) ==
    IF job[t] = NULL \/ Current(t).op = "unlock" THEN {}
    ELSE LET l == Current(t).lock
         IN  IF Claimed(t) THEN {u \in Thread : readers[l][u] > 0} ELSE {writer[l]} \ {NULL}

\* No set of threads waits only for one another: whatever the sessions, the relay and the
\* organizer's calls are doing, one of them gets on.
NoCircularWait ==
    \A S \in (SUBSET Thread) \ {{}} : \E t \in S : S \cap WaitsFor(t) = {}

\* Every call on the maps returns.
CallsReturn == \A t \in Thread : job[t] # NULL ~> job[t] = NULL
=============================================================================
