------------------------------ MODULE Sessions ------------------------------
(***************************************************************************)
(* The server's registry of connected clients: the maps of ServerState     *)
(* (api_server/server_state.rs), the life of a WebSocket session           *)
(* (handle_ws_session in api_server/mod.rs) and the handlers that enter    *)
(* and leave the maps (api_server/ws_handers.rs).                          *)
(*                                                                         *)
(* Every session runs on a thread of its own and the organizer's RPCs run  *)
(* on others, so a step here is what happens under one lock, or between    *)
(* two awaits, never a whole handler.  A list entry is removed by the Drop *)
(* of a guard; when a guard is dropped is therefore part of the model.     *)
(* A sender is identified with its session: a session has one channel and  *)
(* session ids are never reused.  The lists are sets: their order and the  *)
(* second copy that a repeated push makes are invisible to retain, which   *)
(* drops every copy.                                                       *)
(***************************************************************************)
CONSTANTS Sid,      \* the connections made in one run of the server
          UserOf,   \* the user id of each, from the proxy's headers
          Rpc,      \* the organizer's concurrent client_open_media_file calls
          Media,    \* media file ids
          Collab,   \* collab ids
          NULL

Task == Sid \cup Rpc

ASSUME SessionsAssumption ==
    /\ Sid \cap Rpc = {}
    /\ DOMAIN UserOf = Sid
    /\ NULL \notin Task \cup Media \cup Collab

VARIABLES
    pc,             \* where each task is
    subject,        \* the session a link in progress is made for
    want,           \* the media file a handler in progress is about
    wantCollab,     \* the collab a join in progress is about
    rxAlive,        \* sessions whose msgq_rx exists
    userSenders,    \* user_id_to_senders: the list of a user is its part with that user's sessions
    sidMap,         \* the keys of sid_to_session
    mediaGuard,     \* media_session_guard of the copy of the session in sid_to_session
    mediaSenders,   \* media_file_id_to_senders
    collabSenders,  \* collab_id_to_senders
    collabMedia,    \* collab_id_to_media_file_id
    curCollab,      \* cur_collab_id of the session's task
    collabGuard,    \* collab_session_guard of the session's task
    joinedWith,     \* history: the media file the session joined its collab with
    sidLock,        \* the task holding sid_to_session.write()
    collabLock,     \* the task holding collab_id_to_media_file_id.write()
    sendFailed      \* history: a sender.send() met a channel without a receiver

links == <<subject, want, sidLock, sidMap, mediaGuard, mediaSenders>>
collabs == <<wantCollab, collabSenders, collabMedia, curCollab, collabGuard, joinedWith, collabLock>>
registry == <<rxAlive, userSenders>>
vars == <<pc, links, collabs, registry, sendFailed>>

Maybe(S) == S \cup {NULL}

TypeOK ==
    /\ pc \in [Task -> {"new", "regUser", "regSid", "login", "idle", "link", "relink", "shown",
                        "joinAuthz", "joinGC", "joinMap", "joinAdd", "joinEmit", "leaveDrop",
                        "user", "sid", "media", "collab", "rx", "closed"}]
    /\ subject \in [Task -> Maybe(Sid)]
    /\ want \in [Task -> Maybe(Media)]
    /\ wantCollab \in [Sid -> Maybe(Collab)]
    /\ rxAlive \subseteq Sid
    /\ userSenders \subseteq Sid
    /\ sidMap \subseteq Sid
    /\ mediaGuard \in [Sid -> Maybe(Media)]
    /\ mediaSenders \in [Media -> SUBSET Sid]
    /\ collabSenders \in [Collab -> SUBSET Sid]
    /\ collabMedia \in [Collab -> Maybe(Media)]
    /\ curCollab \in [Sid -> Maybe(Collab)]
    /\ collabGuard \in [Sid -> Maybe(Collab)]
    /\ joinedWith \in [Sid -> Maybe(Media)]
    /\ sidLock \in Maybe(Task)
    /\ collabLock \in Maybe(Sid)
    /\ sendFailed \in BOOLEAN

Init ==
    /\ pc = [t \in Task |-> IF t \in Sid THEN "new" ELSE "idle"]
    /\ subject = [t \in Task |-> NULL]
    /\ want = [t \in Task |-> NULL]
    /\ wantCollab = [s \in Sid |-> NULL]
    /\ rxAlive = {}
    /\ userSenders = {}
    /\ sidMap = {}
    /\ mediaGuard = [s \in Sid |-> NULL]
    /\ mediaSenders = [m \in Media |-> {}]
    /\ collabSenders = [c \in Collab |-> {}]
    /\ collabMedia = [c \in Collab |-> NULL]
    /\ curCollab = [s \in Sid |-> NULL]
    /\ collabGuard = [s \in Sid |-> NULL]
    /\ joinedWith = [s \in Sid |-> NULL]
    /\ sidLock = NULL
    /\ collabLock = NULL
    /\ sendFailed = FALSE

Goto(t, label) == pc' = [pc EXCEPT ![t] = label]

(***************************************************************************)
(* Sending.  A message is put on the channel of every sender of a list,    *)
(* under the list's read lock.  The send fails only when the channel has   *)
(* lost its receiver, and the rest of the list is then skipped; that it    *)
(* never does is a property, and what a failed send would lead to is not   *)
(* modelled.                                                               *)
(***************************************************************************)
SendAll(list) == sendFailed' = (sendFailed \/ ~(list \subseteq rxAlive))

\* The sessions of the user behind session s: a user may be connected several times.
UserList(s) == {x \in userSenders : UserOf[x] = UserOf[s]}

\* The drop of a guard made by add_sender_to_maplist: every copy of the sender leaves the list.
Unlist(lists, key, s) == [lists EXCEPT ![key] = @ \ {s}]

(* The end of a session is a chain of drops. *)

\* A mutant: the channel is declared after the session.
ReceiverDroppedBeforeSession ==
    [start |-> "user", user |-> "sid", sid |-> "media", media |-> "rx", rx |-> "collab", collab |-> "closed"]

\* The locals of handle_ws_session are dropped in the reverse of the order they are declared in:
\* _user_session_guard (a pair of guards, first the user's), then ses, and msgq_rx at the end.
\* Removing the session from sid_to_session drops the copy kept there, and with it the media guard.
DropAfter ==
    [start |-> "user", user |-> "sid", sid |-> "media", media |-> "collab", collab |-> "rx", rx |-> "closed"]

-----------------------------------------------------------------------------
(* Start of a session *)

\* The channel is made and the user row looked up; an error of the database ends it here, unseen.
Connect(s) ==
    /\ pc[s] = "new"
    /\ rxAlive' = rxAlive \cup {s}
    /\ Goto(s, "regUser")
    /\ UNCHANGED <<links, collabs, userSenders, sendFailed>>

\* First half of register_user_session: the list of the user's senders.
RegisterUser(s) ==
    /\ pc[s] = "regUser"
    /\ userSenders' = userSenders \cup {s}
    /\ Goto(s, "regSid")
    /\ UNCHANGED <<links, collabs, rxAlive, sendFailed>>

\* Second half: a copy of the session goes into sid_to_session.
RegisterSid(s) ==
    /\ pc[s] = "regSid"
    /\ sidLock = NULL
    /\ sidMap' = sidMap \cup {s}
    /\ Goto(s, "login")
    /\ UNCHANGED <<subject, want, sidLock, mediaGuard, mediaSenders, collabs, registry, sendFailed>>

\* Welcome and DefineActions are sent, the organizer is connected and asked; a refusal, or an
\* organizer out of reach, ends the session like any other end.
Login(s) ==
    /\ pc[s] = "login"
    /\ SendAll({s})
    /\ \E allowed \in BOOLEAN : Goto(s, IF allowed THEN "idle" ELSE DropAfter.start)
    /\ UNCHANGED <<links, collabs, registry>>

-----------------------------------------------------------------------------
(* Opening a media file: by the session's own task, or by the organizer *)

\* The file was found and viewing it allowed (otherwise the handler returns with nothing changed).
OpenMediaFile(s, m) ==
    /\ s \in Sid
    /\ pc[s] = "idle"
    /\ subject' = [subject EXCEPT ![s] = s]
    /\ want' = [want EXCEPT ![s] = m]
    /\ Goto(s, "link")
    /\ UNCHANGED <<sidLock, sidMap, mediaGuard, mediaSenders, collabs, registry, sendFailed>>

\* The organizer names any session and any media file, of which neither need exist any more.
ClientOpenMediaFile(r, s, m) ==
    /\ r \in Rpc
    /\ pc[r] = "idle"
    /\ subject' = [subject EXCEPT ![r] = s]
    /\ want' = [want EXCEPT ![r] = m]
    /\ Goto(r, "link")
    /\ UNCHANGED <<sidLock, sidMap, mediaGuard, mediaSenders, collabs, registry, sendFailed>>

\* A mutant: the session is not looked up again under the lock.
LinkPushBlindly(t) ==
    /\ pc[t] = "link"
    /\ sidLock = NULL
    /\ mediaSenders' = [mediaSenders EXCEPT ![want[t]] = @ \cup {subject[t]}]
    /\ sidLock' = t
    /\ Goto(t, "relink")
    /\ UNCHANGED <<subject, want, sidMap, mediaGuard, collabs, registry, sendFailed>>

\* link_session_to_media_file, up to the push: with sid_to_session locked, the session's sender is
\* put on the list of the file.
LinkPush(t) ==
    /\ pc[t] = "link"
    /\ sidLock = NULL
    /\ subject[t] \in sidMap
    /\ mediaSenders' = [mediaSenders EXCEPT ![want[t]] = @ \cup {subject[t]}]
    /\ sidLock' = t
    /\ Goto(t, "relink")
    /\ UNCHANGED <<subject, want, sidMap, mediaGuard, collabs, registry, sendFailed>>

\* "Session {} not found": the handler gives up.
LinkNoSession(t) ==
    /\ pc[t] = "link"
    /\ sidLock = NULL
    /\ subject[t] \notin sidMap
    /\ subject' = [subject EXCEPT ![t] = NULL]
    /\ want' = [want EXCEPT ![t] = NULL]
    /\ Goto(t, "idle")
    /\ UNCHANGED <<sidLock, sidMap, mediaGuard, mediaSenders, collabs, registry, sendFailed>>

\* A mutant: the old guard is kept alive somewhere when the new one takes its place.
RelinkKeepsOld(t) ==
    /\ pc[t] = "relink"
    /\ mediaGuard' = [mediaGuard EXCEPT ![subject[t]] = want[t]]
    /\ sidLock' = NULL
    /\ Goto(t, "shown")
    /\ UNCHANGED <<subject, want, sidMap, mediaSenders, collabs, registry, sendFailed>>

\* ses.media_session_guard = Some(grd): the assignment drops the guard that was there, which takes
\* the sender off the list of the file that guard was made for.
Relink(t) ==
    LET s == subject[t]
        old == mediaGuard[s]
    IN  /\ pc[t] = "relink"
        /\ mediaSenders' = IF old = NULL THEN mediaSenders ELSE Unlist(mediaSenders, old, s)
        /\ mediaGuard' = [mediaGuard EXCEPT ![s] = want[t]]
        /\ sidLock' = NULL
        /\ Goto(t, "shown")
        /\ UNCHANGED <<subject, want, sidMap, collabs, registry, sendFailed>>

\* The rest of send_open_media_file_cmd: the file and its comments go to the session, if it is
\* still in sid_to_session.  A file that is gone or not playable yet is an error, but the session
\* stays linked.
ShowMediaFile(t) ==
    /\ pc[t] = "shown"
    /\ sidLock = NULL
    /\ SendAll({subject[t]} \cap sidMap)
    /\ subject' = [subject EXCEPT ![t] = NULL]
    /\ want' = [want EXCEPT ![t] = NULL]
    /\ Goto(t, "idle")
    /\ UNCHANGED <<sidLock, sidMap, mediaGuard, mediaSenders, collabs, registry>>

-----------------------------------------------------------------------------
(* Collabs *)

\* A second join is ignored as long as the first is in force; otherwise what is left of an earlier
\* collab is dropped and the media file looked up.
JoinCollab(s, c, m) ==
    /\ pc[s] = "idle"
    /\ ~(curCollab[s] # NULL /\ s \in collabSenders[curCollab[s]])
    /\ collabSenders' = IF collabGuard[s] = NULL THEN collabSenders
                        ELSE Unlist(collabSenders, collabGuard[s], s)
    /\ collabGuard' = [collabGuard EXCEPT ![s] = NULL]
    /\ curCollab' = [curCollab EXCEPT ![s] = NULL]
    /\ joinedWith' = [joinedWith EXCEPT ![s] = NULL]
    /\ want' = [want EXCEPT ![s] = m]
    /\ wantCollab' = [wantCollab EXCEPT ![s] = c]
    /\ Goto(s, "joinAuthz")
    /\ UNCHANGED <<subject, sidLock, sidMap, mediaGuard, mediaSenders, collabMedia, collabLock,
                   registry, sendFailed>>

EndOfJoin(s) ==
    /\ want' = [want EXCEPT ![s] = NULL]
    /\ wantCollab' = [wantCollab EXCEPT ![s] = NULL]
    /\ UNCHANGED <<subject, sidLock, sidMap, mediaGuard, mediaSenders>>

\* The lookup and the organizer's answer, each awaited.
JoinAllowed(s) ==
    /\ pc[s] = "joinAuthz"
    /\ Goto(s, "joinGC")
    /\ UNCHANGED <<links, collabs, registry, sendFailed>>

JoinDenied(s) ==
    /\ pc[s] = "joinAuthz"
    /\ SendAll(UserList(s))
    /\ EndOfJoin(s)
    /\ Goto(s, "idle")
    /\ UNCHANGED <<collabSenders, collabMedia, curCollab, collabGuard, joinedWith, collabLock, registry>>

\* garbage_collect_collab_media_file_map: both locks are held, and released again.
JoinGC(s) ==
    /\ pc[s] = "joinGC"
    /\ collabLock = NULL
    /\ collabMedia' = [c \in Collab |-> IF collabSenders[c] = {} THEN NULL ELSE collabMedia[c]]
    /\ Goto(s, "joinMap")
    /\ UNCHANGED <<links, wantCollab, collabSenders, curCollab, collabGuard, joinedWith, collabLock,
                   registry, sendFailed>>

\* A mutant: the lock is released before the sender is listed.
JoinMapUnlocks(s) ==
    LET c == wantCollab[s]
    IN  /\ pc[s] = "joinMap"
        /\ collabLock = NULL
        /\ collabMedia[c] \in {NULL, want[s]}
        /\ collabMedia' = [collabMedia EXCEPT ![c] = want[s]]
        /\ Goto(s, "joinAdd")
        /\ UNCHANGED <<links, wantCollab, collabSenders, curCollab, collabGuard, joinedWith, collabLock,
                       registry, sendFailed>>

\* A mutant: every joiner sets the file.
JoinMapOverwrites(s) ==
    /\ pc[s] = "joinMap"
    /\ collabLock = NULL
    /\ collabMedia' = [collabMedia EXCEPT ![wantCollab[s]] = want[s]]
    /\ collabLock' = s
    /\ Goto(s, "joinAdd")
    /\ UNCHANGED <<links, wantCollab, collabSenders, curCollab, collabGuard, joinedWith,
                   registry, sendFailed>>

\* link_session_to_collab with collab_id_to_media_file_id locked again: the first to come sets the file.
JoinMap(s) ==
    LET c == wantCollab[s]
    IN  /\ pc[s] = "joinMap"
        /\ collabLock = NULL
        /\ collabMedia[c] \in {NULL, want[s]}
        /\ collabMedia' = [collabMedia EXCEPT ![c] = want[s]]
        /\ collabLock' = s
        /\ Goto(s, "joinAdd")
        /\ UNCHANGED <<links, wantCollab, collabSenders, curCollab, collabGuard, joinedWith,
                       registry, sendFailed>>

\* A mutant: the early return forgets the lock.
JoinMismatchKeepsLock(s) ==
    /\ pc[s] = "joinMap"
    /\ collabLock = NULL
    /\ collabMedia[wantCollab[s]] \notin {NULL, want[s]}
    /\ collabLock' = s
    /\ SendAll(UserList(s))
    /\ EndOfJoin(s)
    /\ Goto(s, "idle")
    /\ UNCHANGED <<collabSenders, collabMedia, curCollab, collabGuard, joinedWith, registry>>

\* "Mismatching media file id for pre-existing collab": an error message, and the lock is released.
JoinMismatch(s) ==
    /\ pc[s] = "joinMap"
    /\ collabLock = NULL
    /\ collabMedia[wantCollab[s]] \notin {NULL, want[s]}
    /\ SendAll(UserList(s))
    /\ EndOfJoin(s)
    /\ Goto(s, "idle")
    /\ UNCHANGED <<collabSenders, collabMedia, curCollab, collabGuard, joinedWith, collabLock, registry>>

\* The sender is listed, the lock released, and the task keeps the guard and the id.
JoinAdd(s) ==
    LET c == wantCollab[s]
    IN  /\ pc[s] = "joinAdd"
        /\ collabSenders' = [collabSenders EXCEPT ![c] = @ \cup {s}]
        /\ collabLock' = NULL
        /\ collabGuard' = [collabGuard EXCEPT ![s] = c]
        /\ curCollab' = [curCollab EXCEPT ![s] = c]
        /\ joinedWith' = [joinedWith EXCEPT ![s] = want[s]]
        /\ EndOfJoin(s)
        /\ Goto(s, "joinEmit")
        /\ UNCHANGED <<collabMedia, registry, sendFailed>>

\* "'{}' joined collab"
JoinEmit(s) ==
    /\ pc[s] = "joinEmit"
    /\ SendAll(collabSenders[curCollab[s]])
    /\ Goto(s, "idle")
    /\ UNCHANGED <<links, collabs, registry>>

\* msg_leave_collab tells the others first ...
LeaveCollab(s) ==
    /\ pc[s] = "idle"
    /\ curCollab[s] # NULL
    /\ SendAll(collabSenders[curCollab[s]])
    /\ Goto(s, "leaveDrop")
    /\ UNCHANGED <<links, collabs, registry>>

\* The collab guard of the session's task is dropped.
DropCollabGuard(s) ==
    /\ collabSenders' = IF collabGuard[s] = NULL THEN collabSenders
                        ELSE Unlist(collabSenders, collabGuard[s], s)
    /\ collabGuard' = [collabGuard EXCEPT ![s] = NULL]
    /\ curCollab' = [curCollab EXCEPT ![s] = NULL]
    /\ joinedWith' = [joinedWith EXCEPT ![s] = NULL]

\* A mutant: only the id is forgotten, the guard lives on.
LeaveKeepsGuard(s) ==
    /\ pc[s] = "leaveDrop"
    /\ curCollab' = [curCollab EXCEPT ![s] = NULL]
    /\ Goto(s, "idle")
    /\ UNCHANGED <<links, wantCollab, collabSenders, collabMedia, collabGuard, joinedWith, collabLock,
                   registry, sendFailed>>

\* ... and then drops its guard and forgets the collab.
LeaveDrop(s) ==
    /\ pc[s] = "leaveDrop"
    /\ DropCollabGuard(s)
    /\ Goto(s, "idle")
    /\ UNCHANGED <<links, wantCollab, collabMedia, collabLock, registry, sendFailed>>

\* A position or drawing is passed on to the collab; without one, the user is told so.
CollabReport(s) ==
    /\ pc[s] = "idle"
    /\ SendAll(IF curCollab[s] # NULL THEN collabSenders[curCollab[s]] ELSE UserList(s))
    /\ UNCHANGED <<pc, links, collabs, registry>>

\* The message relay, the other handlers and the organizer's RPCs: one list, at any time.
Notify(list) ==
    /\ SendAll(list)
    /\ UNCHANGED <<pc, links, collabs, registry>>

-----------------------------------------------------------------------------
(* End of a session *)

\* Logout, a close frame, a broken connection, an unreadable message or the termination flag.
EndSession(s) ==
    /\ pc[s] = "idle"
    /\ Goto(s, DropAfter.start)
    /\ UNCHANGED <<links, collabs, registry, sendFailed>>

DropUserGuard(s) ==
    /\ pc[s] = "user"
    /\ userSenders' = userSenders \ {s}
    /\ Goto(s, DropAfter.user)
    /\ UNCHANGED <<links, collabs, rxAlive, sendFailed>>

\* The entry of sid_to_session goes; the lock stays held while its value is dropped.
DropSidGuard(s) ==
    /\ pc[s] = "sid"
    /\ sidLock = NULL
    /\ sidMap' = sidMap \ {s}
    /\ sidLock' = s
    /\ Goto(s, DropAfter.sid)
    /\ UNCHANGED <<subject, want, mediaGuard, mediaSenders, collabs, registry, sendFailed>>

DropMediaGuard(s) ==
    /\ pc[s] = "media"
    /\ mediaSenders' = IF mediaGuard[s] = NULL THEN mediaSenders
                       ELSE Unlist(mediaSenders, mediaGuard[s], s)
    /\ mediaGuard' = [mediaGuard EXCEPT ![s] = NULL]
    /\ sidLock' = NULL
    /\ Goto(s, DropAfter.media)
    /\ UNCHANGED <<subject, want, sidMap, collabs, registry, sendFailed>>

DropSession(s) ==
    /\ pc[s] = "collab"
    /\ DropCollabGuard(s)
    /\ Goto(s, DropAfter.collab)
    /\ UNCHANGED <<links, wantCollab, collabMedia, collabLock, registry, sendFailed>>

DropReceiver(s) ==
    /\ pc[s] = "rx"
    /\ rxAlive' = rxAlive \ {s}
    /\ Goto(s, DropAfter.rx)
    /\ UNCHANGED <<links, collabs, userSenders, sendFailed>>

-----------------------------------------------------------------------------
\* What a task does next without waiting for a client.
Run(t) ==
    \/ LinkPush(t) \/ LinkNoSession(t) \/ Relink(t) \/ ShowMediaFile(t)
    \/ /\ t \in Sid
       /\ \/ RegisterUser(t) \/ RegisterSid(t) \/ Login(t)
          \/ JoinAllowed(t) \/ JoinDenied(t) \/ JoinGC(t) \/ JoinMap(t) \/ JoinMismatch(t)
          \/ JoinAdd(t) \/ JoinEmit(t) \/ LeaveDrop(t)
          \/ DropUserGuard(t) \/ DropSidGuard(t) \/ DropMediaGuard(t) \/ DropSession(t)
          \/ DropReceiver(t)

\* What a client asks for.
Client(s) ==
    \/ Connect(s) \/ EndSession(s)
    \/ \E m \in Media : OpenMediaFile(s, m)
    \/ \E c \in Collab, m \in Media : JoinCollab(s, c, m)
    \/ LeaveCollab(s) \/ CollabReport(s)

Lists == {UserList(s) : s \in Sid} \cup {mediaSenders[m] : m \in Media} \cup {collabSenders[c] : c \in Collab}

Next ==
    \/ \E t \in Task : Run(t)
    \/ \E s \in Sid : Client(s)
    \/ \E r \in Rpc, s \in Sid, m \in Media : ClientOpenMediaFile(r, s, m)
    \/ \E list \in Lists : Notify(list)

Spec == Init /\ [][Next]_vars

\* Every task has its own thread, so one that can go on does; clients may do nothing for ever.  The
\* locks are fair (parking_lot hands a lock to a waiter that has been passed over for long), which
\* is what strong fairness of a task says when its next step is to take one.
FairSpec == Spec /\ \A t \in Task : SF_vars(Run(t))

-----------------------------------------------------------------------------
(* Properties *)

\* A sender that is on any list, or in sid_to_session, has its receiver: the order of the drops at
\* the end of a session takes the session off every list before its channel goes.
ReceiversAlive ==
    /\ userSenders \subseteq rxAlive
    /\ sidMap \subseteq rxAlive
    /\ \A m \in Media : mediaSenders[m] \subseteq rxAlive
    /\ \A c \in Collab : collabSenders[c] \subseteq rxAlive

\* So no broadcast is ever cut short: "Bails out with error if any of the senders fail" never happens.
SendsNeverFail == ~sendFailed

\* All participants of a collab joined it with one and the same media file, the one the collab is
\* mapped to: the mapping outlives every participant and no joiner slips past it.
CollabAgreement ==
    \A c \in Collab : \A s \in collabSenders[c] : joinedWith[s] = collabMedia[c]

\* What a session's task believes and what the list says agree: it holds a guard for the collab
\* it reports to, is a participant of that one, and of no other.
OneCollab ==
    \A s \in Sid :
        /\ curCollab[s] = collabGuard[s]
        /\ \A c \in Collab : s \in collabSenders[c] <=> collabGuard[s] = c

\* A session hears of changes to one media file only: it is listed as a viewer of the file its guard
\* is for, except between the push of the new guard and the drop of the old one.
NoStaleViewer ==
    \A m \in Media : \A s \in mediaSenders[m] :
        \/ mediaGuard[s] = m
        \/ \E t \in Task : sidLock = t /\ pc[t] = "relink" /\ subject[t] = s /\ want[t] = m

\* A session that is gone has left nothing behind, even when the organizer opened a file for it
\* while it was closing.
ClosedLeavesNothing ==
    \A s \in Sid : pc[s] = "closed" =>
        /\ s \notin rxAlive \cup sidMap \cup userSenders
        /\ \A m \in Media : s \notin mediaSenders[m]
        /\ \A c \in Collab : s \notin collabSenders[c]

\* A session whose guard is for a media file is registered as its viewer (the doc comments of
\* link_session_to_media_file and msg_open_media_file say so).
ViewerIsRegistered ==
    \A s \in Sid : sidLock = NULL /\ s \in sidMap /\ mediaGuard[s] # NULL => s \in mediaSenders[mediaGuard[s]]

\* Whatever a client asked for comes to an end: the task gets back to its loop, or closes.
RequestsEnd == \A t \in Task : pc[t] \notin {"new", "idle", "closed"} ~> pc[t] \in {"idle", "closed"}
=============================================================================
