--------------------------- MODULE SessionsProofs ---------------------------
(***************************************************************************)
(* Proofs about Sessions, for any number of connections, organizer calls,  *)
(* media files and collabs.                                                *)
(***************************************************************************)
EXTENDS SessionsRefinement, TLAPS

Joining == {"joinAuthz", "joinGC", "joinMap", "joinAdd"}
Linking == {"link", "relink", "shown"}
Serving == {"idle", "joinEmit", "leaveDrop"} \cup Linking
Dropping == {"user", "sid", "media", "collab", "rx"}

\* Where a task can be, and what it knows there.
TaskInv ==
    /\ \A r \in Rpc : pc[r] \in {"idle"} \cup Linking
    /\ \A t \in Task : pc[t] \in Linking => subject[t] \in Sid /\ want[t] \in Media
    /\ \A s \in Sid : pc[s] \in Joining => wantCollab[s] \in Collab /\ want[s] \in Media
    /\ \A s \in Sid : pc[s] \in {"joinEmit", "leaveDrop"} => curCollab[s] \in Collab

\* Who holds a lock is in the middle of the change the lock protects, and nobody else is.
LockInv ==
    /\ \A t \in Task : sidLock = t <=> pc[t] \in {"relink", "media"}
    /\ \A s \in Sid : collabLock = s <=> pc[s] = "joinAdd"

\* Where a session must be for its entries to exist.
RegistryInv ==
    /\ \A s \in Sid : s \in rxAlive <=> pc[s] \notin {"new", "closed"}
    /\ \A s \in userSenders : pc[s] \in {"regSid", "login", "user"} \cup Serving \cup Joining
    /\ \A s \in sidMap : pc[s] \in {"login", "user", "sid"} \cup Serving \cup Joining

\* A media guard lives in sid_to_session and dies with the entry; a viewer has a guard or is about
\* to be given one.
ViewerInv ==
    /\ \A s \in Sid : mediaGuard[s] # NULL => s \in sidMap \/ pc[s] = "media"
    /\ \A t \in Task : pc[t] = "relink" => subject[t] \in sidMap
    /\ \A m \in Media : \A s \in mediaSenders[m] :
          \/ mediaGuard[s] = m
          \/ \E t \in Task : pc[t] = "relink" /\ subject[t] = s /\ want[t] = m

\* A participant is where it can be one, with the file the collab is mapped to; the joiner that
\* holds the lock has seen to the mapping.
CollabInv ==
    /\ \A s \in Sid : curCollab[s] = collabGuard[s]
    /\ \A s \in Sid :
          collabGuard[s] # NULL => pc[s] \in Serving \cup {"user", "sid", "media", "collab"}
    /\ \A s \in Sid, c \in Collab : s \in collabSenders[c] <=> collabGuard[s] = c
    /\ \A s \in Sid, c \in Collab :
          collabGuard[s] = c => collabMedia[c] \in Media /\ joinedWith[s] = collabMedia[c]
    /\ \A s \in Sid : pc[s] = "joinAdd" => collabMedia[wantCollab[s]] = want[s]

IInv == TypeOK /\ TaskInv /\ LockInv /\ RegistryInv /\ ViewerInv /\ CollabInv /\ ~sendFailed

\* Whoever is on a list, or in sid_to_session, still has its receiver.
LEMMA ListsAlive ==
  ASSUME IInv PROVE /\ userSenders \subseteq rxAlive
                    /\ sidMap \subseteq rxAlive
                    /\ \A m \in Media : mediaSenders[m] \subseteq rxAlive
                    /\ \A c \in Collab : collabSenders[c] \subseteq rxAlive
<1> USE SessionsAssumption DEF IInv, TypeOK, RegistryInv, Joining, Linking, Serving
<1>1. userSenders \subseteq rxAlive /\ sidMap \subseteq rxAlive
  OBVIOUS
<1>2. ASSUME NEW m \in Media, NEW s \in mediaSenders[m] PROVE s \in rxAlive
  BY <1>1 DEF TaskInv, ViewerInv, Task
<1>3. ASSUME NEW c \in Collab, NEW s \in collabSenders[c] PROVE s \in rxAlive
  <2>1. s \in Sid /\ collabGuard[s] = c /\ c # NULL
    BY DEF CollabInv
  <2> QED
    BY <2>1 DEF CollabInv
<1> QED
  BY <1>1, <1>2, <1>3

\* No step of a session, of the organizer or of the relay breaks the inductive invariant.
THEOREM Preserved == IInv /\ [Next]_vars => IInv'
<1> SUFFICES ASSUME IInv, [Next]_vars PROVE IInv'
  OBVIOUS
<1> USE SessionsAssumption, ListsAlive
    DEF IInv, TypeOK, Task, Maybe, Goto, SendAll, Joining, Linking, Serving
<1>1. ASSUME NEW s \in Sid, Connect(s) PROVE IInv'
  BY <1>1 DEF Connect, links, collabs, TaskInv, LockInv, RegistryInv, ViewerInv, CollabInv
<1>2. ASSUME NEW s \in Sid, RegisterUser(s) PROVE IInv'
  BY <1>2 DEF RegisterUser, links, collabs, TaskInv, LockInv, RegistryInv, ViewerInv, CollabInv
<1>3. ASSUME NEW s \in Sid, RegisterSid(s) PROVE IInv'
  BY <1>3 DEF RegisterSid, collabs, registry, TaskInv, LockInv, RegistryInv, ViewerInv, CollabInv
<1>4. ASSUME NEW s \in Sid, Login(s) PROVE IInv'
  BY <1>4
     DEF Login, DropAfter, links, collabs, registry, TaskInv, LockInv, RegistryInv, ViewerInv,
         CollabInv
<1>5. ASSUME NEW s \in Sid, NEW m \in Media, OpenMediaFile(s,m) PROVE IInv'
  BY <1>5
     DEF OpenMediaFile, collabs, registry, TaskInv, LockInv, RegistryInv, ViewerInv, CollabInv
<1>6. ASSUME NEW r \in Rpc, NEW s \in Sid, NEW m \in Media, ClientOpenMediaFile(r,s,m) PROVE IInv'
  BY <1>6
     DEF ClientOpenMediaFile, collabs, registry, TaskInv, LockInv, RegistryInv, ViewerInv,
         CollabInv
<1>7. ASSUME NEW t \in Task, LinkPush(t) PROVE IInv'
  <2>1. TypeOK'
    BY <1>7 DEF LinkPush, collabs, registry, TaskInv
  <2>2. TaskInv'
    BY <1>7 DEF LinkPush, collabs, registry, TaskInv
  <2>3. LockInv'
    BY <1>7 DEF LinkPush, collabs, registry, LockInv
  <2>4. RegistryInv'
    BY <1>7 DEF LinkPush, collabs, registry, RegistryInv
  <2>5. ViewerInv'
    BY <1>7 DEF LinkPush, collabs, registry, ViewerInv
  <2>6. CollabInv'
    BY <1>7 DEF LinkPush, collabs, registry, CollabInv
  <2>7. ~sendFailed'
    BY <1>7 DEF LinkPush, collabs, registry
  <2> QED BY <2>1, <2>2, <2>3, <2>4, <2>5, <2>6, <2>7
<1>8. ASSUME NEW t \in Task, LinkNoSession(t) PROVE IInv'
  BY <1>8
     DEF LinkNoSession, collabs, registry, TaskInv, LockInv, RegistryInv, ViewerInv, CollabInv
<1>9. ASSUME NEW t \in Task, Relink(t) PROVE IInv'
  <2>1. TypeOK'
    BY <1>9 DEF Relink, Unlist, collabs, registry, TaskInv
  <2>2. TaskInv'
    BY <1>9 DEF Relink, Unlist, collabs, registry, TaskInv
  <2>3. LockInv'
    BY <1>9 DEF Relink, Unlist, collabs, registry, LockInv
  <2>4. RegistryInv'
    BY <1>9 DEF Relink, Unlist, collabs, registry, RegistryInv
  <2>5. ViewerInv'
    BY <1>9 DEF Relink, Unlist, collabs, registry, ViewerInv
  <2>6. CollabInv'
    BY <1>9 DEF Relink, Unlist, collabs, registry, CollabInv
  <2>7. ~sendFailed'
    BY <1>9 DEF Relink, Unlist, collabs, registry
  <2> QED BY <2>1, <2>2, <2>3, <2>4, <2>5, <2>6, <2>7
<1>10. ASSUME NEW t \in Task, ShowMediaFile(t) PROVE IInv'
  BY <1>10
     DEF ShowMediaFile, collabs, registry, TaskInv, LockInv, RegistryInv, ViewerInv, CollabInv
<1>11. ASSUME NEW s \in Sid, NEW c \in Collab, NEW m \in Media, JoinCollab(s,c,m) PROVE IInv'
  <2>1. TypeOK'
    BY <1>11 DEF JoinCollab, Unlist, registry
  <2>2. TaskInv'
    BY <1>11 DEF JoinCollab, Unlist, registry, TaskInv
  <2>3. LockInv'
    BY <1>11 DEF JoinCollab, Unlist, registry, LockInv
  <2>4. RegistryInv'
    BY <1>11 DEF JoinCollab, Unlist, registry, RegistryInv
  <2>5. ViewerInv'
    BY <1>11 DEF JoinCollab, Unlist, registry, ViewerInv
  <2>6. CollabInv'
    BY <1>11 DEF JoinCollab, Unlist, registry, CollabInv
  <2>7. ~sendFailed'
    BY <1>11 DEF JoinCollab, Unlist, registry
  <2> QED BY <2>1, <2>2, <2>3, <2>4, <2>5, <2>6, <2>7
<1>12. ASSUME NEW s \in Sid, JoinAllowed(s) PROVE IInv'
  BY <1>12
     DEF JoinAllowed, links, collabs, registry, TaskInv, LockInv, RegistryInv, ViewerInv,
         CollabInv
<1>13. ASSUME NEW s \in Sid, JoinDenied(s) PROVE IInv'
  BY <1>13
     DEF JoinDenied, UserList, EndOfJoin, registry, TaskInv, LockInv, RegistryInv, ViewerInv,
         CollabInv
<1>14. ASSUME NEW s \in Sid, JoinGC(s) PROVE IInv'
  <2>1. TypeOK'
    BY <1>14 DEF JoinGC, links, registry
  <2>2. TaskInv'
    BY <1>14 DEF JoinGC, links, registry, TaskInv
  <2>3. LockInv'
    BY <1>14 DEF JoinGC, links, registry, LockInv
  <2>4. RegistryInv'
    BY <1>14 DEF JoinGC, links, registry, RegistryInv
  <2>5. ViewerInv'
    BY <1>14 DEF JoinGC, links, registry, ViewerInv
  <2>6. CollabInv'
    BY <1>14 DEF JoinGC, links, registry, CollabInv, LockInv
  <2>7. ~sendFailed'
    BY <1>14 DEF JoinGC, links, registry
  <2> QED BY <2>1, <2>2, <2>3, <2>4, <2>5, <2>6, <2>7
<1>15. ASSUME NEW s \in Sid, JoinMap(s) PROVE IInv'
  <2>1. TypeOK'
    BY <1>15 DEF JoinMap, links, registry, TaskInv
  <2>2. TaskInv'
    BY <1>15 DEF JoinMap, links, registry, TaskInv
  <2>3. LockInv'
    BY <1>15 DEF JoinMap, links, registry, LockInv
  <2>4. RegistryInv'
    BY <1>15 DEF JoinMap, links, registry, RegistryInv
  <2>5. ViewerInv'
    BY <1>15 DEF JoinMap, links, registry, ViewerInv
  <2>6. CollabInv'
    BY <1>15 DEF JoinMap, links, registry, CollabInv, TaskInv
  <2>7. ~sendFailed'
    BY <1>15 DEF JoinMap, links, registry
  <2> QED BY <2>1, <2>2, <2>3, <2>4, <2>5, <2>6, <2>7
<1>16. ASSUME NEW s \in Sid, JoinMismatch(s) PROVE IInv'
  BY <1>16
     DEF JoinMismatch, UserList, EndOfJoin, registry, TaskInv, LockInv, RegistryInv, ViewerInv,
         CollabInv
<1>17. ASSUME NEW s \in Sid, JoinAdd(s) PROVE IInv'
  <2>1. TypeOK'
    BY <1>17 DEF JoinAdd, EndOfJoin, registry, TaskInv
  <2>2. TaskInv'
    BY <1>17 DEF JoinAdd, EndOfJoin, registry, TaskInv
  <2>3. LockInv'
    BY <1>17 DEF JoinAdd, EndOfJoin, registry, LockInv
  <2>4. RegistryInv'
    BY <1>17 DEF JoinAdd, EndOfJoin, registry, RegistryInv
  <2>5. ViewerInv'
    BY <1>17 DEF JoinAdd, EndOfJoin, registry, ViewerInv
  <2>6. CollabInv'
    BY <1>17 DEF JoinAdd, EndOfJoin, registry, CollabInv, TaskInv
  <2>7. ~sendFailed'
    BY <1>17 DEF JoinAdd, EndOfJoin, registry
  <2> QED BY <2>1, <2>2, <2>3, <2>4, <2>5, <2>6, <2>7
<1>18. ASSUME NEW s \in Sid, JoinEmit(s) PROVE IInv'
  BY <1>18
     DEF JoinEmit, links, collabs, registry, TaskInv, LockInv, RegistryInv, ViewerInv, CollabInv
<1>19. ASSUME NEW s \in Sid, LeaveCollab(s) PROVE IInv'
  BY <1>19
     DEF LeaveCollab, links, collabs, registry, TaskInv, LockInv, RegistryInv, ViewerInv,
         CollabInv
<1>20. ASSUME NEW s \in Sid, LeaveDrop(s) PROVE IInv'
  <2>1. TypeOK'
    BY <1>20 DEF LeaveDrop, Unlist, DropCollabGuard, links, registry
  <2>2. TaskInv'
    BY <1>20 DEF LeaveDrop, Unlist, DropCollabGuard, links, registry, TaskInv
  <2>3. LockInv'
    BY <1>20 DEF LeaveDrop, Unlist, DropCollabGuard, links, registry, LockInv
  <2>4. RegistryInv'
    BY <1>20 DEF LeaveDrop, Unlist, DropCollabGuard, links, registry, RegistryInv
  <2>5. ViewerInv'
    BY <1>20 DEF LeaveDrop, Unlist, DropCollabGuard, links, registry, ViewerInv
  <2>6. CollabInv'
    BY <1>20 DEF LeaveDrop, Unlist, DropCollabGuard, links, registry, CollabInv
  <2>7. ~sendFailed'
    BY <1>20 DEF LeaveDrop, Unlist, DropCollabGuard, links, registry
  <2> QED BY <2>1, <2>2, <2>3, <2>4, <2>5, <2>6, <2>7
<1>21. ASSUME NEW s \in Sid, CollabReport(s) PROVE IInv'
  BY <1>21
     DEF CollabReport, UserList, links, collabs, registry, TaskInv, LockInv, RegistryInv,
         ViewerInv, CollabInv
<1>22. ASSUME NEW list \in Lists, Notify(list) PROVE IInv'
  <2>1. list \subseteq rxAlive
    BY <1>22 DEF Lists, UserList
  <2>2. ~sendFailed'
    BY <1>22, <2>1 DEF Notify
  <2> QED
    BY <1>22, <2>2 DEF Notify, links, collabs, registry,
       TaskInv, LockInv, RegistryInv, ViewerInv, CollabInv
<1>23. ASSUME NEW s \in Sid, EndSession(s) PROVE IInv'
  BY <1>23
     DEF EndSession, DropAfter, links, collabs, registry, TaskInv, LockInv, RegistryInv,
         ViewerInv, CollabInv
<1>24. ASSUME NEW s \in Sid, DropUserGuard(s) PROVE IInv'
  BY <1>24
     DEF DropUserGuard, DropAfter, links, collabs, TaskInv, LockInv, RegistryInv, ViewerInv,
         CollabInv
<1>25. ASSUME NEW s \in Sid, DropSidGuard(s) PROVE IInv'
  <2>1. TypeOK'
    BY <1>25 DEF DropSidGuard, DropAfter, collabs, registry
  <2>2. TaskInv'
    BY <1>25 DEF DropSidGuard, DropAfter, collabs, registry, TaskInv
  <2>3. LockInv'
    BY <1>25 DEF DropSidGuard, DropAfter, collabs, registry, LockInv
  <2>4. RegistryInv'
    BY <1>25 DEF DropSidGuard, DropAfter, collabs, registry, RegistryInv
  <2>5. ViewerInv'
    BY <1>25 DEF DropSidGuard, DropAfter, collabs, registry, ViewerInv, LockInv
  <2>6. CollabInv'
    BY <1>25 DEF DropSidGuard, DropAfter, collabs, registry, CollabInv
  <2>7. ~sendFailed'
    BY <1>25 DEF DropSidGuard, DropAfter, collabs, registry
  <2> QED BY <2>1, <2>2, <2>3, <2>4, <2>5, <2>6, <2>7
<1>26. ASSUME NEW s \in Sid, DropMediaGuard(s) PROVE IInv'
  <2>1. TypeOK'
    BY <1>26 DEF DropMediaGuard, Unlist, DropAfter, collabs, registry
  <2>2. TaskInv'
    BY <1>26 DEF DropMediaGuard, Unlist, DropAfter, collabs, registry, TaskInv
  <2>3. LockInv'
    BY <1>26 DEF DropMediaGuard, Unlist, DropAfter, collabs, registry, LockInv
  <2>4. RegistryInv'
    BY <1>26 DEF DropMediaGuard, Unlist, DropAfter, collabs, registry, RegistryInv
  <2>5. ViewerInv'
    BY <1>26 DEF DropMediaGuard, Unlist, DropAfter, collabs, registry, ViewerInv
  <2>6. CollabInv'
    BY <1>26 DEF DropMediaGuard, Unlist, DropAfter, collabs, registry, CollabInv
  <2>7. ~sendFailed'
    BY <1>26 DEF DropMediaGuard, Unlist, DropAfter, collabs, registry
  <2> QED BY <2>1, <2>2, <2>3, <2>4, <2>5, <2>6, <2>7
<1>27. ASSUME NEW s \in Sid, DropSession(s) PROVE IInv'
  <2>1. TypeOK'
    BY <1>27 DEF DropSession, Unlist, DropCollabGuard, DropAfter, links, registry
  <2>2. TaskInv'
    BY <1>27 DEF DropSession, Unlist, DropCollabGuard, DropAfter, links, registry, TaskInv
  <2>3. LockInv'
    BY <1>27 DEF DropSession, Unlist, DropCollabGuard, DropAfter, links, registry, LockInv
  <2>4. RegistryInv'
    BY <1>27 DEF DropSession, Unlist, DropCollabGuard, DropAfter, links, registry, RegistryInv
  <2>5. ViewerInv'
    BY <1>27 DEF DropSession, Unlist, DropCollabGuard, DropAfter, links, registry, ViewerInv
  <2>6. CollabInv'
    BY <1>27 DEF DropSession, Unlist, DropCollabGuard, DropAfter, links, registry, CollabInv
  <2>7. ~sendFailed'
    BY <1>27 DEF DropSession, Unlist, DropCollabGuard, DropAfter, links, registry
  <2> QED BY <2>1, <2>2, <2>3, <2>4, <2>5, <2>6, <2>7
<1>28. ASSUME NEW s \in Sid, DropReceiver(s) PROVE IInv'
  BY <1>28
     DEF DropReceiver, DropAfter, links, collabs, TaskInv, LockInv, RegistryInv, ViewerInv,
         CollabInv
<1>29. CASE UNCHANGED vars
  BY <1>29 DEF vars, links, collabs, registry, TaskInv, LockInv, RegistryInv, ViewerInv, CollabInv
<1> QED
  BY <1>1, <1>2, <1>3, <1>4, <1>5, <1>6, <1>7, <1>8, <1>9, <1>10, <1>11, <1>12, <1>13, <1>14, <1>15,
     <1>16, <1>17, <1>18, <1>19, <1>20, <1>21, <1>22, <1>23, <1>24, <1>25, <1>26, <1>27, <1>28, <1>29
     DEF Next, Run, Client

\* The server starts without sessions.
LEMMA Initial == Init => IInv
<1> SUFFICES ASSUME Init PROVE IInv
  OBVIOUS
<1>1. /\ \A t \in Task : pc[t] = IF t \in Sid THEN "new" ELSE "idle"
      /\ Sid \subseteq Task /\ Rpc \subseteq Task /\ \A r \in Rpc : r \notin Sid
      /\ NULL \notin Task /\ NULL \notin Media /\ NULL \notin Collab
  BY SessionsAssumption DEF Init, Task
<1>2. TypeOK
  BY DEF Init, TypeOK, Maybe
<1>3. TaskInv
  BY <1>1 DEF TaskInv, Joining, Linking
<1>4. LockInv
  BY <1>1 DEF Init, LockInv
<1>5. RegistryInv
  BY <1>1 DEF Init, RegistryInv
<1>6. ViewerInv
  BY <1>1 DEF Init, ViewerInv
<1>7. CollabInv
  BY <1>1 DEF Init, CollabInv
<1> QED
  BY <1>2, <1>3, <1>4, <1>5, <1>6, <1>7 DEF Init, IInv

\* The inductive invariant holds in every reachable state of the registry.
THEOREM Invariance == Spec => []IInv
  BY Initial, Preserved, PTL DEF Spec

\* Every variable keeps its type.
THEOREM TypeCorrect == Spec => []TypeOK
<1>1. IInv => TypeOK
  BY DEF IInv
<1> QED
  BY <1>1, Invariance, PTL

\* No list ever holds a sender whose receiver is gone, and so no broadcast of the server is cut
\* short: the order in which handle_ws_session drops its locals sees to it.
THEOREM BroadcastsAreComplete == Spec => [](ReceiversAlive /\ SendsNeverFail)
<1>1. IInv => ReceiversAlive /\ SendsNeverFail
  <2> SUFFICES ASSUME IInv PROVE ReceiversAlive /\ SendsNeverFail
    OBVIOUS
  <2>1. ReceiversAlive
    BY ListsAlive DEF ReceiversAlive
  <2>2. SendsNeverFail
    BY DEF IInv, SendsNeverFail
  <2> QED
    BY <2>1, <2>2
<1> QED
  BY <1>1, Invariance, PTL

\* However joins, departures and garbage collections interleave, the participants of a collab have
\* come with one media file, and each session is in the one collab it holds a guard for.
THEOREM CollabsAgree == Spec => [](CollabAgreement /\ OneCollab)
<1>1. IInv => CollabAgreement /\ OneCollab
  BY DEF IInv, TypeOK, CollabInv, CollabAgreement, OneCollab
<1> QED
  BY <1>1, Invariance, PTL

\* A session is on the list of no other media file than the one its guard is for.
THEOREM ViewersAreCurrent == Spec => []NoStaleViewer
<1>1. IInv => NoStaleViewer
  BY DEF IInv, TypeOK, LockInv, ViewerInv, NoStaleViewer
<1> QED
  BY <1>1, Invariance, PTL

\* A session that has closed is on no list and in no map.
THEOREM NothingIsLeftBehind == Spec => []ClosedLeavesNothing
<1>1. IInv => ClosedLeavesNothing
  <2> SUFFICES ASSUME IInv, NEW s \in Sid, pc[s] = "closed"
               PROVE  /\ s \notin rxAlive \cup sidMap \cup userSenders
                      /\ \A m \in Media : s \notin mediaSenders[m]
                      /\ \A c \in Collab : s \notin collabSenders[c]
    BY DEF ClosedLeavesNothing
  <2>1. s \notin rxAlive
    BY DEF IInv, RegistryInv
  <2> QED
    BY <2>1, ListsAlive
<1> QED
  BY <1>1, Invariance, PTL

-----------------------------------------------------------------------------
(* The registry implements the rooms. *)

\* What a step does to the lists and the mapping of the collabs, seen as a step of the rooms.
LEMMA RoomStep == IInv /\ [Next]_vars => [Rooms!RoomNext]_Rooms!roomVars
<1> SUFFICES ASSUME IInv, [Next]_vars PROVE [Rooms!RoomNext]_Rooms!roomVars
  OBVIOUS
<1> USE SessionsAssumption DEF IInv, TypeOK, CollabInv, Maybe, Rooms!roomVars, showingOf
<1>1. ASSUME NEW s \in Sid, JoinGC(s) PROVE UNCHANGED <<collabSenders, showingOf>>
  BY <1>1 DEF JoinGC
<1>2. ASSUME NEW s \in Sid, JoinMap(s) PROVE UNCHANGED <<collabSenders, showingOf>>
  <2>1. wantCollab[s] \in Collab
    BY <1>2 DEF JoinMap, TaskInv, Joining
  <2>2. \A x \in collabSenders[wantCollab[s]] : collabMedia[wantCollab[s]] # NULL
    BY <2>1
  <2>3. ASSUME NEW c \in Collab, collabSenders[c] # {} PROVE collabMedia'[c] = collabMedia[c]
    BY <1>2, <2>1, <2>2, <2>3 DEF JoinMap
  <2>4. UNCHANGED collabSenders
    BY <1>2 DEF JoinMap
  <2> QED
    BY <2>3, <2>4
<1>3. ASSUME NEW s \in Sid, JoinAdd(s)
      PROVE  Rooms!Enter(s, wantCollab[s], want[s]) /\ wantCollab[s] \in Collab /\ want[s] \in Media
  <2> DEFINE c == wantCollab[s]
  <2>1. c \in Collab /\ want[s] \in Media /\ collabMedia[c] = want[s]
    BY <1>3 DEF JoinAdd, TaskInv, Joining
  <2>2. \A d \in Collab : s \notin collabSenders[d]
    BY <1>3 DEF JoinAdd, Serving, Linking
  <2>3. collabSenders[c] = {} \/ showingOf[c] = want[s]
    BY <2>1
  <2>4. collabSenders' = [collabSenders EXCEPT ![c] = @ \cup {s}] /\ collabMedia' = collabMedia
    BY <1>3 DEF JoinAdd
  <2>5. showingOf' = [showingOf EXCEPT ![c] = want[s]]
    BY <2>1, <2>4
  <2> QED
    BY <2>1, <2>2, <2>3, <2>4, <2>5 DEF Rooms!Enter
<1>4. ASSUME NEW s \in Sid, DropCollabGuard(s), UNCHANGED collabMedia
      PROVE  \/ \E c \in Collab : Rooms!Leave(s, c)
             \/ UNCHANGED <<collabSenders, showingOf>>
  <2>1. CASE collabGuard[s] = NULL
    BY <1>4, <2>1 DEF DropCollabGuard
  <2>2. CASE collabGuard[s] # NULL
    <3> DEFINE c == collabGuard[s]
    <3>1. c \in Collab /\ s \in collabSenders[c]
      BY <2>2
    <3>2. collabSenders' = [collabSenders EXCEPT ![c] = @ \ {s}]
      BY <1>4, <2>2 DEF DropCollabGuard, Unlist
    <3>3. showingOf' = IF collabSenders[c] = {s} THEN [showingOf EXCEPT ![c] = NULL] ELSE showingOf
      <4>1. ASSUME NEW d \in Collab, d # c PROVE showingOf'[d] = showingOf[d]
        BY <1>4, <3>1, <3>2, <4>1
      <4>2. collabSenders'[c] = collabSenders[c] \ {s} /\ collabSenders[c] # {}
        BY <3>1, <3>2
      <4>3. collabSenders'[c] = {} <=> collabSenders[c] = {s}
        BY <4>2, <3>1
      <4>4. showingOf'[c] = IF collabSenders[c] = {s} THEN NULL ELSE showingOf[c]
        BY <1>4, <3>1, <4>2, <4>3
      <4>5. CASE collabSenders[c] = {s}
        <5>1. \A d \in Collab : showingOf'[d] = IF d = c THEN NULL ELSE showingOf[d]
          BY <4>1, <4>4, <4>5
        <5>2. showingOf' = [d \in Collab |-> showingOf'[d]]
          OBVIOUS
        <5> HIDE DEF IInv, TypeOK, CollabInv
        <5>3. showingOf' = [showingOf EXCEPT ![c] = NULL]
          BY <5>1, <5>2, <3>1, Zenon
        <5> QED
          BY <5>3, <4>5
      <4>6. CASE collabSenders[c] # {s}
        <5>1. showingOf'[c] = showingOf[c]
          BY <4>4, <4>6
        <5>2. showingOf' = showingOf
          BY <4>1, <5>1
        <5> QED
          BY <5>2, <4>6
      <4> QED
        BY <4>5, <4>6
    <3> QED
      BY <3>1, <3>2, <3>3 DEF Rooms!Leave
  <2> QED
    BY <2>1, <2>2
<1>5. ASSUME NEW s \in Sid, NEW c \in Collab, NEW m \in Media, JoinCollab(s, c, m)
      PROVE  UNCHANGED <<collabSenders, showingOf>>
  BY <1>5 DEF JoinCollab
<1>6. ASSUME NEW s \in Sid, LeaveDrop(s) \/ DropSession(s)
      PROVE  DropCollabGuard(s) /\ UNCHANGED collabMedia
  BY <1>6 DEF LeaveDrop, DropSession
<1>7. CASE UNCHANGED <<collabSenders, collabMedia>>
  BY <1>7
<1> QED
  <2>1. ASSUME NEW t \in Task, Run(t)
        PROVE  \/ UNCHANGED <<collabSenders, collabMedia>>
               \/ /\ t \in Sid
                  /\ JoinGC(t) \/ JoinMap(t) \/ JoinAdd(t) \/ LeaveDrop(t) \/ DropSession(t)
    BY <2>1
       DEF Run, LinkPush, LinkNoSession, Relink, ShowMediaFile, RegisterUser, RegisterSid, Login,
                JoinAllowed, JoinDenied, JoinMismatch, JoinEmit, DropUserGuard, DropSidGuard,
                DropMediaGuard, DropReceiver, collabs
  <2>2. ASSUME NEW s \in Sid, Client(s)
        PROVE  \/ UNCHANGED <<collabSenders, collabMedia>>
               \/ \E c \in Collab, m \in Media : JoinCollab(s, c, m)
    BY <2>2 DEF Client, Connect, EndSession, OpenMediaFile, LeaveCollab, CollabReport, collabs
  <2>3. ASSUME NEW r \in Rpc, NEW s \in Sid, NEW m \in Media, ClientOpenMediaFile(r, s, m)
        PROVE  UNCHANGED <<collabSenders, collabMedia>>
    BY <2>3 DEF ClientOpenMediaFile, collabs
  <2>4. ASSUME NEW list \in Lists, Notify(list) PROVE UNCHANGED <<collabSenders, collabMedia>>
    BY <2>4 DEF Notify, collabs
  <2>5. CASE UNCHANGED vars
    BY <2>5, <1>7 DEF vars, collabs
  <2>6. \/ UNCHANGED <<collabSenders, collabMedia>>
        \/ \E s \in Sid : \/ JoinGC(s) \/ JoinMap(s) \/ JoinAdd(s) \/ LeaveDrop(s) \/ DropSession(s)
                          \/ \E c \in Collab, m \in Media : JoinCollab(s, c, m)
        \/ UNCHANGED vars
    BY <2>1, <2>2, <2>3, <2>4 DEF Next
  <2> QED
    <3>1. ASSUME NEW s \in Sid, JoinAdd(s) PROVE Rooms!RoomNext
      <4>1. Rooms!Enter(s, wantCollab[s], want[s]) /\ wantCollab[s] \in Collab /\ want[s] \in Media
        BY <1>3, <3>1
      <4> HIDE DEF IInv, TypeOK, CollabInv, showingOf
      <4> QED
        BY <4>1 DEF Rooms!RoomNext
    <3>2. ASSUME NEW s \in Sid, LeaveDrop(s) \/ DropSession(s)
          PROVE  Rooms!RoomNext \/ UNCHANGED <<collabSenders, showingOf>>
      <4>1. DropCollabGuard(s) /\ UNCHANGED collabMedia
        BY <1>6, <3>2
      <4>2. \/ \E c \in Collab : Rooms!Leave(s, c)
            \/ UNCHANGED <<collabSenders, showingOf>>
        BY <1>4, <4>1
      <4>3. ASSUME NEW c \in Collab, Rooms!Leave(s, c) PROVE Rooms!RoomNext
        BY <4>3 DEF Rooms!RoomNext
      <4> QED
        BY <4>2, <4>3
    <3> QED
      BY <2>5, <2>6, <3>1, <3>2, <1>1, <1>2, <1>5, <1>7

\* Every behaviour of the registry is one of the rooms.
THEOREM Refinement == Spec => ImplementsRooms
<1>1. Init => Rooms!RoomInit
  BY DEF Init, Rooms!RoomInit, showingOf
<1> QED
  BY <1>1, RoomStep, Invariance, PTL DEF Spec, ImplementsRooms, Rooms!RoomSpec
=============================================================================
