---------------------------- MODULE CommentSync ----------------------------
(***************************************************************************)
(* Comments: the table of the database, the handlers that change it        *)
(* (api_server/ws_handers.rs), the opening of a media file, and what the   *)
(* browsers make of the messages they are sent (client/src/App.svelte).    *)
(*                                                                         *)
(* A handler reads, awaits the organizer or a drawing file, writes and     *)
(* sends; each is a step, and the other sessions' handlers run in between. *)
(* There is no lock over the database and the sending.  Every session has  *)
(* one queue of messages, which arrive in order.                           *)
(*                                                                         *)
(* Sessions live for ever here, and the media files with them; Sessions    *)
(* has their ends and the locks of the viewer lists.                       *)
(***************************************************************************)
EXTENDS Naturals, Sequences

CONSTANTS Ses,          \* the sessions
          Rpc,          \* the organizer's concurrent client_open_media_file calls
          Media,        \* media files, all in the database
          Playable,     \* those with a playback file
          Text,         \* what comments say, drawings and all
          MaxComments,  \* bound: comments ever made
          MaxInbox,     \* bound: no handler starts while a queue holds more messages than this
          Ops,          \* what the clients do
          NULL

Task == Ses \cup Rpc
Cid == 1..MaxComments
AllOps == {"open", "add", "edit", "del"}

ASSUME CommentsAssumption ==
    /\ Ses \cap Rpc = {}
    /\ MaxComments \in Nat /\ MaxInbox \in Nat
    /\ Playable \subseteq Media
    /\ Ops \subseteq AllOps
    /\ NULL \notin Media \cup Cid

Comment == [id : Cid, media : Media, parent : Cid \cup {NULL}, text : Text]

Message == [cmd : {"openMediaFile"}, media : Media]
           \cup [cmd : {"addComments"}, comments : SUBSET Comment]
           \cup [cmd : {"delComment"}, id : Cid]

Idle == [at |-> "idle"]

\* What a task is doing, with what it has read on the way.
Doing == {Idle}
         \cup [at : {"linked", "opened"}, ses : Ses, media : Media]
         \cup [at : {"read"}, ses : Ses, comments : SUBSET Comment]
         \cup [at : {"unsent"}, comment : Comment]
         \cup [at : {"editing", "edited", "announced"}, id : Cid, media : Media, text : Text]
         \cup [at : {"deleting", "childless", "deleted"}, id : Cid, media : Media]

VARIABLES
    rows,     \* the comments table
    nextId,   \* its AUTOINCREMENT
    viewers,  \* media_file_id_to_senders
    guard,    \* the media file of each session's media_session_guard
    doing,    \* each task's handler
    inbox,    \* the messages under way to each browser
    screen    \* each browser's $mediaFileId and $allComments

vars == <<rows, nextId, viewers, guard, doing, inbox, screen>>

TypeOK ==
    /\ rows \subseteq Comment
    /\ nextId \in 1..MaxComments + 1
    /\ viewers \in [Media -> SUBSET Ses]
    /\ guard \in [Ses -> Media \cup {NULL}]
    /\ doing \in [Task -> Doing]
    /\ inbox \in [Ses -> Seq(Message)]
    /\ screen \in [Ses -> [media : Media \cup {NULL}, comments : SUBSET Comment]]

Init ==
    /\ rows = {}
    /\ nextId = 1
    /\ viewers = [m \in Media |-> {}]
    /\ guard = [s \in Ses |-> NULL]
    /\ doing = [t \in Task |-> Idle]
    /\ inbox = [s \in Ses |-> <<>>]
    /\ screen = [s \in Ses |-> [media |-> NULL, comments |-> {}]]

-----------------------------------------------------------------------------
Stored(id) == {c \in rows : c.id = id}

Replies(id) == {c \in rows : c.parent = id}

\* The comment and, by the foreign key on parent_id, all that hangs from it: the least set of rows
\* that has it and the replies to its members.
Thread(id) ==
    LET Closed(C) == \A c \in C : Replies(c.id) \subseteq C
    IN  {r \in rows : \A C \in SUBSET rows : Stored(id) \subseteq C /\ Closed(C) => r \in C}

Become(t, state) == doing' = [doing EXCEPT ![t] = state]

Send(list, message) ==
    inbox' = [s \in Ses |-> IF s \in list THEN Append(inbox[s], message) ELSE inbox[s]]

AddComments(C) == [cmd |-> "addComments", comments |-> C]

DelComment(id) == [cmd |-> "delComment", id |-> id]

Free(t, op) ==
    /\ op \in Ops
    /\ doing[t] = Idle
    /\ \A s \in Ses : Len(inbox[s]) <= MaxInbox

\* A comment the user can click on.
OnScreen(s, id) == \E c \in screen[s].comments : c.id = id

-----------------------------------------------------------------------------
(* send_open_media_file_cmd *)

\* The session becomes a viewer of the file; its old guard is dropped, and takes the session off the
\* list of the file it was for, even if that is the very same file.
OpenLink(t, s, m) ==
    /\ t \in Ses => t = s
    /\ Free(t, "open")
    /\ viewers' = [f \in Media |-> IF f = guard[s] THEN viewers[f] \ {s}
                                   ELSE IF f = m THEN viewers[f] \cup {s} ELSE viewers[f]]
    /\ guard' = [guard EXCEPT ![s] = m]
    /\ Become(t, [at |-> "linked", ses |-> s, media |-> m])
    /\ UNCHANGED <<rows, nextId, inbox, screen>>

\* "No playback file": an error message, but the session is linked.
OpenFail(t) ==
    /\ doing[t].at = "linked"
    /\ doing[t].media \notin Playable
    /\ Become(t, Idle)
    /\ UNCHANGED <<rows, nextId, viewers, guard, inbox, screen>>

OpenSend(t) ==
    /\ doing[t].at = "linked"
    /\ doing[t].media \in Playable
    /\ Send({doing[t].ses}, [cmd |-> "openMediaFile", media |-> doing[t].media])
    /\ Become(t, [doing[t] EXCEPT !.at = "opened"])
    /\ UNCHANGED <<rows, nextId, viewers, guard, screen>>

OpenRead(t) ==
    /\ doing[t].at = "opened"
    /\ Become(t, [at |-> "read", ses |-> doing[t].ses,
                  comments |-> {c \in rows : c.media = doing[t].media}])
    /\ UNCHANGED <<rows, nextId, viewers, guard, inbox, screen>>

\* The drawings have been fetched, one await each.
OpenSendComments(t) ==
    /\ doing[t].at = "read"
    /\ Send({doing[t].ses}, AddComments(doing[t].comments))
    /\ Become(t, Idle)
    /\ UNCHANGED <<rows, nextId, viewers, guard, screen>>

-----------------------------------------------------------------------------
(* msg_add_comment *)

\* A comment on the file on the screen, or a reply to one there.  The insert fails, and with it the
\* handler, when the comment replied to is gone.
AddInsert(s, parent, text) ==
    LET c == [id |-> nextId, media |-> screen[s].media, parent |-> parent, text |-> text]
    IN  /\ Free(s, "add")
        /\ screen[s].media # NULL
        /\ parent # NULL => OnScreen(s, parent) /\ Stored(parent) # {}
        /\ nextId <= MaxComments
        /\ rows' = rows \cup {c}
        /\ nextId' = nextId + 1
        /\ Become(s, [at |-> "unsent", comment |-> c])
        /\ UNCHANGED <<viewers, guard, inbox, screen>>

\* A mutant: SendTo::UserSession where SendTo::MediaFileId was meant.
EmitToAuthor(s) ==
    /\ doing[s].at = "unsent"
    /\ Send({s}, AddComments({doing[s].comment}))
    /\ Become(s, Idle)
    /\ UNCHANGED <<rows, nextId, viewers, guard, screen>>

\* emit_new_comment, also at the end of an edit: the row as it was read goes to the viewers of now.
EmitNewComment(s) ==
    /\ doing[s].at = "unsent"
    /\ Send(viewers[doing[s].comment.media], AddComments({doing[s].comment}))
    /\ Become(s, Idle)
    /\ UNCHANGED <<rows, nextId, viewers, guard, screen>>

-----------------------------------------------------------------------------
(* msg_edit_comment *)

\* The comment is there and may be edited; otherwise an error message is all there is.
EditGet(s, id, text) ==
    /\ Free(s, "edit")
    /\ OnScreen(s, id)
    /\ \E c \in Stored(id) :
          Become(s, [at |-> "editing", id |-> id, media |-> c.media, text |-> text])
    /\ UNCHANGED <<rows, nextId, viewers, guard, inbox, screen>>

\* After the organizer's answer; a comment deleted in the meantime is no row, and no error.
EditUpdate(s) ==
    /\ doing[s].at = "editing"
    /\ rows' = {IF c.id = doing[s].id THEN [c EXCEPT !.text = doing[s].text] ELSE c : c \in rows}
    /\ Become(s, [doing[s] EXCEPT !.at = "edited"])
    /\ UNCHANGED <<nextId, viewers, guard, inbox, screen>>

EditSendDel(s) ==
    /\ doing[s].at = "edited"
    /\ Send(viewers[doing[s].media], DelComment(doing[s].id))
    /\ Become(s, [doing[s] EXCEPT !.at = "announced"])
    /\ UNCHANGED <<rows, nextId, viewers, guard, screen>>

\* The row is read again, to be sent; if it is not there any more the handler fails here.
EditReread(s) ==
    /\ doing[s].at = "announced"
    /\ IF Stored(doing[s].id) = {} THEN Become(s, Idle)
       ELSE \E c \in Stored(doing[s].id) : Become(s, [at |-> "unsent", comment |-> c])
    /\ UNCHANGED <<rows, nextId, viewers, guard, inbox, screen>>

-----------------------------------------------------------------------------
(* msg_del_comment *)

DelGet(s, id) ==
    /\ Free(s, "del")
    /\ OnScreen(s, id)
    /\ \E c \in Stored(id) : Become(s, [at |-> "deleting", id |-> id, media |-> c.media])
    /\ UNCHANGED <<rows, nextId, viewers, guard, inbox, screen>>

\* "You can only delete your own comments", or the organizer's refusal.
DelDenied(s) ==
    /\ doing[s].at = "deleting"
    /\ Become(s, Idle)
    /\ UNCHANGED <<rows, nextId, viewers, guard, inbox, screen>>

\* "Comment has replies. Cannot delete.", if it has any now.
DelCheck(s) ==
    /\ doing[s].at = "deleting"
    /\ Become(s, IF \E c \in Replies(doing[s].id) : c.media = doing[s].media THEN Idle
                 ELSE [doing[s] EXCEPT !.at = "childless"])
    /\ UNCHANGED <<rows, nextId, viewers, guard, inbox, screen>>

DelRow(s) ==
    /\ doing[s].at = "childless"
    /\ rows' = rows \ Thread(doing[s].id)
    /\ Become(s, [doing[s] EXCEPT !.at = "deleted"])
    /\ UNCHANGED <<nextId, viewers, guard, inbox, screen>>

DelSend(s) ==
    /\ doing[s].at = "deleted"
    /\ Send(viewers[doing[s].media], DelComment(doing[s].id))
    /\ Become(s, Idle)
    /\ UNCHANGED <<rows, nextId, viewers, guard, screen>>

-----------------------------------------------------------------------------
(* The browser *)

\* Mutants: the message is taken for the whole list; comments of any file are shown.
ShownInstead(view, C) == [view EXCEPT !.comments = {c \in C : c.media = view.media}]
ShownOfAnyFile(view, C) == [view EXCEPT !.comments = {c \in @ : \A d \in C : d.id # c.id} \cup C]

\* A comment takes the place of the one with its id; those of other files are ignored.
Shown(view, C) ==
    LET new == {c \in C : c.media = view.media}
    IN  [view EXCEPT !.comments = {c \in @ : \A d \in new : d.id # c.id} \cup new]

Receive(view, message) ==
    CASE message.cmd = "openMediaFile" -> [media |-> message.media, comments |-> {}]
      [] message.cmd = "addComments" -> Shown(view, message.comments)
      [] message.cmd = "delComment" -> [view EXCEPT !.comments = {c \in @ : c.id # message.id}]

Deliver(s) ==
    /\ inbox[s] # <<>>
    /\ screen' = [screen EXCEPT ![s] = Receive(@, Head(inbox[s]))]
    /\ inbox' = [inbox EXCEPT ![s] = Tail(@)]
    /\ UNCHANGED <<rows, nextId, viewers, guard, doing>>

-----------------------------------------------------------------------------
Open(t) == OpenFail(t) \/ OpenSend(t) \/ OpenRead(t) \/ OpenSendComments(t)

\* A handler under way goes on.
Continue(t) ==
    \/ Open(t)
    \/ EmitNewComment(t)
    \/ EditUpdate(t) \/ EditSendDel(t) \/ EditReread(t)
    \/ DelDenied(t) \/ DelCheck(t) \/ DelRow(t) \/ DelSend(t)

Start ==
    \/ \E t \in Task, s \in Ses, m \in Media : OpenLink(t, s, m)
    \/ \E s \in Ses, id \in Cid :
          \/ \E text \in Text : EditGet(s, id, text)
          \/ DelGet(s, id)
    \/ \E s \in Ses, parent \in Cid \cup {NULL}, text \in Text : AddInsert(s, parent, text)

Next == Start \/ (\E t \in Task : Continue(t)) \/ (\E s \in Ses : Deliver(s))

Spec == Init /\ [][Next]_vars

\* Handlers run on threads of their own and do not wait for clients; the connections deliver.
FairSpec ==
    /\ Spec
    /\ \A t \in Task : WF_vars(Continue(t))
    /\ \A s \in Ses : WF_vars(Deliver(s))

-----------------------------------------------------------------------------
(* Properties *)

\* The handlers have come to their ends and everything sent has arrived.
Quiet == (\A t \in Task : doing[t] = Idle) /\ (\A s \in Ses : inbox[s] = <<>>)

\* The browser shows the file the session is registered for.
Follows(s) == screen[s].media # NULL /\ guard[s] = screen[s].media /\ s \in viewers[guard[s]]

CommentsOf(m) == {c \in rows : c.media = m}

\* However openings, additions, edits and deletions overlap: once all is quiet, a viewer has every
\* comment of its file on the screen.  It is listed before the comments are read, and a handler writes
\* before it sends, so a comment made meanwhile is in the one or comes by the other.
NothingMissed ==
    Quiet => \A s \in Ses : Follows(s) =>
        \A c \in CommentsOf(screen[s].media) : \E d \in screen[s].comments : d.id = c.id

\* A screen shows comments of its own file only, each once, whatever messages of an earlier file, or
\* of another opening, are still under way when it is opened.
OneFileOnScreen ==
    \A s \in Ses : \A c \in screen[s].comments :
        /\ c.media = screen[s].media
        /\ \A d \in screen[s].comments : c.id = d.id => c = d

\* The screens of all viewers agree with the database, and so with one another, once all is quiet.
ScreensAgree ==
    Quiet => \A s \in Ses : Follows(s) => screen[s].comments = CommentsOf(screen[s].media)

\* A comment that is made is seen: sooner or later each viewer has had it on the screen, unless it was
\* deleted, or the viewer turned to something else.
CommentsArrive ==
    \A s \in Ses, id \in Cid :
        Follows(s) /\ (\E c \in CommentsOf(screen[s].media) : c.id = id)
            ~> OnScreen(s, id) \/ ~Follows(s) \/ Stored(id) = {}
=============================================================================
