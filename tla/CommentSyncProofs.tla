------------------------- MODULE CommentSyncProofs -------------------------
(***************************************************************************)
(* Proofs about CommentSync, for any sessions, media files and comments:   *)
(* a screen shows comments of its own file only, each once, and once all   *)
(* is quiet a viewer lacks none, however openings, additions, edits and    *)
(* deletions overlap.  Without edits and deletions it shows no more.       *)
(*                                                                         *)
(* A comment that a viewer does not show yet is in the hands of a handler  *)
(* that will send it, or of an opening that will, or in the queue with     *)
(* nothing behind it that would take it off the screen again.              *)
(***************************************************************************)
EXTENDS CommentSync, TLAPS

View == [media : Media \cup {NULL}, comments : SUBSET Comment]

\* A queue q of messages to a browser that shows v: what they add, and what they take away.
Adds(message, id) == message.cmd = "addComments" /\ \E c \in message.comments : c.id = id

Opens(message) == message.cmd = "openMediaFile"

Clears(message, id) == Opens(message) \/ (message.cmd = "delComment" /\ message.id = id)

\* The comment is on the screen when all has arrived, if it is of the file shown then.
WillShow(v, q, id) ==
    \/ /\ \E c \in v.comments : c.id = id
       /\ \A k \in 1..Len(q) : ~Clears(q[k], id)
    \/ \E k \in 1..Len(q) : Adds(q[k], id) /\ \A n \in k + 1..Len(q) : ~Clears(q[n], id)

\* m is the file shown when all has arrived.
WillBe(v, q, m) ==
    \/ v.media = m /\ \A k \in 1..Len(q) : ~Opens(q[k])
    \/ \E k \in 1..Len(q) : Opens(q[k]) /\ q[k].media = m /\ \A n \in k + 1..Len(q) : ~Opens(q[n])

-----------------------------------------------------------------------------
\* What a message has depends on its command.
LEMMA Messages ==
    ASSUME NEW message \in Message
    PROVE  /\ message.cmd \in {"openMediaFile", "addComments", "delComment"}
           /\ message.cmd = "openMediaFile" => message.media \in Media
           /\ message.cmd = "addComments" => message.comments \subseteq Comment
           /\ message.cmd = "delComment" => message.id \in Cid
  BY DEF Message

\* A message at the end of the queue.
LEMMA AppendShows ==
    ASSUME NEW q \in Seq(Message), NEW message \in Message, NEW v \in View, NEW id \in Cid, NEW m \in Media
    PROVE  /\ Append(q, message) \in Seq(Message)
           /\ WillShow(v, q, id) /\ ~Clears(message, id) => WillShow(v, Append(q, message), id)
           /\ Adds(message, id) => WillShow(v, Append(q, message), id)
           /\ WillBe(v, Append(q, message), m) =>
                 IF Opens(message) THEN message.media = m ELSE WillBe(v, q, m)
<1> DEFINE r == Append(q, message)
<1>1. /\ r \in Seq(Message) /\ Len(q) \in Nat /\ Len(r) = Len(q) + 1
      /\ \A k \in 1..Len(q) : r[k] = q[k] /\ k \in 1..Len(r)
      /\ r[Len(q) + 1] = message
  OBVIOUS
<1>2. \A k \in 1..Len(r) : k \in 1..Len(q) \/ k = Len(q) + 1
  BY <1>1
<1> HIDE DEF r
<1>3. WillShow(v, q, id) /\ ~Clears(message, id) => WillShow(v, r, id)
  <2> SUFFICES ASSUME WillShow(v, q, id), ~Clears(message, id) PROVE WillShow(v, r, id)
    OBVIOUS
  <2>1. CASE /\ \E c \in v.comments : c.id = id
             /\ \A k \in 1..Len(q) : ~Clears(q[k], id)
    BY <1>1, <1>2, <2>1 DEF WillShow
  <2>2. CASE \E k \in 1..Len(q) : Adds(q[k], id) /\ \A n \in k + 1..Len(q) : ~Clears(q[n], id)
    <3>1. PICK k \in 1..Len(q) : Adds(q[k], id) /\ \A n \in k + 1..Len(q) : ~Clears(q[n], id)
      BY <2>2
    <3>2. \A n \in k + 1..Len(r) : n \in k + 1..Len(q) \/ n = Len(q) + 1
      BY <1>1
    <3>3. \A n \in k + 1..Len(r) : ~Clears(r[n], id)
      BY <1>1, <3>1, <3>2
    <3> QED
      BY <1>1, <3>1, <3>3 DEF WillShow
  <2> QED
    BY <2>1, <2>2 DEF WillShow
<1>4. Adds(message, id) => WillShow(v, r, id)
  <2>1. \A n \in (Len(q) + 1) + 1..Len(r) : FALSE
    BY <1>1
  <2>2. Len(q) + 1 \in 1..Len(r)
    BY <1>1
  <2> QED
    BY <1>1, <2>1, <2>2 DEF WillShow
<1>5. WillBe(v, r, m) => IF Opens(message) THEN message.media = m ELSE WillBe(v, q, m)
  <2> SUFFICES ASSUME WillBe(v, r, m) PROVE IF Opens(message) THEN message.media = m ELSE WillBe(v, q, m)
    OBVIOUS
  <2>1. CASE v.media = m /\ \A k \in 1..Len(r) : ~Opens(r[k])
    <3>1. ~Opens(message)
      BY <1>1, <2>1
    <3> QED
      BY <1>1, <2>1, <3>1 DEF WillBe
  <2>2. CASE \E k \in 1..Len(r) : Opens(r[k]) /\ r[k].media = m /\ \A n \in k + 1..Len(r) : ~Opens(r[n])
    <3>1. PICK k \in 1..Len(r) : Opens(r[k]) /\ r[k].media = m /\ \A n \in k + 1..Len(r) : ~Opens(r[n])
      BY <2>2
    <3>2. CASE k = Len(q) + 1
      BY <1>1, <3>1, <3>2
    <3>3. CASE k \in 1..Len(q)
      <4>1. ~Opens(message)
        BY <1>1, <3>1, <3>3
      <4>2. \A n \in k + 1..Len(q) : n \in k + 1..Len(r) /\ r[n] = q[n]
        BY <1>1, <3>3
      <4> QED
        BY <1>1, <3>1, <3>3, <4>1, <4>2 DEF WillBe
    <3> QED
      BY <1>2, <3>1, <3>2, <3>3
  <2> QED
    BY <2>1, <2>2 DEF WillBe
<1> QED
  BY <1>1, <1>3, <1>4, <1>5 DEF r

\* The first message of the queue reaches the browser.
LEMMA ReceiveView ==
    ASSUME NEW v \in View, NEW message \in Message
    PROVE  /\ Receive(v, message) \in View
           /\ Opens(message) => Receive(v, message).media = message.media
           /\ ~Opens(message) => Receive(v, message).media = v.media
           /\ \A id \in Cid : (\E c \in v.comments : c.id = id) /\ ~Clears(message, id)
                 => \E c \in Receive(v, message).comments : c.id = id
           /\ message.cmd = "addComments" => \A c \in message.comments : c.media = v.media
                 => c \in Receive(v, message).comments
<1>1. CASE message.cmd = "openMediaFile"
  <2>1. Receive(v, message) = [media |-> message.media, comments |-> {}]
    BY <1>1 DEF Receive
  <2> QED
    BY <1>1, <2>1, Messages DEF View, Opens, Clears
<1>2. CASE message.cmd = "addComments"
  <2>1. Receive(v, message) = Shown(v, message.comments)
    BY <1>2 DEF Receive
  <2>2. message.comments \subseteq Comment
    BY <1>2, Messages
  <2>3. /\ Shown(v, message.comments) \in View
        /\ Shown(v, message.comments).media = v.media
        /\ Shown(v, message.comments).comments =
              {c \in v.comments : \A d \in {x \in message.comments : x.media = v.media} : d.id # c.id}
              \cup {x \in message.comments : x.media = v.media}
    BY <2>2 DEF Shown, View
  <2> QED
    BY <1>2, <2>1, <2>3 DEF Opens
<1>3. CASE message.cmd = "delComment"
  <2>1. Receive(v, message) = [v EXCEPT !.comments = {c \in @ : c.id # message.id}]
    BY <1>3 DEF Receive
  <2> QED
    BY <1>3, <2>1 DEF View, Opens, Clears
<1> QED
  BY <1>1, <1>2, <1>3, Messages

\* The first message of the queue reaches the browser: what will be on the screen of the file shown in the
\* end stays so.
LEMMA DeliverShows ==
    ASSUME NEW q \in Seq(Message), q # <<>>, NEW v \in View, NEW id \in Cid, NEW m \in Media,
           Head(q).cmd = "addComments" => \A c \in Head(q).comments : c.id = id => c.media = m,
           WillBe(v, q, m) => WillShow(v, q, id),
           WillBe(Receive(v, Head(q)), Tail(q), m)
    PROVE  WillShow(Receive(v, Head(q)), Tail(q), id)
<1> DEFINE h == Head(q)
           r == Tail(q)
           w == Receive(v, h)
<1>1. /\ h \in Message /\ h = q[1] /\ Len(q) \in Nat \ {0} /\ Len(r) = Len(q) - 1
      /\ \A k \in 1..Len(r) : r[k] = q[k + 1] /\ k + 1 \in 1..Len(q)
  OBVIOUS
<1>2. \A k \in 1..Len(q) : k = 1 \/ (k - 1 \in 1..Len(r) /\ r[k - 1] = q[k])
  BY <1>1
<1>3. /\ Opens(h) => w.media = h.media
      /\ ~Opens(h) => w.media = v.media
      /\ (\E c \in v.comments : c.id = id) /\ ~Clears(h, id) => \E c \in w.comments : c.id = id
      /\ h.cmd = "addComments" => \A c \in h.comments : c.media = v.media => c \in w.comments
  BY <1>1, ReceiveView
<1>4. WillBe(w, r, m)
  OBVIOUS
<1> SUFFICES WillShow(w, r, id)
  OBVIOUS
<1> HIDE DEF h, r, w
<1>5. WillBe(v, q, m)
  <2>1. CASE w.media = m /\ \A k \in 1..Len(r) : ~Opens(r[k])
    <3>1. CASE Opens(h)
      <4>1. \A n \in 1 + 1..Len(q) : ~Opens(q[n])
        BY <1>1, <1>2, <2>1
      <4> QED
        BY <1>1, <1>3, <2>1, <3>1, <4>1 DEF WillBe
    <3>2. CASE ~Opens(h)
      BY <1>1, <1>2, <1>3, <2>1, <3>2 DEF WillBe
    <3> QED
      BY <3>1, <3>2
  <2>2. CASE \E k \in 1..Len(r) : Opens(r[k]) /\ r[k].media = m /\ \A n \in k + 1..Len(r) : ~Opens(r[n])
    <3>1. PICK k \in 1..Len(r) : Opens(r[k]) /\ r[k].media = m /\ \A n \in k + 1..Len(r) : ~Opens(r[n])
      BY <2>2
    <3>2. \A n \in (k + 1) + 1..Len(q) : n - 1 \in k + 1..Len(r) /\ q[n] = r[n - 1]
      BY <1>1, <1>2
    <3> QED
      BY <1>1, <3>1, <3>2 DEF WillBe
  <2> QED
    BY <1>4, <2>1, <2>2 DEF WillBe
<1>6. WillShow(v, q, id)
  BY <1>5
<1>7. CASE /\ \E c \in v.comments : c.id = id
           /\ \A k \in 1..Len(q) : ~Clears(q[k], id)
  BY <1>1, <1>3, <1>7 DEF WillShow
<1>8. CASE \E k \in 1..Len(q) : Adds(q[k], id) /\ \A n \in k + 1..Len(q) : ~Clears(q[n], id)
  <2>1. PICK k \in 1..Len(q) : Adds(q[k], id) /\ \A n \in k + 1..Len(q) : ~Clears(q[n], id)
    BY <1>8
  <2>2. CASE k = 1
    <3>1. \A n \in 1..Len(r) : ~Clears(r[n], id)
      BY <1>1, <2>1, <2>2
    <3>2. w.media = m
      BY <1>4, <3>1 DEF WillBe, Clears
    <3>3. PICK c \in h.comments : c.id = id /\ h.cmd = "addComments"
      BY <1>1, <2>1, <2>2 DEF Adds
    <3>4. c.media = m /\ v.media = m
      BY <1>3, <3>2, <3>3 DEF Opens, h
    <3> QED
      BY <1>3, <3>1, <3>3, <3>4 DEF WillShow
  <2>3. CASE k # 1
    <3>1. k - 1 \in 1..Len(r) /\ Adds(r[k - 1], id)
      BY <1>2, <2>1, <2>3
    <3>2. \A n \in (k - 1) + 1..Len(r) : n + 1 \in k + 1..Len(q) /\ r[n] = q[n + 1]
      BY <1>1, <2>1
    <3> QED
      BY <2>1, <3>1, <3>2 DEF WillShow
  <2> QED
    BY <2>2, <2>3
<1> QED
  BY <1>6, <1>7, <1>8 DEF WillShow

-----------------------------------------------------------------------------
\* What is known of a comment by its id: a row of the table R with that id is of the same file.
Same(x, R) == \A c \in R : c.id = x.id => c.media = x.media

Unique(C) == \A c, d \in C : c.id = d.id => c = d

\* Comments that are, or once were, in the table R, whose next id is n.
Known(C, R, n) == Unique(C) /\ \A c \in C : c.id < n /\ Same(c, R)

\* What a handler holds of comments is known.
Held(d, R, n) ==
    /\ d.at = "unsent" => Known({d.comment}, R, n)
    /\ d.at = "read" => Known(d.comments, R, n)
    /\ d.at \in {"editing", "edited", "announced", "deleting", "childless", "deleted"} =>
          d.id < n /\ Same(d, R)
    /\ d.at = "deleted" => \A c \in R : c.id # d.id

\* Ids are never used again and a comment never changes its file, so whatever handlers, messages
\* and screens hold of a comment is of the row with its id, if there still is one.
IdsInv ==
    /\ Known(rows, rows, nextId)
    /\ \A t \in Task : Held(doing[t], rows, nextId)
    /\ \A s \in Ses : \A k \in 1..Len(inbox[s]) :
          inbox[s][k].cmd = "addComments" => Known(inbox[s][k].comments, rows, nextId)
    /\ \A s \in Ses : /\ Known(screen[s].comments, rows, nextId)
                      /\ \A c \in screen[s].comments : c.media = screen[s].media

\* Only files with something to play are ever shown.
PlayInv ==
    \A s \in Ses : /\ screen[s].media \in Playable \cup {NULL}
                   /\ \A k \in 1..Len(inbox[s]) : Opens(inbox[s][k]) => inbox[s][k].media \in Playable

\* A handler doing d is going to send comment c to the viewers of its file, or to the one it opens
\* the file for.
WillSend(d, s, c) ==
    \/ d.at = "unsent" /\ d.comment.id = c.id
    \/ d.at = "announced" /\ d.id = c.id
    \/ d.at \in {"linked", "opened"} /\ d.ses = s /\ d.media = c.media
    \/ d.at = "read" /\ d.ses = s /\ \E e \in d.comments : e.id = c.id

Arrives(v, q, c) == WillBe(v, q, c.media) => WillShow(v, q, c.id)

\* Every comment is shown to a viewer of its file, or about to be.
MissInv ==
    \A s \in Ses : \A c \in rows :
        guard[s] = c.media /\ s \in viewers[c.media] =>
            (\E t \in Task : WillSend(doing[t], s, c)) \/ Arrives(screen[s], inbox[s], c)

IInv == TypeOK /\ IdsInv /\ PlayInv /\ MissInv

-----------------------------------------------------------------------------
\* Before anyone has opened anything there is nothing to show.
LEMMA InitIInv == Init => IInv
<1> SUFFICES ASSUME Init PROVE IInv
  OBVIOUS
<1>1. TypeOK
  <2>1. nextId \in 1..MaxComments + 1
    BY CommentsAssumption DEF Init
  <2> QED
    BY <2>1 DEF Init, TypeOK, Doing, Idle
<1>2. \A t \in Task : doing[t].at = "idle"
  BY DEF Init, Idle
<1>3. IdsInv
  BY <1>2 DEF Init, IdsInv, Held, Known, Unique
<1>4. PlayInv
  <2>1. \A s \in Ses : screen[s].media = NULL /\ Len(inbox[s]) = 0
    BY DEF Init
  <2>2. \A s \in Ses : \A k \in 1..Len(inbox[s]) : FALSE
    BY <2>1
  <2> QED
    BY <2>1, <2>2 DEF PlayInv
<1>5. MissInv
  BY DEF Init, MissInv
<1> QED
  BY <1>1, <1>3, <1>4, <1>5 DEF IInv

\* What a handler has read, by the place it is at.
LEMMA DoingFields ==
    ASSUME NEW d \in Doing
    PROVE  /\ d.at \in {"idle", "linked", "opened", "read", "unsent", "editing", "edited", "announced",
                        "deleting", "childless", "deleted"}
           /\ d.at \in {"linked", "opened"} =>
                 d = [at |-> d.at, ses |-> d.ses, media |-> d.media] /\ d.ses \in Ses /\ d.media \in Media
           /\ d.at = "read" =>
                 d = [at |-> d.at, ses |-> d.ses, comments |-> d.comments]
                 /\ d.ses \in Ses /\ d.comments \subseteq Comment
           /\ d.at = "unsent" => d.comment \in Comment
           /\ d.at \in {"editing", "edited", "announced"} =>
                 d = [at |-> d.at, id |-> d.id, media |-> d.media, text |-> d.text]
                 /\ d.id \in Cid /\ d.media \in Media /\ d.text \in Text
           /\ d.at \in {"deleting", "childless", "deleted"} =>
                 d = [at |-> d.at, id |-> d.id, media |-> d.media] /\ d.id \in Cid /\ d.media \in Media
  BY DEF Doing, Idle

\* One handler goes on; the others stay where they are.
LEMMA BecomeTypeOK ==
    ASSUME TypeOK, NEW t \in Task, NEW state \in Doing, Become(t, state)
    PROVE  doing' \in [Task -> Doing] /\ doing'[t] = state /\ \A u \in Task \ {t} : doing'[u] = doing[u]
  BY DEF TypeOK, Become

\* A message is put at the end of queues only.
LEMMA SendAppends ==
    ASSUME NEW list, NEW message, Send(list, message)
    PROVE  \A s \in Ses : inbox'[s] = inbox[s] \/ inbox'[s] = Append(inbox[s], message)
<1>1. ASSUME NEW s \in Ses
      PROVE  inbox'[s] = IF s \in list THEN Append(inbox[s], message) ELSE inbox[s]
  BY DEF Send
<1>2. ASSUME NEW s \in Ses
      PROVE  inbox'[s] = inbox[s] \/ inbox'[s] = Append(inbox[s], message)
  BY <1>1, Zenon
<1> QED
  BY <1>2

\* Those of the list get it, and it is the only message that is new.
LEMMA SendTypeOK ==
    ASSUME TypeOK, NEW list, NEW message \in Message, Send(list, message)
    PROVE  /\ inbox' \in [Ses -> Seq(Message)]
           /\ \A s \in Ses : inbox'[s] = IF s \in list THEN Append(inbox[s], message) ELSE inbox[s]
           /\ \A s \in Ses : \A k \in 1..Len(inbox'[s]) :
                 (k \in 1..Len(inbox[s]) /\ inbox'[s][k] = inbox[s][k]) \/ (inbox'[s][k] = message /\ s \in list)
<1>1. \A s \in Ses : inbox[s] \in Seq(Message)
  BY DEF TypeOK
<1>2. \A s \in Ses : inbox'[s] = IF s \in list THEN Append(inbox[s], message) ELSE inbox[s]
  BY DEF Send
<1>3. inbox' \in [Ses -> Seq(Message)]
  BY <1>1 DEF Send
<1>4. ASSUME NEW s \in Ses, NEW k \in 1..Len(inbox'[s])
      PROVE  (k \in 1..Len(inbox[s]) /\ inbox'[s][k] = inbox[s][k]) \/ (inbox'[s][k] = message /\ s \in list)
  <2>1. CASE s \in list
    <3>1. inbox'[s] = Append(inbox[s], message)
      BY <1>2, <2>1, Zenon
    <3>0. inbox[s] \in Seq(Message) /\ Len(inbox[s]) \in Nat
      BY <1>1
    <3>2. k \in 1..Len(inbox[s]) \/ k = Len(inbox[s]) + 1
      BY <3>0, <3>1
    <3>3. k \in 1..Len(inbox[s]) => inbox'[s][k] = inbox[s][k]
      BY <3>0, <3>1
    <3>4. k = Len(inbox[s]) + 1 => inbox'[s][k] = message
      BY <3>0, <3>1
    <3> QED
      BY <2>1, <3>2, <3>3, <3>4
  <2>2. CASE s \notin list
    BY <1>2, <2>2
  <2> QED
    BY <2>1, <2>2
<1> QED
  BY <1>2, <1>3, <1>4

\* The types are preserved by every step.
LEMMA TypeStep ==
    ASSUME TypeOK, Next
    PROVE  TypeOK'
<1>1. /\ rows \subseteq Comment /\ nextId \in 1..MaxComments + 1
      /\ viewers \in [Media -> SUBSET Ses] /\ guard \in [Ses -> Media \cup {NULL}]
      /\ doing \in [Task -> Doing] /\ inbox \in [Ses -> Seq(Message)]
      /\ screen \in [Ses -> View]
      /\ Ses \subseteq Task /\ MaxComments \in Nat
  BY CommentsAssumption DEF TypeOK, View, Task
<1>2. ASSUME NEW t \in Task, NEW s \in Ses, NEW m \in Media, OpenLink(t, s, m)
      PROVE  TypeOK'
  <2>1. [at |-> "linked", ses |-> s, media |-> m] \in Doing
    BY DEF Doing
  <2>2. /\ viewers' \in [Media -> SUBSET Ses] /\ guard' \in [Ses -> Media \cup {NULL}]
        /\ doing' \in [Task -> Doing] /\ UNCHANGED <<rows, nextId, inbox, screen>>
    BY <1>1, <1>2, <2>1 DEF OpenLink, Become
  <2> QED
    BY <2>2 DEF TypeOK
<1>3. ASSUME NEW s \in Ses, NEW id \in Cid, NEW text \in Text, EditGet(s, id, text)
      PROVE  TypeOK'
  <2>1. \A c \in Stored(id) : [at |-> "editing", id |-> id, media |-> c.media, text |-> text] \in Doing
    BY <1>1 DEF Doing, Stored, Comment
  <2>2. doing' \in [Task -> Doing] /\ UNCHANGED <<rows, nextId, viewers, guard, inbox, screen>>
    BY <1>1, <1>3, <2>1 DEF EditGet, Become
  <2> QED
    BY <2>2 DEF TypeOK
<1>4. ASSUME NEW s \in Ses, NEW id \in Cid, DelGet(s, id)
      PROVE  TypeOK'
  <2>1. \A c \in Stored(id) : [at |-> "deleting", id |-> id, media |-> c.media] \in Doing
    BY <1>1 DEF Doing, Stored, Comment
  <2>2. doing' \in [Task -> Doing] /\ UNCHANGED <<rows, nextId, viewers, guard, inbox, screen>>
    BY <1>1, <1>4, <2>1 DEF DelGet, Become
  <2> QED
    BY <2>2 DEF TypeOK
<1>5. ASSUME NEW s \in Ses, NEW parent \in Cid \cup {NULL}, NEW text \in Text, AddInsert(s, parent, text)
      PROVE  TypeOK'
  <2> DEFINE c == [id |-> nextId, media |-> screen[s].media, parent |-> parent, text |-> text]
  <2>1. nextId \in Cid /\ screen[s].media \in Media
    BY <1>1, <1>5 DEF AddInsert, Cid, View
  <2>2. c \in Comment
    BY <2>1 DEF Comment
  <2>3. [at |-> "unsent", comment |-> c] \in Doing
    BY <2>2 DEF Doing
  <2>4. /\ rows' = rows \cup {c} /\ nextId' = nextId + 1 /\ nextId <= MaxComments
        /\ Become(s, [at |-> "unsent", comment |-> c]) /\ UNCHANGED <<viewers, guard, inbox, screen>>
    BY <1>5 DEF AddInsert
  <2> HIDE DEF c
  <2>5. rows' \subseteq Comment /\ nextId' \in 1..MaxComments + 1 /\ doing' \in [Task -> Doing]
    BY <1>1, <2>2, <2>3, <2>4 DEF Become
  <2> QED
    BY <2>4, <2>5 DEF TypeOK
<1>6. ASSUME NEW t \in Task, Continue(t)
      PROVE  TypeOK'
  <2>1. doing[t] \in Doing /\ Idle \in Doing
    BY <1>1 DEF Doing
  <2> DEFINE d == doing[t]
  <2>2. CASE OpenFail(t)
    <3>1. doing' \in [Task -> Doing]
      BY <1>1, <2>1, <2>2 DEF OpenFail, Become
    <3> QED
      BY <2>2, <3>1 DEF OpenFail, TypeOK
  <2>3. CASE OpenSend(t)
    <3>1. d.at = "linked" /\ d = [at |-> "linked", ses |-> d.ses, media |-> d.media] /\ d.ses \in Ses /\ d.media \in Media
      BY <2>1, <2>3, DoingFields DEF OpenSend
    <3>2. [d EXCEPT !.at = "opened"] \in Doing
      BY <3>1 DEF Doing
    <3>3. [cmd |-> "openMediaFile", media |-> d.media] \in Message
      BY <3>1 DEF Message
    <3>4. inbox' \in [Ses -> Seq(Message)] /\ doing' \in [Task -> Doing]
      BY <2>3, <3>2, <3>3, SendTypeOK, BecomeTypeOK DEF OpenSend
    <3> QED
      BY <2>3, <3>4 DEF OpenSend, TypeOK
  <2>4. CASE OpenRead(t)
    <3>1. d.at = "opened" /\ d.ses \in Ses
      BY <2>1, <2>4, DoingFields DEF OpenRead
    <3>2. [at |-> "read", ses |-> d.ses, comments |-> {c \in rows : c.media = d.media}] \in Doing
      BY <1>1, <3>1 DEF Doing
    <3>3. doing' \in [Task -> Doing]
      BY <2>4, <3>2, BecomeTypeOK DEF OpenRead
    <3> QED
      BY <2>4, <3>3 DEF OpenRead, TypeOK
  <2>5. CASE OpenSendComments(t)
    <3>1. d.at = "read" /\ d.comments \subseteq Comment
      BY <2>1, <2>5, DoingFields DEF OpenSendComments
    <3>2. AddComments(d.comments) \in Message
      BY <3>1 DEF Message, AddComments
    <3>3. inbox' \in [Ses -> Seq(Message)] /\ doing' \in [Task -> Doing]
      BY <2>1, <2>5, <3>2, SendTypeOK, BecomeTypeOK DEF OpenSendComments
    <3> QED
      BY <2>5, <3>3 DEF OpenSendComments, TypeOK
  <2>6. CASE EmitNewComment(t)
    <3>1. d.at = "unsent" /\ d.comment \in Comment
      BY <2>1, <2>6, DoingFields DEF EmitNewComment
    <3>2. AddComments({d.comment}) \in Message
      BY <3>1 DEF Message, AddComments
    <3>3. inbox' \in [Ses -> Seq(Message)] /\ doing' \in [Task -> Doing]
      BY <2>1, <2>6, <3>2, SendTypeOK, BecomeTypeOK DEF EmitNewComment
    <3> QED
      BY <2>6, <3>3 DEF EmitNewComment, TypeOK
  <2>7. CASE EditUpdate(t)
    <3>1. d.at = "editing" /\ d.text \in Text
          /\ d = [at |-> "editing", id |-> d.id, media |-> d.media, text |-> d.text]
          /\ d.id \in Cid /\ d.media \in Media
      BY <2>1, <2>7, DoingFields DEF EditUpdate
    <3>2. [d EXCEPT !.at = "edited"] \in Doing
      BY <3>1 DEF Doing
    <3>3. doing' \in [Task -> Doing]
      BY <2>7, <3>2, BecomeTypeOK DEF EditUpdate
    <3>4. rows' \subseteq Comment
      <4>1. ASSUME NEW c \in rows
            PROVE  (IF c.id = d.id THEN [c EXCEPT !.text = d.text] ELSE c) \in Comment
        BY <1>1, <3>1 DEF Comment
      <4> QED
        BY <2>7, <4>1 DEF EditUpdate
    <3> QED
      BY <2>7, <3>3, <3>4 DEF EditUpdate, TypeOK
  <2>8. CASE EditSendDel(t)
    <3>1. d.at = "edited" /\ d.text \in Text
          /\ d = [at |-> "edited", id |-> d.id, media |-> d.media, text |-> d.text]
          /\ d.id \in Cid /\ d.media \in Media
      BY <2>1, <2>8, DoingFields DEF EditSendDel
    <3>2. [d EXCEPT !.at = "announced"] \in Doing
      BY <3>1 DEF Doing
    <3>3. DelComment(d.id) \in Message
      BY <3>1 DEF Message, DelComment
    <3>4. inbox' \in [Ses -> Seq(Message)] /\ doing' \in [Task -> Doing]
      BY <2>8, <3>2, <3>3, SendTypeOK, BecomeTypeOK DEF EditSendDel
    <3> QED
      BY <2>8, <3>4 DEF EditSendDel, TypeOK
  <2>9. CASE EditReread(t)
    <3>1. \A c \in Stored(d.id) : [at |-> "unsent", comment |-> c] \in Doing
      BY <1>1 DEF Doing, Stored
    <3>2. doing' \in [Task -> Doing]
      BY <1>1, <2>1, <2>9, <3>1 DEF EditReread, Become
    <3> QED
      BY <2>9, <3>2 DEF EditReread, TypeOK
  <2>10. CASE DelDenied(t)
    <3>1. doing' \in [Task -> Doing]
      BY <1>1, <2>1, <2>10 DEF DelDenied, Become
    <3> QED
      BY <2>10, <3>1 DEF DelDenied, TypeOK
  <2>11. CASE DelCheck(t)
    <3>1. d.at = "deleting" /\ d = [at |-> "deleting", id |-> d.id, media |-> d.media] /\ d.id \in Cid /\ d.media \in Media
      BY <2>1, <2>11, DoingFields DEF DelCheck
    <3>2. [d EXCEPT !.at = "childless"] \in Doing
      BY <3>1 DEF Doing
    <3>3. doing' \in [Task -> Doing]
      BY <2>1, <2>11, <3>2, BecomeTypeOK DEF DelCheck
    <3> QED
      BY <2>11, <3>3 DEF DelCheck, TypeOK
  <2>12. CASE DelRow(t)
    <3>1. d.at = "childless" /\ d = [at |-> "childless", id |-> d.id, media |-> d.media] /\ d.id \in Cid /\ d.media \in Media
      BY <2>1, <2>12, DoingFields DEF DelRow
    <3>2. [d EXCEPT !.at = "deleted"] \in Doing
      BY <3>1 DEF Doing
    <3>3. doing' \in [Task -> Doing] /\ rows' \subseteq Comment
      BY <1>1, <2>12, <3>2, BecomeTypeOK DEF DelRow
    <3> QED
      BY <2>12, <3>3 DEF DelRow, TypeOK
  <2>13. CASE DelSend(t)
    <3>1. d.at = "deleted" /\ d.id \in Cid
      BY <2>1, <2>13, DoingFields DEF DelSend
    <3>2. DelComment(d.id) \in Message
      BY <3>1 DEF Message, DelComment
    <3>3. inbox' \in [Ses -> Seq(Message)] /\ doing' \in [Task -> Doing]
      BY <2>1, <2>13, <3>2, SendTypeOK, BecomeTypeOK DEF DelSend
    <3> QED
      BY <2>13, <3>3 DEF DelSend, TypeOK
  <2> QED
    BY <1>6, <2>2, <2>3, <2>4, <2>5, <2>6, <2>7, <2>8, <2>9, <2>10, <2>11, <2>12, <2>13 DEF Continue, Open
<1>7. ASSUME NEW s \in Ses, Deliver(s)
      PROVE  TypeOK'
  <2>1. Head(inbox[s]) \in Message /\ Tail(inbox[s]) \in Seq(Message)
    BY <1>1, <1>7 DEF Deliver
  <2>2. Receive(screen[s], Head(inbox[s])) \in View
    BY <1>1, <2>1, ReceiveView
  <2>3. screen' \in [Ses -> View] /\ inbox' \in [Ses -> Seq(Message)]
    BY <1>1, <1>7, <2>1, <2>2 DEF Deliver
  <2> QED
    BY <1>7, <2>3 DEF Deliver, TypeOK, View
<1> QED
  BY <1>2, <1>3, <1>4, <1>5, <1>6, <1>7 DEF Next, Start

-----------------------------------------------------------------------------
\* The table goes from R to S, and its next id from n to k: no row has changed its file, and a new
\* one has a new id.
Grows(R, n, S, k) == n <= k /\ \A c \in S : c.id >= n \/ \E d \in R : d.id = c.id /\ d.media = c.media

\* What is known of comments stays so while the table gets new ids only.
LEMMA KnownStays ==
    ASSUME NEW R, NEW n \in Nat, NEW S, NEW k \in Nat, Grows(R, n, S, k),
           NEW C \in SUBSET Comment, Known(C, R, n)
    PROVE  Known(C, S, k)
<1>1. \A c \in C : c.id \in Nat /\ c.id < n
  BY DEF Known, Comment, Cid
<1>2. ASSUME NEW c \in C
      PROVE  c.id < k /\ Same(c, S)
  <2>1. ASSUME NEW e \in S, e.id = c.id
        PROVE  e.media = c.media
    <3>1. ~(e.id >= n)
      BY <1>1, <2>1
    <3> QED
      BY <2>1, <3>1 DEF Grows, Known, Same
  <2> QED
    BY <1>1, <2>1 DEF Grows, Same
<1> QED
  BY <1>2 DEF Known

\* So does what handlers hold of them.
LEMMA HeldStays ==
    ASSUME NEW R, NEW n \in Nat, NEW S, NEW k \in Nat, Grows(R, n, S, k),
           NEW d \in Doing, Held(d, R, n)
    PROVE  Held(d, S, k)
<1>1. d.at = "unsent" => Known({d.comment}, S, k)
  BY DoingFields, KnownStays DEF Held
<1>2. d.at = "read" => Known(d.comments, S, k)
  BY DoingFields, KnownStays DEF Held
<1>3. ASSUME d.at \in {"editing", "edited", "announced", "deleting", "childless", "deleted"}
      PROVE  /\ d.id < k /\ Same(d, S)
             /\ d.at = "deleted" => \A c \in S : c.id # d.id
  <2>1. d.id \in Nat /\ d.id < n
    BY <1>3, DoingFields DEF Held, Cid
  <2>2. \A e \in S : e.id = d.id => \E r \in R : r.id = e.id /\ r.media = e.media
    BY <2>1 DEF Grows
  <2> QED
    BY <1>3, <2>1, <2>2 DEF Grows, Held, Same
<1> QED
  BY <1>1, <1>2, <1>3 DEF Held

\* A step of a handler that may change the table and send a message leaves IdsInv true.
LEMMA IdsTask ==
    ASSUME TypeOK, IdsInv, nextId' \in Nat, Grows(rows, nextId, rows', nextId'),
           Known(rows', rows', nextId'),
           NEW t \in Task, NEW state \in Doing, Become(t, state), Held(state, rows', nextId'),
           screen' = screen,
           \/ inbox' = inbox
           \/ \A s \in Ses : \A k \in 1..Len(inbox'[s]) :
                 \/ k \in 1..Len(inbox[s]) /\ inbox'[s][k] = inbox[s][k]
                 \/ inbox'[s][k].cmd = "addComments" => Known(inbox'[s][k].comments, rows', nextId')
    PROVE  IdsInv'
<1>1. nextId \in Nat
  BY CommentsAssumption DEF TypeOK
<1>2. \A u \in Task : Held(doing'[u], rows', nextId')
  <2>1. \A u \in Task : doing[u] \in Doing /\ Held(doing[u], rows', nextId')
    BY <1>1, HeldStays DEF TypeOK, IdsInv
  <2> QED
    BY <2>1, BecomeTypeOK
<1>3. ASSUME NEW s \in Ses, NEW k \in 1..Len(inbox[s]), inbox[s][k].cmd = "addComments"
      PROVE  Known(inbox[s][k].comments, rows', nextId')
  <2>1. inbox[s][k] \in Message
    BY DEF TypeOK
  <2>2. inbox[s][k].comments \in SUBSET Comment /\ Known(inbox[s][k].comments, rows, nextId)
    BY <1>3, <2>1, Messages DEF IdsInv
  <2> QED
    BY <1>1, <2>2, KnownStays
<1>4. ASSUME NEW s \in Ses, NEW k \in 1..Len(inbox'[s]), inbox'[s][k].cmd = "addComments"
      PROVE  Known(inbox'[s][k].comments, rows', nextId')
  BY <1>3, <1>4
<1>5. \A s \in Ses : /\ Known(screen'[s].comments, rows', nextId')
                     /\ \A c \in screen'[s].comments : c.media = screen'[s].media
  <2>1. \A s \in Ses : screen[s].comments \in SUBSET Comment
    BY DEF TypeOK
  <2> QED
    BY <1>1, <2>1, KnownStays DEF IdsInv
<1> QED
  BY <1>2, <1>4, <1>5 DEF IdsInv

\* What the rows, with their ids and files, need for it.
LEMMA RowsStay ==
    ASSUME TypeOK, IdsInv, rows' \subseteq rows, nextId' = nextId
    PROVE  nextId' \in Nat /\ Grows(rows, nextId, rows', nextId') /\ Known(rows', rows', nextId')
<1>1. nextId \in Nat
  BY CommentsAssumption DEF TypeOK
<1>2. Grows(rows, nextId, rows', nextId')
  BY <1>1 DEF Grows
<1>3. Known(rows', rows', nextId')
  BY DEF IdsInv, Known, Unique, Same
<1> QED
  BY <1>1, <1>2, <1>3

\* So it is for a handler that sends and leaves the table alone.
LEMMA IdsSend ==
    ASSUME TypeOK, IdsInv, UNCHANGED <<rows, nextId, screen>>,
           NEW t \in Task, NEW state \in Doing, Become(t, state), Held(state, rows, nextId),
           NEW list, NEW message \in Message, Send(list, message),
           message.cmd = "addComments" => Known(message.comments, rows, nextId)
    PROVE  IdsInv'
<1>1. nextId' \in Nat /\ Grows(rows, nextId, rows', nextId') /\ Known(rows', rows', nextId')
  BY RowsStay
<1>2. Held(state, rows', nextId') /\ screen' = screen
  OBVIOUS
<1>3. \A s \in Ses : \A k \in 1..Len(inbox'[s]) :
         \/ k \in 1..Len(inbox[s]) /\ inbox'[s][k] = inbox[s][k]
         \/ inbox'[s][k].cmd = "addComments" => Known(inbox'[s][k].comments, rows', nextId')
  BY SendTypeOK
<1> QED
  BY <1>1, <1>2, <1>3, IdsTask

\* No step uses an id again, or moves a comment to another file.
LEMMA IdsStep ==
    ASSUME TypeOK, IdsInv, Next
    PROVE  IdsInv'
<1>1. /\ rows \subseteq Comment /\ nextId \in Nat /\ nextId \in 1..MaxComments + 1
      /\ screen \in [Ses -> View] /\ Ses \subseteq Task
      /\ \A t \in Task : doing[t] \in Doing /\ Held(doing[t], rows, nextId)
      /\ Known(rows, rows, nextId)
  BY CommentsAssumption DEF TypeOK, View, Task, IdsInv
<1>2. Idle \in Doing /\ \A R, n : Held(Idle, R, n)
  BY DEF Doing, Idle, Held
<1>3. ASSUME NEW t \in Task, NEW s \in Ses, NEW m \in Media, OpenLink(t, s, m)
      PROVE  IdsInv'
  <2>1. [at |-> "linked", ses |-> s, media |-> m] \in Doing
    BY DEF Doing
  <2>2. Held([at |-> "linked", ses |-> s, media |-> m], rows, nextId)
    BY DEF Held
  <2> QED
    BY <1>3, <2>1, <2>2, RowsStay, IdsTask DEF OpenLink
<1>4. ASSUME NEW s \in Ses, NEW id \in Cid, NEW text \in Text, EditGet(s, id, text)
      PROVE  IdsInv'
  <2>1. PICK c \in Stored(id) : Become(s, [at |-> "editing", id |-> id, media |-> c.media, text |-> text])
    BY <1>4 DEF EditGet
  <2> DEFINE d == [at |-> "editing", id |-> id, media |-> c.media, text |-> text]
  <2>2. c \in rows /\ c.id = id /\ c.media \in Media
    BY <1>1 DEF Stored, Comment
  <2>3. d \in Doing
    BY <2>2 DEF Doing
  <2>4. Held(d, rows, nextId)
    BY <1>1, <2>2 DEF Held, Known, Same, Unique
  <2> QED
    BY <1>1, <1>4, <2>1, <2>3, <2>4, RowsStay, IdsTask DEF EditGet
<1>5. ASSUME NEW s \in Ses, NEW id \in Cid, DelGet(s, id)
      PROVE  IdsInv'
  <2>1. PICK c \in Stored(id) : Become(s, [at |-> "deleting", id |-> id, media |-> c.media])
    BY <1>5 DEF DelGet
  <2> DEFINE d == [at |-> "deleting", id |-> id, media |-> c.media]
  <2>2. c \in rows /\ c.id = id /\ c.media \in Media
    BY <1>1 DEF Stored, Comment
  <2>3. d \in Doing
    BY <2>2 DEF Doing
  <2>4. Held(d, rows, nextId)
    BY <1>1, <2>2 DEF Held, Known, Same, Unique
  <2> QED
    BY <1>1, <1>5, <2>1, <2>3, <2>4, RowsStay, IdsTask DEF DelGet
<1>6. ASSUME NEW s \in Ses, NEW parent \in Cid \cup {NULL}, NEW text \in Text, AddInsert(s, parent, text)
      PROVE  IdsInv'
  <2> DEFINE c == [id |-> nextId, media |-> screen[s].media, parent |-> parent, text |-> text]
             d == [at |-> "unsent", comment |-> c]
  <2>1. /\ rows' = rows \cup {c} /\ nextId' = nextId + 1 /\ nextId <= MaxComments /\ screen[s].media # NULL
        /\ Become(s, d) /\ UNCHANGED <<viewers, guard, inbox, screen>>
    BY <1>6 DEF AddInsert
  <2>2. c \in Comment /\ c.id = nextId
    BY <1>1, <2>1 DEF Comment, Cid, View
  <2>3. d \in Doing /\ d.at = "unsent" /\ d.comment = c
    BY <2>2 DEF Doing
  <2> HIDE DEF c, d
  <2>4. nextId' \in Nat /\ Grows(rows, nextId, rows', nextId')
    BY <1>1, <2>1, <2>2 DEF Grows
  <2>5. \A e \in rows : e.id \in Nat /\ e.id < nextId
    BY <1>1 DEF Comment, Cid, Known
  <2>6. Known(rows', rows', nextId')
    BY <1>1, <2>1, <2>2, <2>5 DEF Known, Unique, Same
  <2>7. Held(d, rows', nextId')
    BY <1>1, <2>1, <2>2, <2>3, <2>6 DEF Held, Known, Unique
  <2> QED
    BY <1>1, <2>1, <2>3, <2>4, <2>6, <2>7, IdsTask
<1>7. ASSUME NEW t \in Task, Continue(t)
      PROVE  IdsInv'
  <2> DEFINE d == doing[t]
  <2>1. d \in Doing /\ Held(d, rows, nextId)
    BY <1>1
  <2>2. CASE OpenFail(t)
    BY <1>1, <1>2, <2>2, RowsStay, IdsTask DEF OpenFail
  <2>3. CASE OpenSend(t)
    <3>1. /\ d.at = "linked" /\ d = [at |-> "linked", ses |-> d.ses, media |-> d.media]
          /\ d.ses \in Ses /\ d.media \in Media
      BY <2>1, <2>3, DoingFields DEF OpenSend
    <3>2. [d EXCEPT !.at = "opened"] \in Doing /\ Held([d EXCEPT !.at = "opened"], rows, nextId)
      BY <3>1 DEF Doing, Held
    <3>3. /\ [cmd |-> "openMediaFile", media |-> d.media] \in Message
          /\ [cmd |-> "openMediaFile", media |-> d.media].cmd # "addComments"
      BY <3>1 DEF Message
    <3> QED
      BY <2>3, <3>2, <3>3, IdsSend DEF OpenSend
  <2>4. CASE OpenRead(t)
    <3> DEFINE e == [at |-> "read", ses |-> d.ses, comments |-> {c \in rows : c.media = d.media}]
    <3>1. d.at = "opened" /\ d.ses \in Ses
      BY <2>1, <2>4, DoingFields DEF OpenRead
    <3>2. e \in Doing
      BY <1>1, <3>1 DEF Doing
    <3>3. Held(e, rows, nextId)
      BY <1>1 DEF Held, Known, Unique
    <3> QED
      BY <2>4, <3>2, <3>3, RowsStay, IdsTask DEF OpenRead
  <2>5. CASE OpenSendComments(t)
    <3>1. d.at = "read" /\ d.comments \subseteq Comment
      BY <2>1, <2>5, DoingFields DEF OpenSendComments
    <3>2. AddComments(d.comments) \in Message /\ AddComments(d.comments).comments = d.comments
      BY <3>1 DEF Message, AddComments
    <3>3. Known(d.comments, rows, nextId)
      BY <2>1, <3>1 DEF Held
    <3> QED
      BY <1>2, <2>5, <3>2, <3>3, IdsSend DEF OpenSendComments
  <2>6. CASE EmitNewComment(t)
    <3>1. d.at = "unsent" /\ d.comment \in Comment
      BY <2>1, <2>6, DoingFields DEF EmitNewComment
    <3>2. AddComments({d.comment}) \in Message /\ AddComments({d.comment}).comments = {d.comment}
      BY <3>1 DEF Message, AddComments
    <3>3. Known({d.comment}, rows, nextId)
      BY <2>1, <3>1 DEF Held
    <3> QED
      BY <1>2, <2>6, <3>2, <3>3, IdsSend DEF EmitNewComment
  <2>7. CASE EditUpdate(t)
    <3>1. /\ d.at = "editing" /\ d = [at |-> "editing", id |-> d.id, media |-> d.media, text |-> d.text]
          /\ d.id \in Cid /\ d.media \in Media /\ d.text \in Text
      BY <2>1, <2>7, DoingFields DEF EditUpdate
    <3> DEFINE new(c) == IF c.id = d.id THEN [c EXCEPT !.text = d.text] ELSE c
    <3>2. rows' = {new(c) : c \in rows} /\ nextId' = nextId
      BY <2>7 DEF EditUpdate
    <3>3. \A c \in rows : new(c).id = c.id /\ new(c).media = c.media
      BY <1>1 DEF Comment
    <3> HIDE DEF new
    <3>4. \A c \in rows' : \E e \in rows : c = new(e) /\ c.id = e.id /\ c.media = e.media
      BY <3>2, <3>3
    <3>5. Grows(rows, nextId, rows', nextId')
      BY <1>1, <3>2, <3>4 DEF Grows
    <3>6. Known(rows', rows', nextId')
      BY <1>1, <3>2, <3>4 DEF Known, Unique, Same
    <3>7. [d EXCEPT !.at = "edited"] \in Doing
      BY <3>1 DEF Doing
    <3>8. Held(d, rows', nextId')
      BY <1>1, <2>1, <3>2, <3>5, HeldStays
    <3>9. Held([d EXCEPT !.at = "edited"], rows', nextId')
      BY <3>1, <3>8 DEF Held, Same
    <3> QED
      BY <1>1, <2>7, <3>2, <3>5, <3>6, <3>7, <3>9, IdsTask DEF EditUpdate
  <2>8. CASE EditSendDel(t)
    <3>1. /\ d.at = "edited" /\ d = [at |-> "edited", id |-> d.id, media |-> d.media, text |-> d.text]
          /\ d.id \in Cid /\ d.media \in Media /\ d.text \in Text
      BY <2>1, <2>8, DoingFields DEF EditSendDel
    <3>2. [d EXCEPT !.at = "announced"] \in Doing
      BY <3>1 DEF Doing
    <3>3. Held([d EXCEPT !.at = "announced"], rows, nextId)
      BY <2>1, <3>1 DEF Held, Same
    <3>4. DelComment(d.id) \in Message /\ DelComment(d.id).cmd # "addComments"
      BY <3>1 DEF Message, DelComment
    <3> QED
      BY <2>8, <3>2, <3>3, <3>4, IdsSend DEF EditSendDel
  <2>9. CASE EditReread(t)
    <3>1. CASE Stored(d.id) = {}
      BY <1>1, <1>2, <2>9, <3>1, RowsStay, IdsTask DEF EditReread
    <3>2. CASE Stored(d.id) # {}
      <4>1. PICK c \in Stored(d.id) : Become(t, [at |-> "unsent", comment |-> c])
        BY <2>9, <3>2 DEF EditReread
      <4>2. c \in rows /\ c \in Comment
        BY <1>1 DEF Stored
      <4>3. [at |-> "unsent", comment |-> c] \in Doing
        BY <4>2 DEF Doing
      <4>4. Held([at |-> "unsent", comment |-> c], rows, nextId)
        BY <1>1, <4>2 DEF Held, Known, Unique
      <4> QED
        BY <2>9, <4>1, <4>3, <4>4, RowsStay, IdsTask DEF EditReread
    <3> QED
      BY <3>1, <3>2
  <2>10. CASE DelDenied(t)
    BY <1>1, <1>2, <2>10, RowsStay, IdsTask DEF DelDenied
  <2>11. CASE DelCheck(t)
    <3>1. /\ d.at = "deleting" /\ d = [at |-> "deleting", id |-> d.id, media |-> d.media]
          /\ d.id \in Cid /\ d.media \in Media
      BY <2>1, <2>11, DoingFields DEF DelCheck
    <3>2. [d EXCEPT !.at = "childless"] \in Doing /\ Held([d EXCEPT !.at = "childless"], rows, nextId)
      BY <2>1, <3>1 DEF Doing, Held, Same
    <3> QED
      BY <1>2, <2>11, <3>2, RowsStay, IdsTask DEF DelCheck
  <2>12. CASE DelRow(t)
    <3>1. /\ d.at = "childless" /\ d = [at |-> "childless", id |-> d.id, media |-> d.media]
          /\ d.id \in Cid /\ d.media \in Media
      BY <2>1, <2>12, DoingFields DEF DelRow
    <3>2. [d EXCEPT !.at = "deleted"] \in Doing
      BY <3>1 DEF Doing
    <3>3. Stored(d.id) \subseteq Thread(d.id) /\ rows' = rows \ Thread(d.id) /\ nextId' = nextId
      BY <2>12 DEF DelRow, Thread, Stored
    <3>4. nextId' \in Nat /\ Grows(rows, nextId, rows', nextId') /\ Known(rows', rows', nextId')
      BY <3>3, RowsStay
    <3>5. Held(d, rows', nextId')
      BY <1>1, <2>1, <3>4, HeldStays
    <3>6. Held([d EXCEPT !.at = "deleted"], rows', nextId')
      BY <3>1, <3>3, <3>5 DEF Held, Same, Stored
    <3> QED
      BY <2>12, <3>2, <3>4, <3>6, IdsTask DEF DelRow
  <2>13. CASE DelSend(t)
    <3>1. d.at = "deleted" /\ d.id \in Cid
      BY <2>1, <2>13, DoingFields DEF DelSend
    <3>2. DelComment(d.id) \in Message /\ DelComment(d.id).cmd # "addComments"
      BY <3>1 DEF Message, DelComment
    <3> QED
      BY <1>2, <2>13, <3>2, IdsSend DEF DelSend
  <2> QED
    BY <1>7, <2>2, <2>3, <2>4, <2>5, <2>6, <2>7, <2>8, <2>9, <2>10, <2>11, <2>12, <2>13 DEF Continue, Open
<1>8. ASSUME NEW s \in Ses, Deliver(s)
      PROVE  IdsInv'
  <2> DEFINE h == Head(inbox[s])
             v == screen[s]
  <2>1. /\ inbox[s] \in Seq(Message) /\ inbox[s] # <<>> /\ h \in Message /\ v \in View
        /\ h = inbox[s][1] /\ 1 \in 1..Len(inbox[s])
        /\ inbox' = [inbox EXCEPT ![s] = Tail(inbox[s])] /\ screen' = [screen EXCEPT ![s] = Receive(v, h)]
        /\ UNCHANGED <<rows, nextId, viewers, guard, doing>>
    BY <1>1, <1>8 DEF Deliver, TypeOK
  <2>2. h.cmd = "addComments" => h.comments \subseteq Comment /\ Known(h.comments, rows, nextId)
    BY <2>1, Messages DEF IdsInv
  <2>3. Known(v.comments, rows, nextId) /\ \A c \in v.comments : c.media = v.media
    BY DEF IdsInv
  <2>4. /\ Known(Receive(v, h).comments, rows, nextId)
        /\ \A c \in Receive(v, h).comments : c.media = Receive(v, h).media
    <3> HIDE DEF h, v
    <3>1. CASE h.cmd = "openMediaFile"
      BY <3>1 DEF Receive, Known, Unique
    <3>2. CASE h.cmd = "addComments"
      <4> DEFINE new == {c \in h.comments : c.media = v.media}
                 kept == {c \in v.comments : \A e \in new : e.id # c.id}
      <4>1. Receive(v, h).media = v.media /\ Receive(v, h).comments = kept \cup new
        BY <2>1, <3>2 DEF Receive, Shown, View
      <4>2. \A c \in new : c \in h.comments /\ c.media = v.media
        OBVIOUS
      <4>3. \A c \in kept : c \in v.comments /\ \A e \in new : e.id # c.id
        OBVIOUS
      <4> HIDE DEF new, kept
      <4> QED
        BY <2>2, <2>3, <3>2, <4>1, <4>2, <4>3 DEF Known, Unique
    <3>3. CASE h.cmd = "delComment"
      <4>1. Receive(v, h).media = v.media /\ Receive(v, h).comments \subseteq v.comments
        BY <2>1, <3>3 DEF Receive, View
      <4> QED
        BY <2>3, <4>1 DEF Known, Unique
    <3> QED
      BY <2>1, <3>1, <3>2, <3>3, Messages
  <2>5. \A k \in 1..Len(Tail(inbox[s])) : k + 1 \in 1..Len(inbox[s]) /\ Tail(inbox[s])[k] = inbox[s][k + 1]
    BY <2>1
  <2>6. ASSUME NEW u \in Ses, NEW k \in 1..Len(inbox'[u]), inbox'[u][k].cmd = "addComments"
        PROVE  Known(inbox'[u][k].comments, rows, nextId)
    <3>1. CASE u = s
      <4>1. inbox'[u] = Tail(inbox[s])
        BY <2>1, <3>1 DEF TypeOK
      <4> QED
        BY <2>5, <2>6, <4>1 DEF IdsInv
    <3>2. CASE u # s
      BY <2>1, <2>6, <3>2 DEF IdsInv, TypeOK
    <3> QED
      BY <3>1, <3>2
  <2>7. ASSUME NEW u \in Ses
        PROVE  /\ Known(screen'[u].comments, rows, nextId)
               /\ \A c \in screen'[u].comments : c.media = screen'[u].media
    <3>1. screen'[u] = IF u = s THEN Receive(v, h) ELSE screen[u]
      BY <1>1, <2>1
    <3> QED
      BY <2>4, <3>1 DEF IdsInv
  <2> QED
    BY <2>1, <2>6, <2>7 DEF IdsInv
<1> QED
  BY <1>3, <1>4, <1>5, <1>6, <1>7, <1>8 DEF Next, Start

-----------------------------------------------------------------------------
\* A file is sent to a screen only after it was seen to have something to play.
LEMMA PlayStep ==
    ASSUME TypeOK, PlayInv, Next
    PROVE  PlayInv'
<1>1. CASE screen' = screen /\ inbox' = inbox
  BY <1>1 DEF PlayInv
<1>2. ASSUME NEW list, NEW message \in Message, Send(list, message), screen' = screen,
             Opens(message) => message.media \in Playable
      PROVE  PlayInv'
  <2>1. \A s \in Ses : \A k \in 1..Len(inbox'[s]) :
           (k \in 1..Len(inbox[s]) /\ inbox'[s][k] = inbox[s][k]) \/ inbox'[s][k] = message
    BY <1>2, SendTypeOK
  <2> QED
    BY <1>2, <2>1 DEF PlayInv
<1>3. ASSUME NEW t \in Task, OpenSend(t)
      PROVE  PlayInv'
  <2>1. doing[t].media \in Playable /\ Playable \subseteq Media
    BY <1>3, CommentsAssumption DEF OpenSend
  <2>2. /\ [cmd |-> "openMediaFile", media |-> doing[t].media] \in Message
        /\ [cmd |-> "openMediaFile", media |-> doing[t].media].media \in Playable
    BY <2>1 DEF Message
  <2> QED
    BY <1>2, <1>3, <2>2 DEF OpenSend
<1>4. ASSUME NEW t \in Task, OpenSendComments(t) \/ EmitNewComment(t)
      PROVE  PlayInv'
  <2>1. doing[t] \in Doing
    BY DEF TypeOK
  <2>2. \A C \in SUBSET Comment : AddComments(C) \in Message /\ ~Opens(AddComments(C))
    BY DEF Message, AddComments, Opens
  <2>3. CASE OpenSendComments(t)
    <3>1. doing[t].comments \in SUBSET Comment
      BY <2>1, <2>3, DoingFields DEF OpenSendComments
    <3> QED
      BY <1>2, <2>2, <2>3, <3>1 DEF OpenSendComments
  <2>4. CASE EmitNewComment(t)
    <3>1. {doing[t].comment} \in SUBSET Comment
      BY <2>1, <2>4, DoingFields DEF EmitNewComment
    <3> QED
      BY <1>2, <2>2, <2>4, <3>1 DEF EmitNewComment
  <2> QED
    BY <1>4, <2>3, <2>4
<1>5. ASSUME NEW t \in Task, EditSendDel(t) \/ DelSend(t)
      PROVE  PlayInv'
  <2>1. doing[t].id \in Cid
    BY <1>5, DoingFields DEF TypeOK, EditSendDel, DelSend
  <2>2. DelComment(doing[t].id) \in Message /\ ~Opens(DelComment(doing[t].id))
    BY <2>1 DEF Message, DelComment, Opens
  <2> QED
    BY <1>2, <1>5, <2>2 DEF EditSendDel, DelSend
<1>6. ASSUME NEW s \in Ses, Deliver(s)
      PROVE  PlayInv'
  <2> DEFINE h == Head(inbox[s])
  <2>1. /\ inbox[s] \in Seq(Message) /\ h \in Message /\ h = inbox[s][1] /\ 1 \in 1..Len(inbox[s])
        /\ screen[s] \in View
        /\ screen' = [screen EXCEPT ![s] = Receive(screen[s], h)]
        /\ inbox' = [inbox EXCEPT ![s] = Tail(inbox[s])]
    BY <1>6 DEF Deliver, TypeOK, View
  <2>2. \A k \in 1..Len(Tail(inbox[s])) : k + 1 \in 1..Len(inbox[s]) /\ Tail(inbox[s])[k] = inbox[s][k + 1]
    BY <1>6, <2>1 DEF Deliver
  <2>3. Receive(screen[s], h).media \in Playable \cup {NULL}
    <3>1. screen[s].media \in Playable \cup {NULL} /\ (Opens(h) => h.media \in Playable)
      BY <2>1 DEF PlayInv
    <3>2. \/ Opens(h) /\ Receive(screen[s], h).media = h.media
          \/ ~Opens(h) /\ Receive(screen[s], h).media = screen[s].media
      BY <2>1, ReceiveView, Zenon
    <3> HIDE DEF h
    <3> QED
      BY <3>1, <3>2
  <2> HIDE DEF h
  <2>4. \A u \in Ses : /\ screen'[u] = IF u = s THEN Receive(screen[s], h) ELSE screen[u]
                       /\ inbox'[u] = IF u = s THEN Tail(inbox[s]) ELSE inbox[u]
    BY <2>1 DEF TypeOK
  <2>5. ASSUME NEW u \in Ses
        PROVE  /\ screen'[u].media \in Playable \cup {NULL}
               /\ \A k \in 1..Len(inbox'[u]) : Opens(inbox'[u][k]) => inbox'[u][k].media \in Playable
    <3>1. /\ screen[u].media \in Playable \cup {NULL}
          /\ \A k \in 1..Len(inbox[u]) : Opens(inbox[u][k]) => inbox[u][k].media \in Playable
      BY DEF PlayInv
    <3>2. CASE u = s
      <4>1. inbox'[u] = Tail(inbox[s]) /\ screen'[u] = Receive(screen[s], h)
        BY <2>4, <3>2
      <4>2. ASSUME NEW k \in 1..Len(Tail(inbox[s])), Opens(Tail(inbox[s])[k])
            PROVE  Tail(inbox[s])[k].media \in Playable
        BY <2>2, <3>1, <3>2, <4>2
      <4> QED
        BY <2>3, <4>1, <4>2
    <3>3. CASE u # s
      BY <2>4, <3>1, <3>3
    <3> QED
      BY <3>2, <3>3
  <2> QED
    BY <2>5 DEF PlayInv
<1>7. ASSUME NEW t \in Task, Continue(t)
      PROVE  PlayInv'
  BY <1>1, <1>3, <1>4, <1>5, <1>7
     DEF Continue, Open, OpenFail, OpenRead, EditUpdate, EditReread, DelDenied, DelCheck, DelRow
<1>8. ASSUME Start
      PROVE  PlayInv'
  BY <1>1, <1>8 DEF Start, OpenLink, EditGet, DelGet, AddInsert
<1> QED
  BY <1>6, <1>7, <1>8 DEF Next

-----------------------------------------------------------------------------
\* A step of a handler leaves MissInv true if, for every viewer and comment, the handler is now going
\* to send the comment, or it arrives, or nothing that mattered has changed.
LEMMA MissTask ==
    ASSUME TypeOK, TypeOK', MissInv, screen' = screen,
           NEW t \in Task, NEW state \in Doing, Become(t, state),
           \A s \in Ses : \A c \in rows' : guard'[s] = c.media /\ s \in viewers'[c.media] =>
              \/ WillSend(state, s, c)
              \/ Arrives(screen[s], inbox'[s], c)
              \/ /\ guard[s] = c.media /\ s \in viewers[c.media]
                 /\ \E d \in rows : d.id = c.id /\ d.media = c.media
                 /\ ~WillSend(doing[t], s, c)
                 /\ \/ inbox'[s] = inbox[s]
                    \/ \E message \in Message :
                          inbox'[s] = Append(inbox[s], message) /\ ~Clears(message, c.id)
    PROVE  MissInv'
<1> SUFFICES ASSUME NEW s \in Ses, NEW c \in rows', guard'[s] = c.media, s \in viewers'[c.media]
             PROVE  (\E u \in Task : WillSend(doing'[u], s, c)) \/ Arrives(screen[s], inbox'[s], c)
  BY DEF MissInv
<1>1. c.id \in Cid /\ c.media \in Media /\ inbox[s] \in Seq(Message) /\ screen[s] \in View
  BY DEF TypeOK, Comment, View
<1>2. doing'[t] = state /\ \A u \in Task \ {t} : doing'[u] = doing[u]
  BY BecomeTypeOK
<1>3. CASE WillSend(state, s, c)
  BY <1>2, <1>3
<1>4. CASE /\ guard[s] = c.media /\ s \in viewers[c.media]
           /\ \E d \in rows : d.id = c.id /\ d.media = c.media
           /\ ~WillSend(doing[t], s, c)
           /\ \/ inbox'[s] = inbox[s]
              \/ \E message \in Message : inbox'[s] = Append(inbox[s], message) /\ ~Clears(message, c.id)
  <2>1. (\E u \in Task : WillSend(doing[u], s, c)) \/ Arrives(screen[s], inbox[s], c)
    <3>1. PICK d \in rows : d.id = c.id /\ d.media = c.media
      BY <1>4
    <3>2. (\E u \in Task : WillSend(doing[u], s, d)) \/ Arrives(screen[s], inbox[s], d)
      BY <1>4, <3>1 DEF MissInv
    <3>3. \A u \in Task : WillSend(doing[u], s, d) => WillSend(doing[u], s, c)
      BY <3>1 DEF WillSend
    <3>4. Arrives(screen[s], inbox[s], d) => Arrives(screen[s], inbox[s], c)
      BY <3>1 DEF Arrives
    <3> QED
      BY <3>2, <3>3, <3>4
  <2>2. CASE \E u \in Task : WillSend(doing[u], s, c)
    BY <1>2, <1>4, <2>2
  <2>3. CASE Arrives(screen[s], inbox[s], c)
    <3>1. CASE inbox'[s] = inbox[s]
      BY <2>3, <3>1
    <3>2. CASE \E message \in Message : inbox'[s] = Append(inbox[s], message) /\ ~Clears(message, c.id)
      <4>1. PICK message \in Message : inbox'[s] = Append(inbox[s], message) /\ ~Clears(message, c.id)
        BY <3>2
      <4>2. ~Opens(message)
        BY <4>1 DEF Clears
      <4> QED
        BY <1>1, <2>3, <4>1, <4>2, AppendShows DEF Arrives
    <3> QED
      BY <1>4, <3>1, <3>2
  <2> QED
    BY <2>1, <2>2, <2>3
<1> QED
  BY <1>3, <1>4

\* A handler that starts: an opening will send all there is, and a new comment is in its handler's hands.
LEMMA MissStart ==
    ASSUME TypeOK, TypeOK', IdsInv, MissInv, Start
    PROVE  MissInv'
<1>1. /\ rows \subseteq Comment /\ Ses \subseteq Task
      /\ guard \in [Ses -> Media \cup {NULL}] /\ viewers \in [Media -> SUBSET Ses]
  BY DEF TypeOK, Task
<1>2. \A s, c : ~WillSend(Idle, s, c)
  BY DEF WillSend, Idle
<1>3. ASSUME NEW t \in Task, NEW s \in Ses, NEW m \in Media, OpenLink(t, s, m)
      PROVE  MissInv'
  <2> DEFINE d == [at |-> "linked", ses |-> s, media |-> m]
  <2>1. /\ doing[t] = Idle /\ Become(t, d) /\ UNCHANGED <<rows, inbox, screen>>
        /\ viewers' = [f \in Media |-> IF f = guard[s] THEN viewers[f] \ {s}
                                       ELSE IF f = m THEN viewers[f] \cup {s} ELSE viewers[f]]
        /\ guard' = [guard EXCEPT ![s] = m]
    BY <1>3 DEF OpenLink, Free
  <2>2. d \in Doing
    BY DEF Doing
  <2>3. ASSUME NEW u \in Ses, NEW c \in rows', guard'[u] = c.media, u \in viewers'[c.media]
        PROVE  \/ WillSend(d, u, c)
               \/ guard[u] = c.media /\ u \in viewers[c.media]
    <3>1. CASE u = s
      <4>1. c.media = m
        BY <1>1, <2>1, <2>3, <3>1
      <4> QED
        BY <3>1, <4>1 DEF WillSend
    <3>2. CASE u # s
      <4>1. c.media \in Media
        BY <1>1, <2>1 DEF Comment
      <4> QED
        BY <1>1, <2>1, <2>3, <3>2, <4>1
    <3> QED
      BY <3>1, <3>2
  <2> HIDE DEF d
  <2> QED
    BY <1>2, <2>1, <2>2, <2>3, MissTask
<1>4. ASSUME NEW s \in Ses, NEW id \in Cid, NEW text \in Text, EditGet(s, id, text)
      PROVE  MissInv'
  <2>1. PICK c \in Stored(id) : Become(s, [at |-> "editing", id |-> id, media |-> c.media, text |-> text])
    BY <1>4 DEF EditGet
  <2>2. [at |-> "editing", id |-> id, media |-> c.media, text |-> text] \in Doing
    BY <1>1 DEF Doing, Stored, Comment
  <2>3. doing[s] = Idle /\ UNCHANGED <<rows, viewers, guard, inbox, screen>>
    BY <1>4 DEF EditGet, Free
  <2> QED
    BY <1>1, <1>2, <2>1, <2>2, <2>3, MissTask
<1>5. ASSUME NEW s \in Ses, NEW id \in Cid, DelGet(s, id)
      PROVE  MissInv'
  <2>1. PICK c \in Stored(id) : Become(s, [at |-> "deleting", id |-> id, media |-> c.media])
    BY <1>5 DEF DelGet
  <2>2. [at |-> "deleting", id |-> id, media |-> c.media] \in Doing
    BY <1>1 DEF Doing, Stored, Comment
  <2>3. doing[s] = Idle /\ UNCHANGED <<rows, viewers, guard, inbox, screen>>
    BY <1>5 DEF DelGet, Free
  <2> QED
    BY <1>1, <1>2, <2>1, <2>2, <2>3, MissTask
<1>6. ASSUME NEW s \in Ses, NEW parent \in Cid \cup {NULL}, NEW text \in Text, AddInsert(s, parent, text)
      PROVE  MissInv'
  <2> DEFINE c == [id |-> nextId, media |-> screen[s].media, parent |-> parent, text |-> text]
             d == [at |-> "unsent", comment |-> c]
  <2>1. /\ doing[s] = Idle /\ rows' = rows \cup {c} /\ Become(s, d) /\ UNCHANGED <<viewers, guard, inbox, screen>>
    BY <1>6 DEF AddInsert, Free
  <2>2. d \in Doing
    <3>1. c \in Comment
      BY <2>1 DEF TypeOK
    <3> QED
      BY <3>1 DEF Doing
  <2>3. \A u \in Ses : WillSend(d, u, c)
    BY DEF WillSend
  <2> HIDE DEF c, d
  <2> QED
    BY <1>1, <1>2, <2>1, <2>2, <2>3, MissTask
<1> QED
  BY <1>3, <1>4, <1>5, <1>6 DEF Start

\* A handler that goes on either will still send what it would have, or has sent it; and whatever takes a
\* comment off the screens is sent before the comment, or once its row is gone.
LEMMA MissContinue ==
    ASSUME TypeOK, TypeOK', IdsInv, PlayInv, MissInv, NEW t \in Task, Continue(t)
    PROVE  MissInv'
<1> DEFINE d == doing[t]
<1>1. rows \subseteq Comment /\ d \in Doing /\ Held(d, rows, nextId)
  BY DEF TypeOK, IdsInv
<1>2. Idle \in Doing /\ \A s, c : ~WillSend(Idle, s, c)
  BY DEF Doing, WillSend, Idle
<1>3. CASE OpenFail(t)
  <2>1. /\ d.at = "linked" /\ d.media \notin Playable /\ d.media \in Media /\ Become(t, Idle)
        /\ UNCHANGED <<rows, viewers, guard, inbox, screen>>
    BY <1>1, <1>3, DoingFields DEF OpenFail
  <2>2. ASSUME NEW s \in Ses, NEW c \in rows, WillSend(d, s, c)
        PROVE  Arrives(screen[s], inbox[s], c)
    <3>1. c.media = d.media
      BY <2>1, <2>2 DEF WillSend
    <3>2. c.media # screen[s].media
      BY <2>1, <3>1, CommentsAssumption DEF PlayInv
    <3>3. \A k \in 1..Len(inbox[s]) : Opens(inbox[s][k]) => inbox[s][k].media # c.media
      BY <2>1, <3>1 DEF PlayInv
    <3> QED
      BY <3>2, <3>3 DEF Arrives, WillBe
  <2> QED
    BY <1>2, <2>1, <2>2, MissTask
<1>4. CASE OpenSend(t)
  <2> DEFINE e == [d EXCEPT !.at = "opened"]
             message == [cmd |-> "openMediaFile", media |-> d.media]
  <2>1. /\ d.at = "linked" /\ d = [at |-> "linked", ses |-> d.ses, media |-> d.media]
        /\ d.ses \in Ses /\ d.media \in Media /\ Become(t, e) /\ Send({d.ses}, message)
        /\ UNCHANGED <<rows, viewers, guard, screen>>
    BY <1>1, <1>4, DoingFields DEF OpenSend
  <2>2. e \in Doing /\ \A s, c : WillSend(e, s, c) <=> WillSend(d, s, c)
    BY <2>1 DEF Doing, WillSend
  <2>3. message \in Message /\ Opens(message) /\ message.media = d.media
    BY <2>1 DEF Message, Opens
  <2>4. e.at = "opened" /\ e.ses = d.ses /\ e.media = d.media
    BY <2>1
  <2> HIDE DEF e, message
  <2>5. ASSUME NEW c \in rows
        PROVE  WillSend(e, d.ses, c) \/ Arrives(screen[d.ses], inbox'[d.ses], c)
    <3>1. inbox'[d.ses] = Append(inbox[d.ses], message) /\ inbox[d.ses] \in Seq(Message)
          /\ screen[d.ses] \in View /\ c.id \in Cid /\ c.media \in Media
      BY <1>1, <2>1, <2>3, SendTypeOK DEF TypeOK, View, Comment
    <3>2. WillBe(screen[d.ses], inbox'[d.ses], c.media) => c.media = d.media
      BY <2>3, <3>1, AppendShows
    <3>3. c.media = d.media => WillSend(e, d.ses, c)
      BY <2>4 DEF WillSend
    <3> QED
      BY <3>2, <3>3 DEF Arrives
  <2>6. \A s \in Ses : s # d.ses => inbox'[s] = inbox[s]
    BY <2>1, <2>3, SendTypeOK
  <2> QED
    BY <2>1, <2>2, <2>5, <2>6, MissTask
<1>5. CASE OpenRead(t)
  <2> DEFINE e == [at |-> "read", ses |-> d.ses, comments |-> {c \in rows : c.media = d.media}]
  <2>1. /\ d.at = "opened" /\ d.ses \in Ses /\ d.media \in Media /\ Become(t, e)
        /\ UNCHANGED <<rows, viewers, guard, inbox, screen>>
    BY <1>1, <1>5, DoingFields DEF OpenRead
  <2>2. e \in Doing
    BY <1>1, <2>1 DEF Doing
  <2>3. \A s, c : c \in rows /\ WillSend(d, s, c) => WillSend(e, s, c)
    BY <2>1 DEF WillSend
  <2> HIDE DEF e
  <2> QED
    BY <2>1, <2>2, <2>3, MissTask
<1>6. CASE OpenSendComments(t)
  <2> DEFINE message == AddComments(d.comments)
  <2>1. /\ d.at = "read" /\ d.ses \in Ses /\ d.comments \subseteq Comment /\ Become(t, Idle)
        /\ Send({d.ses}, message) /\ UNCHANGED <<rows, viewers, guard, screen>>
    BY <1>1, <1>6, DoingFields DEF OpenSendComments
  <2>2. message \in Message /\ \A id : ~Clears(message, id)
    BY <2>1 DEF Message, AddComments, Clears, Opens
  <2>3. ASSUME NEW s \in Ses, NEW c \in rows, WillSend(d, s, c)
        PROVE  Arrives(screen[s], inbox'[s], c)
    <3>1. s = d.ses /\ \E x \in d.comments : x.id = c.id
      BY <2>1, <2>3 DEF WillSend
    <3>2. Adds(message, c.id)
      BY <3>1 DEF Adds, AddComments
    <3> HIDE DEF message
    <3>3. /\ inbox'[s] = Append(inbox[s], message) /\ inbox[s] \in Seq(Message)
          /\ screen[s] \in View /\ c.id \in Cid /\ c.media \in Media
      BY <1>1, <2>1, <2>2, <3>1, SendTypeOK DEF TypeOK, View, Comment
    <3> QED
      BY <2>2, <3>2, <3>3, AppendShows DEF Arrives
  <2> HIDE DEF message
  <2>4. \A s \in Ses : inbox'[s] = inbox[s] \/ inbox'[s] = Append(inbox[s], message)
    BY <2>1, SendAppends
  <2> QED
    BY <1>2, <2>1, <2>2, <2>3, <2>4, MissTask
<1>7. CASE EmitNewComment(t)
  <2> DEFINE message == AddComments({d.comment})
  <2>1. /\ d.at = "unsent" /\ d.comment \in Comment /\ Become(t, Idle)
        /\ Send(viewers[d.comment.media], message) /\ UNCHANGED <<rows, viewers, guard, screen>>
    BY <1>1, <1>7, DoingFields DEF EmitNewComment
  <2>2. message \in Message /\ \A id : ~Clears(message, id)
    BY <2>1 DEF Message, AddComments, Clears, Opens
  <2>3. ASSUME NEW s \in Ses, NEW c \in rows, WillSend(d, s, c), s \in viewers[c.media]
        PROVE  Arrives(screen[s], inbox'[s], c)
    <3>1. d.comment.id = c.id
      BY <2>1, <2>3 DEF WillSend
    <3>2. d.comment.media = c.media
      BY <1>1, <2>1, <3>1 DEF Held, Known, Same
    <3>3. Adds(message, c.id)
      BY <3>1 DEF Adds, AddComments
    <3> HIDE DEF message
    <3>4. /\ inbox'[s] = Append(inbox[s], message) /\ inbox[s] \in Seq(Message)
          /\ screen[s] \in View /\ c.id \in Cid /\ c.media \in Media
      BY <1>1, <2>1, <2>2, <2>3, <3>2, SendTypeOK DEF TypeOK, View, Comment
    <3> QED
      BY <2>2, <3>3, <3>4, AppendShows DEF Arrives
  <2> HIDE DEF message
  <2>4. \A s \in Ses : inbox'[s] = inbox[s] \/ inbox'[s] = Append(inbox[s], message)
    BY <2>1, SendAppends
  <2> QED
    BY <1>2, <2>1, <2>2, <2>3, <2>4, MissTask
<1>8. CASE EditUpdate(t)
  <2> DEFINE e == [d EXCEPT !.at = "edited"]
             new(c) == IF c.id = d.id THEN [c EXCEPT !.text = d.text] ELSE c
  <2>1. /\ d.at = "editing" /\ d = [at |-> "editing", id |-> d.id, media |-> d.media, text |-> d.text]
        /\ d.id \in Cid /\ d.media \in Media /\ d.text \in Text
        /\ rows' = {new(c) : c \in rows} /\ Become(t, e) /\ UNCHANGED <<viewers, guard, inbox, screen>>
    BY <1>1, <1>8, DoingFields DEF EditUpdate
  <2>2. e \in Doing /\ \A s, c : ~WillSend(d, s, c)
    BY <2>1 DEF Doing, WillSend
  <2>3. \A c \in rows : new(c).id = c.id /\ new(c).media = c.media
    BY <1>1 DEF Comment
  <2> HIDE DEF e, new
  <2>4. \A c \in rows' : \E r \in rows : r.id = c.id /\ r.media = c.media
    BY <2>1, <2>3
  <2> QED
    BY <2>1, <2>2, <2>4, MissTask
<1>9. CASE EditSendDel(t)
  <2> DEFINE e == [d EXCEPT !.at = "announced"]
             message == DelComment(d.id)
  <2>1. /\ d.at = "edited" /\ d = [at |-> "edited", id |-> d.id, media |-> d.media, text |-> d.text]
        /\ d.id \in Cid /\ d.media \in Media /\ d.text \in Text
        /\ Become(t, e) /\ Send(viewers[d.media], message) /\ UNCHANGED <<rows, viewers, guard, screen>>
    BY <1>1, <1>9, DoingFields DEF EditSendDel
  <2>2. e \in Doing /\ \A s, c : ~WillSend(d, s, c) /\ (c.id = d.id => WillSend(e, s, c))
    BY <2>1 DEF Doing, WillSend
  <2>3. message \in Message /\ \A id : id # d.id => ~Clears(message, id)
    BY <2>1 DEF Message, DelComment, Clears, Opens
  <2> HIDE DEF e, message
  <2>4. \A s \in Ses : inbox'[s] = inbox[s] \/ inbox'[s] = Append(inbox[s], message)
    BY <2>1, SendAppends
  <2> QED
    BY <2>1, <2>2, <2>3, <2>4, MissTask
<1>10. CASE EditReread(t)
  <2>1. d.at = "announced" /\ UNCHANGED <<rows, viewers, guard, inbox, screen>>
    BY <1>10 DEF EditReread
  <2>2. \A s, c : WillSend(d, s, c) => c.id = d.id
    BY <2>1 DEF WillSend
  <2>3. CASE Stored(d.id) = {}
    <3>1. \A s : \A c \in rows : ~WillSend(d, s, c)
      BY <2>2, <2>3 DEF Stored
    <3>2. Become(t, Idle)
      BY <1>10, <2>3 DEF EditReread
    <3> QED
      BY <1>2, <2>1, <3>1, <3>2, MissTask
  <2>4. CASE Stored(d.id) # {}
    <3>1. PICK x \in Stored(d.id) : Become(t, [at |-> "unsent", comment |-> x])
      BY <1>10, <2>4 DEF EditReread
    <3> DEFINE e == [at |-> "unsent", comment |-> x]
    <3>2. x \in rows /\ x \in Comment /\ x.id = d.id
      BY <1>1 DEF Stored
    <3>3. e \in Doing /\ \A s, c : c.id = d.id => WillSend(e, s, c)
      BY <3>2 DEF Doing, WillSend
    <3> HIDE DEF e
    <3>4. Become(t, e)
      BY <3>1 DEF e
    <3> QED
      BY <2>1, <2>2, <3>3, <3>4, MissTask
  <2> QED
    BY <2>3, <2>4
<1>11. CASE DelDenied(t)
  <2>1. d.at = "deleting" /\ Become(t, Idle) /\ UNCHANGED <<rows, viewers, guard, inbox, screen>>
    BY <1>11 DEF DelDenied
  <2>2. \A s, c : ~WillSend(d, s, c)
    BY <2>1 DEF WillSend
  <2> QED
    BY <1>2, <2>1, <2>2, MissTask
<1>12. CASE DelCheck(t)
  <2>1. /\ d.at = "deleting" /\ d = [at |-> "deleting", id |-> d.id, media |-> d.media]
        /\ d.id \in Cid /\ d.media \in Media
        /\ Become(t, Idle) \/ Become(t, [d EXCEPT !.at = "childless"])
        /\ UNCHANGED <<rows, viewers, guard, inbox, screen>>
    BY <1>1, <1>12, DoingFields DEF DelCheck
  <2>2. [d EXCEPT !.at = "childless"] \in Doing /\ \A s, c : ~WillSend(d, s, c)
    BY <2>1 DEF Doing, WillSend
  <2> QED
    BY <1>2, <2>1, <2>2, MissTask
<1>13. CASE DelRow(t)
  <2>1. /\ d.at = "childless" /\ d = [at |-> "childless", id |-> d.id, media |-> d.media]
        /\ d.id \in Cid /\ d.media \in Media
        /\ rows' \subseteq rows /\ Become(t, [d EXCEPT !.at = "deleted"])
        /\ UNCHANGED <<viewers, guard, inbox, screen>>
    BY <1>1, <1>13, DoingFields DEF DelRow
  <2>2. [d EXCEPT !.at = "deleted"] \in Doing /\ \A s, c : ~WillSend(d, s, c)
    BY <2>1 DEF Doing, WillSend
  <2> QED
    BY <2>1, <2>2, MissTask
<1>14. CASE DelSend(t)
  <2> DEFINE message == DelComment(d.id)
  <2>1. /\ d.at = "deleted" /\ d.id \in Cid /\ Become(t, Idle)
        /\ Send(viewers[d.media], message) /\ UNCHANGED <<rows, viewers, guard, screen>>
    BY <1>1, <1>14, DoingFields DEF DelSend
  <2>2. \A s, c : ~WillSend(d, s, c)
    BY <2>1 DEF WillSend
  <2>3. message \in Message /\ \A c \in rows : ~Clears(message, c.id)
    BY <1>1, <2>1 DEF Message, DelComment, Clears, Opens, Held
  <2> HIDE DEF message
  <2>4. \A s \in Ses : inbox'[s] = inbox[s] \/ inbox'[s] = Append(inbox[s], message)
    BY <2>1, SendAppends
  <2> QED
    BY <1>2, <2>1, <2>2, <2>3, <2>4, MissTask
<1> QED
  BY <1>3, <1>4, <1>5, <1>6, <1>7, <1>8, <1>9, <1>10, <1>11, <1>12, <1>13, <1>14 DEF Continue, Open

\* A message that arrives changes nothing of what will be shown in the end.
LEMMA MissDeliver ==
    ASSUME TypeOK, IdsInv, MissInv, NEW s \in Ses, Deliver(s)
    PROVE  MissInv'
<1> DEFINE h == Head(inbox[s])
<1>1. /\ inbox[s] \in Seq(Message) /\ inbox[s] # <<>> /\ screen[s] \in View
      /\ h \in Message /\ h = inbox[s][1] /\ 1 \in 1..Len(inbox[s]) /\ rows \subseteq Comment
      /\ screen' = [screen EXCEPT ![s] = Receive(screen[s], h)]
      /\ inbox' = [inbox EXCEPT ![s] = Tail(inbox[s])]
      /\ UNCHANGED <<rows, viewers, guard, doing>>
  BY DEF Deliver, TypeOK, View
<1>2. \A u \in Ses : /\ screen'[u] = IF u = s THEN Receive(screen[s], h) ELSE screen[u]
                     /\ inbox'[u] = IF u = s THEN Tail(inbox[s]) ELSE inbox[u]
  <2> HIDE DEF h
  <2> QED
    BY <1>1 DEF TypeOK
<1>3. ASSUME NEW u \in Ses, NEW c \in rows, Arrives(screen[u], inbox[u], c)
      PROVE  Arrives(screen'[u], inbox'[u], c)
  <2>1. CASE u = s
    <3>1. c.id \in Cid /\ c.media \in Media
      BY <1>1 DEF Comment
    <3>2. h.cmd = "addComments" => \A x \in h.comments : x.id = c.id => x.media = c.media
      <4>1. h.cmd = "addComments" => Known(h.comments, rows, nextId)
        BY <1>1 DEF IdsInv
      <4> QED
        BY <4>1 DEF Known, Same
    <3>3. WillBe(Receive(screen[s], h), Tail(inbox[s]), c.media) =>
             WillShow(Receive(screen[s], h), Tail(inbox[s]), c.id)
      BY <1>1, <1>3, <2>1, <3>1, <3>2, DeliverShows DEF Arrives
    <3> HIDE DEF h
    <3> QED
      BY <1>2, <2>1, <3>3 DEF Arrives
  <2>2. CASE u # s
    BY <1>2, <1>3, <2>2
  <2> QED
    BY <2>1, <2>2
<1> QED
  BY <1>1, <1>3 DEF MissInv

-----------------------------------------------------------------------------
\* The invariant holds of any overlap of handlers and messages.
LEMMA InvariantHolds == Spec => []IInv
<1>1. ASSUME IInv, [Next]_vars
      PROVE  IInv'
  <2>1. CASE Next
    <3>1. TypeOK' /\ IdsInv' /\ PlayInv'
      BY <1>1, <2>1, TypeStep, IdsStep, PlayStep DEF IInv
    <3>2. MissInv'
      BY <1>1, <2>1, <3>1, MissStart, MissContinue, MissDeliver DEF IInv, Next
    <3> QED
      BY <3>1, <3>2 DEF IInv
  <2>2. CASE UNCHANGED vars
    BY <1>1, <2>2 DEF vars, IInv, TypeOK, IdsInv, PlayInv, MissInv
  <2> QED
    BY <1>1, <2>1, <2>2
<1> QED
  BY <1>1, InitIInv, PTL DEF Spec

\* The variables keep their types.
THEOREM TypeCorrect == Spec => []TypeOK
<1>1. IInv => TypeOK
  BY DEF IInv
<1> QED
  BY <1>1, InvariantHolds, PTL

\* A screen shows comments of its own file only, each once, whatever is still under way to it.
THEOREM OneFileOnScreenHolds == Spec => []OneFileOnScreen
<1>1. IInv => OneFileOnScreen
  BY DEF IInv, IdsInv, Known, Unique, OneFileOnScreen
<1> QED
  BY <1>1, InvariantHolds, PTL

\* Once the handlers have ended and all has arrived, a viewer has every comment of its file on the
\* screen: what handlers and queues still owed a viewer has been paid.
THEOREM NothingMissedHolds == Spec => []NothingMissed
<1>1. ASSUME IInv
      PROVE  NothingMissed
  <2> SUFFICES ASSUME Quiet, NEW s \in Ses, Follows(s), NEW c \in CommentsOf(screen[s].media)
               PROVE  \E d \in screen[s].comments : d.id = c.id
    BY DEF NothingMissed
  <2>1. c \in rows /\ c.media = screen[s].media /\ guard[s] = c.media /\ s \in viewers[c.media]
    BY DEF CommentsOf, Follows
  <2>2. \A t \in Task : ~WillSend(doing[t], s, c)
    BY DEF Quiet, WillSend, Idle
  <2>3. WillBe(screen[s], inbox[s], c.media) => WillShow(screen[s], inbox[s], c.id)
    BY <1>1, <2>1, <2>2 DEF IInv, MissInv, Arrives
  <2>4. \A k \in 1..Len(inbox[s]) : FALSE
    <3>1. inbox[s] = <<>>
      BY DEF Quiet
    <3> QED
      BY <3>1
  <2> QED
    BY <2>1, <2>3, <2>4 DEF WillBe, WillShow
<1> QED
  BY <1>1, InvariantHolds, PTL

-----------------------------------------------------------------------------
\* Where comments are neither edited nor deleted, whatever is held of one is its row.
OnlyRows ==
    /\ \A t \in Task : /\ doing[t].at \in {"idle", "linked", "opened", "read", "unsent"}
                       /\ doing[t].at = "unsent" => doing[t].comment \in rows
                       /\ doing[t].at = "read" => doing[t].comments \subseteq rows
    /\ \A s \in Ses : \A k \in 1..Len(inbox[s]) :
          inbox[s][k].cmd = "addComments" => inbox[s][k].comments \subseteq rows
    /\ \A s \in Ses : screen[s].comments \subseteq rows

\* Of a task that goes on to d, and sends nothing.
LEMMA RowsBecome ==
    ASSUME TypeOK, OnlyRows, rows \subseteq rows', UNCHANGED <<inbox, screen>>,
           NEW t \in Task, NEW d \in Doing, Become(t, d),
           d.at \in {"idle", "linked", "opened", "read", "unsent"},
           d.at = "unsent" => d.comment \in rows', d.at = "read" => d.comments \subseteq rows'
    PROVE  OnlyRows'
<1>1. doing'[t] = d /\ \A u \in Task \ {t} : doing'[u] = doing[u]
  BY BecomeTypeOK
<1> QED
  BY <1>1 DEF OnlyRows

\* Of one that sends a message, and is done or goes on with the opening of a file.
LEMMA RowsSend ==
    ASSUME TypeOK, OnlyRows, UNCHANGED <<rows, screen>>,
           NEW t \in Task, NEW d \in Doing, Become(t, d), d.at \in {"idle", "opened"},
           NEW list, NEW message \in Message, Send(list, message),
           message.cmd = "addComments" => message.comments \subseteq rows
    PROVE  OnlyRows'
<1>1. doing'[t] = d /\ \A u \in Task \ {t} : doing'[u] = doing[u]
  BY BecomeTypeOK
<1>2. \A s \in Ses : \A k \in 1..Len(inbox'[s]) :
          (k \in 1..Len(inbox[s]) /\ inbox'[s][k] = inbox[s][k]) \/ inbox'[s][k] = message
  BY SendTypeOK
<1> QED
  BY <1>1, <1>2 DEF OnlyRows

\* Comments that are only made are rows from then on.
LEMMA RowsStep ==
    ASSUME Ops \subseteq {"open", "add"}, TypeOK, TypeOK', OnlyRows, [Next]_vars
    PROVE  OnlyRows'
<1>1. Idle \in Doing /\ Idle.at = "idle"
  BY DEF Doing, Idle
<1>2. ASSUME NEW t \in Task, NEW s \in Ses, NEW m \in Media, OpenLink(t, s, m)
      PROVE  OnlyRows'
  <2>1. [at |-> "linked", ses |-> s, media |-> m] \in Doing
    BY DEF Doing
  <2> QED
    BY <1>2, <2>1, RowsBecome DEF OpenLink
<1>3. ASSUME NEW s \in Ses, NEW parent \in Cid \cup {NULL}, NEW text \in Text, AddInsert(s, parent, text)
      PROVE  OnlyRows'
  <2> DEFINE c == [id |-> nextId, media |-> screen[s].media, parent |-> parent, text |-> text]
             d == [at |-> "unsent", comment |-> c]
  <2>1. rows' = rows \cup {c} /\ Become(s, d) /\ UNCHANGED <<inbox, screen>>
    BY <1>3 DEF AddInsert
  <2>2. d \in Doing
    <3>1. c \in Comment
      BY <2>1 DEF TypeOK
    <3> QED
      BY <3>1 DEF Doing
  <2>3. d.at = "unsent" /\ d.comment \in rows'
    BY <2>1
  <2> HIDE DEF c, d
  <2> QED
    BY <2>1, <2>2, <2>3, RowsBecome DEF Task
<1>4. ASSUME NEW s \in Ses, NEW id \in Cid, DelGet(s, id) \/ \E text \in Text : EditGet(s, id, text)
      PROVE  FALSE
  BY <1>4 DEF DelGet, EditGet, Free
<1>5. ASSUME NEW t \in Task, Continue(t)
      PROVE  OnlyRows'
  <2> DEFINE d == doing[t]
  <2>1. d \in Doing /\ d.at \in {"idle", "linked", "opened", "read", "unsent"} /\ rows \subseteq Comment
    BY DEF TypeOK, OnlyRows
  <2>2. CASE OpenFail(t)
    BY <1>1, <2>2, RowsBecome DEF OpenFail
  <2>3. CASE OpenSend(t)
    <3> DEFINE e == [d EXCEPT !.at = "opened"]
               message == [cmd |-> "openMediaFile", media |-> d.media]
    <3>1. /\ d = [at |-> "linked", ses |-> d.ses, media |-> d.media] /\ d.ses \in Ses /\ d.media \in Media
          /\ Become(t, e) /\ Send({d.ses}, message) /\ UNCHANGED <<rows, screen>>
      BY <2>1, <2>3, DoingFields DEF OpenSend
    <3>2. e \in Doing /\ e.at = "opened"
      BY <3>1 DEF Doing
    <3>3. message \in Message /\ message.cmd = "openMediaFile"
      BY <3>1 DEF Message
    <3> HIDE DEF e, message
    <3> QED
      BY <3>1, <3>2, <3>3, RowsSend
  <2>4. CASE OpenRead(t)
    <3> DEFINE e == [at |-> "read", ses |-> d.ses, comments |-> {c \in rows : c.media = d.media}]
    <3>1. d.ses \in Ses /\ Become(t, e) /\ UNCHANGED <<rows, inbox, screen>>
      BY <2>1, <2>4, DoingFields DEF OpenRead
    <3>2. e \in Doing /\ e.at = "read" /\ e.comments \subseteq rows
      BY <2>1, <3>1 DEF Doing
    <3> HIDE DEF e
    <3> QED
      BY <3>1, <3>2, RowsBecome
  <2>5. CASE OpenSendComments(t) \/ EmitNewComment(t)
    <3> DEFINE C == IF d.at = "read" THEN d.comments ELSE {d.comment}
    <3>1. /\ C \subseteq rows /\ Become(t, Idle) /\ UNCHANGED <<rows, screen>>
          /\ \E list : Send(list, AddComments(C))
      BY <2>5 DEF OpenSendComments, EmitNewComment, OnlyRows
    <3> HIDE DEF C
    <3>2. AddComments(C) \in Message /\ AddComments(C).comments = C
      BY <2>1, <3>1 DEF AddComments, Message
    <3> QED
      BY <1>1, <3>1, <3>2, RowsSend
  <2>6. ~(EditUpdate(t) \/ EditSendDel(t) \/ EditReread(t) \/ DelDenied(t) \/ DelCheck(t) \/ DelRow(t) \/ DelSend(t))
    BY <2>1 DEF EditUpdate, EditSendDel, EditReread, DelDenied, DelCheck, DelRow, DelSend
  <2> QED
    BY <1>5, <2>2, <2>3, <2>4, <2>5, <2>6 DEF Continue, Open
<1>6. ASSUME NEW s \in Ses, Deliver(s)
      PROVE  OnlyRows'
  <2> DEFINE h == Head(inbox[s])
  <2>1. /\ inbox[s] \in Seq(Message) /\ inbox[s] # <<>> /\ h = inbox[s][1] /\ 1 \in 1..Len(inbox[s])
        /\ h \in Message /\ UNCHANGED <<rows, doing>>
        /\ \A u \in Ses : /\ screen'[u] = IF u = s THEN Receive(screen[u], h) ELSE screen[u]
                          /\ inbox'[u] = IF u = s THEN Tail(inbox[u]) ELSE inbox[u]
    BY <1>6 DEF Deliver, TypeOK
  <2>2. \A k \in 1..Len(Tail(inbox[s])) : k + 1 \in 1..Len(inbox[s]) /\ Tail(inbox[s])[k] = inbox[s][k + 1]
    BY <2>1
  <2>3. Receive(screen[s], h).comments \subseteq rows
    <3>1. screen[s] \in View /\ screen[s].comments \subseteq rows
      BY DEF TypeOK, View, OnlyRows
    <3>2. CASE h.cmd = "openMediaFile"
      BY <3>2 DEF Receive
    <3>3. CASE h.cmd = "addComments"
      <4>1. h.comments \subseteq rows
        BY <2>1, <3>3 DEF OnlyRows
      <4> HIDE DEF h
      <4> QED
        BY <3>1, <3>3, <4>1 DEF Receive, Shown, View
    <3>4. CASE h.cmd = "delComment"
      BY <3>1, <3>4 DEF Receive, View
    <3> QED
      BY <2>1, <3>2, <3>3, <3>4, Messages
  <2> HIDE DEF h
  <2>4. ASSUME NEW u \in Ses, NEW k \in 1..Len(inbox'[u]), inbox'[u][k].cmd = "addComments"
        PROVE  inbox'[u][k].comments \subseteq rows
    <3>1. CASE u = s
      <4>1. k + 1 \in 1..Len(inbox[s]) /\ inbox'[u][k] = inbox[s][k + 1]
        BY <2>1, <2>2, <3>1
      <4> QED
        BY <2>4, <4>1 DEF OnlyRows
    <3>2. CASE u # s
      BY <2>1, <2>4, <3>2 DEF OnlyRows
    <3> QED
      BY <3>1, <3>2
  <2>5. \A u \in Ses : screen'[u].comments \subseteq rows
    BY <2>1, <2>3 DEF OnlyRows
  <2> QED
    BY <2>1, <2>4, <2>5 DEF OnlyRows
<1>7. CASE UNCHANGED vars
  BY <1>7 DEF vars, OnlyRows
<1> QED
  BY <1>2, <1>3, <1>4, <1>5, <1>6, <1>7 DEF Next, Start

\* As long as comments are only made, all viewers of a file see the same once all is quiet, and what
\* is in the database.
THEOREM ScreensAgreeHolds ==
    ASSUME Ops \subseteq {"open", "add"}
    PROVE  Spec => []ScreensAgree
<1>1. Init => OnlyRows
  <2> SUFFICES ASSUME Init PROVE OnlyRows
    OBVIOUS
  <2>1. \A s \in Ses : \A k \in 1..Len(inbox[s]) : FALSE
    BY DEF Init
  <2> QED
    BY <2>1 DEF Init, OnlyRows, Idle
<1>2. IInv /\ IInv' /\ OnlyRows /\ [Next]_vars => OnlyRows'
  BY RowsStep DEF IInv
<1>3. ASSUME IInv, NothingMissed, OnlyRows
      PROVE  ScreensAgree
  <2> SUFFICES ASSUME Quiet, NEW s \in Ses, Follows(s)
               PROVE  screen[s].comments = CommentsOf(screen[s].media)
    BY DEF ScreensAgree
  <2>1. screen[s].comments \subseteq rows /\ Unique(rows)
    BY <1>3 DEF OnlyRows, IInv, IdsInv, Known
  <2>2. \A c \in screen[s].comments : c.media = screen[s].media
    BY <1>3 DEF IInv, IdsInv
  <2>3. \A c \in CommentsOf(screen[s].media) : \E d \in screen[s].comments : d.id = c.id
    BY <1>3 DEF NothingMissed
  <2> QED
    BY <2>1, <2>2, <2>3 DEF CommentsOf, Unique
<1> QED
  BY <1>1, <1>2, <1>3, InvariantHolds, NothingMissedHolds, PTL DEF Spec
=============================================================================
