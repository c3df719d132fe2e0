------------------------- MODULE SessionLocksProofs -------------------------
(***************************************************************************)
(* Proofs about SessionLocks, for any number of threads in any of the      *)
(* server's calls on its maps, but for the organizer's message to a        *)
(* session: they never wait for one another in a circle.                   *)
(*                                                                         *)
(* The programs are Tidy: they take their locks in the order of Rank,      *)
(* leave none behind, and drop a read guard before they do anything else.  *)
(* So whoever a thread waits for is at a higher place in that order, or    *)
(* is a reader, who waits for nobody.                                      *)
(***************************************************************************)
EXTENDS SessionLocks, TLAPS

NoShow == "showToSession" \notin Jobs

Rank == [sid |-> 1, user |-> 1, media |-> 2, collabMedia |-> 1, collab |-> 2]

\* The locks that are held for writing before each step of a program.
Held ==
    [register |-> <<{}, {"user"}, {}, {"sid"}>>,
     link |-> <<{}, {"sid"}, {"sid", "media"}, {"sid"}, {"sid", "media"}, {"sid"}>>,
     joinCollab |-> <<{}, {}, {}, {"collabMedia"}, {"collabMedia"}, {"collabMedia"},
                      {}, {"collabMedia"}, {"collabMedia", "collab"}, {"collabMedia"}>>,
     leaveCollab |-> <<{}, {}, {}, {"collab"}>>,
     endSession |-> <<{}, {"user"}, {}, {"sid"}, {"sid", "media"}, {"sid"}, {}, {"collab"}>>,
     sendSession |-> <<{}, {}>>, sendUser |-> <<{}, {}>>,
     sendMedia |-> <<{}, {}>>, sendCollab |-> <<{}, {}>>]

\* What step k of program p has to do with the locks held before it, h, and those held after it.
TidyStep(p, k, h, after) ==
    /\ h \subseteq Lock
    /\ p[k].op \in {"read", "write", "unlock"} /\ p[k].lock \in Lock
    /\ p[k] = [op |-> p[k].op, lock |-> p[k].lock]
    /\ p[k].op # "unlock" => /\ \A l \in h : Rank[l] < Rank[p[k].lock]
                             /\ k < Len(p)
                             /\ k > 1 => p[k - 1].op # "read"
    /\ p[k].op = "read" => p[k + 1] = U(p[k].lock) /\ after = h
    /\ p[k].op = "write" => after = h \cup {p[k].lock}
    /\ p[k].op = "unlock" =>
          IF k > 1 /\ p[k - 1].op = "read" THEN p[k].lock = p[k - 1].lock /\ p[k].lock \notin h /\ after = h
          ELSE p[k].lock \in h /\ after = h \ {p[k].lock}

Tidy(p, held) ==
    /\ Len(p) \in Nat \ {0}
    /\ held[1] = {}
    /\ \A k \in 1..Len(p) : TidyStep(p, k, held[k], IF k = Len(p) THEN {} ELSE held[k + 1])

\* What a thread holds, in each of the two ways.
Writes(t) == IF job[t] = NULL THEN {} ELSE Held[job[t]][step[t]]

Reads(t) ==
    IF job[t] # NULL /\ step[t] > 1 /\ Program[job[t]][step[t] - 1].op = "read"
    THEN {Program[job[t]][step[t] - 1].lock} ELSE {}

\* The locks are as the threads' places in their programs say, but that a writer may have claimed
\* the lock it is about to take.
LockView(t, l) ==
    /\ readers[l][t] = IF l \in Reads(t) THEN 1 ELSE 0
    /\ l \in Writes(t) => writer[l] = t
    /\ writer[l] = t => l \in Writes(t) \/ (job[t] # NULL /\ Current(t) = W(l))

LocksInv == \A t \in Thread : \A l \in Lock : LockView(t, l)

IInv ==
    /\ TypeOK
    /\ \A t \in Thread : job[t] = NULL => step[t] = 1
    /\ LocksInv

-----------------------------------------------------------------------------
\* The programs, step by step.
LEMMA ShortPrograms ==
    /\ Tidy(Register, Held.register)
    /\ Tidy(LeaveCollab, Held.leaveCollab)
    /\ \A l \in Lock : Tidy(Send(l), <<{}, {}>>)
<1> USE DEF Tidy, TidyStep, Rank, Lock, R, W, U, Reading, Writing
<1>1. Tidy(Register, Held.register)
  <2>1. /\ Len(Register) = 4
        /\ Register[1] = W("user") /\ Register[2] = U("user")
        /\ Register[3] = W("sid") /\ Register[4] = U("sid")
    BY DEF Register
  <2>2. \A k \in 1..4 : k = 1 \/ k = 2 \/ k = 3 \/ k = 4
    OBVIOUS
  <2> QED
    BY <2>1, <2>2 DEF Held
<1>2. Tidy(LeaveCollab, Held.leaveCollab)
  <2>1. /\ Len(LeaveCollab) = 4
        /\ LeaveCollab[1] = R("collab") /\ LeaveCollab[2] = U("collab")
        /\ LeaveCollab[3] = W("collab") /\ LeaveCollab[4] = U("collab")
    BY DEF LeaveCollab
  <2>2. \A k \in 1..4 : k = 1 \/ k = 2 \/ k = 3 \/ k = 4
    OBVIOUS
  <2> QED
    BY <2>1, <2>2 DEF Held
<1>3. ASSUME NEW l \in Lock
      PROVE  Tidy(Send(l), <<{}, {}>>)
  <2>1. Len(Send(l)) = 2 /\ Send(l)[1] = R(l) /\ Send(l)[2] = U(l)
    BY DEF Send
  <2>2. \A k \in 1..2 : k = 1 \/ k = 2
    OBVIOUS
  <2> QED
    BY <2>1, <2>2
<1> QED
  BY <1>1, <1>2, <1>3

\* The programs with the most steps hold what the table says.
LEMMA LongPrograms ==
    /\ Tidy(Link, Held.link)
    /\ Tidy(JoinCollab, Held.joinCollab)
    /\ Tidy(EndSession, Held.endSession)
<1> USE DEF Tidy, TidyStep, Rank, Lock, R, W, U, Reading, Writing
<1>1. Tidy(Link, Held.link)
  <2>1. /\ Len(Link) = 6
        /\ Link[1] = W("sid") /\ Link[2] = W("media") /\ Link[3] = U("media")
        /\ Link[4] = W("media") /\ Link[5] = U("media") /\ Link[6] = U("sid")
    BY DEF Link
  <2>2. \A k \in 1..6 : k = 1 \/ k = 2 \/ k = 3 \/ k = 4 \/ k = 5 \/ k = 6
    OBVIOUS
  <2> QED
    BY <2>1, <2>2 DEF Held
<1>2. Tidy(JoinCollab, Held.joinCollab)
  <2>1. /\ Len(JoinCollab) = 10
        /\ JoinCollab[1] = R("collab") /\ JoinCollab[2] = U("collab")
        /\ JoinCollab[3] = W("collabMedia") /\ JoinCollab[4] = R("collab")
        /\ JoinCollab[5] = U("collab") /\ JoinCollab[6] = U("collabMedia")
        /\ JoinCollab[7] = W("collabMedia") /\ JoinCollab[8] = W("collab")
        /\ JoinCollab[9] = U("collab") /\ JoinCollab[10] = U("collabMedia")
    BY DEF JoinCollab
  <2>2. \A k \in 1..10 : \/ k = 1 \/ k = 2 \/ k = 3 \/ k = 4 \/ k = 5
                         \/ k = 6 \/ k = 7 \/ k = 8 \/ k = 9 \/ k = 10
    OBVIOUS
  <2> QED
    BY <2>1, <2>2 DEF Held
<1>3. Tidy(EndSession, Held.endSession)
  <2>1. /\ Len(EndSession) = 8
        /\ EndSession[1] = W("user") /\ EndSession[2] = U("user")
        /\ EndSession[3] = W("sid") /\ EndSession[4] = W("media")
        /\ EndSession[5] = U("media") /\ EndSession[6] = U("sid")
        /\ EndSession[7] = W("collab") /\ EndSession[8] = U("collab")
    BY DEF EndSession
  <2>2. \A k \in 1..8 : \/ k = 1 \/ k = 2 \/ k = 3 \/ k = 4
                        \/ k = 5 \/ k = 6 \/ k = 7 \/ k = 8
    OBVIOUS
  <2> QED
    BY <2>1, <2>2 DEF Held
<1> QED
  BY <1>1, <1>2, <1>3

\* All calls but the organizer's message are tidy.
LEMMA ProgramsTidy == NoShow => \A j \in Jobs : Tidy(Program[j], Held[j])
<1> SUFFICES ASSUME NoShow, NEW j \in Jobs
             PROVE  Tidy(Program[j], Held[j])
  OBVIOUS
<1>1. j \in {"register", "link", "joinCollab", "leaveCollab", "endSession",
             "sendSession", "sendUser", "sendMedia", "sendCollab"}
  BY LocksAssumption DEF NoShow, Program
<1>2. /\ Program["register"] = Register /\ Program["link"] = Link
      /\ Program["joinCollab"] = JoinCollab /\ Program["leaveCollab"] = LeaveCollab
      /\ Program["endSession"] = EndSession
      /\ Program["sendSession"] = Send("sid") /\ Program["sendUser"] = Send("user")
      /\ Program["sendMedia"] = Send("media") /\ Program["sendCollab"] = Send("collab")
  BY DEF Program
<1>3. /\ Held["sendSession"] = <<{}, {}>> /\ Held["sendUser"] = <<{}, {}>>
      /\ Held["sendMedia"] = <<{}, {}>> /\ Held["sendCollab"] = <<{}, {}>>
  BY DEF Held
<1>4. {"sid", "user", "media", "collab"} \subseteq Lock
  BY DEF Lock
<1> QED
  BY <1>1, <1>2, <1>3, <1>4, ShortPrograms, LongPrograms

-----------------------------------------------------------------------------
\* At first no thread is in a call, and none holds a lock.
LEMMA InitIInv == Init => IInv
<1> SUFFICES ASSUME Init PROVE IInv
  OBVIOUS
<1>1. /\ \A t \in Thread : job[t] = NULL /\ step[t] = 1 /\ Reads(t) = {} /\ Writes(t) = {}
      /\ \A l \in Lock : writer[l] = NULL /\ \A t \in Thread : readers[l][t] = 0
  BY DEF Init, Reads, Writes
<1>2. TypeOK
  BY <1>1 DEF Init, TypeOK
<1>3. LocksInv
  BY <1>1, LocksAssumption DEF LocksInv, LockView
<1> QED
  BY <1>1, <1>2, <1>3 DEF IInv

\* What a thread in a call holds, and what its next step asks for.
LEMMA CurrentStep ==
    ASSUME NoShow, IInv, NEW t \in Thread, job[t] # NULL
    PROVE  /\ Current(t).op \in {"read", "write", "unlock"} /\ Current(t).lock \in Lock
           /\ Current(t) = [op |-> Current(t).op, lock |-> Current(t).lock]
           /\ Current(t).op # "unlock" => /\ Reads(t) = {}
                                         /\ \A l \in Writes(t) : Rank[l] < Rank[Current(t).lock]
           /\ Current(t).op = "unlock" /\ Reads(t) # {} =>
                 Reads(t) = {Current(t).lock} /\ Current(t).lock \notin Writes(t)
           /\ Current(t).op = "unlock" /\ Reads(t) = {} => Current(t).lock \in Writes(t)
<1> DEFINE p == Program[job[t]]
           k == step[t]
<1>1. k \in 1..Len(p) /\ job[t] \in Jobs
  BY DEF IInv, TypeOK
<1>2. TidyStep(p, k, Writes(t), IF k = Len(p) THEN {} ELSE Held[job[t]][k + 1])
  BY <1>1, ProgramsTidy DEF Tidy, Writes
<1>3. Current(t) = p[k]
  BY DEF Current
<1>4. Reads(t) = IF k > 1 /\ p[k - 1].op = "read" THEN {p[k - 1].lock} ELSE {}
  BY DEF Reads
<1> HIDE DEF p, k
<1> QED
  BY <1>1, <1>2, <1>3, <1>4 DEF TidyStep

\* A step of thread t that goes on in its program: what it holds changes by that step alone, and the
\* other threads' places are as they were.
LEMMA AdvanceHolds ==
    ASSUME NoShow, IInv, NEW t \in Thread, job[t] # NULL, Advance(t),
           Current(t).op = "unlock" \/ Current(t).op = "read" \/ Current(t).op = "write"
    PROVE  /\ job' \in [Thread -> Jobs \cup {NULL}] /\ step' \in [Thread -> Nat]
           /\ \A u \in Thread : job'[u] # NULL => step'[u] \in 1..Len(Program[job'[u]])
           /\ \A u \in Thread : job'[u] = NULL => step'[u] = 1
           /\ Reads(t)' = IF Current(t).op = "read" THEN {Current(t).lock} ELSE {}
           /\ Writes(t)' = IF Current(t).op = "read" THEN Writes(t)
                          ELSE IF Current(t).op = "write" THEN Writes(t) \cup {Current(t).lock}
                          ELSE IF Current(t).lock \in Reads(t) THEN Writes(t)
                          ELSE Writes(t) \ {Current(t).lock}
           /\ \A u \in Thread \ {t} : /\ Reads(u)' = Reads(u) /\ Writes(u)' = Writes(u)
                                      /\ job'[u] = job[u] /\ step'[u] = step[u]
<1> DEFINE p == Program[job[t]]
           k == step[t]
<1>1. /\ job \in [Thread -> Jobs \cup {NULL}] /\ step \in [Thread -> Nat]
      /\ k \in 1..Len(p) /\ job[t] \in Jobs
      /\ \A u \in Thread : job[u] # NULL => step[u] \in 1..Len(Program[job[u]])
      /\ \A u \in Thread : job[u] = NULL => step[u] = 1
  BY DEF IInv, TypeOK
<1>2. Tidy(p, Held[job[t]])
  BY <1>1, ProgramsTidy
<1>3. /\ Len(p) \in Nat \ {0}
      /\ TidyStep(p, k, Held[job[t]][k], IF k = Len(p) THEN {} ELSE Held[job[t]][k + 1])
  BY <1>1, <1>2 DEF Tidy
<1>4. Current(t) = p[k]
  BY DEF Current
<1>5. \A u \in Thread \ {t} : job'[u] = job[u] /\ step'[u] = step[u]
  BY <1>1 DEF Advance
<1>6. \A u \in Thread \ {t} : Reads(u)' = Reads(u) /\ Writes(u)' = Writes(u)
  BY <1>5 DEF Reads, Writes
<1>7. /\ job' \in [Thread -> Jobs \cup {NULL}] /\ step' \in [Thread -> Nat]
      /\ \A u \in Thread : job'[u] # NULL => step'[u] \in 1..Len(Program[job'[u]])
      /\ \A u \in Thread : job'[u] = NULL => step'[u] = 1
  BY <1>1, <1>3, <1>5, LocksAssumption DEF Advance
<1>8. CASE k < Len(p)
  <2>1. job'[t] = job[t] /\ step'[t] = k + 1 /\ k + 1 > 1 /\ (k + 1) - 1 = k
    BY <1>1, <1>8 DEF Advance
  <2>2. Reads(t)' = IF p[k].op = "read" THEN {p[k].lock} ELSE {}
    BY <2>1 DEF Reads
  <2>3. Writes(t)' = Held[job[t]][k + 1] /\ Writes(t) = Held[job[t]][k]
    BY <2>1 DEF Writes
  <2>4. Reads(t) = IF k > 1 /\ p[k - 1].op = "read" THEN {p[k - 1].lock} ELSE {}
    BY DEF Reads
  <2>5. TidyStep(p, k, Writes(t), Writes(t)')
    BY <1>1, <1>3, <1>8, <2>3
  <2> HIDE DEF p, k
  <2> QED
    BY <1>4, <1>5, <1>6, <1>7, <2>2, <2>4, <2>5 DEF TidyStep
<1>9. CASE k = Len(p)
  <2>1. job'[t] = NULL
    BY <1>1, <1>9 DEF Advance
  <2>2. Reads(t)' = {} /\ Writes(t)' = {} /\ Writes(t) = Held[job[t]][k]
    BY <2>1 DEF Reads, Writes
  <2>4. Reads(t) = IF k > 1 /\ p[k - 1].op = "read" THEN {p[k - 1].lock} ELSE {}
    BY DEF Reads
  <2>5. TidyStep(p, k, Writes(t), {})
    BY <1>3, <1>9, <2>2
  <2> HIDE DEF p, k
  <2>6. p[k].op = "unlock"
    BY <1>3, <1>9, <2>5 DEF TidyStep
  <2>7. {} = IF p[k].lock \in Reads(t) THEN Writes(t) ELSE Writes(t) \ {p[k].lock}
    BY <2>4, <2>5, <2>6 DEF TidyStep
  <2> QED
    BY <1>4, <1>5, <1>6, <1>7, <2>2, <2>6, <2>7
<1> QED
  BY <1>1, <1>8, <1>9

\* A thread and a lock agree as before when neither has moved, but that somebody else took or left
\* the lock for writing.
LEMMA OtherView ==
    ASSUME NEW u, NEW x, LockView(u, x), UNCHANGED <<Reads(u), Writes(u), job[u], step[u], readers[x][u]>>,
           writer'[x] = writer[x] \/ (writer[x] # u /\ writer'[x] # u)
    PROVE  LockView(u, x)'
<1>1. Current(u)' = Current(u)
  BY DEF Current
<1> QED
  BY <1>1 DEF LockView, W

\* The locks' own variables after a step of thread t, for the other threads and for t.
LEMMA ProceedIInv == ASSUME NoShow, IInv, NEW t \in Thread, Proceed(t) PROVE IInv'
<1> DEFINE l == Current(t).lock
<1>1. /\ job[t] # NULL
      /\ writer \in [Lock -> Thread \cup {NULL}] /\ readers \in [Lock -> [Thread -> Nat]]
      /\ NULL \notin Thread
  BY LocksAssumption DEF Proceed, AcquireRead, Claim, AcquireWrite, Unlock, IInv, TypeOK
<1>2. /\ l \in Lock
      /\ Current(t).op # "unlock" => Reads(t) = {} /\ l \notin Writes(t)
      /\ Current(t).op = "unlock" /\ Reads(t) # {} => Reads(t) = {l} /\ l \notin Writes(t)
      /\ Current(t).op = "unlock" /\ Reads(t) = {} => l \in Writes(t)
  <2>1. Rank[l] \in Nat
    BY <1>1, CurrentStep DEF Rank, Lock
  <2> QED
    BY <1>1, <2>1, CurrentStep
<1>3. CASE AcquireRead(t)
  <2>1. Advance(t) /\ Current(t).op = "read" /\ writer[l] = NULL
    BY <1>3 DEF AcquireRead
  <2>2. readers' = [readers EXCEPT ![l][t] = @ + 1] /\ writer' = writer
    BY <1>3 DEF AcquireRead
  <2>3. readers[l][t] = 0
    BY <1>2, <2>1 DEF IInv, LocksInv, LockView
  <2>4. Reads(t)' = {l} /\ Writes(t)' = Writes(t)
    BY <1>1, <2>1, AdvanceHolds
  <2>5. \A u \in Thread \ {t} : /\ Reads(u)' = Reads(u) /\ Writes(u)' = Writes(u)
                                /\ job'[u] = job[u] /\ step'[u] = step[u]
    BY <1>1, <2>1, AdvanceHolds
  <2>6. \A x \in Lock, u \in Thread : readers'[x][u] = IF x = l /\ u = t THEN 1 ELSE readers[x][u]
    BY <1>1, <2>2, <2>3
  <2>7. readers' \in [Lock -> [Thread -> Nat]]
    BY <1>1, <1>2, <2>2
  <2>8. TypeOK' /\ \A u \in Thread : job'[u] = NULL => step'[u] = 1
    BY <1>1, <2>1, <2>2, <2>7, AdvanceHolds DEF TypeOK
  <2>9. ASSUME NEW u \in Thread, NEW x \in Lock
       PROVE  LockView(u, x)'
    <3>1. CASE u = t
      BY <1>1, <1>2, <2>1, <2>2, <2>4, <2>6, <3>1 DEF IInv, LocksInv, LockView, W
    <3>2. CASE u # t
      BY <2>2, <2>5, <2>6, <3>2, OtherView DEF IInv, LocksInv
    <3> QED
      BY <3>1, <3>2
  <2> QED
    BY <2>8, <2>9 DEF IInv, LocksInv
<1>4. CASE Claim(t)
  <2>1. /\ Current(t).op = "write" /\ writer[l] = NULL
        /\ writer' = [writer EXCEPT ![l] = t] /\ UNCHANGED <<job, step, readers>>
    BY <1>4 DEF Claim
  <2>2. \A u \in Thread : Reads(u)' = Reads(u) /\ Writes(u)' = Writes(u) /\ Current(u)' = Current(u)
    BY <2>1 DEF Reads, Writes, Current
  <2>3. Current(t) = W(l)
    BY <1>1, <2>1, CurrentStep DEF W
  <2>4. TypeOK' /\ \A u \in Thread : job'[u] = NULL => step'[u] = 1
    BY <1>1, <1>2, <2>1 DEF IInv, TypeOK
  <2>5. ASSUME NEW u \in Thread, NEW x \in Lock
       PROVE  LockView(u, x)'
    <3>1. CASE x = l
      BY <1>1, <1>2, <2>1, <2>2, <2>3, <3>1 DEF IInv, LocksInv, LockView
    <3>2. CASE x # l
      BY <1>1, <2>1, <2>2, <3>2 DEF IInv, LocksInv, LockView
    <3> QED
      BY <3>1, <3>2
  <2> QED
    BY <2>4, <2>5 DEF IInv, LocksInv
<1>5. CASE AcquireWrite(t)
  <2>1. Advance(t) /\ Current(t).op = "write" /\ writer[l] = t /\ UNCHANGED <<writer, readers>>
    BY <1>5 DEF AcquireWrite, Claimed
  <2>2. Reads(t)' = {} /\ Writes(t)' = Writes(t) \cup {l}
    BY <1>1, <2>1, AdvanceHolds
  <2>3. \A u \in Thread \ {t} : /\ Reads(u)' = Reads(u) /\ Writes(u)' = Writes(u)
                                /\ job'[u] = job[u] /\ step'[u] = step[u]
    BY <1>1, <2>1, AdvanceHolds
  <2>4. TypeOK' /\ \A u \in Thread : job'[u] = NULL => step'[u] = 1
    BY <1>1, <2>1, AdvanceHolds DEF TypeOK
  <2>5. ASSUME NEW u \in Thread, NEW x \in Lock
       PROVE  LockView(u, x)'
    <3>1. CASE u = t
      BY <1>2, <2>1, <2>2, <3>1 DEF IInv, LocksInv, LockView, W
    <3>2. CASE u # t
      BY <2>1, <2>3, <3>2, OtherView DEF IInv, LocksInv
    <3> QED
      BY <3>1, <3>2
  <2> QED
    BY <2>4, <2>5 DEF IInv, LocksInv
<1>6. CASE Unlock(t)
  <2>1. Advance(t) /\ Current(t).op = "unlock"
    BY <1>6 DEF Unlock
  <2>2. \A u \in Thread \ {t} : /\ Reads(u)' = Reads(u) /\ Writes(u)' = Writes(u)
                                /\ job'[u] = job[u] /\ step'[u] = step[u]
    BY <1>1, <2>1, AdvanceHolds
  <2>3. /\ Reads(t)' = {}
        /\ Writes(t)' = IF l \in Reads(t) THEN Writes(t) ELSE Writes(t) \ {l}
    BY <1>1, <2>1, AdvanceHolds
  <2>4. writer[l] = t <=> l \in Writes(t)
    BY <1>2, <2>1 DEF IInv, LocksInv, LockView, W
  <2>5. \A x \in Lock : readers[x][t] = IF x \in Reads(t) THEN 1 ELSE 0
    BY DEF IInv, LocksInv, LockView
  <2>6. CASE l \in Writes(t)
    <3>1. writer' = [writer EXCEPT ![l] = NULL] /\ readers' = readers
      BY <1>6, <2>4, <2>6 DEF Unlock
    <3>2. Reads(t) = {} /\ Writes(t)' = Writes(t) \ {l}
      BY <1>2, <2>1, <2>3, <2>6
    <3>3. TypeOK' /\ \A u \in Thread : job'[u] = NULL => step'[u] = 1
      BY <1>1, <1>2, <2>1, <3>1, AdvanceHolds DEF TypeOK
    <3>4. ASSUME NEW u \in Thread, NEW x \in Lock
         PROVE  LockView(u, x)'
      <4>1. CASE u = t
        BY <1>1, <1>2, <2>1, <2>3, <2>5, <3>1, <3>2, <4>1 DEF IInv, LocksInv, LockView, W
      <4>2. CASE u # t
        <5>1. writer[l] = t
          BY <2>4, <2>6
        <5>2. writer'[x] = writer[x] \/ (writer[x] # u /\ writer'[x] # u)
          BY <1>1, <1>2, <3>1, <4>2, <5>1
        <5> QED
          BY <2>2, <3>1, <4>2, <5>2, OtherView DEF IInv, LocksInv
      <4> QED
        BY <4>1, <4>2
    <3> QED
      BY <3>3, <3>4 DEF IInv, LocksInv
  <2>7. CASE l \notin Writes(t)
    <3>1. readers' = [readers EXCEPT ![l][t] = @ - 1] /\ writer' = writer
      BY <1>6, <2>4, <2>7 DEF Unlock
    <3>2. Reads(t) = {l} /\ Writes(t)' = Writes(t) /\ readers[l][t] = 1
      BY <1>2, <2>1, <2>3, <2>5, <2>7
    <3>3. readers' \in [Lock -> [Thread -> Nat]]
      BY <1>1, <1>2, <3>1, <3>2
    <3>4. TypeOK' /\ \A u \in Thread : job'[u] = NULL => step'[u] = 1
      BY <1>1, <1>2, <2>1, <3>1, <3>3, AdvanceHolds DEF TypeOK
    <3>5. \A x \in Lock, u \in Thread : readers'[x][u] = IF x = l /\ u = t THEN 0 ELSE readers[x][u]
      BY <1>1, <3>1, <3>2
    <3>6. ASSUME NEW u \in Thread, NEW x \in Lock
         PROVE  LockView(u, x)'
      <4>1. CASE u = t
        BY <2>1, <2>3, <2>5, <3>1, <3>2, <3>5, <4>1 DEF IInv, LocksInv, LockView, W
      <4>2. CASE u # t
        BY <2>2, <3>1, <3>5, <4>2, OtherView DEF IInv, LocksInv
      <4> QED
        BY <4>1, <4>2
    <3> QED
      BY <3>4, <3>6 DEF IInv, LocksInv
  <2> QED
    BY <2>6, <2>7
<1> QED
  BY <1>3, <1>4, <1>5, <1>6 DEF Proceed

\* A call begins with nothing held.
LEMMA CallIInv == ASSUME NoShow, IInv, NEW t \in Thread, NEW j \in Jobs, Call(t, j) PROVE IInv'
<1>1. Tidy(Program[j], Held[j])
  BY ProgramsTidy
<1>2. /\ job[t] = NULL /\ step[t] = 1 /\ NULL \notin Jobs
      /\ job' = [job EXCEPT ![t] = j] /\ UNCHANGED <<step, writer, readers>>
  BY LocksAssumption DEF Call, IInv
<1>3. job \in [Thread -> Jobs \cup {NULL}]
  BY DEF IInv, TypeOK
<1>4. Writes(t)' = {} /\ Reads(t)' = {} /\ Writes(t) = {} /\ Reads(t) = {}
  BY <1>1, <1>2, <1>3 DEF Writes, Reads, Tidy
<1>5. \A u \in Thread \ {t} : /\ Reads(u)' = Reads(u) /\ Writes(u)' = Writes(u)
                              /\ job'[u] = job[u] /\ Current(u)' = Current(u)
  BY <1>2, <1>3 DEF Reads, Writes, Current
<1>6. TypeOK'
  BY <1>1, <1>2, <1>3 DEF IInv, TypeOK, Tidy
<1>7. \A u \in Thread : job'[u] = NULL => step'[u] = 1
  BY <1>2, <1>3 DEF IInv
<1>8. LocksInv'
  BY <1>2, <1>4, <1>5 DEF IInv, LocksInv, LockView
<1> QED
  BY <1>6, <1>7, <1>8 DEF IInv

\* The invariant holds of any interleaving of calls but the re-entrant one.
LEMMA InvariantHolds == NoShow => (Spec => []IInv)
<1>1. ASSUME NoShow, IInv, [Next]_vars PROVE IInv'
  <2>1. CASE UNCHANGED vars
    <3>1. \A u \in Thread, x \in Lock : UNCHANGED <<Reads(u), Writes(u), job[u], step[u], readers[x][u], writer[x]>>
      BY <2>1 DEF vars, Reads, Writes
    <3>2. LocksInv'
      BY <1>1, <3>1, OtherView DEF IInv, LocksInv
    <3>3. TypeOK'
      BY <1>1, <2>1 DEF vars, IInv, TypeOK
    <3> QED
      BY <1>1, <2>1, <3>2, <3>3 DEF vars, IInv
  <2>2. CASE Next
    BY <1>1, <2>2, ProceedIInv, CallIInv DEF Next
  <2> QED
    BY <1>1, <2>1, <2>2
<1>2. NoShow => NoShow'
  BY DEF NoShow
<1> QED
  BY <1>1, <1>2, InitIInv, PTL DEF Spec

-----------------------------------------------------------------------------
\* The place of a waiting thread in the order of the locks, a writer that has claimed its lock
\* coming after those who wait for it to.
Place(t) == 2 * Rank[Current(t).lock] + (IF Claimed(t) THEN 1 ELSE 0)

Waits(t) == WaitsFor(t) # {}

\* Whoever is waited for is further on, or waits for nobody.
LEMMA WaitsUpwards ==
    ASSUME NoShow, IInv, NEW t \in Thread, NEW u \in WaitsFor(t), Waits(u)
    PROVE  u \in Thread /\ Place(t) < Place(u)
<1> DEFINE l == Current(t).lock
           x == Current(u).lock
<1>1. job[t] # NULL /\ Current(t).op # "unlock"
  BY DEF WaitsFor
<1>2. l \in Lock /\ Rank[l] \in Nat
  BY <1>1, CurrentStep DEF Rank, Lock
<1>3. u \in Thread
  BY <1>2, LocksAssumption DEF WaitsFor, IInv, TypeOK
<1>4. job[u] # NULL /\ Current(u).op # "unlock"
  BY DEF WaitsFor, Waits
<1>5. /\ x \in Lock /\ Rank[x] \in Nat /\ Reads(u) = {}
      /\ \A h \in Writes(u) : Rank[h] < Rank[x]
  BY <1>3, <1>4, CurrentStep DEF Rank, Lock
<1>6. ~Claimed(t) /\ writer[l] = u
  <2>1. readers[l][u] = 0
    BY <1>2, <1>3, <1>5 DEF IInv, LocksInv, LockView
  <2> QED
    BY <1>1, <2>1 DEF WaitsFor
<1>7. l \in Writes(u) \/ Current(u) = W(l)
  BY <1>2, <1>3, <1>6 DEF IInv, LocksInv, LockView
<1>8. CASE l \in Writes(u)
  <2>1. Rank[l] < Rank[x]
    BY <1>5, <1>8
  <2> QED
    BY <1>2, <1>3, <1>5, <1>6, <2>1 DEF Place
<1>9. CASE Current(u) = W(l)
  <2>1. Claimed(u) /\ x = l
    BY <1>6, <1>9 DEF Claimed, W
  <2> QED
    BY <1>2, <1>3, <1>6, <2>1 DEF Place
<1> QED
  BY <1>7, <1>8, <1>9

\* No set of threads, however many there are, waits only for one another.
LEMMA NobodyInCircles == NoShow /\ IInv => NoCircularWait
<1> SUFFICES ASSUME NoShow, IInv, NEW S \in (SUBSET Thread) \ {{}}, \A t \in S : S \cap WaitsFor(t) # {}
             PROVE  FALSE
  BY DEF NoCircularWait
<1>1. \A t \in S : t \in Thread /\ Waits(t) /\ \E u \in S : Waits(u) /\ u \in WaitsFor(t)
  BY DEF Waits
<1>2. \A t \in S : \E u \in S : Place(t) < Place(u)
  BY <1>1, WaitsUpwards
<1>3. \A t \in S : Place(t) \in 2..5
  <2> SUFFICES ASSUME NEW t \in S PROVE Place(t) \in 2..5
    OBVIOUS
  <2>1. Current(t).lock \in Lock
    BY <1>1, CurrentStep DEF Waits, WaitsFor
  <2>2. Rank[Current(t).lock] \in 1..2
    BY <2>1 DEF Rank, Lock
  <2> QED
    BY <2>2 DEF Place
<1>4. ~\E t \in S : Place(t) = 5
  BY <1>2, <1>3
<1>5. ~\E t \in S : Place(t) = 4
  BY <1>2, <1>3, <1>4
<1>6. ~\E t \in S : Place(t) = 3
  BY <1>2, <1>3, <1>4, <1>5
<1>7. ~\E t \in S : Place(t) = 2
  BY <1>2, <1>3, <1>4, <1>5, <1>6
<1> QED
  BY <1>3, <1>4, <1>5, <1>6, <1>7

-----------------------------------------------------------------------------
\* The programs and the locks stay in step: a call that returns has dropped all its guards.
THEOREM TypeCorrect == NoShow => (Spec => []TypeOK)
<1>1. IInv => TypeOK
  BY DEF IInv
<1> QED
  BY <1>1, InvariantHolds, PTL

\* Sessions that register, join, leave and end, the relay and the organizer's calls never wait for
\* one another in a circle, however many there are (api_server/server_state.rs); the exception
\* is client_show_user_message, for which NoShow is false.
THEOREM NoCircularWaitHolds == NoShow => (Spec => []NoCircularWait)
<1>1. NoShow => []NoShow
  <2>1. NoShow => NoShow'
    BY DEF NoShow
  <2> QED
    BY <2>1, PTL
<1> QED
  BY <1>1, InvariantHolds, NobodyInCircles, PTL
=============================================================================
