------------------------- MODULE TranscodingProofs -------------------------
(***************************************************************************)
(* Transcoding, for any media files, surroundings, workers and bounds:     *)
(* what a row says of its media file is so.  A row is marked long after    *)
(* FFmpeg has made the file, by a thread that has asked nobody since; so   *)
(* the invariant follows what was made from the worker through the channel *)
(* of results to the pipeline.                                             *)
(***************************************************************************)
EXTENDS Transcoding, SequenceTheorems, WellFoundedInduction, TLAPS

\* The id of a media file is a primary key.
RowsInv == \A i, j \in DOMAIN rows : rows[i] = rows[j] => i = j

\* Whom the transcodings of a row can be trusted of: media files that have come once since the last
\* request for them was served.
Fresh(m) == Listed(m) /\ m \notin overlapped

\* What a request asked for is on the disk.
Made(req) ==
    /\ req.op = "transcode" => req.dst \in made[req.of]
    /\ req.op = "thumbs" => Pictures(req.of) \subseteq files[req.of]

\* Workers write to where the media file is.
WorkersInv == \A w \in Worker : worker[w] # Idle /\ Fresh(worker[w].req.of) => worker[w].inPlace

\* What a worker says it has made is there.
ResultsInv ==
    \A k \in DOMAIN results : results[k].ok /\ Fresh(results[k].req.of) => Made(results[k].req)

\* What the pipeline is about to say of a row is so.
PipelineInv ==
    /\ pipeline.at = "request" => ingests[pipeline.of] # 0
    /\ pipeline # Idle /\ Fresh(pipeline.of) =>
          /\ pipeline.at = "link" => pipeline.dst \in made[pipeline.of]
          /\ pipeline.at = "recompressed" => link[pipeline.of] # 0
          /\ pipeline.at = "thumb" => "thumb" \in files[pipeline.of] /\ (pipeline.of \in Video => "sheet" \in files[pipeline.of])
          /\ pipeline.at = "sheet" => "sheet" \in files[pipeline.of]

\* A video.mp4 leads somewhere, and what rows say is so.
LinksInv ==
    \A m \in Media : Fresh(m) =>
        /\ link[m] # 0 => link[m] \in made[m]
        /\ "recompressed" \in marks[m] => link[m] # 0
        /\ marks[m] \cap {"thumb", "sheet"} \subseteq files[m]

IInv == TypeOK /\ RowsInv /\ WorkersInv /\ ResultsInv /\ PipelineInv /\ LinksInv
-----------------------------------------------------------------------------
(* The operators *)

\* Of some places in the table one is the first.
LEMMA FirstExists ==
    ASSUME NEW S, S \subseteq Nat, S # {}
    PROVE  (CHOOSE k \in S : \A j \in S : k <= j) \in S
<1>1. PICK k \in S : \A j \in S : <<j, k>> \notin OpToRel(<, Nat)
  BY WFMin, NatLessThanWellFounded, Zenon
<1>2. ASSUME NEW j \in S
      PROVE  k <= j
  <2>1. ~(j < k)
    BY <1>1, <1>2, Zenon DEF OpToRel
  <2>2. j \in Nat /\ k \in Nat
    BY <1>1, <1>2
  <2> QED
    BY <2>1, <2>2
<1>3. \E i \in S : \A j \in S : i <= j
  BY <1>2
<1> QED
  BY <1>3

\* The request for the next old file is one for a file in the table.
LEMMA NextLegacyType ==
    ASSUME NEW table \in Seq(Media), NEW set \in [Media -> SUBSET Mark]
    PROVE  /\ NextLegacy(table, set) \in Seq(Request)
           /\ Chained(NextLegacy(table, set)) \in Media \cup {NULL}
<1> DEFINE missing == Missing(table, set)
           k == CHOOSE k \in missing : \A j \in missing : k <= j
<1>1. CASE missing = {}
  BY <1>1 DEF NextLegacy, Chained
<1>2. CASE missing # {}
  <2>1. missing \subseteq Nat /\ missing \subseteq DOMAIN table
    BY DEF Missing
  <2>2. k \in DOMAIN table
    <3> HIDE DEF missing
    <3> QED
      BY <1>2, <2>1, FirstExists
  <2> DEFINE m == table[k]
  <2>3. m \in Media
    BY <2>2
  <2>4. NextLegacy(table, set) = <<ThumbsRequest(m, set)>>
    BY <1>2 DEF NextLegacy
  <2> HIDE DEF k, m, missing
  <2>5. ThumbsRequest(m, set) \in Request /\ ThumbsRequest(m, set).of = m
    BY <2>3 DEF ThumbsRequest, Request, Thumbs
  <2> QED
    BY <2>3, <2>4, <2>5 DEF Chained
<1> QED
  BY <1>1, <1>2

\* A table without one of its rows has the others.
LEMMA WithoutRow ==
    ASSUME NEW t \in Seq(Media), NEW k \in DOMAIN t,
           \A i, j \in DOMAIN t : t[i] = t[j] => i = j
    PROVE  LET u == Without(t, k)
           IN  /\ u \in Seq(Media)
               /\ Elements(u) \subseteq Elements(t) \ {t[k]}
               /\ \A i, j \in DOMAIN u : u[i] = u[j] => i = j
<1> DEFINE u == Without(t, k)
           a == SubSeq(t, 1, k - 1)
           b == SubSeq(t, k + 1, Len(t))
           old(i) == IF i <= k - 1 THEN i ELSE i + 1
<1>1. PICK n \in Nat : n = Len(t) /\ DOMAIN t = 1..n
  OBVIOUS
<1>2. a \in Seq(Media) /\ Len(a) = k - 1 /\ \A i \in 1..k - 1 : a[i] = t[i]
  BY <1>1
<1>3. b \in Seq(Media) /\ Len(b) = n - k /\ \A i \in 1..n - k : b[i] = t[k + i]
  BY <1>1
<1>4. u = a \o b
  BY DEF Without
<1> HIDE DEF a, b, u
<1>5. u \in Seq(Media) /\ Len(u) = n - 1 /\ DOMAIN u = 1..n - 1
  <2>1. a \o b \in Seq(Media) /\ Len(a \o b) = (k - 1) + (n - k)
    BY <1>2, <1>3, ConcatProperties
  <2> QED
    BY <1>1, <1>4, <2>1
<1>6. ASSUME NEW i \in DOMAIN u
      PROVE  old(i) \in DOMAIN t \ {k} /\ u[i] = t[old(i)]
  <2>1. old(i) \in DOMAIN t \ {k}
    BY <1>1, <1>5
  <2>2. u[i] = t[old(i)]
    <3>1. k \in 1..n /\ i \in 1..n - 1 /\ Len(t) = n
      BY <1>1, <1>5
    <3>2. (a \o b)[i] = IF i <= k - 1 THEN a[i] ELSE b[i - (k - 1)]
      BY <1>2, <1>3, <3>1, ConcatProperties
    <3>3. CASE i <= k - 1
      BY <1>2, <1>4, <3>1, <3>2, <3>3
    <3>4. CASE ~(i <= k - 1)
      <4>1. i - (k - 1) \in 1..n - k /\ k + (i - (k - 1)) = i + 1
        BY <3>1, <3>4
      <4>2. u[i] = t[i + 1]
        BY <1>3, <1>4, <3>2, <3>4, <4>1
      <4> QED
        BY <3>4, <4>2
    <3> QED
      BY <3>3, <3>4
  <2> QED
    BY <2>1, <2>2
<1>8. ASSUME NEW i \in DOMAIN u, NEW j \in DOMAIN u, old(i) = old(j)
      PROVE  i = j
  BY <1>1, <1>5, <1>8
<1> HIDE DEF old
<1>9. Elements(u) \subseteq Elements(t) \ {t[k]}
  <2>1. ASSUME NEW i \in DOMAIN u
        PROVE  u[i] \in Elements(t) /\ u[i] # t[k]
    <3>1. old(i) \in DOMAIN t /\ old(i) # k /\ u[i] = t[old(i)]
      BY <1>6, <2>1
    <3> QED
      BY <3>1 DEF Elements
  <2> QED
    BY <2>1 DEF Elements
<1>10. ASSUME NEW i \in DOMAIN u, NEW j \in DOMAIN u, u[i] = u[j]
       PROVE  i = j
  <2>1. old(i) \in DOMAIN t /\ old(j) \in DOMAIN t /\ t[old(i)] = t[old(j)]
    BY <1>6, <1>10
  <2>2. old(i) = old(j)
    BY <2>1
  <2> QED
    BY <1>8, <2>2
<1> QED
  BY <1>5, <1>9, <1>10 DEF u

\* What a request has.
LEMMA RequestParts ==
    ASSUME NEW req \in Request
    PROVE  /\ req.of \in Media
           /\ req.op \in {"transcode", "thumbs"}
           /\ req.op = "transcode" => req.dst \in Attempt
  BY DEF Request, Transcode, Thumbs

\* And a job and a result, which are for a request.
LEMMA JobParts ==
    ASSUME TypeOK
    PROVE  /\ \A w \in Worker : worker[w] # Idle => worker[w] \in Job /\ worker[w].req \in Request
           /\ \A k \in DOMAIN results : results[k].req \in Request /\ results[k].ok \in BOOLEAN
<1>1. ASSUME NEW w \in Worker, worker[w] # Idle
      PROVE  worker[w] \in Job /\ worker[w].req \in Request
  BY <1>1 DEF TypeOK, Job
<1>2. ASSUME NEW k \in DOMAIN results
      PROVE  results[k].req \in Request /\ results[k].ok \in BOOLEAN
  <2>1. results \in Seq([req : Request, ok : BOOLEAN])
    BY DEF TypeOK
  <2>2. results[k] \in [req : Request, ok : BOOLEAN]
    BY <1>2, <2>1, ElementOfSeq, LenProperties
  <2> QED
    BY <2>2
<1> QED
  BY <1>1, <1>2

\* Whose jobs are displaced has none that write to its place.
LEMMA DisplacedJobs ==
    ASSUME TypeOK, NEW m \in Media
    PROVE  /\ Displaced(m) \in [Worker -> Job \cup {Idle}]
           /\ \A w \in Worker :
                 /\ Displaced(m)[w] = Idle <=> worker[w] = Idle
                 /\ worker[w] # Idle => /\ Displaced(m)[w].req = worker[w].req
                                        /\ Displaced(m)[w].req.of # m => Displaced(m)[w] = worker[w]
<1> SUFFICES ASSUME NEW w \in Worker
             PROVE  /\ Displaced(m)[w] \in Job \cup {Idle}
                    /\ Displaced(m)[w] = Idle <=> worker[w] = Idle
                    /\ worker[w] # Idle => /\ Displaced(m)[w].req = worker[w].req
                                           /\ Displaced(m)[w].req.of # m => Displaced(m)[w] = worker[w]
  BY DEF Displaced
<1>1. worker[w] \in Job \cup {Idle}
  BY DEF TypeOK
<1> QED
  BY <1>1 DEF Displaced, Job, Idle
-----------------------------------------------------------------------------
(* The steps *)

\* At first there are the media files of old, and the first request for their thumbnails.
LEMMA InitIInv == Init => IInv
<1> SUFFICES ASSUME Init PROVE IInv
  OBVIOUS
<1> USE DEF Init
<1>1. TypeOK
  <2>1. world \in World /\ rows \in Seq(Media)
    BY TranscodingAssumption DEF Surroundings
  <2>2. marks \in [Media -> SUBSET Mark]
    OBVIOUS
  <2>3. queue \in Seq(Request) /\ legacy \in Media \cup {NULL}
    BY <2>1, <2>2, NextLegacyType
  <2>4. restarts \in 0..MaxRestarts
    BY TranscodingAssumption
  <2> QED
    BY <2>1, <2>2, <2>3, <2>4 DEF TypeOK, File
<1>6. RowsInv
  BY TranscodingAssumption DEF RowsInv
<1>2. WorkersInv
  BY DEF WorkersInv
<1>3. ResultsInv
  BY DEF ResultsInv
<1>4. PipelineInv
  BY DEF PipelineInv, Idle
<1>5. LinksInv
  BY DEF LinksInv
<1> QED
  BY <1>1, <1>2, <1>3, <1>4, <1>5, <1>6 DEF IInv

\* A media file that comes while nothing is being served for it starts with nothing to be said of it.
LEMMA IngestIInv == ASSUME IInv, NEW m \in Media, Ingest(m) PROVE IInv'
<1> USE DEF IInv
<1>1. /\ pipeline = Idle /\ ~Listed(m)
      /\ rows' = <<m>> \o rows
      /\ pipeline' = [at |-> "request", of |-> m]
      /\ overlapped' = IF Served(m) THEN overlapped \cup {m} ELSE overlapped \ {m}
      /\ UNCHANGED <<world, queue, progress, results, legacy, restarts>>
  BY DEF Ingest
<1>2. worker' = Displaced(m)
  BY DEF Ingest
<1>3. /\ ingests' = [ingests EXCEPT ![m] = @ + 1]
      /\ ingests[m] < MaxIngests
  BY DEF Ingest
<1>4. ingests[m] + 1 \in Attempt
  BY <1>3, TranscodingAssumption DEF TypeOK, Attempt
<1>5. /\ marks' = [marks EXCEPT ![m] = {}]
      /\ files' = [files EXCEPT ![m] = {"dir", "orig"}]
      /\ made' = [made EXCEPT ![m] = {}]
      /\ link' = [link EXCEPT ![m] = 0]
      /\ told' = told \ {m}
      /\ bar' = [bar EXCEPT ![m] = "none"]
  BY DEF Ingest
<1>6. TypeOK'
  <2>1. worker' \in [Worker -> Job \cup {Idle}]
    BY <1>2, DisplacedJobs
  <2>2. rows' \in Seq(Media)
    BY <1>1 DEF TypeOK
  <2>3. ingests' \in [Media -> Attempt \cup {0}]
    BY <1>3, <1>4 DEF TypeOK
  <2>4. /\ files' \in [Media -> SUBSET File]
        /\ made' \in [Media -> SUBSET Attempt]
        /\ link' \in [Media -> Attempt \cup {0}]
        /\ marks' \in [Media -> SUBSET Mark]
        /\ bar' \in [Media -> {"none", "some", "full"}]
    BY <1>5 DEF TypeOK, File
  <2>5. pipeline' \in Busy /\ told' \subseteq Media /\ overlapped' \subseteq Media
    BY <1>1, <1>5 DEF TypeOK, Busy
  <2> QED
    BY <1>1, <2>1, <2>2, <2>3, <2>4, <2>5 DEF TypeOK
<1>7. ASSUME NEW n \in Media, n # m, Fresh(n)'
      PROVE  Fresh(n) /\ files'[n] = files[n] /\ made'[n] = made[n] /\ link'[n] = link[n] /\ marks'[n] = marks[n]
  <2>1. n \notin overlapped
    BY <1>1, <1>7 DEF Fresh
  <2>2. n \in Elements(rows)
    <3>1. PICK k \in DOMAIN rows' : rows'[k] = n
      BY <1>7 DEF Fresh, Listed, Elements
    <3>2. rows \in Seq(Media) /\ <<m>> \in Seq(Media) /\ Len(<<m>>) = 1 /\ <<m>>[1] = m
      BY DEF TypeOK
    <3>3. k \in 1..1 + Len(rows)
      BY <1>1, <3>1, <3>2
    <3>4. k # 1
      BY <1>1, <1>7, <3>1, <3>2
    <3>5. k - 1 \in DOMAIN rows /\ rows[k - 1] = n
      BY <1>1, <3>1, <3>2, <3>3, <3>4
    <3> QED
      BY <3>5 DEF Elements
  <2>3. files'[n] = files[n] /\ made'[n] = made[n] /\ link'[n] = link[n] /\ marks'[n] = marks[n]
    BY <1>5, <1>7 DEF TypeOK
  <2> QED
    BY <2>1, <2>2, <2>3 DEF Fresh, Listed
<1>8. Fresh(m)' => ~Served(m)
  BY <1>1 DEF Fresh
<1>9. files'[m] = {"dir", "orig"} /\ made'[m] = {} /\ link'[m] = 0 /\ marks'[m] = {}
  BY <1>5 DEF TypeOK
<1>14. RowsInv'
  <2>1. \A k \in DOMAIN rows : rows[k] # m
    BY <1>1 DEF Listed, Elements
  <2>2. rows \in Seq(Media) /\ <<m>> \in Seq(Media) /\ Len(<<m>>) = 1 /\ <<m>>[1] = m
    BY DEF TypeOK
  <2>3. ASSUME NEW k \in DOMAIN rows'
        PROVE  IF k = 1 THEN rows'[k] = m ELSE k - 1 \in DOMAIN rows /\ rows'[k] = rows[k - 1]
    BY <1>1, <2>2
  <2>4. DOMAIN rows' \subseteq Nat
    BY <1>6 DEF TypeOK
  <2> QED
    BY <2>1, <2>3, <2>4 DEF RowsInv
<1>10. WorkersInv'
  <2> SUFFICES ASSUME NEW w \in Worker, worker'[w] # Idle, Fresh(worker[w].req.of)'
               PROVE  worker'[w].inPlace
    BY DEF WorkersInv
  <2>1. worker[w] # Idle /\ worker[w].req = worker'[w].req
    BY <1>2, DisplacedJobs
  <2>2. worker[w].req.of \in Media
    BY <2>1, JobParts, RequestParts
  <2>3. worker'[w].req.of # m
    BY <1>8, <2>1 DEF Served
  <2>4. worker'[w] = worker[w]
    BY <1>2, <2>1, <2>3, DisplacedJobs
  <2> QED
    BY <1>7, <2>1, <2>2, <2>3, <2>4 DEF WorkersInv
<1>11. ResultsInv'
  <2>1. ASSUME NEW k \in DOMAIN results, NEW r, r = results[k].req, results[k].ok, Fresh(r.of)'
        PROVE  Made(r)'
    <3>1. r.of \in Media
      BY <2>1, JobParts, RequestParts
    <3>2. r.of # m
      BY <1>8, <2>1 DEF Served
    <3>3. Fresh(r.of) /\ files'[r.of] = files[r.of] /\ made'[r.of] = made[r.of]
      BY <1>7, <2>1, <3>1, <3>2
    <3>4. Made(r)
      BY <2>1, <3>3 DEF ResultsInv
    <3> QED
      BY <3>3, <3>4 DEF Made, Pictures
  <2> QED
    BY <1>1, <2>1 DEF ResultsInv
<1>12. PipelineInv'
  <2>1. ingests'[m] # 0
    BY <1>3, <1>4 DEF TypeOK, Attempt
  <2> QED
    BY <1>1, <2>1 DEF PipelineInv
<1>13. LinksInv'
  <2> SUFFICES ASSUME NEW n \in Media, Fresh(n)'
               PROVE  (/\ link[n] # 0 => link[n] \in made[n]
                       /\ "recompressed" \in marks[n] => link[n] # 0
                       /\ marks[n] \cap {"thumb", "sheet"} \subseteq files[n])'
    BY DEF LinksInv
  <2>1. CASE n = m
    BY <1>9, <2>1
  <2>2. CASE n # m
    BY <1>7, <2>2 DEF LinksInv
  <2> QED
    BY <2>1, <2>2
<1> QED
  BY <1>6, <1>10, <1>11, <1>12, <1>13, <1>14

\* Nothing is said of a media file without a row.
LEMMA DeleteIInv == ASSUME IInv, NEW m \in Media, Delete(m) PROVE IInv'
<1> USE DEF IInv
<1>1. /\ files' = [files EXCEPT ![m] = {}]
      /\ made' = [made EXCEPT ![m] = {}]
      /\ link' = [link EXCEPT ![m] = 0]
      /\ worker' = Displaced(m)
      /\ UNCHANGED <<world, marks, queue, progress, results, pipeline, legacy, told, bar, ingests, overlapped, restarts>>
  BY DEF Delete, seen, counts
<1>2. rows' \in Seq(Media) /\ Elements(rows') \subseteq Elements(rows) \ {m} /\ RowsInv'
  <2>1. PICK k \in DOMAIN rows : rows[k] = m /\ rows' = Without(rows, k)
    BY DEF Delete
  <2>2. rows \in Seq(Media) /\ \A i, j \in DOMAIN rows : rows[i] = rows[j] => i = j
    BY DEF TypeOK, RowsInv
  <2> QED
    BY <2>1, <2>2, WithoutRow DEF RowsInv
<1>3. TypeOK'
  <2>1. worker' \in [Worker -> Job \cup {Idle}]
    BY <1>1, DisplacedJobs
  <2>2. /\ files' \in [Media -> SUBSET File]
        /\ made' \in [Media -> SUBSET Attempt]
        /\ link' \in [Media -> Attempt \cup {0}]
    BY <1>1 DEF TypeOK
  <2> QED
    BY <1>1, <1>2, <2>1, <2>2 DEF TypeOK
<1>4. ASSUME NEW n \in Media, Fresh(n)'
      PROVE  /\ n # m /\ Fresh(n)
             /\ files'[n] = files[n] /\ made'[n] = made[n] /\ link'[n] = link[n]
  BY <1>1, <1>2, <1>4 DEF Fresh, Listed, TypeOK
<1>5. WorkersInv'
  <2> SUFFICES ASSUME NEW w \in Worker, worker'[w] # Idle, NEW n, n = worker'[w].req.of, Fresh(n)'
               PROVE  worker'[w].inPlace
    BY DEF WorkersInv
  <2>1. worker[w] # Idle /\ worker[w].req = worker'[w].req
    BY <1>1, DisplacedJobs
  <2>2. n \in Media
    BY <2>1, JobParts, RequestParts
  <2>3. n # m /\ Fresh(n)
    BY <1>4, <2>2
  <2>4. worker'[w] = worker[w]
    BY <1>1, <2>1, <2>3, DisplacedJobs
  <2> QED
    BY <2>1, <2>3, <2>4 DEF WorkersInv
<1>6. ResultsInv'
  <2>1. ASSUME NEW k \in DOMAIN results, NEW r, r = results[k].req, results[k].ok, Fresh(r.of)'
        PROVE  Made(r)'
    <3>1. r.of \in Media
      BY <2>1, JobParts, RequestParts
    <3>2. Fresh(r.of) /\ files'[r.of] = files[r.of] /\ made'[r.of] = made[r.of]
      BY <1>4, <2>1, <3>1
    <3>3. Made(r)
      BY <2>1, <3>2 DEF ResultsInv
    <3> QED
      BY <3>2, <3>3 DEF Made, Pictures
  <2> QED
    BY <1>1, <2>1 DEF ResultsInv
<1>7. PipelineInv'
  <2>1. ASSUME pipeline # Idle, NEW n, n = pipeline.of, Fresh(n)'
        PROVE  Fresh(n) /\ files'[n] = files[n] /\ made'[n] = made[n] /\ link'[n] = link[n]
    <3>1. n \in Media
      BY <2>1 DEF TypeOK, Busy
    <3> QED
      BY <1>4, <2>1, <3>1
  <2> QED
    BY <1>1, <2>1 DEF PipelineInv
<1>8. LinksInv'
  BY <1>1, <1>4 DEF LinksInv
<1> QED
  BY <1>2, <1>3, <1>5, <1>6, <1>7, <1>8

\* The steps that leave the table alone leave alone who is fresh.
LEMMA SameFresh == ASSUME UNCHANGED <<rows, overlapped>>, NEW n PROVE Fresh(n)' <=> Fresh(n)
  BY DEF Fresh, Listed, Elements

\* The steps that leave the disk alone leave alone what is made.
LEMMA SameMade == ASSUME UNCHANGED <<files, made>>, NEW req PROVE Made(req)' <=> Made(req)
  BY DEF Made, Pictures

\* A step keeps what is said of the rows if it leaves them alone,
LEMMA SameRows == ASSUME RowsInv, UNCHANGED rows PROVE RowsInv'
  BY DEF RowsInv

\* what is said of the workers if it leaves them and the fresh media files alone,
LEMMA SameWorkers == ASSUME WorkersInv, UNCHANGED <<rows, overlapped, worker>> PROVE WorkersInv'
<1> QED
  BY SameFresh DEF WorkersInv

\* what is said of the results if it leaves them, the fresh media files and the disk alone,
LEMMA SameResults ==
    ASSUME ResultsInv, UNCHANGED <<rows, overlapped, results, files, made>> PROVE ResultsInv'
<1> SUFFICES ASSUME NEW k \in DOMAIN results, results[k].ok, Fresh(results[k].req.of)'
             PROVE  Made(results[k].req)'
  BY DEF ResultsInv
<1>1. Fresh(results[k].req.of)
  BY SameFresh
<1>2. Made(results[k].req)
  BY <1>1 DEF ResultsInv
<1> QED
  BY <1>2, SameMade

\* what is said of the pipeline if it leaves it, the fresh media files, the disk and the requests alone,
LEMMA SamePipeline ==
    ASSUME PipelineInv, UNCHANGED <<rows, overlapped, pipeline, files, made, link, ingests>> PROVE PipelineInv'
<1> QED
  BY SameFresh DEF PipelineInv

\* and what is said of the links and the marks if it leaves them, the fresh media files and the disk alone.
LEMMA SameLinks ==
    ASSUME LinksInv, UNCHANGED <<rows, overlapped, files, made, link, marks>> PROVE LinksInv'
<1> QED
  BY SameFresh DEF LinksInv

\* More on the disk is no harm to what was said to be there.
LEMMA MoreMade ==
    ASSUME TypeOK, NEW req \in Request, Made(req),
           \A n \in Media : files[n] \subseteq files'[n] /\ made[n] \subseteq made'[n]
    PROVE  Made(req)'
  BY RequestParts DEF Made, Pictures

\* Asking for a transcoding of this ingestion.
LEMMA AskIInv == ASSUME IInv, Ask PROVE IInv'
<1> USE DEF IInv
<1> DEFINE m == pipeline.of
           first == IF m \in Unplayable THEN <<[op |-> "transcode", of |-> m, dst |-> ingests[m]]>> ELSE <<>>
           second == <<[op |-> "thumbs", of |-> m, src |-> "orig"]>>
<1>1. /\ pipeline.at = "request" /\ queue' = queue \o first \o second /\ pipeline' = Idle
      /\ UNCHANGED <<world, rows, marks, files, made, link, worker, progress, results, legacy, told, bar, ingests,
                     overlapped, restarts>>
  BY DEF Ask, disk, seen, counts
<1>2. m \in Media
  BY <1>1 DEF TypeOK, Busy, Idle
<1>3. ingests[m] \in Attempt
  BY <1>1, <1>2 DEF PipelineInv, TypeOK
<1>4. first \in Seq(Request) /\ second \in Seq(Request)
  <2>1. [op |-> "transcode", of |-> m, dst |-> ingests[m]] \in Request
    BY <1>2, <1>3 DEF Request, Transcode
  <2>2. [op |-> "thumbs", of |-> m, src |-> "orig"] \in Request
    BY <1>2 DEF Request, Thumbs
  <2> HIDE DEF m
  <2> QED
    BY <2>1, <2>2
<1> HIDE DEF first, second
<1>5. queue' \in Seq(Request)
  BY <1>1, <1>4 DEF TypeOK
<1>6. TypeOK'
  BY <1>1, <1>5 DEF TypeOK
<1>7. RowsInv' /\ WorkersInv' /\ ResultsInv' /\ LinksInv'
  BY <1>1, SameRows, SameWorkers, SameResults, SameLinks
<1>8. PipelineInv'
  BY <1>1 DEF PipelineInv, Idle
<1> QED
  BY <1>6, <1>7, <1>8

\* Whether something is found of a row is true or false.
LEMMA FoundType == ASSUME NEW r PROVE Found(r) \in BOOLEAN
  BY DEF Found

\* A job that starts is in place.
LEMMA StartIInv == ASSUME IInv, NEW w \in Worker, Start(w) PROVE IInv'
<1> USE DEF IInv
<1> DEFINE r == Head(queue)
<1>1. /\ worker[w] = Idle /\ queue # <<>> /\ queue' = Tail(queue)
      /\ worker' = [worker EXCEPT ![w] = [at |-> "ffmpeg", req |-> r, found |-> Found(r), inPlace |-> TRUE]]
      /\ files' = IF r.op = "thumbs" THEN [files EXCEPT ![r.of] = @ \cup {"dir"}] ELSE files
      /\ UNCHANGED <<world, rows, marks, made, link, progress, results, pipeline, legacy, told, bar, ingests,
                     overlapped, restarts>>
  BY DEF Start, seen, counts
<1>2. r \in Request /\ queue' \in Seq(Request)
  BY <1>1 DEF TypeOK
<1>3. Found(r) \in BOOLEAN
  BY FoundType
<1> HIDE DEF r
<1>4. r.of \in Media
  BY <1>2, RequestParts
<1>5. files' \in [Media -> SUBSET File] /\ \A n \in Media : files[n] \subseteq files'[n]
  BY <1>1, <1>4 DEF TypeOK, File
<1>6. TypeOK'
  <2>1. [at |-> "ffmpeg", req |-> r, found |-> Found(r), inPlace |-> TRUE] \in Job
    BY <1>2, <1>3 DEF Job
  <2>2. worker' \in [Worker -> Job \cup {Idle}]
    BY <1>1, <2>1 DEF TypeOK
  <2> QED
    BY <1>1, <1>2, <1>5, <2>2 DEF TypeOK
<1>7. WorkersInv'
  <2> SUFFICES ASSUME NEW v \in Worker, worker'[v] # Idle, NEW n, n = worker'[v].req.of, Fresh(n)'
               PROVE  worker'[v].inPlace
    BY DEF WorkersInv
  <2>1. CASE v = w
    BY <1>1, <2>1 DEF TypeOK
  <2>2. CASE v # w
    BY <1>1, <2>2, SameFresh DEF WorkersInv, TypeOK
  <2> QED
    BY <2>1, <2>2
<1>8. ResultsInv'
  <2>1. ASSUME NEW k \in DOMAIN results, NEW q, q = results[k].req, results[k].ok, Fresh(q.of)'
        PROVE  Made(q)'
    <3>1. Fresh(q.of) /\ q \in Request
      BY <1>1, <2>1, SameFresh, JobParts
    <3>2. Made(q)
      BY <2>1, <3>1 DEF ResultsInv
    <3> QED
      BY <1>1, <1>5, <3>1, <3>2, MoreMade
  <2> QED
    BY <1>1, <2>1 DEF ResultsInv
<1>9. PipelineInv'
  <2>1. pipeline # Idle => pipeline.of \in Media
    BY DEF TypeOK, Busy
  <2>2. pipeline # Idle => files[pipeline.of] \subseteq files'[pipeline.of]
    BY <1>5, <2>1
  <2> QED
    BY <1>1, <2>2, SameFresh DEF PipelineInv
<1>10. RowsInv' /\ LinksInv'
  BY <1>1, <1>5, SameFresh DEF RowsInv, LinksInv
<1> QED
  BY <1>6, <1>7, <1>8, <1>9, <1>10

\* Reports say nothing of what there is.
LEMMA BarIInv ==
    ASSUME IInv, Relay \/ (\E w \in Worker : Report(w)) \/ (\E m \in Media : Expire(m))
    PROVE  IInv'
<1> USE DEF IInv
<1>1. UNCHANGED <<world, rows, marks, files, made, link, queue, worker, results, pipeline, legacy, told, ingests,
                  overlapped, restarts>>
  BY DEF Relay, Report, Expire, disk, seen, counts
<1>2. progress' \in Seq(Media) /\ bar' \in [Media -> {"none", "some", "full"}]
  <2>1. CASE Relay
    BY <2>1 DEF Relay, TypeOK
  <2>2. ASSUME NEW w \in Worker, Report(w)
        PROVE  progress' \in Seq(Media) /\ bar' = bar
    <3>1. worker[w].req.of \in Media
      BY <2>2, JobParts, RequestParts DEF Report
    <3> QED
      BY <2>2, <3>1 DEF Report, TypeOK, seen
  <2>3. ASSUME NEW m \in Media, Expire(m)
        PROVE  progress' = progress /\ bar' \in [Media -> {"none", "some", "full"}]
    BY <2>3 DEF Expire, TypeOK
  <2> QED
    BY <2>1, <2>2, <2>3 DEF TypeOK
<1>3. TypeOK'
  BY <1>1, <1>2 DEF TypeOK
<1>4. RowsInv' /\ WorkersInv' /\ ResultsInv' /\ PipelineInv' /\ LinksInv'
  BY <1>1, SameRows, SameWorkers, SameResults, SamePipeline, SameLinks
<1> QED
  BY <1>3, <1>4

\* A success says what FFmpeg has made, and it was made in place if the media file is fresh.
LEMMA FinishIInv == ASSUME IInv, NEW w \in Worker, NEW ok \in BOOLEAN, Finish(w, ok) PROVE IInv'
<1> USE DEF IInv
<1> DEFINE j == worker[w]
           silent == j.req.op = "thumbs" /\ j.req.of \in Audio
<1>1. /\ j # Idle /\ (ok => j.found \/ silent)
      /\ results' = Append(results, [req |-> j.req, ok |-> ok])
      /\ worker' = [worker EXCEPT ![w] = Idle]
      /\ UNCHANGED <<world, rows, marks, link, queue, progress, pipeline, legacy, told, bar, ingests, overlapped,
                     restarts>>
  BY DEF Finish, seen, counts
<1>2. made' = IF ok /\ j.inPlace /\ j.req.op = "transcode"
              THEN [made EXCEPT ![j.req.of] = @ \cup {j.req.dst}] ELSE made
  BY DEF Finish
<1>3. files' = IF ok /\ j.inPlace /\ j.req.op = "thumbs"
               THEN [files EXCEPT ![j.req.of] = @ \cup Pictures(j.req.of)] ELSE files
  BY DEF Finish
<1>4. j \in Job /\ j.req \in Request /\ j.req.of \in Media /\ (j.req.op = "transcode" => j.req.dst \in Attempt)
  BY <1>1, JobParts, RequestParts
<1>5. WorkersInv => (Fresh(j.req.of) => j.inPlace)
  BY <1>1 DEF WorkersInv
<1> HIDE DEF j
<1>6. /\ files' \in [Media -> SUBSET File] /\ made' \in [Media -> SUBSET Attempt]
      /\ \A n \in Media : files[n] \subseteq files'[n] /\ made[n] \subseteq made'[n]
  <2>1. /\ made \in [Media -> SUBSET Attempt] /\ files \in [Media -> SUBSET File]
        /\ Pictures(j.req.of) \subseteq File
    BY DEF TypeOK, Pictures, File
  <2>2. made' \in [Media -> SUBSET Attempt] /\ \A n \in Media : made[n] \subseteq made'[n]
    BY <1>2, <1>4, <2>1
  <2>3. files' \in [Media -> SUBSET File] /\ \A n \in Media : files[n] \subseteq files'[n]
    BY <1>3, <1>4, <2>1
  <2> QED
    BY <2>2, <2>3
<1>7. [req |-> j.req, ok |-> ok] \in [req : Request, ok : BOOLEAN]
  BY <1>4
<1>8. results' \in Seq([req : Request, ok : BOOLEAN])
  BY <1>1, <1>7 DEF TypeOK
<1>9. TypeOK'
  BY <1>1, <1>6, <1>8 DEF TypeOK
<1>10. WorkersInv'
  <2> SUFFICES ASSUME NEW v \in Worker, worker'[v] # Idle, NEW n, n = worker'[v].req.of, Fresh(n)'
               PROVE  worker'[v].inPlace
    BY DEF WorkersInv
  <2>1. v # w /\ worker'[v] = worker[v]
    BY <1>1 DEF TypeOK
  <2> QED
    BY <1>1, <2>1, SameFresh DEF WorkersInv
<1>11. ResultsInv'
  <2> SUFFICES ASSUME NEW k \in DOMAIN results', NEW q, q = results'[k].req, results'[k].ok, Fresh(q.of)'
               PROVE  Made(q)'
    BY DEF ResultsInv
  <2>1. Fresh(q.of)
    BY <1>1, SameFresh
  <2>2. results \in Seq([req : Request, ok : BOOLEAN])
    BY DEF TypeOK
  <2>3. DOMAIN results' = 1..Len(results) + 1 /\ Len(results) \in Nat
    BY <1>1, <1>7, <2>2, AppendProperties, LenProperties
  <2>4. CASE k = Len(results) + 1
    <3>1. results'[k] = [req |-> j.req, ok |-> ok]
      BY <1>1, <1>7, <2>2, <2>4, AppendProperties
    <3>2. q = j.req /\ ok /\ j.inPlace
      BY <1>5, <2>1, <3>1
    <3>3. made \in [Media -> SUBSET Attempt] /\ files \in [Media -> SUBSET File]
      BY DEF TypeOK
    <3>4. j.req.op = "transcode" => j.req.dst \in made'[j.req.of]
      BY <1>2, <1>4, <3>2, <3>3
    <3>5. j.req.op = "thumbs" => Pictures(j.req.of) \subseteq files'[j.req.of]
      BY <1>3, <1>4, <3>2, <3>3
    <3> QED
      BY <3>2, <3>4, <3>5 DEF Made, Pictures
  <2>5. CASE k # Len(results) + 1
    <3>1. k \in DOMAIN results /\ results'[k] = results[k]
      BY <1>1, <1>7, <2>2, <2>3, <2>5, AppendProperties, LenProperties
    <3>2. Made(q) /\ q \in Request
      BY <2>1, <3>1, JobParts DEF ResultsInv
    <3> QED
      BY <1>6, <3>2, MoreMade
  <2> QED
    BY <2>4, <2>5
<1>12. PipelineInv'
  <2>1. pipeline # Idle => pipeline.of \in Media
    BY DEF TypeOK, Busy
  <2>2. pipeline # Idle => /\ files[pipeline.of] \subseteq files'[pipeline.of]
                           /\ made[pipeline.of] \subseteq made'[pipeline.of]
    BY <1>6, <2>1
  <2> QED
    BY <1>1, <2>2, SameFresh DEF PipelineInv
<1>13. RowsInv' /\ LinksInv'
  <2>1. RowsInv'
    BY <1>1 DEF RowsInv
  <2>2. LinksInv'
    BY <1>1, <1>6, SameFresh DEF LinksInv
  <2> QED
    BY <2>1, <2>2
<1> QED
  BY <1>9, <1>10, <1>11, <1>12, <1>13

\* Of what is in the channel of results the first is taken.
LEMMA TakeResults ==
    ASSUME IInv, results # <<>>, results' = Tail(results),
           UNCHANGED <<rows, files, made, overlapped>>
    PROVE  /\ Head(results) \in [req : Request, ok : BOOLEAN]
           /\ Head(results).ok /\ Fresh(Head(results).req.of) => Made(Head(results).req)
           /\ results' \in Seq([req : Request, ok : BOOLEAN])
           /\ ResultsInv'
<1>1. results \in Seq([req : Request, ok : BOOLEAN])
  BY DEF IInv, TypeOK
<1>2. Head(results) = results[1] /\ 1 \in DOMAIN results
  BY <1>1
<1>3. /\ Head(results) \in [req : Request, ok : BOOLEAN]
      /\ results' \in Seq([req : Request, ok : BOOLEAN])
      /\ Len(results') = Len(results) - 1
      /\ \A k \in 1..Len(results') : results'[k] = results[k + 1]
  BY <1>1, HeadTailProperties
<1>4. DOMAIN results' = 1..Len(results) - 1 /\ DOMAIN results = 1..Len(results) /\ Len(results) \in Nat
  BY <1>1, <1>3, LenProperties
<1>5. ResultsInv'
  <2> SUFFICES ASSUME NEW k \in DOMAIN results', NEW q, q = results'[k].req, results'[k].ok, Fresh(q.of)'
               PROVE  Made(q)'
    BY DEF ResultsInv
  <2>1. k + 1 \in DOMAIN results /\ results'[k] = results[k + 1]
    BY <1>3, <1>4
  <2>2. Fresh(q.of)
    BY SameFresh
  <2>3. Made(q)
    BY <2>1, <2>2 DEF IInv, ResultsInv
  <2> QED
    BY <2>3 DEF Made, Pictures
<1> QED
  BY <1>2, <1>3, <1>5 DEF IInv, ResultsInv

\* From a result on, the pipeline speaks of what was made.
LEMMA TakeIInv == ASSUME IInv, TakeFailure \/ TakeSuccess PROVE IInv'
<1> USE DEF IInv
<1>1. /\ pipeline = Idle /\ results # <<>> /\ results' = Tail(results)
      /\ UNCHANGED <<world, rows, marks, files, made, link, queue, worker, progress, legacy, bar, ingests, overlapped,
                     restarts>>
  BY DEF TakeFailure, TakeSuccess, disk, seen, counts
<1> DEFINE h == Head(results)
<1>2. /\ h \in [req : Request, ok : BOOLEAN] /\ (h.ok /\ Fresh(h.req.of) => Made(h.req))
      /\ results' \in Seq([req : Request, ok : BOOLEAN]) /\ ResultsInv'
  BY <1>1, TakeResults
<1> HIDE DEF h
<1>3. h.req.of \in Media /\ h.req.op \in {"transcode", "thumbs"} /\ (h.req.op = "transcode" => h.req.dst \in Attempt)
  BY <1>2, RequestParts
<1>4. RowsInv' /\ WorkersInv' /\ LinksInv'
  BY <1>1, SameRows, SameWorkers, SameLinks
<1>5. CASE TakeFailure
  <2>1. pipeline' = pipeline /\ told' = told \cup {h.req.of}
    BY <1>5 DEF TakeFailure, h
  <2>2. TypeOK'
    BY <1>1, <1>2, <1>3, <2>1 DEF TypeOK
  <2>3. PipelineInv'
    BY <1>1, <2>1 DEF PipelineInv, Idle
  <2> QED
    BY <1>2, <1>4, <2>2, <2>3
<1>6. CASE TakeSuccess
  <2>1. /\ told' = told /\ h.ok
        /\ pipeline' = IF h.req.op = "transcode" THEN [at |-> "link", of |-> h.req.of, dst |-> h.req.dst]
                       ELSE [at |-> IF h.req.of \in Audio THEN "done" ELSE "thumb", of |-> h.req.of]
    BY <1>6 DEF TakeSuccess, h, seen
  <2>2. CASE h.req.op = "transcode"
    <3>1. pipeline' = [at |-> "link", of |-> h.req.of, dst |-> h.req.dst]
      BY <2>1, <2>2
    <3>2. pipeline' \in Busy
      BY <1>3, <2>2, <3>1 DEF Busy
    <3>3. TypeOK'
      BY <1>1, <1>2, <2>1, <3>2 DEF TypeOK
    <3>4. Fresh(h.req.of) => h.req.dst \in made[h.req.of]
      BY <1>2, <2>1, <2>2 DEF Made
    <3>5. PipelineInv'
      BY <1>1, <3>1, <3>4, SameFresh DEF PipelineInv
    <3> QED
      BY <1>2, <1>4, <3>3, <3>5
  <2>3. CASE h.req.op # "transcode"
    <3>1. pipeline' = [at |-> IF h.req.of \in Audio THEN "done" ELSE "thumb", of |-> h.req.of]
      BY <2>1, <2>3
    <3>2. pipeline' \in Busy
      BY <1>3, <3>1 DEF Busy
    <3>3. TypeOK'
      BY <1>1, <1>2, <2>1, <3>2 DEF TypeOK
    <3>4. Fresh(h.req.of) => Pictures(h.req.of) \subseteq files[h.req.of]
      BY <1>2, <1>3, <2>1, <2>3 DEF Made
    <3>5. PipelineInv'
      BY <1>1, <3>1, <3>4, SameFresh DEF PipelineInv, Pictures
    <3> QED
      BY <1>2, <1>4, <3>3, <3>5
  <2> QED
    BY <2>2, <2>3
<1> QED
  BY <1>5, <1>6

\* video.mp4 is made to lead to what was transcoded, or goes on leading where it led.
LEMMA LinkIInv == ASSUME IInv, Link PROVE IInv'
<1> USE DEF IInv
<1> DEFINE m == pipeline.of
<1>1. /\ pipeline.at = "link"
      /\ files' = [files EXCEPT ![m] = @ \cup {"dir"}]
      /\ UNCHANGED <<world, rows, marks, made, queue, worker, progress, results, legacy, ingests, overlapped, restarts>>
  BY DEF Link, At, counts
<1>2. pipeline \in [at : {"link", "recompressed"}, of : Media, dst : Attempt]
  BY <1>1 DEF TypeOK, Busy, Idle
<1>3. m \in Media /\ pipeline.dst \in Attempt /\ pipeline # Idle
  BY <1>2 DEF Idle
<1>4. files' \in [Media -> SUBSET File] /\ \A n \in Media : files[n] \subseteq files'[n]
  BY <1>1, <1>3 DEF TypeOK, File
<1>5. RowsInv' /\ WorkersInv'
  BY <1>1, SameRows, SameWorkers
<1>6. ResultsInv'
  <2>1. ASSUME NEW k \in DOMAIN results, NEW q, q = results[k].req, results[k].ok, Fresh(q.of)'
        PROVE  Made(q)'
    <3>1. Fresh(q.of) /\ q \in Request
      BY <1>1, <2>1, SameFresh, JobParts
    <3>2. Made(q)
      BY <2>1, <3>1 DEF ResultsInv
    <3> QED
      BY <1>1, <1>4, <3>1, <3>2, MoreMade
  <2> QED
    BY <1>1, <2>1 DEF ResultsInv
<1>7. CASE link[m] = 0
  <2>1. /\ link' = [link EXCEPT ![m] = pipeline.dst]
        /\ pipeline' = [pipeline EXCEPT !.at = "recompressed"]
        /\ told' = told /\ bar' = bar
    BY <1>7 DEF Link, seen
  <2>2. pipeline' \in [at : {"link", "recompressed"}, of : Media, dst : Attempt] /\ pipeline'.at = "recompressed"
        /\ pipeline'.of = m
    BY <1>2, <2>1
  <2>3. link' \in [Media -> Attempt \cup {0}] /\ link'[m] = pipeline.dst /\ pipeline.dst # 0
        /\ \A n \in Media : n # m => link'[n] = link[n]
    BY <1>3, <2>1 DEF TypeOK, Attempt
  <2>4. TypeOK'
    BY <1>1, <1>4, <2>1, <2>2, <2>3 DEF TypeOK, Busy
  <2>5. PipelineInv'
    BY <1>1, <2>2, <2>3 DEF PipelineInv
  <2>6. Fresh(m) => pipeline.dst \in made[m]
    BY <1>1, <1>3 DEF PipelineInv
  <2>7. LinksInv'
    BY <1>1, <1>4, <2>3, <2>6, SameFresh DEF LinksInv
  <2> QED
    BY <1>5, <1>6, <2>4, <2>5, <2>7
<1>8. CASE link[m] # 0
  <2>1. /\ pipeline' = Idle /\ link' = link
        /\ told' = told \cup {m} /\ bar' = [bar EXCEPT ![m] = "full"]
    BY <1>8 DEF Link
  <2>2. TypeOK'
    BY <1>1, <1>3, <1>4, <2>1 DEF TypeOK
  <2>3. PipelineInv'
    BY <2>1 DEF PipelineInv, Idle
  <2>4. LinksInv'
    BY <1>1, <1>4, <2>1, SameFresh DEF LinksInv
  <2> QED
    BY <1>5, <1>6, <2>2, <2>3, <2>4
<1> QED
  BY <1>7, <1>8

\* A row is marked with what is so, if there is the row.
LEMMA SetMarks ==
    ASSUME TypeOK, NEW m \in Media, NEW mark \in Mark,
           marks' = IF Listed(m) THEN [marks EXCEPT ![m] = @ \cup {mark}] ELSE marks
    PROVE  /\ marks' \in [Media -> SUBSET Mark]
           /\ \A n \in Media : marks'[n] = marks[n] \/ (n = m /\ Listed(m) /\ marks'[n] = marks[n] \cup {mark})
<1>1. marks \in [Media -> SUBSET Mark]
  BY DEF TypeOK
<1>2. CASE Listed(m)
  <2>1. marks' = [marks EXCEPT ![m] = marks[m] \cup {mark}]
    BY <1>2
  <2>2. marks[m] \cup {mark} \in SUBSET Mark
    BY <1>1
  <2>3. marks' \in [Media -> SUBSET Mark]
    BY <1>1, <2>1, <2>2
  <2>4. \A n \in Media : marks'[n] = IF n = m THEN marks[m] \cup {mark} ELSE marks[n]
    BY <1>1, <2>1
  <2> QED
    BY <1>2, <2>3, <2>4
<1>3. CASE ~Listed(m)
  <2>1. marks' = marks
    BY <1>3
  <2> QED
    BY <1>1, <2>1
<1> QED
  BY <1>2, <1>3

\* The statements of the pipeline say of rows only what it was told, and found to be so.
LEMMA MarkIInv ==
    ASSUME IInv, SetRecompressed \/ SetHasThumb \/ SetSheet \/ SetThumbsDone
    PROVE  IInv'
<1> USE DEF IInv
<1> DEFINE m == pipeline.of
<1>1. UNCHANGED <<world, rows, files, made, link, queue, worker, progress, results, legacy, told, ingests, overlapped,
                  restarts>>
  BY DEF SetRecompressed, SetHasThumb, SetSheet, SetThumbsDone, disk, seen, counts
<1>2. pipeline.at \in {"recompressed", "thumb", "sheet", "done"}
  BY DEF SetRecompressed, SetHasThumb, SetSheet, SetThumbsDone, At
<1>3. pipeline # Idle /\ m \in Media
  BY <1>2 DEF TypeOK, Busy, Idle
<1>4. RowsInv' /\ WorkersInv' /\ ResultsInv'
  BY <1>1, SameRows, SameWorkers, SameResults
<1>5. PICK mark \in Mark :
         /\ marks' = IF Listed(m) THEN [marks EXCEPT ![m] = @ \cup {mark}] ELSE marks
         /\ mark = "recompressed" => pipeline.at = "recompressed"
         /\ mark = "thumb" => pipeline.at = "thumb"
         /\ mark = "sheet" => pipeline.at = "sheet"
  <2>1. CASE SetRecompressed
    BY <2>1 DEF SetRecompressed, Set, Mark, At
  <2>2. CASE SetHasThumb
    BY <2>2 DEF SetHasThumb, Set, Mark, At
  <2>3. CASE SetSheet
    BY <2>3 DEF SetSheet, Set, Mark, At
  <2>4. CASE SetThumbsDone
    BY <2>4 DEF SetThumbsDone, Set, Mark, At
  <2> QED
    BY <2>1, <2>2, <2>3, <2>4
<1> HIDE DEF m
<1>6. /\ marks' \in [Media -> SUBSET Mark]
      /\ \A n \in Media : marks'[n] = marks[n] \/ (n = m /\ Listed(m) /\ marks'[n] = marks[n] \cup {mark})
  BY <1>3, <1>5, SetMarks
<1>7. bar' \in [Media -> {"none", "some", "full"}]
  <2>1. bar' = bar \/ bar' = [bar EXCEPT ![m] = "full"]
    BY DEF SetRecompressed, SetHasThumb, SetSheet, SetThumbsDone, seen, m
  <2> QED
    BY <2>1 DEF TypeOK
<1>8. /\ pipeline' \in Busy \cup {Idle}
      /\ pipeline' # Idle => pipeline'.of = m /\ pipeline'.at \in {"sheet", "done", "next"}
                            /\ (pipeline'.at = "sheet" => pipeline.at = "thumb" /\ m \in Video)
  BY <1>3 DEF SetRecompressed, SetHasThumb, SetSheet, SetThumbsDone, Onto, At, Busy, Idle, m
<1>9. TypeOK'
  BY <1>1, <1>6, <1>7, <1>8 DEF TypeOK
<1>10. /\ Fresh(m) /\ mark = "recompressed" => link[m] # 0
       /\ Fresh(m) /\ mark \in {"thumb", "sheet"} => mark \in files[m]
  BY <1>3, <1>5 DEF PipelineInv, m
<1>11. LinksInv'
  <2> SUFFICES ASSUME NEW n \in Media, Fresh(n)
               PROVE  /\ link[n] # 0 => link[n] \in made[n]
                      /\ "recompressed" \in marks'[n] => link[n] # 0
                      /\ marks'[n] \cap {"thumb", "sheet"} \subseteq files[n]
    BY <1>1, SameFresh DEF LinksInv
  <2> QED
    BY <1>6, <1>10 DEF LinksInv
<1>12. PipelineInv'
  <2>1. Fresh(m) /\ pipeline.at = "thumb" /\ m \in Video => "sheet" \in files[m]
    BY <1>3 DEF PipelineInv, m
  <2>2. CASE pipeline' = Idle
    BY <2>2 DEF PipelineInv, Idle
  <2>3. CASE pipeline' # Idle
    BY <1>1, <1>8, <2>1, <2>3, SameFresh DEF PipelineInv
  <2> QED
    BY <2>2, <2>3
<1> QED
  BY <1>4, <1>9, <1>11, <1>12

\* The chain goes on with a media file of the table.
LEMMA FindNextIInv == ASSUME IInv, FindNext PROVE IInv'
<1> USE DEF IInv
<1> DEFINE m == pipeline.of
           next == IF m = legacy THEN NextLegacy(rows, marks) ELSE <<>>
<1>1. /\ pipeline.at = "next"
      /\ queue' = queue \o next /\ legacy' = (IF m = legacy THEN Chained(next) ELSE legacy)
      /\ pipeline' = [at |-> "done", of |-> m]
      /\ UNCHANGED <<world, rows, marks, files, made, link, worker, progress, results, told, bar, ingests, overlapped,
                     restarts>>
  BY DEF FindNext, At, Onto, disk, seen, counts
<1>2. m \in Media
  BY <1>1 DEF TypeOK, Busy, Idle
<1>3. NextLegacy(rows, marks) \in Seq(Request) /\ Chained(NextLegacy(rows, marks)) \in Media \cup {NULL}
  BY NextLegacyType DEF TypeOK
<1>4. next \in Seq(Request) /\ legacy' \in Media \cup {NULL}
  BY <1>1, <1>3 DEF TypeOK
<1>5. pipeline' \in Busy
  BY <1>1, <1>2 DEF Busy
<1> HIDE DEF next, m
<1>6. TypeOK'
  BY <1>1, <1>4, <1>5 DEF TypeOK
<1>7. RowsInv' /\ WorkersInv' /\ LinksInv'
  BY <1>1, SameRows, SameWorkers, SameLinks
<1>8. ResultsInv'
  BY <1>1, SameResults
<1>9. PipelineInv'
  BY <1>1 DEF PipelineInv
<1> QED
  BY <1>6, <1>7, <1>8, <1>9

\* With the server goes all that is in memory; the disk and the rows agree without it.
LEMMA RestartIInv == ASSUME IInv, Restart PROVE IInv'
<1> USE DEF IInv
<1>1. /\ restarts < MaxRestarts /\ restarts' = restarts + 1
      /\ queue' = NextLegacy(rows, marks) /\ legacy' = Chained(NextLegacy(rows, marks))
      /\ worker' = [w \in Worker |-> Idle] /\ progress' = <<>> /\ results' = <<>> /\ pipeline' = Idle
      /\ UNCHANGED <<world, rows, marks, files, made, link, told, bar, ingests, overlapped>>
  BY DEF Restart, disk, seen
<1>2. queue' \in Seq(Request) /\ legacy' \in Media \cup {NULL}
  BY <1>1, NextLegacyType DEF TypeOK
<1>3. restarts' \in 0..MaxRestarts
  BY <1>1, TranscodingAssumption DEF TypeOK
<1>4. TypeOK'
  BY <1>1, <1>2, <1>3 DEF TypeOK
<1>5. RowsInv' /\ LinksInv'
  BY <1>1, SameRows, SameLinks
<1>6. WorkersInv' /\ ResultsInv' /\ PipelineInv'
  BY <1>1 DEF WorkersInv, ResultsInv, PipelineInv, Idle
<1> QED
  BY <1>4, <1>5, <1>6

\* The invariant is preserved by every step of workers, pipeline and server.
LEMMA NextIInv == IInv /\ [Next]_vars => IInv'
<1> SUFFICES ASSUME IInv, [Next]_vars PROVE IInv'
  OBVIOUS
<1>1. ASSUME NEW m \in Media, Ingest(m) PROVE IInv'
  BY <1>1, IngestIInv
<1>2. ASSUME NEW m \in Media, Delete(m) PROVE IInv'
  BY <1>2, DeleteIInv
<1>3. ASSUME NEW w \in Worker, Work(w) PROVE IInv'
  BY <1>3, StartIInv, FinishIInv DEF Work
<1>4. CASE Relay \/ (\E w \in Worker : Report(w)) \/ (\E m \in Media : Expire(m))
  BY <1>4, BarIInv
<1>5. CASE Ask
  BY <1>5, AskIInv
<1>6. CASE Handle
  BY <1>6, TakeIInv, LinkIInv, MarkIInv, FindNextIInv DEF Handle
<1>7. CASE Restart
  BY <1>7, RestartIInv
<1>8. CASE UNCHANGED vars
  <2>1. UNCHANGED <<world, rows, marks, files, made, link, queue, worker, progress, results, pipeline, legacy, told, bar,
                    ingests, overlapped, restarts>>
    BY <1>8 DEF vars
  <2>2. TypeOK'
    BY <2>1 DEF IInv, TypeOK
  <2>3. RowsInv' /\ WorkersInv' /\ LinksInv'
    BY <2>1, SameRows, SameWorkers, SameLinks DEF IInv
  <2>4. ResultsInv' /\ PipelineInv'
    BY <2>1, SameResults, SamePipeline DEF IInv
  <2> QED
    BY <2>2, <2>3, <2>4 DEF IInv
<1> QED
  BY <1>1, <1>2, <1>3, <1>4, <1>5, <1>6, <1>7, <1>8 DEF Next

\* The invariant holds whatever is deleted, comes again, fails or is interrupted, and when.
THEOREM Invariant == Spec => []IInv
<1> QED
  BY InitIInv, NextIInv, PTL DEF Spec

-----------------------------------------------------------------------------
(* The theorems *)

\* The state of the pipeline and of its workers has its type; of the transcodings asked for each is of an
\* ingestion there has been.
THEOREM TypeCorrect == Spec => []TypeOK
<1>1. IInv => TypeOK
  BY DEF IInv
<1> QED
  BY <1>1, Invariant, PTL

\* What the rows say of transcodings, posters and sheets is on the disk, unless the media file came again
\* while requests from before were being served.
THEOREM MarksAreTrueHolds == Spec => []MarksAreTrue
<1>1. IInv => MarksAreTrue
  <2> SUFFICES ASSUME IInv, NEW m \in Elements(rows) \ overlapped
               PROVE  /\ "recompressed" \in marks[m] => link[m] \in made[m]
                      /\ marks[m] \cap {"thumb", "sheet"} \subseteq files[m]
    BY DEF MarksAreTrue
  <2>1. Fresh(m)
    BY DEF Fresh, Listed
  <2>2. m \in Media
    BY DEF IInv, TypeOK, Elements
  <2> QED
    BY <2>1, <2>2 DEF IInv, LinksInv
<1> QED
  BY <1>1, Invariant, PTL
=============================================================================
