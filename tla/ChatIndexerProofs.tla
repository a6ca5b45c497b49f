-------------------------- MODULE ChatIndexerProofs --------------------------
(***************************************************************************)
(* Proofs about ChatIndexer. An answer is unknown to the worker until its    *)
(* request is done with it; from then on its one job is in the queue, with   *)
(* the worker, or has become a card. The scan can make a second job only of  *)
(* an answer recorded while it runs, because it begins with an empty queue   *)
(* and no request in flight, and passes over every position with a card.     *)
(***************************************************************************)
EXTENDS ChatIndexer, FiniteSetTheorems, SequenceTheorems, TLAPS

\* What the theorems assume of the constants; all of it is by construction.
IndexerConstants ==
    /\ \E n \in Nat : Positions \subseteq 1..n
    /\ ColdBatch \in Nat /\ MaxRequests \in Nat /\ MaxCrashes \in Nat
    /\ None \notin Job

-----------------------------------------------------------------------------
(* The invariant.                                                          *)

\* What the type invariant leaves open: a request in flight has its answer,
\* and the scan's list is there only while it runs.
Shape ==
    /\ \A r \in InFlight : req[r].answer \in Answer
    /\ scan \in [step : {"none", "logs"}, queued : SUBSET (Chats \X Positions),
                 left : SUBSET Chats, jobs : Seq(Job)]
    /\ w # "scan" \/ scan.step = "none" => scan = NoScan
    /\ beside \in [Requests -> Nat]

\* The answer a job is for.
Of(j) == [chat |-> j.chat, pos |-> j.pos, ver |-> j.ver]

\* Where the worker's side knows an answer from.
Waiting == {Of(queue[i]) : i \in DOMAIN queue}
Found == {Of(scan.jobs[i]) : i \in DOMAIN scan.jobs}
Running == {Of(j) : j \in {job} \ {None}}
Described == {a \in Answer : \E i \in DOMAIN cards[a.chat][a.pos] : cards[a.chat][a.pos][i] = a.ver}
Known == Waiting \cup Found \cup Running \cup Described

\* No two requests have the same number, and nothing has a later one than the
\* last request.
Numbered ==
    /\ \A r \in InFlight : req[r].answer.ver <= sent
    /\ \A r, s \in InFlight : r # s => req[r].answer.ver # req[s].answer.ver
    /\ \A c \in Chats, p \in Positions : shown[c][p] <= sent
    /\ \A a \in Known : a.ver <= sent

\* Until its request has made a job of it, an answer is unknown to the worker.
NotYetKnown ==
    \A r \in Requests :
        LET a == req[r].answer
        IN  /\ req[r].step \in {"counted", "flagged", "asked"}
                   => a \notin Known /\ shown[a.chat][a.pos] # a.ver
            /\ req[r].step = "recorded" => a \notin Known \/ a \in raced

\* An answer that no scan raced with is in one place.
OnePlace ==
    /\ \A i, k \in DOMAIN queue : i # k /\ Of(queue[i]) = Of(queue[k]) => Of(queue[i]) \in raced
    /\ \A a \in Answer : /\ a \in Waiting /\ a \in Running \cup Described => a \in raced
                         /\ a \in Running /\ a \in Described => a \in raced

\* While a scan runs, what it finds is apart from everything else.
ScanApart ==
    w = "scan" =>
        /\ Waiting \subseteq raced
        /\ \A r \in Requests : req[r].step = "recorded" => req[r].answer \in raced
        /\ \A i \in DOMAIN scan.jobs : /\ scan.jobs[i].chat \notin scan.left
                                       /\ cards[scan.jobs[i].chat][scan.jobs[i].pos] = <<>>
        /\ \A i, k \in DOMAIN scan.jobs : i # k => Of(scan.jobs[i]) # Of(scan.jobs[k])

CardInv == Numbered /\ NotYetKnown /\ OnePlace /\ ScanApart /\ OneCardPerAnswer
-----------------------------------------------------------------------------
(* Ascending lists its set, and lists nothing twice.                       *)

LEMMA AscendingLists ==
    ASSUME NEW N \in Nat, NEW S \in SUBSET (1..N)
    PROVE  /\ Cardinality(S) \in Nat
           /\ Ascending(S) \in [1..Cardinality(S) -> S]
           /\ \A i, k \in 1..Cardinality(S) : i # k => Ascending(S)[i] # Ascending(S)[k]
  <1> DEFINE UpTo(n) == {m \in S : m <= n}
  <1>0. \A m \in S : m \in Nat /\ 1 <= m /\ m <= N
    OBVIOUS
  <1>1. \A T \in SUBSET S : IsFiniteSet(T) /\ Cardinality(T) \in Nat
    <2>1. IsFiniteSet(1..N)
      BY FS_Interval
    <2> QED
      BY <2>1, FS_Subset, FS_CardinalityType
  <1>2. ASSUME NEW k \in 1..Cardinality(S)
        PROVE  \E n \in S : Cardinality(UpTo(n)) = k
    <2> DEFINE Enough == {n \in 0..N : Cardinality(UpTo(n)) >= k}
    <2>1. N \in Enough
      <3>1. UpTo(N) = S
        BY <1>0
      <3> QED
        BY <1>1, <3>1
    <2>2. Enough \subseteq Nat
      OBVIOUS
    <2> HIDE DEF Enough
    <2>3. PICK n \in Enough : \A m \in Enough : ~(<<m, n>> \in OpToRel(<, Nat))
      BY <2>1, <2>2, WFMin, NatLessThanWellFounded
    <2>4. \A m \in Enough : ~(m < n)
      BY <2>2, <2>3 DEF OpToRel
    <2>5. n \in 0..N /\ Cardinality(UpTo(n)) >= k
      BY DEF Enough
    <2>6. Cardinality(UpTo(n) \ {n}) < k
      <3>1. CASE n = 0
        <4>1. ASSUME NEW m \in S PROVE ~(m <= n)
          BY <1>0, <3>1
        <4>2. UpTo(n) \ {n} = {}
          BY <4>1
        <4> QED
          BY <4>2, FS_EmptySet
      <3>2. CASE n # 0
        <4>1. ASSUME NEW m \in S PROVE m <= n /\ m # n <=> m <= n - 1
          BY <1>0, <2>5, <3>2
        <4>2. UpTo(n) \ {n} = UpTo(n - 1)
          BY <4>1
        <4>3. n - 1 \in 0..N /\ n - 1 < n
          BY <2>5, <3>2
        <4>4. ~(n - 1 \in Enough)
          BY <2>4, <4>3
        <4>5. Cardinality(UpTo(n - 1)) \in Nat
          BY <1>1
        <4> QED
          BY <4>2, <4>3, <4>4, <4>5 DEF Enough
      <3> QED
        BY <3>1, <3>2
    <2>7. /\ IsFiniteSet(UpTo(n)) /\ Cardinality(UpTo(n)) \in Nat
          /\ Cardinality(UpTo(n) \ {n}) = IF n \in UpTo(n) THEN Cardinality(UpTo(n)) - 1
                                          ELSE Cardinality(UpTo(n))
      <3>1. UpTo(n) \in SUBSET S
        OBVIOUS
      <3> QED
        BY <1>1, <3>1, FS_RemoveElement
    <2>8. n \in UpTo(n) /\ Cardinality(UpTo(n)) = k
      BY <2>5, <2>6, <2>7
    <2> QED
      BY <2>8
  <1>3. \A k \in 1..Cardinality(S) : /\ Ascending(S)[k] \in S
                                     /\ Cardinality(UpTo(Ascending(S)[k])) = k
    BY <1>2 DEF Ascending
  <1> HIDE DEF UpTo
  <1> QED
    BY <1>1, <1>3 DEF Ascending
-----------------------------------------------------------------------------
(* What becomes of the queue when a hot job comes.                         *)

\* The jobs that stay are jobs that were there, none of them twice.
LEMMA EnqueuedJobs ==
    ASSUME TypeOK, Shape, NEW r \in Requests, Enqueue(r)
    PROVE  /\ queue' \in Seq(Job)
           /\ \E f \in [1..(Len(queue') - 1) -> DOMAIN queue] :
                 /\ \A k \in 1..(Len(queue') - 1) : queue'[k] = queue[f[k]]
                 /\ \A k, l \in 1..(Len(queue') - 1) : k # l => f[k] # f[l]
           /\ Len(queue') \in Nat \ {0} /\ Of(queue'[Len(queue')]) = req[r].answer
  <1> DEFINE a == req[r].answer
             stays == {i \in DOMAIN queue : queue[i].cold \/ queue[i].chat # a.chat}
             f == Ascending(stays)
             hot == [chat |-> a.chat, pos |-> a.pos, ver |-> a.ver, cold |-> FALSE,
                     external |-> a.chat \in external]
             stay == [k \in DOMAIN f |-> queue[f[k]]]
  <1>1. queue' = Append(stay, hot)
    BY DEF Enqueue
  <1>2. a \in Answer
    BY DEF Enqueue, At, Shape, InFlight
  <1>3. hot \in Job /\ Of(hot) = a
    BY <1>2 DEF Answer, Job, Of
  <1>4. Len(queue) \in Nat /\ DOMAIN queue = 1..Len(queue) /\ \A i \in DOMAIN queue : queue[i] \in Job
    BY DEF TypeOK
  <1>5. stays \in SUBSET (1..Len(queue))
    BY <1>4
  <1> HIDE DEF stays, hot, a
  <1>6. /\ Cardinality(stays) \in Nat /\ f \in [1..Cardinality(stays) -> stays]
        /\ \A k, l \in 1..Cardinality(stays) : k # l => f[k] # f[l]
    BY <1>4, <1>5, AscendingLists
  <1> HIDE DEF f
  <1>7. stay \in Seq(Job) /\ Len(stay) = Cardinality(stays)
    <2>1. \A k \in 1..Cardinality(stays) : queue[f[k]] \in Job
      BY <1>4, <1>5, <1>6
    <2>2. stay \in [1..Cardinality(stays) -> Job]
      BY <1>6, <2>1
    <2> QED
      BY <1>6, <2>2
  <1>8. /\ queue' \in Seq(Job) /\ Len(queue') = Cardinality(stays) + 1
        /\ \A k \in 1..Cardinality(stays) : queue'[k] = stay[k]
        /\ queue'[Cardinality(stays) + 1] = hot
    BY <1>1, <1>3, <1>7, AppendProperties
  <1>9. f \in [1..Cardinality(stays) -> DOMAIN queue]
    BY <1>4, <1>5, <1>6
  <1>10. \A k \in 1..Cardinality(stays) : queue'[k] = queue[f[k]]
    BY <1>6, <1>8
  <1>11. Len(queue') - 1 = Cardinality(stays)
    BY <1>6, <1>8
  <1> QED
    BY <1>3, <1>6, <1>8, <1>9, <1>10, <1>11 DEF a

\* What a scan adds for one chat: unindexed answers, each once, all of a chat
\* that it has not looked at before and will not look at again.
LEMMA ScannedJobs ==
    ASSUME IndexerConstants, TypeOK, Shape, ScanChat
    PROVE  \E c \in scan.left, new \in Seq(Job) :
              /\ scan'.jobs = scan.jobs \o new /\ c \notin scan'.left /\ scan'.left \subseteq scan.left
              /\ scan'.jobs \in Seq(Job) /\ Len(scan'.jobs) <= ColdBatch
              /\ \A k \in DOMAIN new : /\ new[k].chat = c /\ new[k].pos \in Unindexed(c)
                                       /\ new[k].ver = shown[c][new[k].pos]
              /\ \A k, l \in DOMAIN new : k # l => new[k].pos # new[l].pos
  <1>1. PICK c \in scan.left :
          LET found == Ascending(Unindexed(c))
              room == ColdBatch - Len(scan.jobs)
              count == IF Len(found) < room THEN Len(found) ELSE room
          IN  scan' = [scan EXCEPT
                  !.left = IF count = room THEN {} ELSE @ \ {c},
                  !.jobs = @ \o [k \in 1..count |->
                      [chat |-> c, pos |-> found[k], ver |-> shown[c][found[k]], cold |-> TRUE,
                       external |-> FALSE]]]
    BY DEF ScanChat
  <1> DEFINE found == Ascending(Unindexed(c))
             room == ColdBatch - Len(scan.jobs)
             count == IF Len(found) < room THEN Len(found) ELSE room
             new == [k \in 1..count |-> [chat |-> c, pos |-> found[k], ver |-> shown[c][found[k]],
                                        cold |-> TRUE, external |-> FALSE]]
             size == Cardinality(Unindexed(c))
  <1>2. /\ scan'.jobs = scan.jobs \o new
        /\ scan'.left = IF count = room THEN {} ELSE scan.left \ {c}
    BY <1>1 DEF Shape
  <1>3. c \in Chats
    BY DEF Shape
  <1>4. /\ size \in Nat /\ found \in [1..size -> Unindexed(c)]
        /\ \A k, l \in 1..size : k # l => found[k] # found[l]
    <2>1. PICK n \in Nat : Positions \subseteq 1..n
      BY DEF IndexerConstants
    <2>2. Unindexed(c) \in SUBSET (1..n)
      BY <2>1 DEF Unindexed
    <2> QED
      BY <2>2, AscendingLists
  <1> HIDE DEF found
  <1>5. Len(found) = size
    BY <1>4
  <1>6. room \in Nat /\ count \in Nat /\ count <= room /\ count <= size
    BY <1>4, <1>5 DEF TypeOK, IndexerConstants
  <1> HIDE DEF count
  <1>7. \A k \in 1..count : /\ found[k] \in Unindexed(c) /\ found[k] \in Positions
                           /\ shown[c][found[k]] \in 1..MaxRequests
    <2>1. \A k \in 1..count : k \in 1..size
      BY <1>4, <1>6
    <2>2. \A k \in 1..count : found[k] \in Unindexed(c)
      BY <1>4, <2>1
    <2>3. \A p \in Unindexed(c) : p \in Positions /\ shown[c][p] # 0
      BY DEF Unindexed
    <2>4. \A p \in Positions : shown[c][p] \in 0..MaxRequests
      BY <1>3 DEF TypeOK
    <2>5. ASSUME NEW p \in Unindexed(c)
          PROVE  p \in Positions /\ shown[c][p] \in 1..MaxRequests
      <3>1. p \in Positions /\ shown[c][p] # 0 /\ shown[c][p] \in 0..MaxRequests
        BY <2>3, <2>4
      <3> QED
        BY <3>1 DEF IndexerConstants
    <2> QED
      BY <2>2, <2>5
  <1>8. new \in Seq(Job) /\ Len(new) = count /\ DOMAIN new = 1..count
    <2>1. new \in [1..count -> Job]
      BY <1>3, <1>7 DEF Job
    <2> QED
      BY <1>6, <2>1
  <1>9. \A k \in DOMAIN new : /\ new[k].chat = c /\ new[k].pos \in Unindexed(c)
                             /\ new[k].ver = shown[c][new[k].pos]
    BY <1>7
  <1>10. \A k, l \in DOMAIN new : k # l => new[k].pos # new[l].pos
    BY <1>4, <1>6
  <1> HIDE DEF new
  <1>11. scan'.jobs \in Seq(Job) /\ Len(scan'.jobs) <= ColdBatch
    <2>1. scan.jobs \in Seq(Job)
      BY DEF TypeOK
    <2>2. scan'.jobs \in Seq(Job) /\ Len(scan'.jobs) = Len(scan.jobs) + count
      <3>1. /\ scan.jobs \o new \in Seq(Job)
            /\ Len(scan.jobs \o new) = Len(scan.jobs) + Len(new)
        BY <1>8, <2>1, ConcatProperties
      <3> QED
        BY <1>2, <1>8, <3>1
    <2> QED
      BY <1>6, <2>1, <2>2 DEF IndexerConstants
  <1>12. c \notin scan'.left /\ scan'.left \subseteq scan.left
    BY <1>2
  <1> QED
    BY <1>2, <1>8, <1>9, <1>10, <1>11, <1>12

-----------------------------------------------------------------------------
(* Types.                                                                  *)

LEMMA FitsInit == IndexerConstants /\ Init => TypeOK /\ Shape
  <1> SUFFICES ASSUME IndexerConstants, Init PROVE TypeOK /\ Shape
    OBVIOUS
  <1>1. <<>> \in Seq(Job) /\ <<>> \in Seq(1..MaxRequests) /\ Len(<<>>) = 0
    BY EmptySeq
  <1>2. TypeOK
    <2>1. [p \in Positions |-> 0] \in [Positions -> 0..MaxRequests] /\ sent \in 0..MaxRequests
      BY DEF Init, IndexerConstants
    <2>2. [p \in Positions |-> <<>>] \in [Positions -> Seq(1..MaxRequests)]
      BY <1>1
    <2>3. /\ shown \in [Chats -> [Positions -> 0..MaxRequests]]
          /\ cards \in [Chats -> [Positions -> Seq(1..MaxRequests)]]
          /\ crashes \in 0..MaxCrashes
      BY <2>1, <2>2 DEF Init, IndexerConstants
    <2>4. scan.jobs \in Seq(Job) /\ Len(scan.jobs) <= ColdBatch
      BY <1>1 DEF Init, IndexerConstants, NoScan
    <2> QED
      BY <1>1, <2>1, <2>3, <2>4 DEF Init, TypeOK, Free
  <1>3. Shape
    BY <1>1 DEF Init, IndexerConstants, Shape, InFlight, NoScan, Free
  <1> QED
    BY <1>2, <1>3

\* The steps of a request, and of the clock.
LEMMA FitsRequest ==
    ASSUME IndexerConstants, TypeOK, Shape,
           (\E r \in Requests : Begin(r) \/ RequestStep(r)) \/ TimePasses
    PROVE  TypeOK' /\ Shape'
  <1>1. ASSUME NEW r \in Requests, Begin(r)
        PROVE  TypeOK' /\ Shape'
    <2> USE <1>1
    <2>1. PICK c \in Chats, p \in Positions :
            req' = [req EXCEPT ![r] = [step |-> "counted",
                                       answer |-> [chat |-> c, pos |-> p, ver |-> sent + 1]]]
      BY DEF Begin
    <2>2. sent + 1 \in 1..MaxRequests /\ sent' = sent + 1
      BY DEF Begin, TypeOK, IndexerConstants
    <2>3. [chat |-> c, pos |-> p, ver |-> sent + 1] \in Answer
      BY <2>2 DEF Answer
    <2>4. external' \subseteq External
      BY DEF Begin, TypeOK
    <2>5. TypeOK'
      BY <2>1, <2>2, <2>3, <2>4 DEF Begin, TypeOK, workerVars
    <2>6. Shape'
      BY <2>1, <2>3 DEF Begin, Shape, InFlight, TypeOK, workerVars
    <2> QED
      BY <2>5, <2>6
  <1>2. ASSUME NEW r \in Requests, Flag(r)
        PROVE  TypeOK' /\ Shape'
    <2>1. TypeOK'
      BY <1>2 DEF Flag, At, Go, TypeOK, logVars, history
    <2>2. Shape'
      BY <1>2 DEF Flag, At, Go, TypeOK, Shape, InFlight, logVars, history
    <2> QED
      BY <2>1, <2>2
  <1>3. ASSUME NEW r \in Requests, IngestRequest(r)
        PROVE  TypeOK' /\ Shape'
    <2>0. shown' \in [Chats -> [Positions -> 0..MaxRequests]]
      <3>1. req[r].answer.chat \in Chats
        BY <1>3 DEF IngestRequest, At, Shape, InFlight, Answer
      <3>2. [p \in Positions |-> IF p >= req[r].answer.pos THEN 0 ELSE shown[req[r].answer.chat][p]]
              \in [Positions -> 0..MaxRequests]
        BY <3>1 DEF TypeOK, IndexerConstants
      <3> QED
        BY <1>3, <3>2 DEF IngestRequest, TypeOK
    <2>1. TypeOK'
      BY <1>3, <2>0 DEF IngestRequest, At, Go, TypeOK, workerVars, history
    <2>2. Shape'
      BY <1>3 DEF IngestRequest, At, Go, TypeOK, Shape, InFlight, workerVars, history
    <2> QED
      BY <2>1, <2>2
  <1>4. ASSUME NEW r \in Requests, RecordAnswer(r)
        PROVE  TypeOK' /\ Shape'
    <2>1. req[r].answer \in Answer
      BY <1>4 DEF RecordAnswer, At, Shape, InFlight
    <2>2. TypeOK'
      <3>1. shown' \in [Chats -> [Positions -> 0..MaxRequests]]
        BY <1>4, <2>1 DEF RecordAnswer, TypeOK, Answer, IndexerConstants
      <3>2. raced' \subseteq Answer
        BY <1>4, <2>1 DEF RecordAnswer, TypeOK
      <3> QED
        BY <1>4, <3>1, <3>2 DEF RecordAnswer, At, Go, TypeOK, workerVars
    <2>3. Shape'
      BY <1>4 DEF RecordAnswer, At, Go, TypeOK, Shape, InFlight, workerVars
    <2> QED
      BY <2>2, <2>3
  <1>5. ASSUME NEW r \in Requests, Enqueue(r)
        PROVE  TypeOK' /\ Shape'
    <2>1. queue' \in Seq(Job)
      BY <1>5, EnqueuedJobs
    <2>2. TypeOK'
      BY <1>5, <2>1 DEF Enqueue, At, Go, TypeOK, logVars, history
    <2>3. Shape'
      BY <1>5 DEF Enqueue, At, Go, TypeOK, Shape, InFlight, logVars, history
    <2> QED
      BY <2>2, <2>3
  <1>6. ASSUME NEW r \in Requests, End(r)
        PROVE  TypeOK' /\ Shape'
    <2>1. TypeOK'
      BY <1>6 DEF End, Free, TypeOK, logVars, history
    <2>2. Shape'
      BY <1>6 DEF End, Free, TypeOK, Shape, InFlight, logVars, history
    <2> QED
      BY <2>1, <2>2
  <1>7. CASE TimePasses
    BY <1>7 DEF TimePasses, TypeOK, Shape, InFlight, requestVars, logVars, history
  <1> QED
    BY <1>1, <1>2, <1>3, <1>4, <1>5, <1>6, <1>7 DEF RequestStep

\* The steps of the worker.
LEMMA FitsWorker ==
    ASSUME IndexerConstants, TypeOK, Shape, WorkerStep
    PROVE  TypeOK' /\ Shape'
  <1> USE DEF requestVars, logVars, history
  <1>1. CASE Wake \/ WakeByTime \/ Ready
    <2>1. TypeOK'
      BY <1>1 DEF Wake, WakeByTime, Ready, TypeOK
    <2>2. Shape'
      BY <1>1 DEF Wake, WakeByTime, Ready, Shape, InFlight
    <2> QED
      BY <2>1, <2>2
  <1>2. CASE ScanQueue
    <2>1. {<<queue[i].chat, queue[i].pos>> : i \in DOMAIN queue} \in SUBSET (Chats \X Positions)
      <3>1. \A i \in DOMAIN queue : queue[i].chat \in Chats /\ queue[i].pos \in Positions
        <4>1. \A i \in DOMAIN queue : queue[i] \in Job
          BY DEF TypeOK
        <4> QED
          BY <4>1 DEF Job
      <3> QED
        BY <3>1
    <2>2. <<>> \in Seq(Job) /\ Len(<<>>) = 0
      BY EmptySeq
    <2>3. TypeOK'
      BY <1>2, <2>2 DEF ScanQueue, TypeOK, IndexerConstants
    <2>4. Shape'
      BY <1>2, <2>1, <2>2 DEF ScanQueue, Shape, InFlight
    <2> QED
      BY <2>3, <2>4
  <1>3. CASE ScanChat
    <2>1. scan'.jobs \in Seq(Job) /\ Len(scan'.jobs) <= ColdBatch
      BY <1>3, ScannedJobs
    <2>2. TypeOK'
      BY <1>3, <2>1 DEF ScanChat, TypeOK
    <2>3. Shape'
      BY <1>3, <2>1 DEF ScanChat, Shape, InFlight
    <2> QED
      BY <2>2, <2>3
  <1>4. CASE ScanEnd
    <2>1. queue' \in Seq(Job)
      BY <1>4, ConcatProperties DEF ScanEnd, TypeOK
    <2>2. <<>> \in Seq(Job) /\ Len(<<>>) = 0
      BY EmptySeq
    <2>3. TypeOK'
      BY <1>4, <2>1, <2>2 DEF ScanEnd, TypeOK, NoScan, IndexerConstants
    <2>4. Shape'
      BY <1>4, <2>2 DEF ScanEnd, Shape, InFlight, NoScan
    <2> QED
      BY <2>3, <2>4
  <1>5. CASE Pop
    <2>1. queue # <<>> => Head(queue) \in Job /\ Tail(queue) \in Seq(Job)
      BY HeadTailProperties DEF TypeOK
    <2>2. TypeOK'
      BY <1>5, <2>1 DEF Pop, TypeOK, IndexerConstants
    <2>3. Shape'
      BY <1>5 DEF Pop, Shape, InFlight
    <2> QED
      BY <2>2, <2>3
  <1>6. CASE Publish
    <2>1. TypeOK'
      BY <1>6 DEF Publish, TypeOK
    <2>2. Shape'
      BY <1>6 DEF Publish, Shape, InFlight
    <2> QED
      BY <2>1, <2>2
  <1>7. CASE GiveUp \/ Reply
    <2>1. TypeOK'
      BY <1>7 DEF GiveUp, Reply, TypeOK
    <2>2. Shape'
      BY <1>7 DEF GiveUp, Reply, Shape, InFlight
    <2> QED
      BY <2>1, <2>2
  <1>8. CASE WriteCard
    <2>1. job \in Job
      BY <1>8 DEF WriteCard, TypeOK
    <2>2. cards' \in [Chats -> [Positions -> Seq(1..MaxRequests)]]
      <3>1. /\ job.chat \in Chats /\ job.pos \in Positions /\ job.ver \in 1..MaxRequests
            /\ cards[job.chat][job.pos] \in Seq(1..MaxRequests)
        BY <2>1 DEF Job, TypeOK
      <3>2. Append(cards[job.chat][job.pos], job.ver) \in Seq(1..MaxRequests)
        BY <3>1, AppendProperties
      <3> QED
        BY <1>8, <3>1, <3>2 DEF WriteCard, TypeOK
    <2>3. TypeOK'
      BY <1>8, <2>2 DEF WriteCard, TypeOK
    <2>4. Shape'
      BY <1>8 DEF WriteCard, Shape, InFlight
    <2> QED
      BY <2>3, <2>4
  <1> QED
    BY <1>1, <1>2, <1>3, <1>4, <1>5, <1>6, <1>7, <1>8 DEF WorkerStep

LEMMA FitsStep ==
    ASSUME IndexerConstants, TypeOK, Shape, [Next]_vars
    PROVE  TypeOK' /\ Shape'
  <1>1. CASE UNCHANGED vars
    BY <1>1 DEF vars, requestVars, logVars, workerVars, history, TypeOK, Shape, InFlight
  <1>2. CASE Restart
    <2>1. <<>> \in Seq(Job) /\ <<>> \in Seq(1..MaxRequests) /\ Len(<<>>) = 0
      BY EmptySeq
    <2>2. /\ [p \in Positions |-> 0] \in [Positions -> 0..MaxRequests]
          /\ [p \in Positions |-> <<>>] \in [Positions -> Seq(1..MaxRequests)]
      BY <2>1 DEF IndexerConstants
    <2>3. /\ shown' \in [Chats -> [Positions -> 0..MaxRequests]]
          /\ cards' \in [Chats -> [Positions -> Seq(1..MaxRequests)]]
      BY <1>2, <2>2 DEF Restart, TypeOK
    <2>4. /\ scan'.jobs \in Seq(Job) /\ Len(scan'.jobs) <= ColdBatch
          /\ crashes' \in 0..MaxCrashes
      BY <1>2, <2>1 DEF Restart, NoScan, IndexerConstants, TypeOK
    <2>6. TypeOK'
      BY <1>2, <2>1, <2>3, <2>4 DEF Restart, TypeOK, Free
    <2>5. Shape'
      BY <1>2, <2>1 DEF Restart, Shape, InFlight, Free, NoScan
    <2> QED
      BY <2>5, <2>6
  <1> QED
    BY <1>1, <1>2, FitsRequest, FitsWorker DEF Next

\* Every variable of the idle-time jobs always has its type.
THEOREM TypeCorrect ==
    ASSUME IndexerConstants
    PROVE  Spec => []TypeOK
  <1>1. Init => TypeOK /\ Shape
    BY FitsInit
  <1>2. TypeOK /\ Shape /\ [Next]_vars => TypeOK' /\ Shape'
    BY FitsStep
  <1> QED
    BY <1>1, <1>2, PTL DEF Spec

-----------------------------------------------------------------------------
(* One job beside a request.                                               *)

\* A request that comes between the worker's last look at the count and the
\* start of its job has no job beside it yet.
BesideInv ==
    \A r \in InFlight : beside[r] <= 1 /\ (w \in {"ready", "popped"} => beside[r] = 0)

LEMMA BesideStep ==
    ASSUME TypeOK, Shape, BesideInv, [Next]_vars
    PROVE  BesideInv'
  <1> USE DEF logVars, workerVars, history, requestVars
  <1>1. req \in [Requests -> [step : {"none", "counted", "flagged", "asked", "recorded", "queued"},
                             answer : Answer \cup {NoAnswer}]]
        /\ beside \in [Requests -> Nat]
    BY DEF TypeOK, Shape
  <1>2. CASE UNCHANGED vars
    BY <1>2 DEF vars, BesideInv, InFlight
  <1>3. ASSUME NEW r \in Requests, Begin(r)
        PROVE  BesideInv'
    BY <1>1, <1>3 DEF Begin, BesideInv, InFlight
  <1>4. ASSUME NEW r \in Requests, RequestStep(r)
        PROVE  BesideInv'
    <2>1. /\ \A q \in Requests : req'[q].step # "none" => req[q].step # "none"
          /\ beside' = beside /\ (w' = w \/ w' = "sleep")
      BY <1>1, <1>4 DEF RequestStep, Flag, IngestRequest, RecordAnswer, Enqueue, End, At, Go, Free
    <2> QED
      BY <2>1 DEF BesideInv, InFlight
  <1>5. CASE Ready
    BY <1>5 DEF Ready, BesideInv, InFlight
  <1>6. CASE Publish
    BY <1>1, <1>6 DEF Publish, BesideInv, InFlight
  <1>7. CASE Pop
    BY <1>7 DEF Pop, BesideInv, InFlight
  <1>8. CASE \/ TimePasses \/ Wake \/ WakeByTime \/ ScanQueue \/ ScanChat \/ ScanEnd
             \/ GiveUp \/ Reply \/ WriteCard
    <2>1. req' = req /\ beside' = beside /\ (w' = w \/ w' \notin {"ready", "popped"})
      BY <1>8 DEF TimePasses, Wake, WakeByTime, ScanQueue, ScanChat, ScanEnd, GiveUp, Reply, WriteCard
    <2> QED
      BY <2>1 DEF BesideInv, InFlight
  <1>9. CASE Restart
    BY <1>9 DEF Restart, Free, BesideInv, InFlight
  <1> QED
    BY <1>2, <1>3, <1>4, <1>5, <1>6, <1>7, <1>8, <1>9 DEF Next, WorkerStep

\* A request shares the engine with one background job at most, the one that
\* was taken from the queue when it came.
THEOREM OneJobAtMost ==
    ASSUME IndexerConstants
    PROVE  Spec => []OneJobBeside
  <1>1. Init => TypeOK /\ Shape /\ BesideInv
    BY FitsInit DEF Init, BesideInv, InFlight, Free
  <1>2. TypeOK /\ Shape /\ BesideInv /\ [Next]_vars => (TypeOK /\ Shape /\ BesideInv)'
    BY FitsStep, BesideStep
  <1>3. BesideInv => OneJobBeside
    BY DEF BesideInv, OneJobBeside
  <1> QED
    BY <1>1, <1>2, <1>3, PTL DEF Spec

-----------------------------------------------------------------------------
(* One card per answer.                                                    *)

\* The worker knows answers only, and a request in flight owes one.
LEMMA KnownAreAnswers ==
    ASSUME TypeOK, Shape
    PROVE  /\ Known \subseteq Answer
           /\ \A j \in Job : Of(j) \in Answer
  <1>1. \A j \in Job : Of(j) \in Answer
    BY DEF Job, Of, Answer
  <1>2. /\ \A i \in DOMAIN queue : queue[i] \in Job
        /\ \A i \in DOMAIN scan.jobs : scan.jobs[i] \in Job
        /\ \A j \in {job} \ {None} : j \in Job
    BY DEF TypeOK
  <1> QED
    BY <1>1, <1>2 DEF Known, Waiting, Found, Running, Described

\* A step that moves no job and writes no card.
LEMMA PlacesAside ==
    ASSUME UNCHANGED <<queue, job, cards>>, scan'.jobs = scan.jobs, raced \subseteq raced',
           OnePlace, OneCardPerAnswer
    PROVE  Waiting' = Waiting /\ Known' = Known /\ OnePlace' /\ OneCardPerAnswer'
  <1>1. Waiting' = Waiting /\ Found' = Found /\ Running' = Running /\ Described' = Described
    BY DEF Waiting, Found, Running, Described
  <1>2. OnePlace'
    BY <1>1 DEF OnePlace
  <1>3. OneCardPerAnswer'
    BY DEF OneCardPerAnswer
  <1> QED
    BY <1>1, <1>2, <1>3 DEF Known

\* The steps of a request that make no job.
LEMMA CardRequest ==
    ASSUME IndexerConstants, TypeOK, Shape, CardInv, NEW r \in Requests,
           Begin(r) \/ Flag(r) \/ IngestRequest(r) \/ RecordAnswer(r) \/ End(r)
    PROVE  CardInv'
  <1> USE DEF logVars, workerVars, history
  <1>1. /\ UNCHANGED <<queue, job, cards, scan>> /\ raced \subseteq raced'
        /\ w' = w \/ w' = "sleep"
    BY DEF Begin, Flag, IngestRequest, RecordAnswer, End
  <1>2. Waiting' = Waiting /\ Known' = Known /\ OnePlace' /\ OneCardPerAnswer'
    BY <1>1, PlacesAside DEF CardInv
  <1>3. /\ req \in [Requests -> [step : {"none", "counted", "flagged", "asked", "recorded", "queued"},
                                answer : Answer \cup {NoAnswer}]]
        /\ shown \in [Chats -> [Positions -> 0..MaxRequests]] /\ sent \in Nat
        /\ \A q \in InFlight : req[q].answer \in Answer
    BY DEF TypeOK, Shape
  <1>4. CASE Begin(r)
    <2>1. PICK a \in Answer : /\ req' = [req EXCEPT ![r] = [step |-> "counted", answer |-> a]]
                              /\ a.ver = sent + 1 /\ req[r].step = "none"
      <3>1. PICK c \in Chats, p \in Positions :
              req' = [req EXCEPT ![r] = [step |-> "counted",
                                         answer |-> [chat |-> c, pos |-> p, ver |-> sent + 1]]]
        BY <1>4 DEF Begin
      <3>2. sent + 1 \in 1..MaxRequests /\ req[r].step = "none"
        BY <1>3, <1>4 DEF Begin, At, IndexerConstants
      <3>3. [chat |-> c, pos |-> p, ver |-> sent + 1] \in Answer
        BY <3>2 DEF Answer
      <3> QED
        BY <3>1, <3>2, <3>3
    <2>2. sent' = sent + 1 /\ shown' = shown /\ raced' = raced /\ w' = w
      BY <1>4 DEF Begin
    <2>3. \A b \in Known : b.ver \in Nat /\ b.ver <= sent
      BY KnownAreAnswers DEF CardInv, Numbered, Answer
    <2>4. \A q \in Requests : req'[q] = IF q = r THEN [step |-> "counted", answer |-> a] ELSE req[q]
      BY <1>3, <2>1
    <2>5. \A q \in InFlight : q # r /\ req[q].answer.ver \in Nat /\ req[q].answer.ver <= sent
      BY <1>3, <2>1 DEF InFlight, CardInv, Numbered, Answer
    <2>6. \A c \in Chats, p \in Positions : shown[c][p] \in Nat /\ shown[c][p] <= sent
      BY <1>3 DEF CardInv, Numbered, IndexerConstants
    <2>7. a.chat \in Chats /\ a.pos \in Positions
      BY DEF Answer
    <2>8. Numbered'
      <3>1. InFlight' = InFlight \cup {r}
        BY <2>4 DEF InFlight
      <3>2. \A q \in InFlight : req'[q] = req[q]
        BY <2>4, <2>5 DEF InFlight
      <3>3. req'[r].answer = a
        BY <2>4
      <3>4. \A q \in InFlight' : req'[q].answer.ver <= sent'
        BY <1>3, <2>1, <2>2, <2>5, <3>1, <3>2, <3>3
      <3>5. \A q, s \in InFlight' : q # s => req'[q].answer.ver # req'[s].answer.ver
        BY <1>3, <2>1, <2>5, <3>1, <3>2, <3>3 DEF CardInv, Numbered
      <3>6. \A c \in Chats, p \in Positions : shown'[c][p] <= sent'
        BY <1>3, <2>2, <2>6
      <3>7. \A b \in Known' : b.ver <= sent'
        BY <1>2, <1>3, <2>2, <2>3
      <3> QED
        BY <3>4, <3>5, <3>6, <3>7 DEF Numbered
    <2>9. NotYetKnown'
      <3>1. a \notin Known /\ shown[a.chat][a.pos] # a.ver
        BY <1>3, <2>1, <2>3, <2>6, <2>7
      <3> QED
        BY <1>2, <2>2, <2>4, <3>1 DEF CardInv, NotYetKnown
    <2>10. ScanApart'
      BY <1>1, <1>2, <2>2, <2>4 DEF CardInv, ScanApart
    <2> QED
      BY <1>2, <2>8, <2>9, <2>10 DEF CardInv
  <1>5. ASSUME ~Begin(r)
        PROVE  /\ sent' = sent
               /\ \A q \in Requests : req'[q].step # "none" =>
                     req[q].step # "none" /\ req'[q].answer = req[q].answer
    BY <1>3, <1>5 DEF Flag, IngestRequest, RecordAnswer, End, At, Go, Free
  <1>6. ASSUME ~Begin(r), \A c \in Chats, p \in Positions : shown'[c][p] <= sent
        PROVE  Numbered'
    <2>1. \A q \in InFlight' : q \in InFlight /\ req'[q].answer = req[q].answer
      BY <1>5, <1>6 DEF InFlight
    <2> QED
      BY <1>2, <1>5, <1>6, <2>1 DEF CardInv, Numbered
  <1>7. CASE Flag(r) \/ End(r)
    <2>1. shown' = shown /\ raced' = raced /\ ~Begin(r)
      BY <1>3, <1>7 DEF Flag, End, Begin, At
    <2>2. Numbered'
      BY <1>6, <2>1 DEF CardInv, Numbered
    <2>3. \A q \in Requests :
            /\ req'[q].step \in {"counted", "flagged", "asked"} =>
                  req[q].step \in {"counted", "flagged", "asked"} /\ req'[q].answer = req[q].answer
            /\ req'[q].step = "recorded" => req[q].step = "recorded" /\ req'[q].answer = req[q].answer
      BY <1>3, <1>7 DEF Flag, End, At, Go, Free
    <2>4. NotYetKnown'
      BY <1>2, <2>1, <2>3 DEF CardInv, NotYetKnown
    <2>5. ScanApart'
      BY <1>1, <1>2, <2>1, <2>3 DEF CardInv, ScanApart
    <2> QED
      BY <1>2, <2>2, <2>4, <2>5 DEF CardInv
  <1>8. CASE IngestRequest(r)
    <2>1. raced' = raced /\ ~Begin(r) /\ req[r].step = "flagged" /\ w' = w
          /\ req' = [req EXCEPT ![r].step = "asked"]
      BY <1>8 DEF IngestRequest, Begin, At, Go
    <2>2. \A c \in Chats, p \in Positions : shown'[c][p] \in {0, shown[c][p]}
      BY <1>3, <1>8 DEF IngestRequest
    <2>3. Numbered'
      BY <1>3, <1>6, <2>1, <2>2 DEF CardInv, Numbered
    <2>4. \A q \in Requests :
            /\ req'[q].answer = req[q].answer
            /\ req'[q].step \in {"counted", "flagged", "asked"} =>
                  req[q].step \in {"counted", "flagged", "asked"} /\ req[q].answer \in Answer
            /\ req'[q].step = "recorded" => req[q].step = "recorded"
      BY <1>3, <2>1 DEF InFlight
    <2>5. NotYetKnown'
      <3>1. \A q \in Requests : req'[q].step \in {"counted", "flagged", "asked"} =>
              /\ req[q].answer.chat \in Chats /\ req[q].answer.pos \in Positions
              /\ req[q].answer.ver # 0
        BY <2>4 DEF Answer, IndexerConstants
      <3> QED
        BY <1>2, <2>1, <2>2, <2>4, <3>1 DEF CardInv, NotYetKnown
    <2>6. ScanApart'
      BY <1>1, <1>2, <2>1, <2>4 DEF CardInv, ScanApart
    <2> QED
      BY <1>2, <2>3, <2>5, <2>6 DEF CardInv
  <1>9. CASE RecordAnswer(r)
    <2> DEFINE a == req[r].answer
    <2>1. ~Begin(r) /\ req[r].step = "asked" /\ w' = w
          /\ raced' = (IF w = "scan" THEN raced \cup {a} ELSE raced)
          /\ req' = [req EXCEPT ![r].step = "recorded"]
      BY <1>9 DEF RecordAnswer, Begin, At, Go
    <2>2. a \in Answer /\ a.chat \in Chats /\ a.pos \in Positions /\ r \in InFlight
      BY <1>3, <2>1 DEF InFlight, Answer
    <2>3. \A c \in Chats, p \in Positions :
            shown'[c][p] = IF c = a.chat /\ p = a.pos THEN a.ver ELSE shown[c][p]
      BY <1>3, <1>9, <2>2 DEF RecordAnswer
    <2>4. Numbered'
      <3>1. a.ver <= sent
        BY <2>2 DEF CardInv, Numbered
      <3>2. \A c \in Chats, p \in Positions : shown'[c][p] <= sent
        BY <2>3, <3>1 DEF CardInv, Numbered
      <3> QED
        BY <1>6, <2>1, <3>2
    <2>5. \A q \in Requests :
            /\ req'[q].answer = req[q].answer
            /\ q # r => req'[q].step = req[q].step
      BY <1>3, <2>1
    <2>6. NotYetKnown'
      <3>1. a \notin Known
        BY <2>1 DEF CardInv, NotYetKnown
      <3>2. ASSUME NEW q \in Requests, q # r, req[q].step \in {"counted", "flagged", "asked"}
            PROVE  shown'[req[q].answer.chat][req[q].answer.pos] # req[q].answer.ver
        <4>1. q \in InFlight /\ req[q].answer.chat \in Chats /\ req[q].answer.pos \in Positions
          BY <1>3, <3>2 DEF InFlight, Answer
        <4>2. req[q].answer.ver # a.ver
          BY <2>2, <3>2, <4>1 DEF CardInv, Numbered
        <4> QED
          BY <2>3, <3>2, <4>1, <4>2 DEF CardInv, NotYetKnown
      <3>3. \A q \in Requests : q # r =>
              /\ req[q].step \in {"counted", "flagged", "asked"} => req[q].answer \notin Known
              /\ req[q].step = "recorded" => req[q].answer \notin Known \/ req[q].answer \in raced'
        BY <1>1 DEF CardInv, NotYetKnown
      <3>4. req'[r].step = "recorded"
        BY <1>3, <2>1
      <3> QED
        BY <1>2, <2>5, <3>1, <3>2, <3>3, <3>4 DEF NotYetKnown
    <2>7. ScanApart'
      <3>1. w = "scan" => a \in raced'
        BY <2>1
      <3> QED
        BY <1>1, <1>2, <2>1, <2>5, <3>1 DEF CardInv, ScanApart
    <2> QED
      BY <1>2, <2>4, <2>6, <2>7 DEF CardInv
  <1> QED
    BY <1>4, <1>7, <1>8, <1>9

\* The request hands its answer over: its hot job joins the queue.
LEMMA CardEnqueue ==
    ASSUME IndexerConstants, TypeOK, Shape, CardInv, NEW r \in Requests, Enqueue(r)
    PROVE  CardInv'
  <1> USE DEF logVars, workerVars, history
  <1> DEFINE a == req[r].answer
             n == Len(queue') - 1
  <1>1. UNCHANGED <<sent, shown, cards, job, scan, w, raced>>
    BY DEF Enqueue
  <1>2. /\ req \in [Requests -> [step : {"none", "counted", "flagged", "asked", "recorded", "queued"},
                                answer : Answer \cup {NoAnswer}]]
        /\ req[r].step = "recorded" /\ req' = [req EXCEPT ![r].step = "queued"]
        /\ a \in Answer /\ r \in InFlight
    BY DEF Enqueue, At, Go, TypeOK, Shape, InFlight
  <1>3. a \notin Known \/ a \in raced
    BY <1>2 DEF CardInv, NotYetKnown
  <1>4. /\ Len(queue') \in Nat \ {0} /\ Of(queue'[n + 1]) = a /\ n \in Nat
        /\ DOMAIN queue' = 1..(n + 1)
    BY EnqueuedJobs
  <1>5. PICK f \in [1..n -> DOMAIN queue] :
          /\ \A k \in 1..n : queue'[k] = queue[f[k]]
          /\ \A k, l \in 1..n : k # l => f[k] # f[l]
    BY EnqueuedJobs
  <1>6. \A k \in 1..n : Of(queue'[k]) \in Waiting
    BY <1>5 DEF Waiting
  <1>7. Waiting' \subseteq Waiting \cup {a}
    BY <1>4, <1>6 DEF Waiting
  <1>8. Found' = Found /\ Running' = Running /\ Described' = Described
    BY <1>1 DEF Found, Running, Described
  <1>9. Known' \subseteq Known \cup {a}
    BY <1>7, <1>8 DEF Known
  <1>10. \A q \in Requests :
           /\ req'[q].answer = req[q].answer
           /\ q # r => req'[q].step = req[q].step
    BY <1>2
  <1>11. req'[r].step = "queued"
    BY <1>2
  <1>12. Numbered'
    <2>1. InFlight' = InFlight
      BY <1>2, <1>10, <1>11 DEF InFlight
    <2>2. a.ver <= sent
      BY <1>2 DEF CardInv, Numbered
    <2> QED
      BY <1>1, <1>9, <1>10, <2>1, <2>2 DEF CardInv, Numbered, InFlight
  <1>13. NotYetKnown'
    <2>1. ASSUME NEW q \in Requests, q # r, req[q].step # "none"
          PROVE  req[q].answer # a
      BY <1>2, <2>1 DEF CardInv, Numbered, InFlight
    <2>2. ASSUME NEW q \in Requests, req'[q].step \in {"counted", "flagged", "asked", "recorded"}
          PROVE  q # r /\ req[q].step = req'[q].step /\ req'[q].answer = req[q].answer
                 /\ (req[q].answer \in Known' => req[q].answer \in Known)
      BY <1>9, <1>10, <1>11, <2>1, <2>2
    <2> QED
      BY <1>1, <2>2 DEF CardInv, NotYetKnown
  <1>14. OnePlace'
    <2>1. ASSUME NEW i \in DOMAIN queue', NEW k \in DOMAIN queue', i < k, Of(queue'[i]) = Of(queue'[k])
          PROVE  Of(queue'[i]) \in raced
      <3>1. i \in 1..n
        BY <1>4, <2>1
      <3>2. CASE k = n + 1
        BY <1>3, <1>4, <1>6, <2>1, <3>1, <3>2 DEF Known
      <3>3. CASE k # n + 1
        <4>1. k \in 1..n
          BY <1>4, <3>3
        <4> QED
          BY <1>5, <2>1, <3>1, <4>1 DEF CardInv, OnePlace
      <3> QED
        BY <3>2, <3>3
    <2>2. \A i, k \in DOMAIN queue' : i # k => i < k \/ k < i
      BY <1>4
    <2>3. \A i, k \in DOMAIN queue' : i # k /\ Of(queue'[i]) = Of(queue'[k]) => Of(queue'[i]) \in raced
      BY <2>1, <2>2
    <2>4. \A b \in Answer : b \in Waiting' /\ b \in Running \cup Described => b \in raced
      BY <1>3, <1>7 DEF CardInv, OnePlace, Known
    <2> QED
      BY <1>1, <1>8, <2>3, <2>4 DEF CardInv, OnePlace
  <1>15. ScanApart'
    <2>1. w = "scan" => a \in raced
      BY <1>2 DEF CardInv, ScanApart
    <2>2. w = "scan" => Waiting' \subseteq raced
      BY <1>7, <2>1 DEF CardInv, ScanApart
    <2>3. \A q \in Requests : req'[q].step = "recorded" => req[q].step = "recorded"
      BY <1>10, <1>11
    <2> QED
      BY <1>1, <1>10, <2>2, <2>3 DEF CardInv, ScanApart
  <1>16. OneCardPerAnswer'
    BY <1>1 DEF CardInv, OneCardPerAnswer
  <1> QED
    BY <1>12, <1>13, <1>14, <1>15, <1>16 DEF CardInv

\* A step that tells no request from another, gives the worker no new answer,
\* and leaves the answers in the logs alone.
LEMMA CardNoNews ==
    ASSUME UNCHANGED <<req, sent, shown, raced>>, Known' \subseteq Known, CardInv
    PROVE  Numbered' /\ NotYetKnown'
  <1>1. Numbered'
    BY DEF CardInv, Numbered, InFlight
  <1>2. NotYetKnown'
    BY DEF CardInv, NotYetKnown
  <1> QED
    BY <1>1, <1>2

\* The worker's own steps: nothing is taken, found or written.
LEMMA CardIdle ==
    ASSUME TypeOK, Shape, CardInv,
           TimePasses \/ Wake \/ WakeByTime \/ ScanQueue \/ Ready \/ Publish \/ UNCHANGED vars
    PROVE  CardInv'
  <1> USE DEF logVars, workerVars, history, requestVars
  <1>1. UNCHANGED <<req, sent, shown, raced, queue, job, cards>>
    BY DEF TimePasses, Wake, WakeByTime, ScanQueue, Ready, Publish, vars
  <1>2. scan'.jobs = scan.jobs
    <2>1. CASE ScanQueue
      BY <2>1 DEF ScanQueue, Shape, NoScan
    <2>2. CASE ~ScanQueue
      BY <2>2 DEF TimePasses, Wake, WakeByTime, Ready, Publish, vars
    <2> QED
      BY <2>1, <2>2
  <1>3. Waiting' = Waiting /\ Known' = Known /\ OnePlace' /\ OneCardPerAnswer'
    BY <1>1, <1>2, PlacesAside DEF CardInv
  <1>4. Numbered' /\ NotYetKnown'
    BY <1>1, <1>3, CardNoNews
  <1>5. ScanApart'
    <2>1. CASE WakeByTime
      <3>1. CASE w' = "scan"
        <4>1. queue = <<>> /\ InFlight = {} /\ scan = NoScan /\ scan' = scan
          BY <2>1, <3>1 DEF WakeByTime, Shape
        <4>2. DOMAIN queue = {} /\ DOMAIN scan'.jobs = {}
          BY <4>1 DEF NoScan
        <4>3. Waiting' = {}
          BY <1>3, <4>2 DEF Waiting
        <4> QED
          BY <1>1, <4>1, <4>2, <4>3 DEF ScanApart, InFlight
      <3>2. CASE w' # "scan"
        BY <3>2 DEF ScanApart
      <3> QED
        BY <3>1, <3>2
    <2>2. CASE ScanQueue
      <3>1. w = "scan" /\ scan'.jobs = <<>>
        BY <2>2 DEF ScanQueue
      <3>2. DOMAIN scan'.jobs = {}
        BY <3>1
      <3> QED
        BY <1>1, <1>3, <3>1, <3>2 DEF CardInv, ScanApart
    <2>3. CASE ~WakeByTime /\ ~ScanQueue
      <3>1. (w' = "scan" => w = "scan") /\ scan' = scan
        BY <2>3 DEF TimePasses, Wake, Ready, Publish, vars
      <3> QED
        BY <1>1, <1>3, <3>1 DEF CardInv, ScanApart
    <2> QED
      BY <2>1, <2>2, <2>3
  <1> QED
    BY <1>3, <1>4, <1>5 DEF CardInv

\* A job is given up, or runs on.
LEMMA CardRun ==
    ASSUME TypeOK, Shape, CardInv, GiveUp \/ Reply
    PROVE  CardInv'
  <1> USE DEF logVars, workerVars, history, requestVars
  <1>1. /\ UNCHANGED <<req, sent, shown, raced, queue, scan, cards>>
        /\ (job' = job \/ job' = None) /\ w' # "scan"
    BY DEF GiveUp, Reply
  <1>2. Running' \subseteq Running /\ Waiting' = Waiting /\ Found' = Found /\ Described' = Described
    BY <1>1 DEF Running, Waiting, Found, Described
  <1>3. Known' \subseteq Known
    BY <1>2 DEF Known
  <1>4. OnePlace'
    BY <1>1, <1>2 DEF CardInv, OnePlace
  <1>5. OneCardPerAnswer' /\ ScanApart'
    BY <1>1 DEF CardInv, OneCardPerAnswer, ScanApart
  <1> QED
    BY <1>1, <1>3, <1>4, <1>5, CardNoNews DEF CardInv

\* The worker takes the first job of the queue.
LEMMA CardPop ==
    ASSUME TypeOK, Shape, CardInv, Pop
    PROVE  CardInv'
  <1> USE DEF logVars, workerVars, history, requestVars
  <1>1. UNCHANGED <<req, sent, shown, raced, scan, cards>> /\ w' # "scan"
    BY DEF Pop
  <1>2. CASE queue' = queue /\ job' = job
    <2>1. Waiting' = Waiting /\ Known' = Known /\ OnePlace' /\ OneCardPerAnswer'
      BY <1>1, <1>2, PlacesAside DEF CardInv
    <2>2. ScanApart'
      BY <1>1 DEF ScanApart
    <2> QED
      BY <1>1, <2>1, <2>2, CardNoNews DEF CardInv
  <1>3. CASE queue # <<>> /\ job' = Head(queue) /\ queue' = Tail(queue)
    <2>1. /\ queue \in Seq(Job) /\ Len(queue) \in Nat \ {0} /\ DOMAIN queue = 1..Len(queue)
          /\ DOMAIN queue' = 1..(Len(queue) - 1)
          /\ \A i \in DOMAIN queue' : i + 1 \in DOMAIN queue /\ queue'[i] = queue[i + 1]
          /\ job' = queue[1] /\ 1 \in DOMAIN queue
      <3>1. queue \in Seq(Job)
        BY DEF TypeOK
      <3>2. /\ Tail(queue) \in Seq(Job) /\ Len(Tail(queue)) = Len(queue) - 1
            /\ \A i \in 1..Len(Tail(queue)) : Tail(queue)[i] = queue[i + 1]
        BY <1>3, <3>1, HeadTailProperties
      <3>3. Len(queue) \in Nat \ {0} /\ Head(queue) = queue[1]
        BY <1>3, <3>1, EmptySeq
      <3> QED
        BY <1>3, <3>1, <3>2, <3>3
    <2>2. Waiting' \subseteq Waiting /\ Running' \subseteq {Of(queue[1])} /\ Of(queue[1]) \in Waiting
      BY <2>1 DEF Waiting, Running
    <2>3. Found' = Found /\ Described' = Described
      BY <1>1 DEF Found, Described
    <2>4. Known' \subseteq Known
      BY <2>2, <2>3 DEF Known
    <2>5. OnePlace'
      <3>1. \A i, k \in DOMAIN queue' : i # k /\ Of(queue'[i]) = Of(queue'[k]) => Of(queue'[i]) \in raced
        <4>1. ASSUME NEW i \in DOMAIN queue', NEW k \in DOMAIN queue', i # k
              PROVE  i + 1 # k + 1
          BY <2>1, <4>1
        <4> QED
          BY <2>1, <4>1 DEF CardInv, OnePlace
      <3>2. \A b \in Waiting' \cap Running' : b \in raced
        <4>1. ASSUME NEW i \in DOMAIN queue', Of(queue'[i]) = Of(queue[1])
              PROVE  Of(queue[1]) \in raced
          <5>1. i + 1 # 1
            BY <2>1, <4>1
          <5> QED
            BY <2>1, <4>1, <5>1 DEF CardInv, OnePlace
        <4> QED
          BY <2>2, <4>1 DEF Waiting
      <3>3. \A b \in Answer : b \in (Waiting' \cup Running') /\ b \in Described' => b \in raced
        BY <2>2, <2>3 DEF CardInv, OnePlace
      <3> QED
        BY <1>1, <3>1, <3>2, <3>3 DEF OnePlace
    <2>6. OneCardPerAnswer' /\ ScanApart'
      BY <1>1 DEF CardInv, OneCardPerAnswer, ScanApart
    <2> QED
      BY <1>1, <2>4, <2>5, <2>6, CardNoNews DEF CardInv
  <1> QED
    BY <1>2, <1>3 DEF Pop

\* The card is written.
LEMMA CardWrite ==
    ASSUME IndexerConstants, TypeOK, Shape, CardInv, WriteCard
    PROVE  CardInv'
  <1> USE DEF logVars, workerVars, history, requestVars
  <1>1. UNCHANGED <<req, sent, shown, raced, scan, queue>> /\ w' # "scan" /\ job' = None
    BY DEF WriteCard
  <1>2. job \in Job /\ job # None
    BY DEF WriteCard, TypeOK, IndexerConstants
  <1> DEFINE c == job.chat
             p == job.pos
  <1>3. c \in Chats /\ p \in Positions /\ job.ver \in 1..MaxRequests /\ Of(job) \in Running
    BY <1>2 DEF Job, Running
  <1>4. \A d \in Chats, q \in Positions :
          cards'[d][q] = IF d = c /\ q = p THEN Append(cards[c][p], job.ver) ELSE cards[d][q]
    BY <1>3 DEF WriteCard, TypeOK
  <1>5. /\ cards[c][p] \in Seq(1..MaxRequests) /\ Len(cards[c][p]) \in Nat
        /\ DOMAIN cards[c][p] = 1..Len(cards[c][p])
        /\ DOMAIN cards'[c][p] = 1..(Len(cards[c][p]) + 1)
        /\ \A i \in 1..Len(cards[c][p]) : cards'[c][p][i] = cards[c][p][i]
        /\ cards'[c][p][Len(cards[c][p]) + 1] = job.ver
    <2>1. cards[c][p] \in Seq(1..MaxRequests)
      BY <1>3 DEF TypeOK
    <2>2. cards'[c][p] = Append(cards[c][p], job.ver)
      BY <1>3, <1>4
    <2> QED
      BY <1>3, <2>1, <2>2, AppendProperties
  <1>6. Waiting' = Waiting /\ Found' = Found /\ Running' = {}
    BY <1>1 DEF Waiting, Found, Running
  <1>7. Described' \subseteq Described \cup {Of(job)}
    <2> SUFFICES ASSUME NEW b \in Answer, NEW i \in DOMAIN cards'[b.chat][b.pos],
                        cards'[b.chat][b.pos][i] = b.ver
                 PROVE  b \in Described \cup {Of(job)}
      BY DEF Described
    <2>1. b.chat \in Chats /\ b.pos \in Positions
          /\ b = [chat |-> b.chat, pos |-> b.pos, ver |-> b.ver]
      BY DEF Answer
    <2>2. CASE b.chat = c /\ b.pos = p
      <3>1. CASE i = Len(cards[c][p]) + 1
        BY <1>5, <2>1, <2>2, <3>1 DEF Of
      <3>2. CASE i # Len(cards[c][p]) + 1
        <4>1. i \in DOMAIN cards[b.chat][b.pos]
          <5>1. i \in 1..(Len(cards[c][p]) + 1) /\ Len(cards[c][p]) \in Nat
            BY <1>5, <2>2
          <5>2. i \in 1..Len(cards[c][p])
            BY <3>2, <5>1
          <5> QED
            BY <1>5, <2>2, <5>2
        <4>2. cards[b.chat][b.pos][i] = b.ver
          BY <1>5, <2>2, <4>1
        <4> QED
          BY <4>1, <4>2 DEF Described
      <3> QED
        BY <3>1, <3>2
    <2>3. CASE ~(b.chat = c /\ b.pos = p)
      BY <1>4, <2>1, <2>3 DEF Described
    <2> QED
      BY <2>2, <2>3
  <1>8. Known' \subseteq Known
    BY <1>3, <1>6, <1>7 DEF Known
  <1>9. OnePlace'
    BY <1>1, <1>3, <1>6, <1>7 DEF CardInv, OnePlace
  <1>10. OneCardPerAnswer'
    <2> SUFFICES ASSUME NEW d \in Chats, NEW q \in Positions,
                        NEW i \in DOMAIN cards'[d][q], NEW k \in DOMAIN cards'[d][q],
                        i # k, cards'[d][q][i] = cards'[d][q][k]
                 PROVE  [chat |-> d, pos |-> q, ver |-> cards'[d][q][i]] \in raced
      BY <1>1 DEF OneCardPerAnswer
    <2>1. CASE ~(d = c /\ q = p)
      BY <1>4, <2>1 DEF CardInv, OneCardPerAnswer
    <2>2. CASE d = c /\ q = p
      <3>1. ASSUME NEW j \in 1..Len(cards[c][p]), cards[c][p][j] = job.ver
            PROVE  Of(job) \in raced
        <4>1. Of(job) \in Answer /\ Of(job) \in Described
          BY <1>3, <1>5, <3>1 DEF Of, Answer, Described
        <4> QED
          BY <1>3, <4>1 DEF CardInv, OnePlace
      <3>2. CASE i \in 1..Len(cards[c][p]) /\ k \in 1..Len(cards[c][p])
        BY <1>3, <1>5, <2>2, <3>2 DEF CardInv, OneCardPerAnswer
      <3>3. CASE ~(i \in 1..Len(cards[c][p]) /\ k \in 1..Len(cards[c][p]))
        <4>1. \/ i = Len(cards[c][p]) + 1 /\ k \in 1..Len(cards[c][p])
              \/ k = Len(cards[c][p]) + 1 /\ i \in 1..Len(cards[c][p])
          <5>1. i \in 1..(Len(cards[c][p]) + 1) /\ k \in 1..(Len(cards[c][p]) + 1)
            BY <1>5, <2>2
          <5>2. Len(cards[c][p]) \in Nat
            BY <1>5
          <5> QED
            BY <3>3, <5>1, <5>2
        <4> QED
          BY <1>5, <2>2, <3>1, <4>1 DEF Of
      <3> QED
        BY <3>2, <3>3
    <2> QED
      BY <2>1, <2>2
  <1>11. ScanApart'
    BY <1>1 DEF ScanApart
  <1> QED
    BY <1>1, <1>8, <1>9, <1>10, <1>11, CardNoNews DEF CardInv

\* The scan looks through the log of a chat.
LEMMA CardScan ==
    ASSUME IndexerConstants, TypeOK, Shape, CardInv, ScanChat
    PROVE  CardInv'
  <1> USE DEF logVars, workerVars, history, requestVars
  <1>1. UNCHANGED <<req, sent, shown, raced, queue, job, w, cards>> /\ w = "scan"
    BY DEF ScanChat
  <1>2. PICK c \in scan.left, new \in Seq(Job) :
          /\ scan'.jobs = scan.jobs \o new /\ c \notin scan'.left /\ scan'.left \subseteq scan.left
          /\ \A k \in DOMAIN new : /\ new[k].chat = c /\ new[k].pos \in Unindexed(c)
                                   /\ new[k].ver = shown[c][new[k].pos]
          /\ \A k, l \in DOMAIN new : k # l => new[k].pos # new[l].pos
    BY ScannedJobs
  <1>3. c \in Chats
    BY DEF Shape
  <1> DEFINE n == Len(scan.jobs)
  <1>4. /\ n \in Nat /\ Len(new) \in Nat /\ DOMAIN scan.jobs = 1..n /\ DOMAIN new = 1..Len(new)
        /\ DOMAIN scan'.jobs = 1..(n + Len(new))
        /\ \A i \in 1..(n + Len(new)) : scan'.jobs[i] = IF i <= n THEN scan.jobs[i] ELSE new[i - n]
    <2>1. scan.jobs \in Seq(Job)
      BY DEF TypeOK
    <2>2. scan'.jobs \in Seq(Job) /\ Len(scan'.jobs) = n + Len(new)
      BY <1>2, <2>1, ConcatProperties
    <2>3. \A i \in 1..(n + Len(new)) : scan'.jobs[i] = IF i <= n THEN scan.jobs[i] ELSE new[i - n]
      BY <1>2, <2>1, ConcatProperties
    <2> QED
      BY <2>1, <2>2, <2>3
  <1> HIDE DEF n
  <1>5. \A i \in DOMAIN scan'.jobs :
          \/ i \in DOMAIN scan.jobs /\ scan'.jobs[i] = scan.jobs[i]
          \/ i - n \in DOMAIN new /\ scan'.jobs[i] = new[i - n]
    BY <1>4
  <1>6. \A k \in DOMAIN new : /\ new[k].chat = c /\ new[k].pos \in Positions
                             /\ new[k].ver = shown[c][new[k].pos] /\ cards[c][new[k].pos] = <<>>
    BY <1>2 DEF Unindexed, Done
  <1>7. Waiting' = Waiting /\ Running' = Running /\ Described' = Described
    BY <1>1 DEF Waiting, Running, Described
  <1>8. Found' \subseteq Found \cup {Of(new[k]) : k \in DOMAIN new}
    BY <1>5 DEF Found
  <1>9. Numbered'
    <2>1. \A k \in DOMAIN new : Of(new[k]).ver <= sent
      BY <1>3, <1>6 DEF CardInv, Numbered, Of
    <2>2. \A b \in Known' : b.ver <= sent
      BY <1>7, <1>8, <2>1 DEF CardInv, Numbered, Known
    <2> QED
      BY <1>1, <2>2 DEF CardInv, Numbered, InFlight
  <1>10. NotYetKnown'
    <2>1. ASSUME NEW q \in Requests, req[q].step \in {"counted", "flagged", "asked"}
          PROVE  req[q].answer \notin Known'
      <3>1. \A k \in DOMAIN new : Of(new[k]) # req[q].answer
        <4>1. shown[req[q].answer.chat][req[q].answer.pos] # req[q].answer.ver
          BY <2>1 DEF CardInv, NotYetKnown
        <4> QED
          BY <1>6, <4>1 DEF Of
      <3>2. req[q].answer \notin Known
        BY <2>1 DEF CardInv, NotYetKnown
      <3> QED
        BY <1>7, <1>8, <3>1, <3>2 DEF Known
    <2>2. \A q \in Requests : req[q].step = "recorded" => req[q].answer \in raced
      BY <1>1 DEF CardInv, ScanApart
    <2> QED
      BY <1>1, <2>1, <2>2 DEF CardInv, NotYetKnown
  <1>11. OnePlace' /\ OneCardPerAnswer'
    BY <1>1, <1>7 DEF CardInv, OnePlace, OneCardPerAnswer
  <1>12. ScanApart'
    <2>1. \A i \in DOMAIN scan'.jobs : /\ scan'.jobs[i].chat \notin scan'.left
                                      /\ cards[scan'.jobs[i].chat][scan'.jobs[i].pos] = <<>>
      BY <1>1, <1>2, <1>5, <1>6 DEF CardInv, ScanApart
    <2>2. ASSUME NEW i \in DOMAIN scan'.jobs, NEW k \in DOMAIN scan'.jobs, i # k
          PROVE  Of(scan'.jobs[i]) # Of(scan'.jobs[k])
      <3>1. CASE i \in DOMAIN scan.jobs /\ k \in DOMAIN scan.jobs
        BY <1>1, <1>4, <2>2, <3>1 DEF CardInv, ScanApart
      <3>2. CASE i \notin DOMAIN scan.jobs /\ k \notin DOMAIN scan.jobs
        <4>1. i - n # k - n
          BY <1>4, <2>2
        <4>2. i - n \in DOMAIN new /\ k - n \in DOMAIN new
              /\ scan'.jobs[i] = new[i - n] /\ scan'.jobs[k] = new[k - n]
          BY <1>5, <3>2
        <4> QED
          BY <1>2, <4>1, <4>2 DEF Of
      <3>3. ASSUME NEW j \in DOMAIN scan.jobs, NEW l \in DOMAIN new
            PROVE  Of(scan.jobs[j]) # Of(new[l])
        <4>1. scan.jobs[j].chat # c
          BY <1>1 DEF CardInv, ScanApart
        <4> QED
          BY <1>6, <4>1 DEF Of
      <3> QED
        BY <1>4, <1>5, <3>1, <3>2, <3>3
    <2> QED
      BY <1>1, <1>7, <2>1, <2>2 DEF CardInv, ScanApart
  <1> QED
    BY <1>9, <1>10, <1>11, <1>12 DEF CardInv

\* What the scan found joins the queue.
LEMMA CardScanEnd ==
    ASSUME TypeOK, Shape, CardInv, ScanEnd
    PROVE  CardInv'
  <1> USE DEF logVars, workerVars, history, requestVars
  <1>1. UNCHANGED <<req, sent, shown, raced, job, cards>> /\ w = "scan" /\ w' # "scan" /\ job = None
        /\ scan'.jobs = <<>>
    BY DEF ScanEnd, TypeOK, NoScan
  <1> DEFINE n == Len(queue)
             m == Len(scan.jobs)
  <1>2. /\ n \in Nat /\ m \in Nat /\ DOMAIN queue = 1..n /\ DOMAIN scan.jobs = 1..m
        /\ DOMAIN queue' = 1..(n + m)
        /\ \A i \in 1..(n + m) : queue'[i] = IF i <= n THEN queue[i] ELSE scan.jobs[i - n]
    <2>1. scan.jobs \in Seq(Job) /\ queue \in Seq(Job) /\ queue' = queue \o scan.jobs
      BY DEF TypeOK, ScanEnd
    <2>2. queue' \in Seq(Job) /\ Len(queue') = n + m
      BY <2>1, ConcatProperties
    <2>3. \A i \in 1..(n + m) : queue'[i] = IF i <= n THEN queue[i] ELSE scan.jobs[i - n]
      BY <2>1, ConcatProperties
    <2> QED
      BY <2>1, <2>2, <2>3
  <1> HIDE DEF n, m
  <1>3. \A i \in DOMAIN queue' :
          \/ i \in DOMAIN queue /\ queue'[i] = queue[i]
          \/ i - n \in DOMAIN scan.jobs /\ queue'[i] = scan.jobs[i - n]
    BY <1>2
  <1>4. Waiting' \subseteq Waiting \cup Found /\ Waiting \subseteq raced
    BY <1>1, <1>3 DEF Waiting, Found, CardInv, ScanApart
  <1>5. Running' = {} /\ Described' = Described /\ Found' = {}
    BY <1>1 DEF Running, Described, Found
  <1>6. Known' \subseteq Known
    BY <1>4, <1>5 DEF Known
  <1>7. OnePlace'
    <2>1. ASSUME NEW i \in DOMAIN queue', NEW k \in DOMAIN queue', i # k, Of(queue'[i]) = Of(queue'[k])
          PROVE  Of(queue'[i]) \in raced
      <3>1. CASE i \in DOMAIN queue \/ k \in DOMAIN queue
        <4>1. \A j \in DOMAIN queue : j \in DOMAIN queue' /\ queue'[j] = queue[j] /\ Of(queue[j]) \in raced
          BY <1>2, <1>4 DEF Waiting
        <4> QED
          BY <2>1, <3>1, <4>1
      <3>2. CASE i \notin DOMAIN queue /\ k \notin DOMAIN queue
        <4>1. i - n # k - n
          BY <1>2, <2>1
        <4>2. /\ i - n \in DOMAIN scan.jobs /\ k - n \in DOMAIN scan.jobs
              /\ queue'[i] = scan.jobs[i - n] /\ queue'[k] = scan.jobs[k - n]
          BY <1>3, <3>2
        <4> QED
          BY <1>1, <2>1, <4>1, <4>2 DEF CardInv, ScanApart
      <3> QED
        BY <3>1, <3>2
    <2>2. ASSUME NEW b \in Answer, b \in Waiting', b \in Described
          PROVE  b \in raced
      <3>1. CASE b \in Waiting
        BY <1>4, <3>1
      <3>2. CASE b \in Found
        <4>1. cards[b.chat][b.pos] = <<>>
          BY <1>1, <3>2 DEF Found, Of, CardInv, ScanApart
        <4> QED
          BY <2>2, <4>1 DEF Described
      <3> QED
        BY <1>4, <2>2, <3>1, <3>2
    <2> QED
      BY <1>1, <1>5, <2>1, <2>2 DEF OnePlace
  <1>8. OneCardPerAnswer' /\ ScanApart'
    BY <1>1 DEF CardInv, OneCardPerAnswer, ScanApart
  <1> QED
    BY <1>1, <1>6, <1>7, <1>8, CardNoNews DEF CardInv

\* The process ends: of all places only the cards stay.
LEMMA CardRestart ==
    ASSUME IndexerConstants, TypeOK, Shape, CardInv, Restart
    PROVE  CardInv'
  <1>1. /\ queue' = <<>> /\ job' = None /\ scan'.jobs = <<>> /\ w' = "off"
        /\ sent' = sent /\ raced' = raced /\ sent \in Nat
        /\ \A r \in Requests : req'[r].step = "none"
    BY DEF Restart, NoScan, Free, TypeOK
  <1>2. \A c \in Chats, p \in Positions :
          /\ shown'[c][p] \in {0, shown[c][p]}
          /\ cards'[c][p] \in {<<>>, cards[c][p]}
    BY DEF Restart
  <1>3. Waiting' = {} /\ Found' = {} /\ Running' = {}
    BY <1>1 DEF Waiting, Found, Running
  <1>4. Described' \subseteq Described
    BY <1>2 DEF Described, Answer
  <1>5. Numbered'
    BY <1>1, <1>2, <1>3, <1>4 DEF CardInv, Numbered, InFlight, Known
  <1>6. NotYetKnown' /\ OnePlace' /\ ScanApart'
    BY <1>1, <1>3 DEF NotYetKnown, OnePlace, ScanApart
  <1>7. OneCardPerAnswer'
    BY <1>1, <1>2 DEF CardInv, OneCardPerAnswer
  <1> QED
    BY <1>5, <1>6, <1>7 DEF CardInv

LEMMA CardStep ==
    ASSUME IndexerConstants, TypeOK, Shape, CardInv, [Next]_vars
    PROVE  CardInv'
  BY CardRequest, CardEnqueue, CardIdle, CardRun, CardPop, CardWrite, CardScan, CardScanEnd,
     CardRestart DEF Next, RequestStep, WorkerStep

LEMMA CardInit ==
    ASSUME IndexerConstants, Init
    PROVE  CardInv
  <1>1. Waiting = {} /\ Found = {} /\ Running = {} /\ Described = {}
    BY DEF Init, Waiting, Found, Running, Described, NoScan, Answer
  <1>2. Numbered /\ NotYetKnown
    BY <1>1 DEF Init, Numbered, NotYetKnown, InFlight, Known, Free
  <1>3. OnePlace /\ ScanApart /\ OneCardPerAnswer
    BY <1>1 DEF Init, OnePlace, ScanApart, OneCardPerAnswer, Free
  <1> QED
    BY <1>2, <1>3 DEF CardInv

\* An answer is described once, whatever becomes of its job, unless it was
\* recorded while a scan ran.
THEOREM DescribedOnce ==
    ASSUME IndexerConstants
    PROVE  Spec => []OneCardPerAnswer
  <1>1. Init => TypeOK /\ Shape /\ CardInv
    BY FitsInit, CardInit
  <1>2. TypeOK /\ Shape /\ CardInv /\ [Next]_vars => (TypeOK /\ Shape /\ CardInv)'
    BY FitsStep, CardStep
  <1>3. CardInv => OneCardPerAnswer
    BY DEF CardInv
  <1> QED
    BY <1>1, <1>2, <1>3, PTL DEF Spec
=============================================================================
