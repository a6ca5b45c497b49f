----------------------------- MODULE ChatIndexer -----------------------------
(***************************************************************************)
(* Idle-time cards (api/src/handlers/chat/background.rs): chat requests, the *)
(* job queue, the worker, and the scan of the event logs that finds again    *)
(* the turns without a card. The logs are EventStore's (EventLog); external  *)
(* chats (agents/src/memory/external.rs) have theirs in memory.              *)
(*                                                                         *)
(* Abstracted: a turn is the position of its answer, and an answer the       *)
(* number of its request; a card and a recorded failure are alike, as they   *)
(* are for the scan. Time is whether COLD_IDLE has passed since the last     *)
(* request ended. Episode summaries, which follow the same path as cold      *)
(* jobs, and a policy that allows no cold jobs are left out, and so are      *)
(* chats older than COLD_RECENT_DAYS.                                        *)
(***************************************************************************)
EXTENDS Naturals, Sequences, FiniteSets

CONSTANTS
    Chats,
    External,     \* the chats an app keeps (storage: "external")
    Positions,    \* bound: the answers of a chat
    Requests,     \* chat requests in flight
    ColdBatch,    \* COLD_BATCH
    MaxRequests,  \* bound: the requests of a behaviour
    MaxCrashes,   \* bound: restarts
    None

VARIABLES
    req,       \* the requests: how far, and for which answer
    sent,      \* requests begun; the number of a request names its answer
    shown,     \* the answer at each position of each chat, 0 for none
    cards,     \* the answers the cards of a position describe, oldest first
    external,  \* EXTERNAL: the chats whose events stay in memory
    queue, w, job, stop, permit, quiet, scan,   \* the scheduler and its worker
    crashes,
    beside,    \* history: the jobs that began beside a request unseen by it
    raced      \* history: the answers recorded while a scan ran

requestVars == <<req, sent>>
logVars == <<shown, cards, external>>
workerVars == <<queue, w, job, stop, permit, quiet, scan>>
history == <<crashes, beside, raced>>
vars == <<requestVars, logVars, workerVars, history>>

Answer == [chat : Chats, pos : Positions, ver : 1..MaxRequests]
Job == [chat : Chats, pos : Positions, ver : 1..MaxRequests, cold : BOOLEAN, external : BOOLEAN]
NoAnswer == [chat |-> None, pos |-> 0, ver |-> 0]
NoScan == [step |-> "none", queued |-> {}, left |-> {}, jobs |-> <<>>]
Free == [step |-> "none", answer |-> NoAnswer]

Init ==
    /\ req = [r \in Requests |-> Free] /\ sent = 0
    /\ shown = [c \in Chats |-> [p \in Positions |-> 0]]
    /\ cards = [c \in Chats |-> [p \in Positions |-> <<>>]]
    /\ external = {}
    /\ queue = <<>> /\ w = "off" /\ job = None /\ stop = FALSE
    /\ permit = FALSE /\ quiet = FALSE /\ scan = NoScan
    /\ crashes = 0 /\ beside = [r \in Requests |-> 0] /\ raced = {}

\* The requests Foreground counts.
InFlight == {r \in Requests : req[r].step # "none"}

At(r, step) == req[r].step = step
Go(r, step) == req' = [req EXCEPT ![r].step = step]

-----------------------------------------------------------------------------
(* A chat request.                                                         *)

\* The chat of an app is registered before anything else; then
\* Foreground::begin counts the request.
Begin(r) ==
    /\ At(r, "none") /\ sent < MaxRequests
    /\ \E c \in Chats, p \in Positions :
          /\ req' = [req EXCEPT ![r] = [step |-> "counted",
                                        answer |-> [chat |-> c, pos |-> p, ver |-> sent + 1]]]
          /\ external' = IF c \in External THEN external \cup {c} ELSE external
    /\ sent' = sent + 1
    /\ beside' = [beside EXCEPT ![r] = 0]
    /\ UNCHANGED <<shown, cards, workerVars, crashes, raced>>

\* begin sets the stop flag of the published job; ensure_started.
Flag(r) ==
    /\ At(r, "counted") /\ Go(r, "flagged")
    /\ stop' = (stop \/ w \in {"run", "write"})
    /\ w' = IF w = "off" THEN "sleep" ELSE w
    /\ UNCHANGED <<sent, logVars, queue, job, permit, quiet, scan, history>>

\* ingest_request: the client sent the messages before the answer and no more,
\* so what was logged from there on is retracted.
IngestRequest(r) ==
    LET a == req[r].answer
    IN  /\ At(r, "flagged") /\ Go(r, "asked")
        /\ shown' = [shown EXCEPT ![a.chat] = [p \in Positions |-> IF p >= a.pos THEN 0 ELSE @[p]]]
        /\ UNCHANGED <<sent, cards, external, workerVars, history>>

\* record_turn, first half: the answer is appended to the log.
RecordAnswer(r) ==
    LET a == req[r].answer
    IN  /\ At(r, "asked") /\ Go(r, "recorded")
        /\ shown' = [shown EXCEPT ![a.chat][a.pos] = a.ver]
        /\ raced' = IF w = "scan" THEN raced \cup {a} ELSE raced
        /\ UNCHANGED <<sent, cards, external, workerVars, crashes, beside>>

\* A set of numbers, in order.
Ascending(S) == [k \in 1..Cardinality(S) |->
                    CHOOSE n \in S : Cardinality({m \in S : m <= n}) = k]

\* enqueue: a hot job; one of the same chat that still waits goes.
Enqueue(r) ==
    LET a == req[r].answer
        stay == Ascending({i \in DOMAIN queue : queue[i].cold \/ queue[i].chat # a.chat})
        hot == [chat |-> a.chat, pos |-> a.pos, ver |-> a.ver, cold |-> FALSE,
                external |-> a.chat \in external]
    IN  /\ At(r, "recorded") /\ Go(r, "queued")
        /\ queue' = Append([k \in DOMAIN stay |-> queue[stay[k]]], hot)
        /\ permit' = TRUE
        /\ UNCHANGED <<sent, logVars, w, job, stop, quiet, scan, history>>

\* The request ends, with or without an answer, or with one no job is made for.
End(r) ==
    /\ req[r].step \in {"flagged", "asked", "recorded", "queued"}
    /\ req' = [req EXCEPT ![r] = Free]
    /\ quiet' = FALSE
    /\ permit' = (permit \/ InFlight = {r})
    /\ UNCHANGED <<sent, logVars, queue, w, job, stop, scan, history>>

-----------------------------------------------------------------------------
(* The worker.                                                             *)

\* COLD_IDLE has passed since the last request ended. (The worker looks.)
TimePasses ==
    /\ ~quiet /\ w # "off"
    /\ quiet' = TRUE
    /\ UNCHANGED <<requestVars, logVars, queue, w, job, stop, permit, scan, history>>

Wake ==
    /\ w = "sleep" /\ permit
    /\ permit' = FALSE
    /\ w' = "rest"
    /\ UNCHANGED <<requestVars, logVars, queue, job, stop, quiet, scan, history>>

\* Faulty: a sleep that ends by itself looks for jobs only, never for turns.
WakeWithoutScan ==
    /\ w = "sleep" /\ ~permit
    /\ w' = "rest"
    /\ UNCHANGED <<requestVars, logVars, queue, job, stop, permit, quiet, scan, history>>

\* The sleep ends without a wake-up: a scan, if nothing is queued and it is quiet.
WakeByTime ==
    /\ w = "sleep" /\ ~permit
    /\ w' = IF queue = <<>> /\ quiet /\ InFlight = {} THEN "scan" ELSE "rest"
    /\ UNCHANGED <<requestVars, logVars, queue, job, stop, permit, quiet, scan, history>>

\* scan_unindexed: what is queued, read before the logs
ScanQueue ==
    /\ w = "scan" /\ scan.step = "none"
    /\ scan' = [step |-> "logs", queued |-> {<<queue[i].chat, queue[i].pos>> : i \in DOMAIN queue},
                left |-> Chats \ external, jobs |-> <<>>]
    /\ UNCHANGED <<requestVars, logVars, queue, w, job, stop, permit, quiet, history>>

\* Faulty: a recorded failure does not count, so the turn comes up again.
NoneDone(c, p) == FALSE
\* unindexed_turns: a position with a card, or a failure, is done.
Done(c, p) == cards[c][p] # <<>>

Unindexed(c) == {p \in Positions : shown[c][p] # 0 /\ ~Done(c, p) /\ <<c, p>> \notin scan.queued}

\* One chat's log, oldest turns first, up to the batch.
ScanChat ==
    /\ w = "scan" /\ scan.step = "logs"
    /\ \E c \in scan.left :
          LET found == Ascending(Unindexed(c))
              room == ColdBatch - Len(scan.jobs)
              count == IF Len(found) < room THEN Len(found) ELSE room
          IN  scan' = [scan EXCEPT
                  !.left = IF count = room THEN {} ELSE @ \ {c},
                  !.jobs = @ \o [k \in 1..count |->
                      [chat |-> c, pos |-> found[k], ver |-> shown[c][found[k]], cold |-> TRUE,
                       external |-> FALSE]]]
    /\ UNCHANGED <<requestVars, logVars, queue, w, job, stop, permit, quiet, history>>

ScanEnd ==
    /\ w = "scan" /\ scan.step = "logs" /\ scan.left = {}
    /\ queue' = queue \o scan.jobs
    /\ scan' = NoScan
    /\ w' = "rest"
    /\ UNCHANGED <<requestVars, logVars, job, stop, permit, quiet, history>>

\* Faulty: the count is not looked at again after the short sleep.
ReadyUnchecked ==
    /\ w = "rest"
    /\ w' = "ready"
    /\ UNCHANGED <<requestVars, logVars, queue, job, stop, permit, quiet, scan, history>>

\* No request is in flight, after the short sleep either.
Ready ==
    /\ w = "rest" /\ InFlight = {}
    /\ w' = "ready"
    /\ UNCHANGED <<requestVars, logVars, queue, job, stop, permit, quiet, scan, history>>

\* A cold job that comes too early is put back at the front, and everything
\* behind it waits with it.
Pop ==
    /\ w = "ready"
    /\ IF queue = <<>> \/ (Head(queue).cold /\ ~quiet) THEN w' = "sleep" /\ UNCHANGED <<queue, job>>
       ELSE w' = "popped" /\ job' = Head(queue) /\ queue' = Tail(queue)
    /\ UNCHANGED <<requestVars, logVars, stop, permit, quiet, scan, history>>

\* The job's stop flag is published, and the job runs. A request that has
\* looked for a flag already is not seen any more.
Publish ==
    /\ w = "popped"
    /\ w' = "run" /\ stop' = FALSE
    /\ beside' = [r \in Requests |-> IF req[r].step \in {"none", "counted"} THEN beside[r]
                                     ELSE beside[r] + 1]
    /\ UNCHANGED <<requestVars, logVars, queue, job, permit, quiet, scan, crashes, raced>>

\* Stopped, not runnable now, or an engine error: the turn stays without a card.
GiveUp ==
    /\ w = "run"
    /\ w' = "rest" /\ job' = None
    /\ UNCHANGED <<requestVars, logVars, queue, stop, permit, quiet, scan, history>>

\* The reply is there and no request came. "A chat no longer external (its
\* history was deleted) gets nothing."
Reply ==
    /\ w = "run" /\ ~stop
    /\ IF job.external /\ job.chat \notin external
       THEN w' = "rest" /\ job' = None
       ELSE w' = "write" /\ UNCHANGED job
    /\ UNCHANGED <<requestVars, logVars, queue, stop, permit, quiet, scan, history>>

\* The card, or the failure, goes to the store the chat has now.
WriteCard ==
    /\ w = "write"
    /\ cards' = [cards EXCEPT ![job.chat][job.pos] = Append(@, job.ver)]
    /\ w' = "rest" /\ job' = None
    /\ UNCHANGED <<requestVars, shown, external, queue, stop, permit, quiet, scan, history>>

-----------------------------------------------------------------------------
(* The end of the process: the queue and what is in memory go. The worker    *)
(* starts again with the first chat request.                                 *)
Restart ==
    /\ crashes < MaxCrashes
    /\ crashes' = crashes + 1
    /\ req' = [r \in Requests |-> Free]
    /\ shown' = [c \in Chats |-> IF c \in external THEN [p \in Positions |-> 0] ELSE shown[c]]
    /\ cards' = [c \in Chats |-> IF c \in external THEN [p \in Positions |-> <<>>] ELSE cards[c]]
    /\ external' = {}
    /\ queue' = <<>> /\ w' = "off" /\ job' = None /\ stop' = FALSE
    /\ permit' = FALSE /\ quiet' = FALSE /\ scan' = NoScan
    /\ UNCHANGED <<sent, beside, raced>>

RequestStep(r) == Flag(r) \/ IngestRequest(r) \/ RecordAnswer(r) \/ Enqueue(r) \/ End(r)
WorkerStep ==
    \/ Wake \/ WakeByTime \/ ScanQueue \/ ScanChat \/ ScanEnd
    \/ Ready \/ Pop \/ Publish \/ GiveUp \/ Reply \/ WriteCard

Next ==
    \/ \E r \in Requests : Begin(r) \/ RequestStep(r)
    \/ TimePasses \/ WorkerStep \/ Restart

Spec == Init /\ [][Next]_vars

\* Every request ends, time passes, the worker runs, and a job that can run
\* again and again is answered at last.
Fairness ==
    /\ \A r \in Requests : WF_vars(RequestStep(r)) /\ WF_vars(End(r))
    /\ WF_vars(TimePasses) /\ WF_vars(WorkerStep) /\ SF_vars(Reply)

FairSpec == Spec /\ Fairness

\* memory.delete for a chat, at any time.
DeleteChat ==
    \E c \in Chats :
        /\ shown' = [shown EXCEPT ![c] = [p \in Positions |-> 0]]
        /\ cards' = [cards EXCEPT ![c] = [p \in Positions |-> <<>>]]
        /\ external' = external \ {c}
        /\ UNCHANGED <<requestVars, workerVars, history>>

SpecDeletes == Init /\ [][Next \/ DeleteChat]_vars

-----------------------------------------------------------------------------
(* Correctness.                                                            *)

\* Every variable has its type; the worker has a job exactly when it needs one.
TypeOK ==
    /\ req \in [Requests -> [step : {"none", "counted", "flagged", "asked", "recorded", "queued"},
                             answer : Answer \cup {NoAnswer}]]
    /\ sent \in 0..MaxRequests
    /\ shown \in [Chats -> [Positions -> 0..MaxRequests]]
    /\ cards \in [Chats -> [Positions -> Seq(1..MaxRequests)]]
    /\ external \subseteq External
    /\ queue \in Seq(Job)
    /\ w \in {"off", "sleep", "scan", "rest", "ready", "popped", "run", "write"}
    /\ job \in Job \cup {None} /\ (job # None <=> w \in {"popped", "run", "write"})
    /\ stop \in BOOLEAN /\ permit \in BOOLEAN /\ quiet \in BOOLEAN
    /\ scan.jobs \in Seq(Job) /\ Len(scan.jobs) <= ColdBatch
    /\ crashes \in 0..MaxCrashes /\ raced \subseteq Answer

\* "A running job stops when one begins": a request that finds no flag to set
\* shares the engine with one job at most, the one taken from the queue when
\* the request began. The worker takes no other before the request ends.
OneJobBeside == \A r \in InFlight : beside[r] <= 1

\* A turn is described once: an answer gets one card (or failure), whether its
\* hot job ran, was stopped, replaced or lost, unless it was recorded in the
\* middle of a scan, which may then find it a second time.
OneCardPerAnswer ==
    \A c \in Chats, p \in Positions :
        \A i, j \in DOMAIN cards[c][p] :
            i # j /\ cards[c][p][i] = cards[c][p][j]
                => [chat |-> c, pos |-> p, ver |-> cards[c][p][i]] \in raced

\* "So no turn is dropped": an answer that a job may lose (stopped, replaced,
\* not runnable, a restart) is found by a scan, so its position gets a card or a
\* failure in the end, if the worker runs and the answer stays.
TurnsAreIndexed ==
    \A c \in Chats \ External, p \in Positions :
        shown[c][p] # 0 ~> shown[c][p] = 0 \/ Done(c, p) \/ w = "off"

\* "Nothing of such a chat is written to disk" (external.rs): no answer and no
\* card of a chat kept by an app goes to the log on disk.
ExternalStaysInMemory ==
    \A c \in External \ external : \A p \in Positions : shown[c][p] = 0 /\ cards[c][p] = <<>>
=============================================================================
