-------------------------------- MODULE Tasks --------------------------------
(***************************************************************************)
(* Long work: the task store of the protocol (cep/src/task.rs), the work    *)
(* that runs behind it, and the calls that follow it (tasks.get,            *)
(* tasks.result, tasks.cancel, tasks.list).                                 *)
(*                                                                         *)
(* The tasks are one mutex and each action is one critical section of it.   *)
(* A call to tasks.result holds it twice and sleeps in between.             *)
(*                                                                         *)
(* Abstracted: an event is its number, so the kept events, always           *)
(* consecutive, are two numbers; time is the set of tasks whose life is     *)
(* over; progress and messages are left out. The store is memory only and a *)
(* restart forgets every id.                                                *)
(***************************************************************************)
EXTENDS Naturals, FiniteSets

CONSTANTS
    Ids,         \* bound: the tasks of a behaviour (each id is fresh)
    Principals,
    Pollers,     \* clients that follow a task's events with its cursor
    Waiters,     \* calls to tasks.result in flight
    MaxRunning,  \* MAX_RUNNING_TASKS
    MaxEvents,   \* MAX_EVENTS
    MaxSeq,      \* bound: the events of a task
    None

Ended == {"completed", "failed", "cancelled"}
Outcomes == {"ok", "error", None}
\* The events kept are first, ..., next - 1.
Task == [principal : Principals, status : {"working"} \cup Ended, outcome : Outcomes,
         finished : BOOLEAN, first : Nat, next : Nat]

ASSUME TasksAssumption ==
    /\ MaxRunning \in Nat \ {0} /\ MaxEvents \in Nat \ {0} /\ MaxSeq \in Nat
    /\ None \notin Ids \cup Principals \cup Task \cup {"ok", "error", "cancelled"}
    /\ Pollers \cap Waiters = {}

VARIABLES
    tasks,    \* the tasks kept
    expired,  \* the tasks whose ttl has passed
    work,     \* the work behind each id
    stop,     \* the cancel flag its work reads
    pc, job,  \* the calls to tasks.result: principal and task
    follow,   \* the task each poller follows, and its cursor
    told,     \* history: the final answers given for each task
    got       \* history: how often each poller got each event

storeVars == <<tasks, expired, work, stop>>
callVars  == <<pc, job, told>>
pollVars  == <<follow, got>>
vars == <<storeVars, callVars, pollVars>>

NoJob == [principal |-> None, id |-> None]
NoFollow == [principal |-> None, id |-> None, after |-> 0]

Init ==
    /\ tasks = [i \in Ids |-> None]
    /\ expired = {}
    /\ work = [i \in Ids |-> "none"]
    /\ stop = [i \in Ids |-> FALSE]
    /\ pc = [c \in Waiters |-> "idle"]
    /\ job = [c \in Waiters |-> NoJob]
    /\ follow = [p \in Pollers |-> NoFollow]
    /\ told = [i \in Ids |-> {}]
    /\ got = [p \in Pollers |-> [s \in 1..MaxSeq |-> 0]]

Issued == {i \in Ids : work[i] # "none"}
\* owned: the caller's own task that has not expired
Owned(p, i) == tasks[i] # None /\ tasks[i].principal = p /\ i \notin expired

-----------------------------------------------------------------------------
(* The task and its work.                                                  *)

Kept == {i \in Ids : tasks[i] # None /\ i \notin expired}
Running(p) == {i \in Kept : tasks[i].principal = p /\ tasks[i].status \notin Ended}

Room(p) == Cardinality(Running(p)) < MaxRunning

\* start: the expired tasks go, whatever their work does; then the new one.
Start ==
    \E p \in Principals, i \in Ids \ Issued :
        LET fresh == [principal |-> p, status |-> "working", outcome |-> None,
                      finished |-> FALSE, first |-> 1, next |-> 1]
        IN  /\ Room(p)
            /\ tasks' = [j \in Ids |-> IF j = i THEN fresh ELSE IF j \in Kept THEN tasks[j] ELSE None]
            /\ work' = [work EXCEPT ![i] = "running"]
            /\ UNCHANGED <<expired, stop, callVars, pollVars>>

\* too_many_tasks: the expired ones are gone all the same.
StartRefused ==
    /\ \E p \in Principals : ~Room(p)
    /\ tasks' = [j \in Ids |-> IF j \in Kept THEN tasks[j] ELSE None]
    /\ UNCHANGED <<expired, work, stop, callVars, pollVars>>

\* The first event kept once another one is added.
FirstAfter(t) == IF t.next + 1 - t.first > MaxEvents THEN t.first + 1 ELSE t.first

\* TaskHandle::event, for the task if it is still kept
Event(i) ==
    /\ work[i] = "running"
    /\ tasks[i] # None
    /\ tasks[i].next <= MaxSeq
    /\ tasks' = [tasks EXCEPT ![i].next = @ + 1, ![i].first = FirstAfter(tasks[i])]
    /\ UNCHANGED <<expired, work, stop, callVars, pollVars>>

\* Faulty: the outcome counts although the task was cancelled.
FinishAlways(i) ==
    /\ work[i] = "running"
    /\ work' = [work EXCEPT ![i] = "ended"]
    /\ IF tasks[i] = None THEN UNCHANGED tasks
       ELSE \E out \in {"ok", "error"} :
               tasks' = [tasks EXCEPT
                   ![i] = [@ EXCEPT !.status = IF out = "ok" THEN "completed" ELSE "failed",
                                    !.outcome = out, !.finished = TRUE]]
    /\ UNCHANGED <<expired, stop, callVars, pollVars>>

\* The work returns: "a cancelled task stays cancelled, whatever the work
\* returned", and the calls that wait are woken either way.
Finish(i) ==
    /\ work[i] = "running"
    /\ work' = [work EXCEPT ![i] = "ended"]
    /\ IF tasks[i] = None THEN UNCHANGED tasks
       ELSE \E out \in {"ok", "error"} :
               tasks' = [tasks EXCEPT
                   ![i] = IF @.status = "cancelled" THEN [@ EXCEPT !.finished = TRUE]
                          ELSE [@ EXCEPT !.status = IF out = "ok" THEN "completed" ELSE "failed",
                                         !.outcome = out, !.finished = TRUE]]
    /\ UNCHANGED <<expired, stop, callVars, pollVars>>

\* Faulty: a waiting call is not woken.
CancelQuietly(i) ==
    /\ i \in Kept /\ tasks[i].status \notin Ended
    /\ tasks' = [tasks EXCEPT ![i].status = "cancelled"]
    /\ stop' = [stop EXCEPT ![i] = TRUE]
    /\ UNCHANGED <<expired, work, callVars, pollVars>>

\* tasks.cancel by its caller: the task ends at once, its work when it looks at
\* the flag.
Cancel(i) ==
    /\ i \in Kept /\ tasks[i].status \notin Ended
    /\ tasks' = [tasks EXCEPT ![i].status = "cancelled", ![i].finished = TRUE]
    /\ stop' = [stop EXCEPT ![i] = TRUE]
    /\ UNCHANGED <<expired, work, callVars, pollVars>>

\* created_ms + ttl_ms has passed
Expire(i) ==
    /\ tasks[i] # None /\ i \notin expired
    /\ expired' = expired \cup {i}
    /\ UNCHANGED <<tasks, work, stop, callVars, pollVars>>

-----------------------------------------------------------------------------
(* tasks.result.                                                           *)

Final(t) == IF t.status = "cancelled" THEN "cancelled" ELSE t.outcome

\* An ended task answers at once; a working one is subscribed to, under the
\* same lock.
AskResult(c) ==
    /\ pc[c] = "idle"
    /\ \E p \in Principals, i \in Issued :
          /\ Owned(p, i)
          /\ IF Final(tasks[i]) # None
             THEN told' = [told EXCEPT ![i] = @ \cup {Final(tasks[i])}] /\ UNCHANGED <<pc, job>>
             ELSE /\ pc' = [pc EXCEPT ![c] = "waiting"]
                  /\ job' = [job EXCEPT ![c] = [principal |-> p, id |-> i]]
                  /\ UNCHANGED told
    /\ UNCHANGED <<storeVars, pollVars>>

Unfinished(i) == tasks[i] # None /\ ~tasks[i].finished

\* The task ended, or its sender is gone with it.
Wake(c) ==
    /\ pc[c] = "waiting"
    /\ ~Unfinished(job[c].id)
    /\ pc' = [pc EXCEPT ![c] = "answering"]
    /\ UNCHANGED <<storeVars, job, told, pollVars>>

\* wait_ms has passed
TimeOut(c) ==
    /\ pc[c] = "waiting"
    /\ pc' = [pc EXCEPT ![c] = "answering"]
    /\ UNCHANGED <<storeVars, job, told, pollVars>>

\* Whatever ended the sleep, the task is looked up again: its final answer,
\* task_not_found, or "still running".
AnswerResult(c) ==
    LET i == job[c].id
    IN  /\ pc[c] = "answering"
        /\ told' = IF Owned(job[c].principal, i) /\ Final(tasks[i]) # None
                   THEN [told EXCEPT ![i] = @ \cup {Final(tasks[i])}] ELSE told
        /\ pc' = [pc EXCEPT ![c] = "idle"]
        /\ job' = [job EXCEPT ![c] = NoJob]
        /\ UNCHANGED <<storeVars, pollVars>>

-----------------------------------------------------------------------------
(* tasks.get with a cursor.                                                *)

Follow(p) ==
    /\ follow[p].id = None
    /\ \E q \in Principals, i \in Issued :
          /\ Owned(q, i)
          /\ follow' = [follow EXCEPT ![p] = [principal |-> q, id |-> i, after |-> 0]]
    /\ UNCHANGED <<storeVars, callVars, got>>

\* Faulty: the cursor is the number of the next event.
CursorAhead(t) == t.next

\* view: the cursor is the number of the last event.
Cursor(t) == t.next - 1

\* view: the kept events after the caller's cursor, and the new cursor.
Poll(p) ==
    LET f == follow[p]
        t == tasks[f.id]
    IN  /\ f.id # None
        /\ Owned(f.principal, f.id)
        /\ got' = [got EXCEPT ![p] = [s \in 1..MaxSeq |->
                      IF s \in t.first..(t.next - 1) /\ s > f.after THEN @[s] + 1 ELSE @[s]]]
        /\ follow' = [follow EXCEPT ![p].after = Cursor(t)]
        /\ got' # got \/ follow' # follow
        /\ UNCHANGED <<storeVars, callVars>>

\* task_not_found: the client stops following.
LoseTask(p) ==
    /\ follow[p].id # None
    /\ ~Owned(follow[p].principal, follow[p].id)
    /\ follow' = [follow EXCEPT ![p] = NoFollow]
    /\ got' = [got EXCEPT ![p] = [s \in 1..MaxSeq |-> 0]]
    /\ UNCHANGED <<storeVars, callVars>>

Next ==
    \/ Start \/ StartRefused
    \/ \E i \in Ids : Event(i) \/ Finish(i) \/ Cancel(i) \/ Expire(i)
    \/ \E c \in Waiters : AskResult(c) \/ Wake(c) \/ TimeOut(c) \/ AnswerResult(c)
    \/ \E p \in Pollers : Follow(p) \/ Poll(p) \/ LoseTask(p)

Spec == Init /\ [][Next]_vars

\* A call that is woken goes on; the work need not return, and no timer is
\* needed for a wait to end with its task.
Fairness == \A c \in Waiters : WF_vars(Wake(c)) /\ WF_vars(AnswerResult(c))

FairSpec == Spec /\ Fairness

-----------------------------------------------------------------------------
(* Correctness.                                                            *)

\* Every variable has its type, and a task keeps at most MaxEvents events.
TypeOK ==
    /\ tasks \in [Ids -> Task \cup {None}]
    /\ \A i \in Ids : tasks[i] # None => tasks[i].next - tasks[i].first \in 0..MaxEvents
    /\ expired \subseteq Ids
    /\ work \in [Ids -> {"none", "running", "ended"}] /\ stop \in [Ids -> BOOLEAN]
    /\ pc \in [Waiters -> {"idle", "waiting", "answering"}]
    /\ job \in [Waiters -> [principal : Principals \cup {None}, id : Ids \cup {None}]]
    /\ follow \in [Pollers -> [principal : Principals \cup {None}, id : Ids \cup {None}, after : Nat]]
    /\ told \in [Ids -> SUBSET {"ok", "error", "cancelled"}]
    /\ got \in [Pollers -> [1..MaxSeq -> Nat]]

\* "The final result or error" (tasks.result): all calls for one task get the
\* same one, also when a cancel races the end of the work or a call was asleep
\* through both, and an ended task whose flag is set is a cancelled one.
OneAnswerPerTask ==
    \A i \in Ids : /\ Cardinality(told[i]) <= 1
                   /\ stop[i] /\ tasks[i] # None => tasks[i].status = "cancelled"
                   /\ "cancelled" \in told[i] => stop[i]

\* What a task has come to, for those who ask for its result.
Come(i) ==
    IF work[i] = "none" THEN "free"
    ELSE IF tasks[i] = None THEN "gone"
    ELSE IF Final(tasks[i]) = None THEN "open" ELSE Final(tasks[i])
Results == [i \in Ids |-> Come(i)]

\* A task is a result assigned once: its end, its cancellation, its expiry and the
\* two looks of tasks.result come in any order, and whoever is answered is
\* answered with the result the task then has and keeps.
Once == INSTANCE TaskResult WITH result <- Results
TasksHaveOneResult == Once!Spec

\* A client that hands its cursor back sees every event once: what it did not
\* get, and the cursor says is past, the store has dropped ("older ones are
\* dropped, the cursor still counts them").
EventsSeenOnce ==
    \A p \in Pollers : follow[p].id # None /\ tasks[follow[p].id] # None =>
        \A s \in 1..MaxSeq :
            IF s <= follow[p].after THEN got[p][s] = 1 \/ (got[p][s] = 0 /\ s < tasks[follow[p].id].first)
                                    ELSE got[p][s] = 0

\* "Running at once per caller" (MAX_RUNNING_TASKS), of the tasks that are kept
\* and not ended: expiry, cancels and refusals never make room for more.
RunningBounded == \A p \in Principals : Cardinality(Running(p)) <= MaxRunning

\* A call waiting for a task that ends, is cancelled or is pruned is woken by
\* that, without its timer: no wake-up is lost between the first look and the
\* sleep, or between the sleep and the second look.
EndWakesWaiters ==
    \A c \in Waiters : pc[c] = "waiting" /\ (tasks[job[c].id] = None \/ tasks[job[c].id].status \in Ended)
                          ~> pc[c] = "idle"
=============================================================================
