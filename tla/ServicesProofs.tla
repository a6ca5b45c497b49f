--------------------------- MODULE ServicesProofs ---------------------------
(* What holds of Tasks for any number of tasks, principals, clients that    *)
(* follow and calls that wait, and whatever the limits of the store; and, at *)
(* the end, what holds of the tasks and the idle-time jobs together, as TLC   *)
(* runs them: the theorems about the jobs are those of ChatIndexerProofs.     *)
EXTENDS MCServices, FiniteSetTheorems, TLAPS

-----------------------------------------------------------------------------
(* Types.                                                                  *)

\* A task that is kept has work behind it, its events are counted from one,
\* and a call that waits knows what it waits for.
Shape ==
    /\ \A i \in Ids : tasks[i] # None => work[i] # "none" /\ tasks[i].first >= 1
    /\ \A c \in Waiters : pc[c] # "idle" => job[c].id \in Ids /\ job[c].principal \in Principals

FreshTask(p) == [principal |-> p, status |-> "working", outcome |-> None,
                 finished |-> FALSE, first |-> 1, next |-> 1]

LEMMA Fresh ==
    ASSUME NEW p \in Principals
    PROVE  /\ FreshTask(p) \in Task /\ FreshTask(p).first = 1 /\ FreshTask(p).next = 1
           /\ FreshTask(p).status = "working" /\ FreshTask(p).outcome = None
           /\ FreshTask(p).principal = p
  BY DEF FreshTask, Task, Ended, Outcomes

\* What Start does, with the new task named.
Started(p, i, fresh) ==
    /\ i \notin Issued /\ Room(p) /\ fresh = FreshTask(p)
    /\ tasks' = [j \in Ids |-> IF j = i THEN fresh ELSE IF j \in Kept THEN tasks[j] ELSE None]
    /\ work' = [work EXCEPT ![i] = "running"]
    /\ UNCHANGED <<expired, stop, callVars, pollVars>>

LEMMA StartedTask ==
    ASSUME Start
    PROVE  \E p \in Principals, i \in Ids : \E fresh : Started(p, i, fresh)
  <1>1. PICK p \in Principals, i \in Ids \ Issued :
            /\ Room(p)
            /\ tasks' = [j \in Ids |-> IF j = i THEN FreshTask(p)
                                       ELSE IF j \in Kept THEN tasks[j] ELSE None]
            /\ work' = [work EXCEPT ![i] = "running"]
            /\ UNCHANGED <<expired, stop, callVars, pollVars>>
    BY Zenon DEF Start, FreshTask
  <1> QED
    BY <1>1 DEF Started

\* What the end of the work and a cancellation do to a task leaves a task with
\* the same events.
LEMMA FinishedOnly ==
    ASSUME NEW t \in Task, NEW n, n = [t EXCEPT !.finished = TRUE]
    PROVE  /\ n \in Task /\ n.first = t.first /\ n.next = t.next
           /\ n.principal = t.principal /\ n.status = t.status /\ n.outcome = t.outcome
  BY DEF Task

LEMMA Cancelled ==
    ASSUME NEW t \in Task, NEW n, n = [t EXCEPT !.status = "cancelled", !.finished = TRUE]
    PROVE  /\ n \in Task /\ n.first = t.first /\ n.next = t.next
           /\ n.principal = t.principal /\ n.status = "cancelled" /\ n.outcome = t.outcome
  BY DEF Task, Ended

\* One more event: at most MaxEvents are kept, and none comes back.
LEMMA OneMoreEvent ==
    ASSUME NEW t \in Task, t.first >= 1, t.next - t.first \in 0..MaxEvents,
           NEW n, n = [t EXCEPT !.next = @ + 1, !.first = FirstAfter(t)]
    PROVE  /\ n \in Task /\ n.next = t.next + 1
           /\ n.first \in {t.first, t.first + 1}
           /\ n.next - n.first \in 0..MaxEvents
           /\ n.status = t.status /\ n.outcome = t.outcome /\ n.principal = t.principal
  <1>1. t.first \in Nat /\ t.next \in Nat
    BY DEF Task
  <1>2. FirstAfter(t) \in {t.first, t.first + 1} /\ FirstAfter(t) \in Nat
    BY <1>1 DEF FirstAfter
  <1>3. n.next = t.next + 1 /\ n.first = FirstAfter(t)
    BY DEF Task
  <1>4. n \in Task /\ n.status = t.status /\ n.outcome = t.outcome /\ n.principal = t.principal
    <2> DEFINE f == FirstAfter(t)
    <2>1. f \in Nat /\ t.next + 1 \in Nat /\ n = [t EXCEPT !.next = t.next + 1, !.first = f]
      BY <1>1, <1>2
    <2> HIDE DEF f
    <2> QED
      BY <2>1 DEF Task
  <1>5. n.next - n.first \in 0..MaxEvents
    <2>1. t.next - t.first \in 0..MaxEvents /\ MaxEvents \in Nat /\ MaxEvents # 0
      BY TasksAssumption
    <2>2. CASE t.next + 1 - t.first > MaxEvents
      BY <1>1, <1>3, <2>1, <2>2 DEF FirstAfter
    <2>3. CASE ~(t.next + 1 - t.first > MaxEvents)
      BY <1>1, <1>3, <2>1, <2>3 DEF FirstAfter
    <2> QED
      BY <2>2, <2>3
  <1> QED
    BY <1>2, <1>3, <1>4, <1>5

\* A step that changes one task, and the flags of the work.
LEMMA OneTask ==
    ASSUME TypeOK, Shape, NEW i \in Ids, NEW t,
           tasks' = [tasks EXCEPT ![i] = t],
           t = None \/ (t \in Task /\ t.first >= 1 /\ t.next - t.first \in 0..MaxEvents
                         /\ work[i] # "none"),
           work' \in [Ids -> {"none", "running", "ended"}], stop' \in [Ids -> BOOLEAN],
           \A j \in Ids : work[j] # "none" => work'[j] # "none",
           UNCHANGED <<expired, callVars, pollVars>>
    PROVE  TypeOK' /\ Shape'
  <1>1. tasks' \in [Ids -> Task \cup {None}]
    BY DEF TypeOK
  <1>2. ASSUME NEW j \in Ids, tasks'[j] # None
        PROVE  /\ tasks'[j].next - tasks'[j].first \in 0..MaxEvents
               /\ work'[j] # "none" /\ tasks'[j].first >= 1
    <2>1. CASE j = i
      BY <1>2, <2>1 DEF TypeOK
    <2>2. CASE j # i
      <3>1. tasks'[j] = tasks[j]
        BY <2>2 DEF TypeOK
      <3> QED
        BY <1>2, <3>1 DEF TypeOK, Shape
    <2> QED
      BY <2>1, <2>2
  <1>3. UNCHANGED <<expired, pc, job, told, follow, got>>
    BY DEF callVars, pollVars
  <1> QED
    BY <1>1, <1>2, <1>3 DEF TypeOK, Shape

\* What the end of the work makes of its task.
LEMMA FinishedTask ==
    ASSUME TypeOK, NEW i \in Ids, Finish(i)
    PROVE  \E t : /\ tasks' = [tasks EXCEPT ![i] = t]
                  /\ \/ tasks[i] = None /\ t = None
                     \/ /\ tasks[i] # None /\ t \in Task
                        /\ t.first = tasks[i].first /\ t.next = tasks[i].next
                        /\ t.principal = tasks[i].principal
                        /\ \/ tasks[i].status = "cancelled" /\ t.status = "cancelled"
                              /\ t.outcome = tasks[i].outcome
                           \/ tasks[i].status # "cancelled" /\ t.status \in {"completed", "failed"}
  <1>1. CASE tasks[i] = None
    <2>1. tasks' = tasks /\ tasks = [tasks EXCEPT ![i] = None]
      BY <1>1 DEF Finish, TypeOK
    <2> QED
      BY <1>1, <2>1
  <1>2. CASE tasks[i] # None /\ tasks[i].status = "cancelled"
    <2> DEFINE t == [tasks[i] EXCEPT !.finished = TRUE]
    <2>1. tasks' = [tasks EXCEPT ![i] = t]
      BY <1>2 DEF Finish
    <2>2. tasks[i] \in Task
      BY <1>2 DEF TypeOK
    <2>3. /\ t \in Task /\ t.first = tasks[i].first /\ t.next = tasks[i].next
          /\ t.principal = tasks[i].principal /\ t.status = tasks[i].status
          /\ t.outcome = tasks[i].outcome
      BY <2>2, FinishedOnly
    <2> HIDE DEF t
    <2> QED
      BY <1>2, <2>1, <2>3
  <1>3. CASE tasks[i] # None /\ tasks[i].status # "cancelled"
    <2>1. PICK out \in {"ok", "error"} :
            tasks' = [tasks EXCEPT
                ![i] = [tasks[i] EXCEPT !.status = IF out = "ok" THEN "completed" ELSE "failed",
                                        !.outcome = out, !.finished = TRUE]]
      BY <1>3 DEF Finish
    <2>2. PICK s \in {"completed", "failed"} : s = IF out = "ok" THEN "completed" ELSE "failed"
      OBVIOUS
    <2> DEFINE t == [tasks[i] EXCEPT !.status = s, !.outcome = out, !.finished = TRUE]
    <2>3. tasks' = [tasks EXCEPT ![i] = t]
      BY <2>1, <2>2
    <2>4. tasks[i] \in Task
      BY <1>3 DEF TypeOK
    <2>5. /\ t \in Task /\ t.first = tasks[i].first /\ t.next = tasks[i].next
          /\ t.principal = tasks[i].principal /\ t.status = s
      <3>1. out \in Outcomes
        BY DEF Outcomes
      <3> QED
        BY <2>4, <3>1 DEF Task, Ended
    <2> HIDE DEF t
    <2> QED
      BY <1>3, <2>3, <2>5
  <1> QED
    BY <1>1, <1>2, <1>3

LEMMA StoreTypes ==
    ASSUME TypeOK, Shape,
           Start \/ StartRefused \/ \E i \in Ids : Event(i) \/ Finish(i) \/ Cancel(i) \/ Expire(i)
    PROVE  TypeOK' /\ Shape'
  <1> USE DEF TypeOK, Shape
  <1>1. CASE Start
    <2>0. PICK p \in Principals, i \in Ids : \E fresh : Started(p, i, fresh)
      BY <1>1, StartedTask
    <2>1. PICK fresh : Started(p, i, fresh)
      BY <2>0
    <2>2. fresh \in Task /\ fresh.first = 1 /\ fresh.next = 1
      BY <2>1, Fresh DEF Started, FreshTask
    <2>3. \A j \in Ids : \/ tasks'[j] = fresh /\ work'[j] = "running"
                         \/ tasks'[j] = tasks[j] /\ work'[j] = work[j]
                         \/ tasks'[j] = None
      BY <2>1 DEF Started
    <2>4. \A j \in Ids : tasks'[j] # None =>
              /\ tasks'[j].next - tasks'[j].first \in 0..MaxEvents
              /\ work'[j] # "none" /\ tasks'[j].first >= 1
      BY <2>2, <2>3, TasksAssumption
    <2>5. tasks' \in [Ids -> Task \cup {None}]
      BY <2>1, <2>2 DEF Started
    <2> QED
      BY <2>1, <2>4, <2>5 DEF Started, callVars, pollVars
  <1>2. CASE StartRefused
    BY <1>2 DEF StartRefused, callVars, pollVars
  <1>3. ASSUME NEW i \in Ids, Event(i)
        PROVE  TypeOK' /\ Shape'
    <2> DEFINE n == [tasks[i] EXCEPT !.next = @ + 1, !.first = FirstAfter(tasks[i])]
    <2>1. tasks[i] \in Task /\ tasks[i] # None
      BY <1>3 DEF Event
    <2>2. n \in Task /\ n.first >= 1 /\ n.next - n.first \in 0..MaxEvents
      <3>1. tasks[i].first \in Nat /\ tasks[i].first >= 1 /\ tasks[i].next - tasks[i].first \in 0..MaxEvents
        BY <2>1 DEF Task
      <3>2. n \in Task /\ n.first \in {tasks[i].first, tasks[i].first + 1} /\ n.next - n.first \in 0..MaxEvents
        BY ONLY <2>1, <3>1, OneMoreEvent
      <3> QED
        BY <3>1, <3>2
    <2>3. tasks' = [tasks EXCEPT ![i] = n]
      BY <1>3 DEF Event
    <2> HIDE DEF n
    <2> QED
      BY <1>3, <2>2, <2>3, OneTask DEF Event
  <1>4. ASSUME NEW i \in Ids, Finish(i)
        PROVE  TypeOK' /\ Shape'
    <2>1. PICK t : /\ tasks' = [tasks EXCEPT ![i] = t]
                   /\ \/ t = None
                      \/ t \in Task /\ tasks[i] # None /\ t.first = tasks[i].first /\ t.next = tasks[i].next
      BY <1>4, FinishedTask
    <2>2. t = None \/ (t \in Task /\ t.first >= 1 /\ t.next - t.first \in 0..MaxEvents
                        /\ work[i] # "none")
      BY <2>1
    <2>3. /\ work' \in [Ids -> {"none", "running", "ended"}] /\ stop' \in [Ids -> BOOLEAN]
          /\ \A j \in Ids : work[j] # "none" => work'[j] # "none"
          /\ UNCHANGED <<expired, callVars, pollVars>>
      BY <1>4 DEF Finish
    <2> QED
      BY <2>1, <2>2, <2>3, OneTask
  <1>5. ASSUME NEW i \in Ids, Cancel(i)
        PROVE  TypeOK' /\ Shape'
    <2> DEFINE t == [tasks[i] EXCEPT !.status = "cancelled", !.finished = TRUE]
    <2>1. tasks[i] \in Task /\ tasks[i] # None
      BY <1>5 DEF Cancel, Kept
    <2>2. t \in Task /\ t.first = tasks[i].first /\ t.next = tasks[i].next
      BY <2>1, Cancelled
    <2>3. tasks' = [tasks EXCEPT ![i] = t]
      BY <1>5 DEF Cancel
    <2> HIDE DEF t
    <2>4. t.first >= 1 /\ t.next - t.first \in 0..MaxEvents /\ work[i] # "none"
      BY <2>1, <2>2
    <2>5. /\ stop' \in [Ids -> BOOLEAN] /\ UNCHANGED <<expired, work, callVars, pollVars>>
      BY <1>5 DEF Cancel
    <2> QED
      BY <2>2, <2>3, <2>4, <2>5, OneTask
  <1>6. ASSUME NEW i \in Ids, Expire(i)
        PROVE  TypeOK' /\ Shape'
    BY <1>6 DEF Expire, callVars, pollVars
  <1> QED
    BY <1>1, <1>2, <1>3, <1>4, <1>5, <1>6

LEMMA FinalTypes ==
    ASSUME TypeOK, NEW i \in Ids, tasks[i] # None, Final(tasks[i]) # None
    PROVE  Final(tasks[i]) \in {"ok", "error", "cancelled"}
  <1>1. tasks[i] \in Task
    BY DEF TypeOK
  <1> QED
    BY <1>1 DEF Task, Outcomes, Final

LEMMA CallTypes ==
    ASSUME TypeOK, Shape, NEW c \in Waiters,
           AskResult(c) \/ Wake(c) \/ TimeOut(c) \/ AnswerResult(c)
    PROVE  TypeOK' /\ Shape'
  <1> USE DEF TypeOK, Shape
  <1>1. CASE AskResult(c)
    <2>1. PICK p \in Principals, i \in Ids :
            /\ tasks[i] # None
            /\ \/ /\ Final(tasks[i]) # None
                  /\ told' = [told EXCEPT ![i] = @ \cup {Final(tasks[i])}]
                  /\ UNCHANGED <<pc, job>>
               \/ /\ pc' = [pc EXCEPT ![c] = "waiting"]
                  /\ job' = [job EXCEPT ![c] = [principal |-> p, id |-> i]]
                  /\ UNCHANGED told
      BY <1>1 DEF AskResult, Owned, Issued
    <2>2. UNCHANGED <<storeVars, pollVars>>
      BY <1>1 DEF AskResult
    <2>3. CASE /\ pc' = [pc EXCEPT ![c] = "waiting"]
               /\ job' = [job EXCEPT ![c] = [principal |-> p, id |-> i]]
               /\ UNCHANGED told
      BY <2>2, <2>3 DEF storeVars, pollVars
    <2>4. CASE UNCHANGED <<pc, job>> /\ Final(tasks[i]) # None
               /\ told' = [told EXCEPT ![i] = @ \cup {Final(tasks[i])}]
      <3>1. told' \in [Ids -> SUBSET {"ok", "error", "cancelled"}]
        BY <2>1, <2>4, FinalTypes
      <3> QED
        BY <2>2, <2>4, <3>1 DEF storeVars, pollVars
    <2> QED
      BY <2>1, <2>3, <2>4
  <1>2. CASE Wake(c) \/ TimeOut(c)
    BY <1>2 DEF Wake, TimeOut, storeVars, pollVars
  <1>3. CASE AnswerResult(c)
    <2>1. job[c].id \in Ids
      BY <1>3 DEF AnswerResult
    <2>2. told' \in [Ids -> SUBSET {"ok", "error", "cancelled"}]
      BY <1>3, <2>1, FinalTypes DEF AnswerResult, Owned
    <2>3. /\ pc' = [pc EXCEPT ![c] = "idle"]
          /\ job' = [job EXCEPT ![c] = NoJob] /\ UNCHANGED <<storeVars, pollVars>>
      BY <1>3 DEF AnswerResult
    <2> QED
      BY <2>2, <2>3 DEF NoJob, storeVars, pollVars
  <1> QED
    BY <1>1, <1>2, <1>3

\* A new cursor in what a client follows.
LEMMA CursorTypes ==
    ASSUME NEW F, NEW f \in [Pollers -> [principal : Principals \cup {None}, id : Ids \cup {None}, after : Nat]],
           NEW p \in Pollers, NEW c \in Nat,
           F = [f EXCEPT ![p].after = c]
    PROVE  F \in [Pollers -> [principal : Principals \cup {None}, id : Ids \cup {None}, after : Nat]]
  OBVIOUS

LEMMA PollTypes ==
    ASSUME TypeOK, Shape, NEW p \in Pollers, Follow(p) \/ Poll(p) \/ LoseTask(p)
    PROVE  TypeOK' /\ Shape'
  <1> USE DEF TypeOK, Shape
  <1>1. CASE Follow(p)
    <2>1. PICK q \in Principals, i \in Ids :
            follow' = [follow EXCEPT ![p] = [principal |-> q, id |-> i, after |-> 0]]
      BY <1>1 DEF Follow, Issued
    <2> QED
      BY <1>1, <2>1 DEF Follow, storeVars, callVars
  <1>2. CASE Poll(p)
    <2>1. follow[p].id \in Ids /\ tasks[follow[p].id] \in Task
      BY <1>2 DEF Poll, Owned
    <2>2. tasks[follow[p].id].next - tasks[follow[p].id].first \in 0..MaxEvents
      BY <1>2, <2>1 DEF Poll, Owned
    <2>3. tasks[follow[p].id].next \in Nat /\ tasks[follow[p].id].first \in Nat
          /\ tasks[follow[p].id].first >= 1
      BY <1>2, <2>1 DEF Task, Poll, Owned
    <2>4. Cursor(tasks[follow[p].id]) \in Nat
      BY <2>2, <2>3, TasksAssumption DEF Cursor
    <2>5. follow' = [follow EXCEPT ![p].after = Cursor(tasks[follow[p].id])]
      BY <1>2 DEF Poll
    <2>6. follow' \in [Pollers -> [principal : Principals \cup {None}, id : Ids \cup {None}, after : Nat]]
      BY <2>4, <2>5, CursorTypes
    <2>7. got' = [got EXCEPT ![p] = [s \in 1..MaxSeq |->
                    IF s \in tasks[follow[p].id].first..(tasks[follow[p].id].next - 1)
                       /\ s > follow[p].after THEN got[p][s] + 1 ELSE got[p][s]]]
      BY <1>2 DEF Poll
    <2>8. got' \in [Pollers -> [1..MaxSeq -> Nat]]
      <3> DEFINE New(s) == /\ s \in tasks[follow[p].id].first..(tasks[follow[p].id].next - 1)
                           /\ s > follow[p].after
                 g == [s \in 1..MaxSeq |-> IF New(s) THEN got[p][s] + 1 ELSE got[p][s]]
      <3>1. got' = [got EXCEPT ![p] = g]
        BY <2>7
      <3> HIDE DEF New
      <3>2. \A s \in 1..MaxSeq : got[p][s] \in Nat
        OBVIOUS
      <3>3. g \in [1..MaxSeq -> Nat]
        BY <3>2
      <3> HIDE DEF g
      <3> QED
        BY <3>1, <3>3
    <2> QED
      BY <1>2, <2>6, <2>8 DEF Poll, storeVars, callVars
  <1>3. CASE LoseTask(p)
    BY <1>3 DEF LoseTask, NoFollow, storeVars, callVars
  <1> QED
    BY <1>1, <1>2, <1>3

LEMMA TypeInit == Init => TypeOK /\ Shape
  BY TasksAssumption DEF Init, TypeOK, Shape, NoJob, NoFollow

LEMMA TypeStep == TypeOK /\ Shape /\ [Next]_vars => TypeOK' /\ Shape'
  <1> SUFFICES ASSUME TypeOK, Shape, [Next]_vars
               PROVE  TypeOK' /\ Shape'
    OBVIOUS
  <1>1. CASE UNCHANGED vars
    BY <1>1 DEF TypeOK, Shape, vars, storeVars, callVars, pollVars
  <1> QED
    BY <1>1, StoreTypes, CallTypes, PollTypes DEF Next

\* Every variable of the store and of the calls that follow it has its type,
\* and no more than MAX_EVENTS events of a task are kept (task.rs).
THEOREM TypeCorrect == Spec => []TypeOK
  <1>1. (TypeOK /\ Shape) /\ [Next]_vars => (TypeOK /\ Shape)'
    BY TypeStep
  <1> QED
    BY <1>1, TypeInit, PTL DEF Spec

-----------------------------------------------------------------------------
(* Answers.                                                                *)

\* A task that works has no outcome and was given no answer; one that was
\* cancelled has its flag set and answers that; one whose work returned first
\* answers its outcome, and the work does not return again.
AnswerInv(i) ==
    /\ work[i] = "none" => told[i] = {} /\ ~stop[i]
    /\ \A x, y \in told[i] : x = y
    /\ "cancelled" \in told[i] => stop[i]
    /\ tasks[i] # None =>
          /\ stop[i] <=> tasks[i].status = "cancelled"
          /\ tasks[i].status = "working" => tasks[i].outcome = None /\ told[i] = {}
          /\ tasks[i].status = "cancelled" => told[i] \subseteq {"cancelled"}
          /\ tasks[i].status \in {"completed", "failed"} =>
                told[i] \subseteq {tasks[i].outcome} /\ work[i] = "ended"
AnswersInv == \A i \in Ids : AnswerInv(i)

\* An answer is the one the task has, and it never changes.
LEMMA Tell ==
    ASSUME TypeOK, AnswersInv, NEW i \in Ids, tasks[i] # None, Final(tasks[i]) # None,
           told' = [told EXCEPT ![i] = @ \cup {Final(tasks[i])}], UNCHANGED storeVars
    PROVE  AnswersInv'
  <1>1. AnswerInv(i) /\ tasks[i] \in Task
    BY DEF AnswersInv, TypeOK
  <1>2. told'[i] = told[i] \cup {Final(tasks[i])} /\ \A j \in Ids \ {i} : told'[j] = told[j]
    BY DEF TypeOK
  <1>3. tasks[i].status \in {"cancelled", "completed", "failed"}
    BY <1>1 DEF AnswerInv, Task, Ended, Final
  <1>4. AnswerInv(i)'
    <2>1. CASE tasks[i].status = "cancelled"
      <3>1. Final(tasks[i]) = "cancelled" /\ told'[i] = {"cancelled"}
        BY <1>1, <1>2, <2>1 DEF AnswerInv, Final
      <3> QED
        BY <1>1, <2>1, <3>1 DEF AnswerInv, storeVars
    <2>2. CASE tasks[i].status \in {"completed", "failed"}
      <3>1. Final(tasks[i]) = tasks[i].outcome /\ tasks[i].outcome \in {"ok", "error"}
        BY <1>1, <2>2 DEF Final, Task, Outcomes
      <3>2. told'[i] = {tasks[i].outcome}
        BY <1>1, <1>2, <2>2, <3>1 DEF AnswerInv
      <3> QED
        BY <1>1, <2>2, <3>1, <3>2 DEF AnswerInv, storeVars
    <2> QED
      BY <1>3, <2>1, <2>2
  <1>5. \A j \in Ids \ {i} : AnswerInv(j)'
    BY <1>2 DEF AnswersInv, AnswerInv, storeVars
  <1> QED
    BY <1>4, <1>5 DEF AnswersInv

\* The store: a task changes its status once.
LEMMA StoreAnswers ==
    ASSUME TypeOK, Shape, AnswersInv,
           Start \/ StartRefused \/ \E i \in Ids : Event(i) \/ Finish(i) \/ Cancel(i) \/ Expire(i)
    PROVE  AnswersInv'
  <1>1. CASE Start
    <2>0. PICK p \in Principals, i \in Ids : \E fresh : Started(p, i, fresh)
      BY <1>1, StartedTask
    <2>1. PICK fresh : Started(p, i, fresh)
      BY <2>0
    <2>2. fresh.status = "working" /\ fresh.outcome = None
      BY <2>1, Fresh DEF Started
    <2>3. work[i] = "none" /\ UNCHANGED <<stop, told>>
      BY <2>1 DEF Started, Issued, callVars
    <2>4. tasks'[i] = fresh /\ work'[i] = "running"
      BY <2>1 DEF Started, TypeOK
    <2>5. \A j \in Ids \ {i} : tasks'[j] \in {tasks[j], None} /\ work'[j] = work[j]
      BY <2>1 DEF Started, TypeOK
    <2>6. told[i] = {} /\ ~stop[i]
      BY <2>3 DEF AnswersInv, AnswerInv
    <2>7. AnswerInv(i)'
      BY <2>2, <2>3, <2>4, <2>6 DEF AnswerInv
    <2>8. \A j \in Ids \ {i} : AnswerInv(j)'
      BY <2>3, <2>5 DEF AnswersInv, AnswerInv
    <2> QED
      BY <2>7, <2>8 DEF AnswersInv
  <1>2. CASE StartRefused
    <2>1. \A j \in Ids : tasks'[j] \in {tasks[j], None}
      BY <1>2 DEF StartRefused
    <2>2. UNCHANGED <<work, stop, told>>
      BY <1>2 DEF StartRefused, callVars
    <2> QED
      BY <2>1, <2>2 DEF AnswersInv, AnswerInv
  <1>3. ASSUME NEW i \in Ids, Event(i)
        PROVE  AnswersInv'
    <2> DEFINE n == [tasks[i] EXCEPT !.next = @ + 1, !.first = FirstAfter(tasks[i])]
    <2>1. tasks[i] \in Task /\ tasks[i] # None /\ tasks[i].first >= 1
          /\ tasks[i].next - tasks[i].first \in 0..MaxEvents
      BY <1>3 DEF Event, TypeOK, Shape
    <2>2. n.status = tasks[i].status /\ n.outcome = tasks[i].outcome
      BY ONLY <2>1, OneMoreEvent
    <2>3. tasks' = [tasks EXCEPT ![i] = n] /\ UNCHANGED <<work, stop, told>>
      BY <1>3 DEF Event, callVars
    <2> HIDE DEF n
    <2>4. tasks'[i] = n /\ \A j \in Ids \ {i} : tasks'[j] = tasks[j]
      BY <2>3 DEF TypeOK
    <2> QED
      BY <2>1, <2>2, <2>3, <2>4 DEF AnswersInv, AnswerInv
  <1>4. ASSUME NEW i \in Ids, Finish(i)
        PROVE  AnswersInv'
    <2>1. PICK t : /\ tasks' = [tasks EXCEPT ![i] = t]
                   /\ \/ tasks[i] = None /\ t = None
                      \/ /\ tasks[i] # None /\ t \in Task
                         /\ \/ tasks[i].status = "cancelled" /\ t.status = "cancelled"
                               /\ t.outcome = tasks[i].outcome
                            \/ tasks[i].status # "cancelled" /\ t.status \in {"completed", "failed"}
      BY <1>4, FinishedTask
    <2>2. /\ work[i] = "running" /\ work' = [work EXCEPT ![i] = "ended"] /\ UNCHANGED <<stop, told>>
      BY <1>4 DEF Finish, callVars
    <2>3. tasks'[i] = t /\ work'[i] = "ended" /\ AnswerInv(i)
      BY <2>1, <2>2 DEF TypeOK, AnswersInv
    <2>4. \A j \in Ids \ {i} : tasks'[j] = tasks[j] /\ work'[j] = work[j]
      BY <2>1, <2>2 DEF TypeOK
    <2>5. AnswerInv(i)'
      <3>1. CASE tasks[i] = None
        BY <2>1, <2>2, <2>3, <3>1 DEF AnswerInv
      <3>2. CASE tasks[i] # None /\ tasks[i].status = "cancelled"
        BY <2>1, <2>2, <2>3, <3>2 DEF AnswerInv
      <3>3. CASE tasks[i] # None /\ tasks[i].status # "cancelled"
        <4>1. tasks[i] \in Task
          BY <3>3 DEF TypeOK
        <4>2. tasks[i].status = "working"
          BY <2>2, <2>3, <3>3, <4>1 DEF AnswerInv, Task, Ended
        <4> QED
          BY <2>1, <2>2, <2>3, <3>3, <4>2 DEF AnswerInv
      <3> QED
        BY <3>1, <3>2, <3>3
    <2>6. \A j \in Ids \ {i} : AnswerInv(j)'
      BY <2>2, <2>4 DEF AnswersInv, AnswerInv
    <2> QED
      BY <2>5, <2>6 DEF AnswersInv
  <1>5. ASSUME NEW i \in Ids, Cancel(i)
        PROVE  AnswersInv'
    <2> DEFINE t == [tasks[i] EXCEPT !.status = "cancelled", !.finished = TRUE]
    <2>1. tasks[i] \in Task /\ tasks[i] # None /\ tasks[i].status \notin Ended
      BY <1>5 DEF Cancel, Kept, TypeOK
    <2>2. t.status = "cancelled"
      BY <2>1, Cancelled
    <2>3. tasks' = [tasks EXCEPT ![i] = t] /\ stop' = [stop EXCEPT ![i] = TRUE]
          /\ UNCHANGED <<work, told>>
      BY <1>5 DEF Cancel, callVars
    <2> HIDE DEF t
    <2>4. tasks'[i] = t /\ stop'[i] /\ work[i] # "none"
      BY <2>1, <2>3 DEF TypeOK, Shape
    <2>5. \A j \in Ids \ {i} : tasks'[j] = tasks[j] /\ stop'[j] = stop[j]
      BY <2>3 DEF TypeOK
    <2>6. told[i] = {}
      BY <2>1 DEF AnswersInv, AnswerInv, Task, Ended
    <2>7. AnswerInv(i)'
      BY <2>2, <2>3, <2>4, <2>6 DEF AnswerInv
    <2>8. \A j \in Ids \ {i} : AnswerInv(j)'
      BY <2>3, <2>5 DEF AnswersInv, AnswerInv
    <2> QED
      BY <2>7, <2>8 DEF AnswersInv
  <1>6. ASSUME NEW i \in Ids, Expire(i)
        PROVE  AnswersInv'
    BY <1>6 DEF Expire, AnswersInv, AnswerInv, callVars
  <1> QED
    BY <1>1, <1>2, <1>3, <1>4, <1>5, <1>6

LEMMA AnswersStep == TypeOK /\ Shape /\ AnswersInv /\ [Next]_vars => AnswersInv'
  <1> SUFFICES ASSUME TypeOK, Shape, AnswersInv, [Next]_vars
               PROVE  AnswersInv'
    OBVIOUS
  <1>1. CASE UNCHANGED <<storeVars, told>>
    BY <1>1 DEF AnswersInv, AnswerInv, storeVars
  <1>2. CASE UNCHANGED vars
    BY <1>1, <1>2 DEF vars, callVars
  <1>3. ASSUME NEW c \in Waiters, AskResult(c)
        PROVE  AnswersInv'
    <2>1. CASE UNCHANGED told
      BY <1>1, <1>3, <2>1 DEF AskResult
    <2>2. CASE told' # told
      <3>1. PICK i \in Ids : /\ tasks[i] # None /\ Final(tasks[i]) # None
                             /\ told' = [told EXCEPT ![i] = @ \cup {Final(tasks[i])}]
        BY <1>3, <2>2 DEF AskResult, Owned, Issued
      <3> QED
        BY <1>3, <3>1, Tell DEF AskResult
    <2> QED
      BY <2>1, <2>2
  <1>4. ASSUME NEW c \in Waiters, AnswerResult(c)
        PROVE  AnswersInv'
    <2>1. CASE UNCHANGED told
      BY <1>1, <1>4, <2>1 DEF AnswerResult
    <2>2. CASE told' # told
      <3>1. job[c].id \in Ids
        BY <1>4 DEF AnswerResult, Shape
      <3>2. /\ tasks[job[c].id] # None /\ Final(tasks[job[c].id]) # None
            /\ told' = [told EXCEPT ![job[c].id] = @ \cup {Final(tasks[job[c].id])}]
        BY <1>4, <2>2 DEF AnswerResult, Owned
      <3> QED
        BY <1>4, <3>1, <3>2, Tell DEF AnswerResult
    <2> QED
      BY <2>1, <2>2
  <1>5. ASSUME NEW c \in Waiters, Wake(c) \/ TimeOut(c)
        PROVE  AnswersInv'
    BY <1>1, <1>5 DEF Wake, TimeOut
  <1>6. ASSUME NEW p \in Pollers, Follow(p) \/ Poll(p) \/ LoseTask(p)
        PROVE  AnswersInv'
    BY <1>1, <1>6 DEF Follow, Poll, LoseTask, callVars
  <1> QED
    BY <1>2, <1>3, <1>4, <1>5, <1>6, StoreAnswers DEF Next

LEMMA AnswersShown ==
    ASSUME TypeOK, AnswersInv
    PROVE  OneAnswerPerTask
  <1> SUFFICES ASSUME NEW i \in Ids
               PROVE  /\ Cardinality(told[i]) <= 1
                      /\ stop[i] /\ tasks[i] # None => tasks[i].status = "cancelled"
                      /\ "cancelled" \in told[i] => stop[i]
    BY DEF OneAnswerPerTask
  <1>1. Cardinality(told[i]) <= 1
    <2>1. CASE told[i] = {}
      BY <2>1, FS_EmptySet
    <2>2. ASSUME NEW x \in told[i]
          PROVE  Cardinality(told[i]) <= 1
      <3>1. AnswerInv(i)
        BY DEF AnswersInv
      <3>2. \A y \in told[i] : y = x
        BY <2>2, <3>1 DEF AnswerInv
      <3>3. told[i] = {x}
        BY <2>2, <3>2
      <3>4. Cardinality({x}) = 1
        BY FS_Singleton
      <3> QED
        BY <3>3, <3>4
    <2> QED
      BY <2>1, <2>2
  <1> QED
    BY <1>1 DEF AnswersInv, AnswerInv

\* "The final result or error" (tasks.result): whoever asks, before or after it
\* slept, gets the same answer for a task, also when a cancellation races the
\* end of the work (task.rs).
THEOREM OneAnswer == Spec => []OneAnswerPerTask
  <1>1. Init => TypeOK /\ Shape /\ AnswersInv
    <2>1. Init => AnswersInv
      BY DEF Init, AnswersInv, AnswerInv
    <2> QED
      BY <2>1, TypeInit
  <1>2. (TypeOK /\ Shape /\ AnswersInv) /\ [Next]_vars => (TypeOK /\ Shape /\ AnswersInv)'
    BY TypeStep, AnswersStep
  <1>3. TypeOK /\ Shape /\ AnswersInv => OneAnswerPerTask
    BY AnswersShown
  <1> QED
    BY <1>1, <1>2, <1>3, PTL DEF Spec

-----------------------------------------------------------------------------
(* A result that is assigned once.                                         *)

\* A step that leaves the other tasks as they are.
LEMMA ResultOf ==
    ASSUME NEW i \in Ids, \A j \in Ids \ {i} : Come(j)' = Come(j)
    PROVE  Results' = [Results EXCEPT ![i] = Come(i)'] /\ Results[i] = Come(i)
  BY DEF Results

LEMMA ResultsStay ==
    ASSUME \A j \in Ids : Come(j)' = Come(j)
    PROVE  Results' = Results
  BY DEF Results

\* What comes of a task by its status.
LEMMA ResultByStatus ==
    ASSUME TypeOK, Shape, AnswersInv, NEW i \in Ids, tasks[i] # None
    PROVE  /\ Come(i) = (IF Final(tasks[i]) = None THEN "open" ELSE Final(tasks[i]))
           /\ Come(i) \in Once!Results \cup {"open"}
           /\ Come(i) # "open" => Come(i) = Final(tasks[i])
           /\ tasks[i].status = "working" => Come(i) = "open"
  <1>1. work[i] # "none"
    BY DEF Shape
  <1>2. Final(tasks[i]) # None => Final(tasks[i]) \in {"ok", "error", "cancelled"}
    BY FinalTypes
  <1>3. tasks[i].status = "working" => Final(tasks[i]) = None
    BY DEF Final, AnswersInv, AnswerInv
  <1> QED
    BY <1>1, <1>2, <1>3 DEF Come, Once!Results

\* A task that stays as it is, or goes, and whose work goes on as it did.
LEMMA StaysOrGoes ==
    ASSUME TypeOK, NEW j \in Ids, NEW gone, j \in gone <=> tasks'[j] = None,
           tasks'[j] \in {tasks[j], None}, work'[j] = work[j]
    PROVE  Come(j)' = IF j \in gone /\ Come(j) # "free" THEN "gone" ELSE Come(j)
  <1>1. CASE work[j] = "none"
    BY <1>1 DEF Come
  <1>2. CASE work[j] # "none" /\ tasks'[j] = None
    <2>1. Come(j)' = "gone"
      BY <1>2 DEF Come
    <2>2. Come(j) # "free"
      BY <1>2 DEF Come, Final, TypeOK, Task, Outcomes
    <2> QED
      BY <1>2, <2>1, <2>2
  <1>3. CASE work[j] # "none" /\ tasks'[j] # None
    <2>1. tasks'[j] = tasks[j] /\ j \notin gone
      BY <1>3
    <2>2. Come(j)' = Come(j)
      BY <2>1 DEF Come, Final
    <2> QED
      BY <2>1, <2>2
  <1> QED
    BY <1>1, <1>2, <1>3

\* Each step of the store is a step of results assigned once, or shows nothing.
LEMMA StoreResults ==
    ASSUME TypeOK, Shape, AnswersInv,
           Start \/ StartRefused \/ \E i \in Ids : Event(i) \/ Finish(i) \/ Cancel(i) \/ Expire(i)
    PROVE  Once!Next \/ UNCHANGED Once!resultVars
  <1>1. CASE Start
    <2>0. PICK p \in Principals, i \in Ids : \E fresh : Started(p, i, fresh)
      BY <1>1, StartedTask
    <2>1. PICK fresh : Started(p, i, fresh)
      BY <2>0
    <2>2. /\ work[i] = "none" /\ UNCHANGED told
          /\ tasks'[i] = fresh /\ work'[i] = "running" /\ fresh # None /\ Final(fresh) = None
          /\ \A j \in Ids \ {i} : tasks'[j] \in {tasks[j], None} /\ work'[j] = work[j]
      <3>1. fresh \in Task /\ fresh.status = "working" /\ fresh.outcome = None
        BY <2>1, Fresh DEF Started
      <3>2. fresh # None
        BY <3>1, TasksAssumption
      <3> QED
        BY <2>1, <3>1, <3>2 DEF Started, Issued, callVars, TypeOK, Final
    <2>3. PICK gone \in SUBSET Ids : gone = {j \in Ids : tasks'[j] = None}
      OBVIOUS
    <2>4. Come(i) = "free" /\ Come(i)' = "open"
      BY <2>2 DEF Come
    <2>5. \A j \in Ids \ {i} : Come(j)' = IF j \in gone /\ Come(j) # "free" THEN "gone" ELSE Come(j)
      BY <2>2, <2>3, StaysOrGoes
    <2>6. Results[i] = "free" /\ Results' = [Once!Without(gone) EXCEPT ![i] = "open"]
      BY <2>4, <2>5 DEF Results, Once!Without
    <2>7. Once!Open(i)
      BY <2>2, <2>6 DEF Once!Open
    <2> QED
      BY <2>7 DEF Once!Next
  <1>2. CASE StartRefused
    <2>1. PICK gone \in SUBSET Ids : gone = {j \in Ids : tasks'[j] = None}
      OBVIOUS
    <2>2. /\ \A j \in Ids : tasks'[j] \in {tasks[j], None}
          /\ UNCHANGED <<work, told>>
      BY <1>2 DEF StartRefused, callVars
    <2>3. \A j \in Ids : Come(j)' = IF j \in gone /\ Come(j) # "free" THEN "gone" ELSE Come(j)
      BY <2>1, <2>2, StaysOrGoes
    <2>4. Results' = Once!Without(gone)
      BY <2>3 DEF Results, Once!Without
    <2>5. Once!Forget
      BY <2>2, <2>4 DEF Once!Forget
    <2> QED
      BY <2>5 DEF Once!Next
  <1>3. ASSUME NEW i \in Ids, Event(i)
        PROVE  UNCHANGED Once!resultVars
    <2> DEFINE n == [tasks[i] EXCEPT !.next = @ + 1, !.first = FirstAfter(tasks[i])]
    <2>1. tasks[i] \in Task /\ tasks[i] # None /\ tasks[i].first >= 1
          /\ tasks[i].next - tasks[i].first \in 0..MaxEvents
      BY <1>3 DEF Event, TypeOK, Shape
    <2>2. n \in Task /\ n.status = tasks[i].status /\ n.outcome = tasks[i].outcome
      BY ONLY <2>1, OneMoreEvent
    <2>3. tasks' = [tasks EXCEPT ![i] = n] /\ UNCHANGED <<work, told>>
      BY <1>3 DEF Event, callVars
    <2>4. n # None
      BY <2>2, TasksAssumption
    <2> HIDE DEF n
    <2>5. tasks'[i] = n /\ \A j \in Ids \ {i} : tasks'[j] = tasks[j]
      BY <2>3 DEF TypeOK
    <2>6. \A j \in Ids : Come(j)' = Come(j)
      BY <2>1, <2>2, <2>3, <2>4, <2>5 DEF Come, Final
    <2> QED
      BY <2>3, <2>6, ResultsStay DEF Once!resultVars
  <1>4. ASSUME NEW i \in Ids, Finish(i)
        PROVE  Once!Next \/ UNCHANGED Once!resultVars
    <2>1. PICK t : /\ tasks' = [tasks EXCEPT ![i] = t]
                   /\ \/ tasks[i] = None /\ t = None
                      \/ /\ tasks[i] # None /\ t \in Task
                         /\ \/ tasks[i].status = "cancelled" /\ t.status = "cancelled"
                               /\ t.outcome = tasks[i].outcome
                            \/ tasks[i].status # "cancelled" /\ t.status \in {"completed", "failed"}
      BY <1>4, FinishedTask
    <2>2. /\ work[i] = "running" /\ work' = [work EXCEPT ![i] = "ended"] /\ UNCHANGED told
      BY <1>4 DEF Finish, callVars
    <2>3. /\ tasks'[i] = t /\ work'[i] = "ended"
          /\ \A j \in Ids \ {i} : Come(j)' = Come(j)
      BY <2>1, <2>2 DEF TypeOK, Come
    <2>4. CASE tasks[i] = None
      <3>1. Come(i) = "gone" /\ Come(i)' = "gone"
        BY <2>1, <2>2, <2>3, <2>4 DEF Come
      <3> QED
        BY <2>2, <2>3, <3>1, ResultsStay DEF Once!resultVars
    <2>5. CASE tasks[i] # None /\ tasks[i].status = "cancelled"
      <3>1. t # None /\ t.status = "cancelled"
        BY <2>1, <2>5, TasksAssumption
      <3>2. Come(i) = "cancelled" /\ Come(i)' = "cancelled"
        BY <2>1, <2>2, <2>3, <2>5, <3>1, TasksAssumption DEF Come, Final
      <3> QED
        BY <2>2, <2>3, <3>2, ResultsStay DEF Once!resultVars
    <2>6. CASE tasks[i] # None /\ tasks[i].status # "cancelled"
      <3>1. tasks[i].status = "working"
        BY <2>2, <2>6 DEF TypeOK, AnswersInv, AnswerInv, Task, Ended
      <3>2. Results[i] = "open"
        BY <2>6, <3>1, ResultByStatus DEF Results
      <3>3. t # None /\ Final(t) \in {"ok", "error", "cancelled", None}
        BY <2>1, <2>6, TasksAssumption DEF Final, Task, Outcomes
      <3>4. Come(i)' = IF Final(t) = None THEN "open" ELSE Final(t)
        BY <2>3, <3>3 DEF Come
      <3>8. Come(i)' \in Once!Results \cup {"open"}
        BY <3>3, <3>4 DEF Once!Results
      <3>5. Results' = [Results EXCEPT ![i] = Come(i)']
        BY <2>3, ResultOf
      <3>6. CASE Come(i)' = "open"
        BY <2>2, <3>2, <3>5, <3>6 DEF Once!resultVars, Results
      <3>7. CASE Come(i)' \in Once!Results
        <4>1. Once!Assign(i)
          BY <2>2, <3>2, <3>5, <3>7 DEF Once!Assign
        <4> QED
          BY <4>1 DEF Once!Next
      <3> QED
        BY <3>8, <3>6, <3>7
    <2> QED
      BY <2>4, <2>5, <2>6
  <1>5. ASSUME NEW i \in Ids, Cancel(i)
        PROVE  Once!Next
    <2> DEFINE t == [tasks[i] EXCEPT !.status = "cancelled", !.finished = TRUE]
    <2>1. tasks[i] \in Task /\ tasks[i] # None /\ tasks[i].status = "working"
      BY <1>5 DEF Cancel, Kept, TypeOK, Task, Ended
    <2>2. t.status = "cancelled"
      BY <2>1, Cancelled
    <2>3. tasks' = [tasks EXCEPT ![i] = t] /\ UNCHANGED <<work, told>>
      BY <1>5 DEF Cancel, callVars
    <2> HIDE DEF t
    <2>4. tasks'[i] = t /\ work[i] # "none" /\ \A j \in Ids \ {i} : Come(j)' = Come(j)
      BY <2>1, <2>3 DEF TypeOK, Shape, Come
    <2>5. t # None
      BY <2>1, <2>2, TasksAssumption, Cancelled DEF t
    <2>6. Come(i)' = "cancelled"
      BY <2>2, <2>3, <2>4, <2>5, TasksAssumption DEF Come, Final
    <2>7. Results[i] = "open" /\ Results' = [Results EXCEPT ![i] = "cancelled"]
      BY <2>1, <2>4, <2>6, ResultByStatus, ResultOf
    <2>8. Once!Assign(i)
      BY <2>3, <2>7 DEF Once!Assign, Once!Results
    <2> QED
      BY <2>8 DEF Once!Next
  <1>6. ASSUME NEW i \in Ids, Expire(i)
        PROVE  UNCHANGED Once!resultVars
    <2>1. UNCHANGED <<tasks, work, told>>
      BY <1>6 DEF Expire, callVars
    <2>2. \A j \in Ids : Come(j)' = Come(j)
      BY <2>1 DEF Come
    <2> QED
      BY <2>1, <2>2, ResultsStay DEF Once!resultVars
  <1> QED
    BY <1>1, <1>2, <1>3, <1>4, <1>5, <1>6

\* Whoever is answered is answered with the result.
LEMMA TellsResult ==
    ASSUME TypeOK, Shape, AnswersInv, NEW i \in Ids, tasks[i] # None, Final(tasks[i]) # None,
           told' = [told EXCEPT ![i] = @ \cup {Final(tasks[i])}], UNCHANGED storeVars
    PROVE  Once!Next
  <1>1. Come(i) = Final(tasks[i]) /\ Come(i) \in Once!Results
    BY FinalTypes, ResultByStatus DEF Once!Results
  <1>2. \A j \in Ids : Come(j)' = Come(j)
    BY DEF Come, storeVars
  <1>3. Results' = Results /\ Results[i] = Come(i)
    BY <1>2 DEF Results
  <1>4. Once!Answer(i)
    BY <1>1, <1>3 DEF Once!Answer
  <1> QED
    BY <1>4 DEF Once!Next

LEMMA ResultStep ==
    ASSUME TypeOK, Shape, AnswersInv, [Next]_vars
    PROVE  [Once!Next]_(Once!resultVars)
  <1>1. CASE UNCHANGED <<storeVars, told>>
    <2>1. \A j \in Ids : Come(j)' = Come(j)
      BY <1>1 DEF Come, storeVars
    <2> QED
      BY <1>1, <2>1, ResultsStay DEF Once!resultVars
  <1>2. CASE UNCHANGED vars
    BY <1>1, <1>2 DEF vars, callVars
  <1>3. ASSUME NEW c \in Waiters, AskResult(c)
        PROVE  [Once!Next]_(Once!resultVars)
    <2>1. CASE UNCHANGED told
      BY <1>1, <1>3, <2>1 DEF AskResult
    <2>2. CASE told' # told
      <3>1. PICK i \in Ids : /\ tasks[i] # None /\ Final(tasks[i]) # None
                             /\ told' = [told EXCEPT ![i] = @ \cup {Final(tasks[i])}]
        BY <1>3, <2>2 DEF AskResult, Owned, Issued
      <3> QED
        BY <1>3, <3>1, TellsResult DEF AskResult
    <2> QED
      BY <2>1, <2>2
  <1>4. ASSUME NEW c \in Waiters, AnswerResult(c)
        PROVE  [Once!Next]_(Once!resultVars)
    <2>1. CASE UNCHANGED told
      BY <1>1, <1>4, <2>1 DEF AnswerResult
    <2>2. CASE told' # told
      <3>1. job[c].id \in Ids
        BY <1>4 DEF AnswerResult, Shape
      <3>2. /\ tasks[job[c].id] # None /\ Final(tasks[job[c].id]) # None
            /\ told' = [told EXCEPT ![job[c].id] = @ \cup {Final(tasks[job[c].id])}]
        BY <1>4, <2>2 DEF AnswerResult, Owned
      <3> QED
        BY <1>4, <3>1, <3>2, TellsResult DEF AnswerResult
    <2> QED
      BY <2>1, <2>2
  <1>5. ASSUME NEW c \in Waiters, Wake(c) \/ TimeOut(c)
        PROVE  [Once!Next]_(Once!resultVars)
    BY <1>1, <1>5 DEF Wake, TimeOut
  <1>6. ASSUME NEW p \in Pollers, Follow(p) \/ Poll(p) \/ LoseTask(p)
        PROVE  [Once!Next]_(Once!resultVars)
    BY <1>1, <1>6 DEF Follow, Poll, LoseTask, callVars
  <1> QED
    BY <1>2, <1>3, <1>4, <1>5, <1>6, StoreResults DEF Next

\* The task store implements results that are assigned once (task.rs and
\* tasks.result): the end of the work, cancellation, expiry and the calls that
\* wait are steps of TaskResult or show nothing, for any number of each.
THEOREM TasksAreAssignedOnce == Spec => TasksHaveOneResult
  <1>1. Init => TypeOK /\ Shape /\ AnswersInv /\ Once!Init
    <2>1. Init => AnswersInv
      BY DEF Init, AnswersInv, AnswerInv
    <2>2. Init => Once!Init
      BY DEF Init, Once!Init, Results, Come
    <2> QED
      BY <2>1, <2>2, TypeInit
  <1>2. (TypeOK /\ Shape /\ AnswersInv) /\ [Next]_vars => (TypeOK /\ Shape /\ AnswersInv)'
    BY TypeStep, AnswersStep
  <1>3. TypeOK /\ Shape /\ AnswersInv /\ [Next]_vars => [Once!Next]_(Once!resultVars)
    BY ResultStep
  <1> QED
    BY <1>1, <1>2, <1>3, PTL DEF Spec, TasksHaveOneResult, Once!Spec

-----------------------------------------------------------------------------
(* Events.                                                                 *)

\* A client that follows nothing has seen nothing; one that follows a task has
\* a cursor below the next event, and got each event up to it once, unless it
\* was dropped.
Seen(p) ==
    /\ follow[p].id = None => \A s \in 1..MaxSeq : got[p][s] = 0
    /\ follow[p].id # None => work[follow[p].id] # "none"
    /\ follow[p].id # None /\ tasks[follow[p].id] # None =>
          /\ follow[p].after < tasks[follow[p].id].next
          /\ \A s \in 1..MaxSeq :
                IF s <= follow[p].after
                THEN got[p][s] = 1 \/ (got[p][s] = 0 /\ s < tasks[follow[p].id].first)
                ELSE got[p][s] = 0
SeenInv == \A p \in Pollers : Seen(p)

\* The events of a task only move on; an id that is in use is not given again.
EventsGrow ==
    \A i \in Ids : work[i] # "none" =>
        /\ work'[i] # "none"
        /\ tasks'[i] # None =>
              /\ tasks[i] # None
              /\ tasks'[i].next >= tasks[i].next /\ tasks'[i].first >= tasks[i].first

LEMMA StoreEvents ==
    ASSUME TypeOK, Shape,
           Start \/ StartRefused \/ \E i \in Ids : Event(i) \/ Finish(i) \/ Cancel(i) \/ Expire(i)
    PROVE  EventsGrow /\ UNCHANGED pollVars
  <1>0. \A i \in Ids : tasks[i] # None => tasks[i].next \in Nat /\ tasks[i].first \in Nat
    <2> SUFFICES ASSUME NEW i \in Ids, tasks[i] # None
                 PROVE  tasks[i].next \in Nat /\ tasks[i].first \in Nat
      OBVIOUS
    <2>1. tasks[i] \in Task
      BY DEF TypeOK
    <2> QED
      BY <2>1 DEF Task
  <1>1. CASE Start
    <2>0. PICK p \in Principals, i \in Ids : \E fresh : Started(p, i, fresh)
      BY <1>1, StartedTask
    <2>1. PICK fresh : Started(p, i, fresh)
      BY <2>0
    <2>2. work[i] = "none"
      BY <2>1 DEF Started, Issued
    <2>3. \A j \in Ids \ {i} : tasks'[j] \in {tasks[j], None} /\ work'[j] = work[j]
      BY <2>1 DEF Started, TypeOK
    <2> QED
      BY <1>0, <2>1, <2>2, <2>3 DEF Started, EventsGrow
  <1>2. CASE StartRefused
    <2>1. (\A j \in Ids : tasks'[j] \in {tasks[j], None}) /\ UNCHANGED <<work, pollVars>>
      BY <1>2 DEF StartRefused
    <2> QED
      BY <1>0, <2>1 DEF EventsGrow
  <1>3. ASSUME NEW i \in Ids, Event(i)
        PROVE  EventsGrow /\ UNCHANGED pollVars
    <2> DEFINE n == [tasks[i] EXCEPT !.next = @ + 1, !.first = FirstAfter(tasks[i])]
    <2>1. tasks[i] \in Task /\ tasks[i] # None /\ tasks[i].first >= 1
          /\ tasks[i].next - tasks[i].first \in 0..MaxEvents
      BY <1>3 DEF Event, TypeOK, Shape
    <2>2. n.next = tasks[i].next + 1 /\ n.first \in {tasks[i].first, tasks[i].first + 1}
      BY ONLY <2>1, OneMoreEvent
    <2>3. tasks' = [tasks EXCEPT ![i] = n] /\ UNCHANGED <<work, pollVars>>
      BY <1>3 DEF Event
    <2> HIDE DEF n
    <2>4. tasks'[i] = n /\ \A j \in Ids \ {i} : tasks'[j] = tasks[j]
      BY <2>3 DEF TypeOK
    <2>5. n.next >= tasks[i].next /\ n.first >= tasks[i].first
      BY <1>0, <2>1, <2>2
    <2> QED
      BY <1>0, <2>1, <2>3, <2>4, <2>5 DEF EventsGrow
  <1>4. ASSUME NEW i \in Ids, Finish(i)
        PROVE  EventsGrow /\ UNCHANGED pollVars
    <2>1. PICK t : /\ tasks' = [tasks EXCEPT ![i] = t]
                   /\ \/ tasks[i] = None /\ t = None
                      \/ tasks[i] # None /\ t.first = tasks[i].first /\ t.next = tasks[i].next
      BY <1>4, FinishedTask
    <2>2. work' = [work EXCEPT ![i] = "ended"] /\ UNCHANGED pollVars
      BY <1>4 DEF Finish
    <2>3. tasks'[i] = t /\ \A j \in Ids \ {i} : tasks'[j] = tasks[j]
      BY <2>1 DEF TypeOK
    <2>4. \A j \in Ids : work[j] # "none" => work'[j] # "none"
      BY <2>2 DEF TypeOK
    <2> QED
      BY <1>0, <2>1, <2>2, <2>3, <2>4 DEF EventsGrow
  <1>5. ASSUME NEW i \in Ids, Cancel(i)
        PROVE  EventsGrow /\ UNCHANGED pollVars
    <2> DEFINE t == [tasks[i] EXCEPT !.status = "cancelled", !.finished = TRUE]
    <2>1. tasks[i] \in Task /\ tasks[i] # None
      BY <1>5 DEF Cancel, Kept, TypeOK
    <2>2. t.first = tasks[i].first /\ t.next = tasks[i].next
      BY <2>1, Cancelled
    <2>3. tasks' = [tasks EXCEPT ![i] = t] /\ UNCHANGED <<work, pollVars>>
      BY <1>5 DEF Cancel
    <2> HIDE DEF t
    <2>4. tasks'[i] = t /\ \A j \in Ids \ {i} : tasks'[j] = tasks[j]
      BY <2>3 DEF TypeOK
    <2> QED
      BY <1>0, <2>1, <2>2, <2>3, <2>4 DEF EventsGrow
  <1>6. ASSUME NEW i \in Ids, Expire(i)
        PROVE  EventsGrow /\ UNCHANGED pollVars
    BY <1>0, <1>6 DEF Expire, EventsGrow
  <1> QED
    BY <1>1, <1>2, <1>3, <1>4, <1>5, <1>6

\* What a client got stays right while the store moves on.
LEMMA SeenKept ==
    ASSUME TypeOK, Shape, SeenInv, EventsGrow, UNCHANGED pollVars, TypeOK'
    PROVE  SeenInv'
  <1> SUFFICES ASSUME NEW p \in Pollers
               PROVE  Seen(p)'
    BY DEF SeenInv
  <1>1. follow' = follow /\ got' = got /\ Seen(p)
    BY DEF pollVars, SeenInv
  <1>2. CASE follow[p].id = None
    BY <1>1, <1>2 DEF Seen
  <1>3. CASE follow[p].id # None
    <2> DEFINE i == follow[p].id
    <2>1. i \in Ids /\ work[i] # "none" /\ follow[p].after \in Nat
      BY <1>1, <1>3 DEF Seen, TypeOK
    <2>2. work'[i] # "none"
      BY <2>1 DEF EventsGrow
    <2>3. CASE tasks'[i] = None
      BY <1>1, <1>3, <2>2, <2>3 DEF Seen
    <2>4. CASE tasks'[i] # None
      <3>1. /\ tasks[i] # None
            /\ tasks'[i].next >= tasks[i].next /\ tasks'[i].first >= tasks[i].first
        BY <2>1, <2>4 DEF EventsGrow
      <3>2. tasks[i] \in Task /\ tasks'[i] \in Task
        BY <2>1, <2>4, <3>1 DEF TypeOK
      <3>3. /\ tasks[i].next \in Nat /\ tasks'[i].next \in Nat
            /\ tasks[i].first \in Nat /\ tasks'[i].first \in Nat
        BY <3>2 DEF Task
      <3>4. follow[p].after < tasks'[i].next
        BY <1>1, <1>3, <2>1, <3>1, <3>3 DEF Seen
      <3>5. ASSUME NEW s \in 1..MaxSeq
            PROVE  IF s <= follow[p].after
                   THEN got[p][s] = 1 \/ (got[p][s] = 0 /\ s < tasks'[i].first)
                   ELSE got[p][s] = 0
        BY <1>1, <1>3, <3>1, <3>3 DEF Seen
      <3> QED
        BY <1>1, <1>3, <2>2, <3>4, <3>5 DEF Seen
    <2> QED
      BY <2>3, <2>4
  <1> QED
    BY <1>2, <1>3

\* A poll: the events after the cursor, and the cursor of the last one.
LEMMA PollSeen ==
    ASSUME TypeOK, Shape, SeenInv, NEW p \in Pollers, Poll(p)
    PROVE  SeenInv'
  <1> DEFINE i == follow[p].id
             t == tasks[i]
             New(s) == s \in t.first..(t.next - 1) /\ s > follow[p].after
  <1>1. i \in Ids /\ i # None /\ t \in Task /\ t # None /\ follow[p].after \in Nat
    BY TasksAssumption DEF Poll, Owned, TypeOK
  <1>2. t.first \in Nat /\ t.next \in Nat /\ t.first >= 1 /\ t.next >= t.first
    <2>1. t.first \in Nat /\ t.next \in Nat
      BY <1>1 DEF Task
    <2>2. t.first >= 1 /\ t.next - t.first \in 0..MaxEvents
      BY <1>1 DEF TypeOK, Shape
    <2> QED
      BY <2>1, <2>2, TasksAssumption
  <1>3. follow' = [follow EXCEPT ![p].after = t.next - 1] /\ UNCHANGED <<storeVars, callVars>>
    BY DEF Poll, Cursor
  <1>4. got' = [got EXCEPT ![p] = [s \in 1..MaxSeq |-> IF New(s) THEN got[p][s] + 1 ELSE got[p][s]]]
    BY DEF Poll
  <1>5. Seen(p) /\ work[i] # "none"
    BY <1>1 DEF SeenInv, Seen
  <1>6. follow'[p].id = i /\ follow'[p].after = t.next - 1
    BY <1>3 DEF TypeOK
  <1>7. \A s \in 1..MaxSeq : got'[p][s] = IF New(s) THEN got[p][s] + 1 ELSE got[p][s]
    BY <1>4 DEF TypeOK
  <1>8. follow[p].after < t.next
    BY <1>1, <1>5 DEF Seen
  <1>9. ASSUME NEW s \in 1..MaxSeq
        PROVE  IF s <= t.next - 1
               THEN got'[p][s] = 1 \/ (got'[p][s] = 0 /\ s < t.first)
               ELSE got'[p][s] = 0
    <2>1. s \in Nat /\ MaxSeq \in Nat
      BY TasksAssumption
    <2>2. IF s <= follow[p].after
          THEN got[p][s] = 1 \/ (got[p][s] = 0 /\ s < t.first)
          ELSE got[p][s] = 0
      BY <1>1, <1>5 DEF Seen
    <2>3. got'[p][s] = IF New(s) THEN got[p][s] + 1 ELSE got[p][s]
      BY <1>7
    <2> HIDE DEF i, t
    <2>4. CASE s <= follow[p].after
      BY <1>1, <1>2, <1>8, <2>1, <2>2, <2>3, <2>4
    <2>5. CASE ~(s <= follow[p].after)
      BY <1>1, <1>2, <1>8, <2>1, <2>2, <2>3, <2>5
    <2> QED
      BY <2>4, <2>5
  <1>10. tasks' = tasks /\ work' = work
    BY <1>3 DEF storeVars
  <1> HIDE DEF New
  <1>11. Seen(p)'
    <2>1. t.next - 1 < t.next
      BY <1>2
    <2> QED
      BY <1>1, <1>5, <1>6, <1>9, <1>10, <2>1 DEF Seen
  <1>12. \A q \in Pollers \ {p} : Seen(q)'
    <2>1. \A q \in Pollers \ {p} : follow'[q] = follow[q] /\ got'[q] = got[q]
      BY <1>3, <1>4 DEF TypeOK
    <2> QED
      BY <1>10, <2>1 DEF SeenInv, Seen
  <1> QED
    BY <1>11, <1>12 DEF SeenInv

LEMMA FollowSeen ==
    ASSUME TypeOK, Shape, SeenInv, NEW p \in Pollers, Follow(p) \/ LoseTask(p)
    PROVE  SeenInv'
  <1>1. UNCHANGED <<tasks, work>>
    BY DEF Follow, LoseTask, storeVars
  <1>2. \A q \in Pollers \ {p} : follow'[q] = follow[q] /\ got'[q] = got[q]
    BY DEF Follow, LoseTask, TypeOK
  <1>3. \A q \in Pollers \ {p} : Seen(q)'
    BY <1>1, <1>2 DEF SeenInv, Seen
  <1>4. Seen(p)'
    <2>1. CASE Follow(p)
      <3>1. PICK q \in Principals, i \in Issued :
              /\ tasks[i] # None
              /\ follow' = [follow EXCEPT ![p] = [principal |-> q, id |-> i, after |-> 0]]
        BY <2>1 DEF Follow, Owned
      <3>2. i \in Ids /\ work[i] # "none" /\ tasks[i] \in Task /\ i # None
        BY <3>1, TasksAssumption DEF Issued, TypeOK
      <3>3. follow'[p].id = i /\ follow'[p].after = 0
        BY <3>1 DEF TypeOK
      <3>4. got' = got /\ \A s \in 1..MaxSeq : got[p][s] = 0
        BY <2>1 DEF Follow, SeenInv, Seen
      <3>5. 0 < tasks[i].next
        <4>1. tasks[i].next \in Nat /\ tasks[i].first \in Nat
          BY <3>2 DEF Task
        <4>2. tasks[i].first >= 1 /\ tasks[i].next - tasks[i].first \in 0..MaxEvents
          BY <3>1, <3>2 DEF TypeOK, Shape
        <4> QED
          BY <4>1, <4>2, TasksAssumption
      <3>6. \A s \in 1..MaxSeq : ~(s <= 0)
        BY TasksAssumption
      <3> QED
        BY <1>1, <3>2, <3>3, <3>4, <3>5, <3>6 DEF Seen
    <2>2. CASE LoseTask(p)
      <3>1. follow'[p].id = None /\ \A s \in 1..MaxSeq : got'[p][s] = 0
        BY <2>2 DEF LoseTask, NoFollow, TypeOK
      <3> QED
        BY <3>1 DEF Seen
    <2> QED
      BY <2>1, <2>2
  <1> QED
    BY <1>3, <1>4 DEF SeenInv

LEMMA SeenStep == TypeOK /\ Shape /\ SeenInv /\ [Next]_vars => SeenInv'
  <1> SUFFICES ASSUME TypeOK, Shape, SeenInv, [Next]_vars
               PROVE  SeenInv'
    OBVIOUS
  <1>1. CASE UNCHANGED <<storeVars, pollVars>>
    BY <1>1 DEF SeenInv, Seen, storeVars, pollVars
  <1>2. CASE UNCHANGED vars
    BY <1>1, <1>2 DEF vars
  <1>3. CASE Start \/ StartRefused \/ \E i \in Ids : Event(i) \/ Finish(i) \/ Cancel(i) \/ Expire(i)
    BY <1>3, StoreEvents, TypeStep, SeenKept
  <1>4. ASSUME NEW c \in Waiters, AskResult(c) \/ Wake(c) \/ TimeOut(c) \/ AnswerResult(c)
        PROVE  SeenInv'
    BY <1>1, <1>4 DEF AskResult, Wake, TimeOut, AnswerResult
  <1>5. ASSUME NEW p \in Pollers, Follow(p) \/ Poll(p) \/ LoseTask(p)
        PROVE  SeenInv'
    BY <1>5, PollSeen, FollowSeen
  <1> QED
    BY <1>2, <1>3, <1>4, <1>5 DEF Next

\* "older ones are dropped, the cursor still counts them" (task.rs): a client
\* that hands its cursor back gets no event twice and skips none that is kept,
\* for any limit of the events.
THEOREM EventsSeen == Spec => []EventsSeenOnce
  <1>1. Init => TypeOK /\ Shape /\ SeenInv
    <2>1. Init => SeenInv
      BY DEF Init, SeenInv, Seen, NoFollow
    <2> QED
      BY <2>1, TypeInit
  <1>2. (TypeOK /\ Shape /\ SeenInv) /\ [Next]_vars => (TypeOK /\ Shape /\ SeenInv)'
    BY TypeStep, SeenStep
  <1>3. TypeOK /\ Shape /\ SeenInv => EventsSeenOnce
    BY DEF SeenInv, Seen, EventsSeenOnce
  <1> QED
    BY <1>1, <1>2, <1>3, PTL DEF Spec

-----------------------------------------------------------------------------
(* The limit.                                                              *)

RunningInv == \A p \in Principals : IsFiniteSet(Running(p)) /\ Cardinality(Running(p)) <= MaxRunning

LEMMA FewerRun ==
    ASSUME RunningInv, \A p \in Principals : Running(p)' \subseteq Running(p)
    PROVE  RunningInv'
  <1> SUFFICES ASSUME NEW p \in Principals
               PROVE  IsFiniteSet(Running(p))' /\ Cardinality(Running(p))' <= MaxRunning
    BY DEF RunningInv
  <1>1. IsFiniteSet(Running(p)) /\ Cardinality(Running(p)) <= MaxRunning
    BY DEF RunningInv
  <1>2. /\ IsFiniteSet(Running(p)') /\ Cardinality(Running(p)') <= Cardinality(Running(p))
    BY <1>1, FS_Subset
  <1>3. Cardinality(Running(p)') \in Nat /\ Cardinality(Running(p)) \in Nat /\ MaxRunning \in Nat
    BY <1>1, <1>2, FS_CardinalityType, TasksAssumption
  <1>4. Cardinality(Running(p)') <= MaxRunning
    BY <1>1, <1>2, <1>3
  <1> QED
    BY <1>2, <1>4

LEMMA OneMoreRuns ==
    ASSUME TypeOK, Shape, RunningInv, Start
    PROVE  RunningInv'
  <1>0. PICK p \in Principals, i \in Ids : \E fresh : Started(p, i, fresh)
    BY StartedTask
  <1>1. PICK fresh : Started(p, i, fresh)
    BY <1>0
  <1>2. fresh.principal = p
    BY <1>1, Fresh DEF Started
  <1>3. \A j \in Ids \ {i} : tasks'[j] \in {tasks[j], None} /\ (j \notin Kept => tasks'[j] = None)
    BY <1>1 DEF Started
  <1>4. tasks'[i] = fresh
    BY <1>1 DEF Started
  <1>5. ASSUME NEW q \in Principals, q # p
        PROVE  Running(q)' \subseteq Running(q)
    BY <1>1, <1>2, <1>3, <1>4, <1>5 DEF Started, Running, Kept
  <1>6. Running(p)' \subseteq Running(p) \cup {i}
    BY <1>1, <1>3 DEF Started, Running, Kept
  <1>7. IsFiniteSet(Running(p)) /\ Cardinality(Running(p)) < MaxRunning
    BY <1>1 DEF RunningInv, Started, Room
  <1>8. /\ IsFiniteSet(Running(p) \cup {i})
        /\ Cardinality(Running(p) \cup {i}) \in {Cardinality(Running(p)), Cardinality(Running(p)) + 1}
    BY <1>7, FS_AddElement
  <1>9. /\ IsFiniteSet(Running(p)')
        /\ Cardinality(Running(p)') <= Cardinality(Running(p) \cup {i})
    BY <1>6, <1>8, FS_Subset
  <1>10. Cardinality(Running(p)') \in Nat /\ Cardinality(Running(p)) \in Nat /\ MaxRunning \in Nat
    BY <1>7, <1>9, FS_CardinalityType, TasksAssumption
  <1>11. Cardinality(Running(p)') <= MaxRunning
    BY <1>7, <1>8, <1>9, <1>10
  <1>12. ASSUME NEW q \in Principals, q # p
         PROVE  IsFiniteSet(Running(q)') /\ Cardinality(Running(q)') <= MaxRunning
    <2>1. IsFiniteSet(Running(q)) /\ Cardinality(Running(q)) <= MaxRunning
      BY DEF RunningInv
    <2>2. IsFiniteSet(Running(q)') /\ Cardinality(Running(q)') <= Cardinality(Running(q))
      BY <1>5, <1>12, <2>1, FS_Subset
    <2>3. Cardinality(Running(q)') \in Nat /\ Cardinality(Running(q)) \in Nat /\ MaxRunning \in Nat
      BY <2>1, <2>2, FS_CardinalityType, TasksAssumption
    <2> QED
      BY <2>1, <2>2, <2>3
  <1> QED
    BY <1>9, <1>11, <1>12 DEF RunningInv

LEMMA RunningStep == TypeOK /\ Shape /\ RunningInv /\ [Next]_vars => RunningInv'
  <1> SUFFICES ASSUME TypeOK, Shape, RunningInv, [Next]_vars
               PROVE  RunningInv'
    OBVIOUS
  <1>1. CASE Start
    BY <1>1, OneMoreRuns
  <1>2. CASE UNCHANGED <<tasks, expired>>
    <2>1. \A p \in Principals : Running(p)' = Running(p)
      BY <1>2 DEF Running, Kept
    <2> QED
      BY <2>1, FewerRun
  <1>3. CASE StartRefused
    <2>1. \A j \in Ids : tasks'[j] \in {tasks[j], None}
      BY <1>3 DEF StartRefused
    <2>2. \A p \in Principals : Running(p)' \subseteq Running(p)
      BY <1>3, <2>1 DEF StartRefused, Running, Kept
    <2> QED
      BY <2>2, FewerRun
  <1>4. ASSUME NEW i \in Ids, Event(i)
        PROVE  RunningInv'
    <2> DEFINE n == [tasks[i] EXCEPT !.next = @ + 1, !.first = FirstAfter(tasks[i])]
    <2>1. tasks[i] \in Task /\ tasks[i] # None /\ tasks[i].first >= 1
          /\ tasks[i].next - tasks[i].first \in 0..MaxEvents
      BY <1>4 DEF Event, TypeOK, Shape
    <2>2. n.status = tasks[i].status /\ n.principal = tasks[i].principal
      BY ONLY <2>1, OneMoreEvent
    <2>3. tasks' = [tasks EXCEPT ![i] = n] /\ UNCHANGED expired
      BY <1>4 DEF Event
    <2> HIDE DEF n
    <2>4. tasks'[i] = n /\ \A j \in Ids \ {i} : tasks'[j] = tasks[j]
      BY <2>3 DEF TypeOK
    <2>5. \A p \in Principals : Running(p)' \subseteq Running(p)
      BY <2>1, <2>2, <2>3, <2>4 DEF Running, Kept
    <2> QED
      BY <2>5, FewerRun
  <1>5. ASSUME NEW i \in Ids, Finish(i)
        PROVE  RunningInv'
    <2>1. PICK t : /\ tasks' = [tasks EXCEPT ![i] = t]
                   /\ \/ tasks[i] = None /\ t = None
                      \/ tasks[i] # None /\ t.status \in Ended
      BY <1>5, FinishedTask DEF Ended
    <2>2. /\ tasks'[i] = t /\ (\A j \in Ids \ {i} : tasks'[j] = tasks[j]) /\ UNCHANGED expired
      BY <1>5, <2>1 DEF Finish, TypeOK
    <2>3. \A p \in Principals : Running(p)' \subseteq Running(p)
      BY <2>1, <2>2 DEF Running, Kept
    <2> QED
      BY <2>3, FewerRun
  <1>6. ASSUME NEW i \in Ids, Cancel(i)
        PROVE  RunningInv'
    <2> DEFINE t == [tasks[i] EXCEPT !.status = "cancelled", !.finished = TRUE]
    <2>1. tasks[i] \in Task
      BY <1>6 DEF Cancel, Kept, TypeOK
    <2>2. t.status \in Ended
      BY <2>1, Cancelled DEF Ended
    <2>3. tasks' = [tasks EXCEPT ![i] = t] /\ UNCHANGED expired
      BY <1>6 DEF Cancel
    <2> HIDE DEF t
    <2>4. tasks'[i] = t /\ \A j \in Ids \ {i} : tasks'[j] = tasks[j]
      BY <2>3 DEF TypeOK
    <2>5. \A p \in Principals : Running(p)' \subseteq Running(p)
      BY <2>2, <2>3, <2>4 DEF Running, Kept
    <2> QED
      BY <2>5, FewerRun
  <1>7. ASSUME NEW i \in Ids, Expire(i)
        PROVE  RunningInv'
    <2>1. \A p \in Principals : Running(p)' \subseteq Running(p)
      BY <1>7 DEF Expire, Running, Kept
    <2> QED
      BY <2>1, FewerRun
  <1>8. ASSUME NEW c \in Waiters, AskResult(c) \/ Wake(c) \/ TimeOut(c) \/ AnswerResult(c)
        PROVE  RunningInv'
    BY <1>2, <1>8 DEF AskResult, Wake, TimeOut, AnswerResult, storeVars
  <1>9. ASSUME NEW p \in Pollers, Follow(p) \/ Poll(p) \/ LoseTask(p)
        PROVE  RunningInv'
    BY <1>2, <1>9 DEF Follow, Poll, LoseTask, storeVars
  <1> QED
    BY <1>1, <1>2, <1>3, <1>4, <1>5, <1>6, <1>7, <1>8, <1>9 DEF Next, vars, storeVars

\* "Running at once per caller" (MAX_RUNNING_TASKS in task.rs): cancels, expiry
\* and refusals never make room for more than the limit, of the tasks that are
\* kept and not ended.
THEOREM Bounded == Spec => []RunningBounded
  <1>1. Init => TypeOK /\ Shape /\ RunningInv
    <2>1. ASSUME Init
          PROVE  RunningInv
      <3>1. \A p \in Principals : Running(p) = {}
        BY <2>1 DEF Init, Running, Kept
      <3>2. IsFiniteSet({}) /\ Cardinality({}) = 0 /\ 0 <= MaxRunning
        BY FS_EmptySet, TasksAssumption
      <3> QED
        BY <3>1, <3>2 DEF RunningInv
    <2> QED
      BY <2>1, TypeInit
  <1>2. (TypeOK /\ Shape /\ RunningInv) /\ [Next]_vars => (TypeOK /\ Shape /\ RunningInv)'
    BY TypeStep, RunningStep
  <1>3. TypeOK /\ Shape /\ RunningInv => RunningBounded
    BY DEF RunningInv, RunningBounded
  <1> QED
    BY <1>1, <1>2, <1>3, PTL DEF Spec

-----------------------------------------------------------------------------
(* The idle-time jobs beside the tasks.                                    *)

Idle == INSTANCE ChatIndexerProofs WITH Positions <- 1..2, job <- idleJob, stop <- idleStop

\* What the theorems assume of the constants of the jobs.
JobConstants ==
    /\ ColdBatch \in Nat /\ MaxRequests \in Nat /\ MaxCrashes \in Nat
    /\ None \notin Jobs!Job

LEMMA JobsAssume ==
    ASSUME JobConstants
    PROVE  Idle!IndexerConstants
  <1>1. 1..2 \subseteq 1..2 /\ 2 \in Nat
    OBVIOUS
  <1>2. Idle!Job = Jobs!Job
    BY DEF Idle!Job, Jobs!Job
  <1> QED
    BY <1>1, <1>2 DEF JobConstants, Idle!IndexerConstants

LEMMA JobsOrder ==
    ASSUME NEW S
    PROVE  Jobs!Ascending(S) = Idle!Ascending(S)
  BY Zenon DEF Jobs!Ascending, Idle!Ascending, Jobs!Cardinality, Idle!Cardinality

\* A step of the jobs is a step of the module the proofs are about.
LEMMA JobsStep ==
    ASSUME Jobs!Next
    PROVE  Idle!Next
  <1> USE DEF Jobs!requestVars, Jobs!logVars, Jobs!workerVars, Jobs!history, Jobs!At, Jobs!Go,
              Jobs!NoAnswer, Jobs!NoScan, Jobs!Free, Jobs!InFlight, Jobs!Done, Jobs!Unindexed,
              Idle!requestVars, Idle!logVars, Idle!workerVars, Idle!history, Idle!At, Idle!Go,
              Idle!NoAnswer, Idle!NoScan, Idle!Free, Idle!InFlight, Idle!Done, Idle!Unindexed
  <1>1. ASSUME NEW r \in Requests, Jobs!Begin(r) PROVE Idle!Begin(r)
    BY <1>1 DEF Jobs!Begin, Idle!Begin
  <1>2. ASSUME NEW r \in Requests, Jobs!Flag(r) PROVE Idle!Flag(r)
    BY <1>2 DEF Jobs!Flag, Idle!Flag
  <1>3. ASSUME NEW r \in Requests, Jobs!IngestRequest(r) PROVE Idle!IngestRequest(r)
    BY <1>3 DEF Jobs!IngestRequest, Idle!IngestRequest
  <1>4. ASSUME NEW r \in Requests, Jobs!RecordAnswer(r) PROVE Idle!RecordAnswer(r)
    BY <1>4 DEF Jobs!RecordAnswer, Idle!RecordAnswer
  <1>5. ASSUME NEW r \in Requests, Jobs!Enqueue(r) PROVE Idle!Enqueue(r)
    BY <1>5, JobsOrder DEF Jobs!Enqueue, Idle!Enqueue
  <1>6. ASSUME NEW r \in Requests, Jobs!End(r) PROVE Idle!End(r)
    BY <1>6 DEF Jobs!End, Idle!End
  <1>7. Jobs!TimePasses => Idle!TimePasses
    BY DEF Jobs!TimePasses, Idle!TimePasses
  <1>8. Jobs!Wake => Idle!Wake
    BY DEF Jobs!Wake, Idle!Wake
  <1>9. Jobs!WakeByTime => Idle!WakeByTime
    BY DEF Jobs!WakeByTime, Idle!WakeByTime
  <1>10. Jobs!ScanQueue => Idle!ScanQueue
    BY DEF Jobs!ScanQueue, Idle!ScanQueue
  <1>11. Jobs!ScanChat => Idle!ScanChat
    BY JobsOrder DEF Jobs!ScanChat, Idle!ScanChat
  <1>12. Jobs!ScanEnd => Idle!ScanEnd
    BY DEF Jobs!ScanEnd, Idle!ScanEnd
  <1>13. Jobs!Ready => Idle!Ready
    BY DEF Jobs!Ready, Idle!Ready
  <1>14. Jobs!Pop => Idle!Pop
    BY DEF Jobs!Pop, Idle!Pop
  <1>15. Jobs!Publish => Idle!Publish
    BY DEF Jobs!Publish, Idle!Publish
  <1>16. Jobs!GiveUp => Idle!GiveUp
    BY DEF Jobs!GiveUp, Idle!GiveUp
  <1>17. Jobs!Reply => Idle!Reply
    BY DEF Jobs!Reply, Idle!Reply
  <1>18. Jobs!WriteCard => Idle!WriteCard
    BY DEF Jobs!WriteCard, Idle!WriteCard
  <1>19. Jobs!Restart => Idle!Restart
    BY DEF Jobs!Restart, Idle!Restart
  <1> QED
    BY <1>1, <1>2, <1>3, <1>4, <1>5, <1>6, <1>7, <1>8, <1>9, <1>10, <1>11,
       <1>12, <1>13, <1>14, <1>15, <1>16, <1>17, <1>18, <1>19 DEF
       Jobs!Next, Jobs!RequestStep, Jobs!WorkerStep, Idle!Next,
       Idle!RequestStep, Idle!WorkerStep

LEMMA JobsRun ==
    ASSUME JobConstants
    PROVE  SpecAll => /\ []Idle!TypeOK
                      /\ []Idle!OneJobBeside
                      /\ []Idle!OneCardPerAnswer
  <1>1. InitAll => Idle!Init
    BY DEF InitAll, Jobs!Init, Jobs!NoAnswer, Jobs!NoScan, Jobs!Free,
           Idle!Init, Idle!NoAnswer, Idle!NoScan, Idle!Free
  <1>2. [NextAll]_allVars => [Idle!Next]_(Idle!vars)
    <2>1. Jobs!Next => Idle!Next
      BY JobsStep
    <2>2. UNCHANGED jobVars => UNCHANGED Idle!vars
      BY DEF jobVars, Idle!vars, Idle!requestVars, Idle!logVars, Idle!workerVars, Idle!history
    <2> QED
      BY <2>1, <2>2 DEF NextAll, allVars
  <1>3. Idle!Spec => []Idle!TypeOK
    BY JobsAssume, Idle!TypeCorrect
  <1>4. Idle!Spec => []Idle!OneJobBeside
    BY JobsAssume, Idle!OneJobAtMost
  <1>5. Idle!Spec => []Idle!OneCardPerAnswer
    BY JobsAssume, Idle!DescribedOnce
  <1>6. SpecAll => Idle!Spec
    BY <1>1, <1>2, PTL DEF SpecAll, Idle!Spec
  <1> QED
    BY <1>3, <1>4, <1>5, <1>6, PTL

\* Tasks and jobs keep their types, whatever runs beside them.
THEOREM ServiceTypes ==
    ASSUME JobConstants
    PROVE  SpecAll => []TypesOK
  <1>1. InitAll => TypeOK /\ Shape
    BY TypeInit DEF InitAll
  <1>2. (TypeOK /\ Shape) /\ [NextAll]_allVars => (TypeOK /\ Shape)'
    <2>1. [NextAll]_allVars => [Next]_vars
      BY DEF NextAll, allVars
    <2> QED
      BY <2>1, TypeStep
  <1>3. Idle!TypeOK => Jobs!TypeOK
    BY DEF Idle!TypeOK, Idle!Answer, Idle!Job, Idle!NoAnswer,
           Jobs!TypeOK, Jobs!Answer, Jobs!Job, Jobs!NoAnswer
  <1>4. TypeOK /\ Jobs!TypeOK => TypesOK
    BY DEF TypesOK
  <1> QED
    BY <1>1, <1>2, <1>3, <1>4, JobsRun, PTL DEF SpecAll

\* "A running job stops when one begins": of the jobs taken before it, one at
\* most runs beside a request (background.rs).
THEOREM OneIdleJob ==
    ASSUME JobConstants
    PROVE  SpecAll => []OneJobBeside
  <1>1. Idle!OneJobBeside => OneJobBeside
    BY DEF OneJobBeside, Jobs!OneJobBeside, Jobs!InFlight, Idle!OneJobBeside, Idle!InFlight
  <1> QED
    BY <1>1, JobsRun, PTL

\* An answer is described once, whether its job ran, was stopped, replaced or
\* lost and found again by a scan (background.rs, transcript.rs).
THEOREM OneCardEach ==
    ASSUME JobConstants
    PROVE  SpecAll => []OneCardPerAnswer
  <1>1. Idle!OneCardPerAnswer => OneCardPerAnswer
    BY DEF OneCardPerAnswer, Jobs!OneCardPerAnswer, Idle!OneCardPerAnswer
  <1> QED
    BY <1>1, JobsRun, PTL
=============================================================================
