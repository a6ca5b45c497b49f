-------------------------- MODULE ApprovalsProofs --------------------------
(* What holds of Approvals for any number of calls, approvals and owners,   *)
(* and whatever the limits of the store.                                    *)
EXTENDS Approvals, FiniteSetTheorems, TLAPS

\* What a call does, and which approval it is about, is known once it needs it.
JobsComplete ==
    /\ \A c \in Clients : pc[c] = "running" => job[c].deed \in Deeds
    /\ \A a \in Agents : pc[a] # "idle" => job[a].deed \in Tools
    /\ \A a \in Agents : pc[a] \notin {"idle", "asking"} => job[a].id \in Ids
    /\ \A o \in Owners : pc[o] # "idle" => job[o].id \in Ids

LEMMA JobTypes == NoJob \in Job
  BY DEF NoJob, Job

\* A call that goes on, or that learns its approval, keeps the rest.
LEMMA JobUpdates ==
    ASSUME NEW j \in Job, NEW i \in Ids, NEW b \in BOOLEAN
    PROVE  /\ [j EXCEPT !.approved = b] \in Job
           /\ [j EXCEPT !.approved = b].id = j.id
           /\ [j EXCEPT !.approved = b].deed = j.deed
           /\ [j EXCEPT !.approved = b].approved = b
           /\ [j EXCEPT !.id = i] \in Job
           /\ [j EXCEPT !.id = i].id = i
           /\ [j EXCEPT !.id = i].deed = j.deed
           /\ [j EXCEPT !.id = i].approved = j.approved
  BY DEF Job

LEMMA RequestType ==
    ASSUME TypeOK, NEW i \in Ids, NEW d \in Deeds \cup Tools, Request(i, d)
    PROVE  /\ items' \in [Ids -> Approval \cup {None}]
           /\ asked' \in [Ids -> Deeds \cup Tools \cup {None}]
  <1>1. now + Ttl \in Nat
    BY ApprovalsAssumption DEF TypeOK
  <1>2. [deed |-> d, status |-> "pending", expires |-> now + Ttl] \in Approval
    BY <1>1 DEF Approval
  <1>3. items' \in [Ids -> Approval \cup {None}]
    BY <1>2 DEF TypeOK, Request
  <1>4. asked' \in [Ids -> Deeds \cup Tools \cup {None}]
    BY DEF TypeOK, Request
  <1> QED
    BY <1>3, <1>4

LEMMA ClientTypes ==
    ASSUME TypeOK, JobsComplete, NEW c \in Clients, Send(c) \/ ClientStep(c)
    PROVE  TypeOK' /\ JobsComplete'
  <1> USE JobTypes, ApprovalsAssumption DEF States, Actors, TypeOK, JobsComplete
  <1>1. CASE Send(c)
    <2>1. PICK d \in Deeds, i \in Ids \cup {None} :
              job' = [job EXCEPT ![c] = [NoJob EXCEPT !.deed = d, !.id = i]]
      BY <1>1 DEF Send, Issued
    <2>2. [NoJob EXCEPT !.deed = d, !.id = i] \in Job
      BY DEF Job, NoJob
    <2>3. [NoJob EXCEPT !.deed = d, !.id = i].deed = d
      BY DEF NoJob
    <2> QED
      BY <1>1, <2>1, <2>2, <2>3 DEF Send, Goto, storeVars, waitVars
  <1>2. CASE Consume(c)
    <2>1. job[c].id \in Ids /\ items[job[c].id] \in Approval
      BY <1>2 DEF Consume, Valid, Job
    <2>2. [items[job[c].id] EXCEPT !.status = "used"] \in Approval
      BY <2>1 DEF Approval
    <2>3. job[c] \in Job
      OBVIOUS
    <2>4. /\ [job[c] EXCEPT !.approved = TRUE] \in Job
          /\ [job[c] EXCEPT !.approved = TRUE].deed = job[c].deed
      BY <2>1, <2>3, JobUpdates
    <2> QED
      BY <1>2, <2>1, <2>2, <2>3, <2>4 DEF Consume, waitVars
  <1>3. CASE Refuse(c)
    <2>1. PICK i \in Ids : Request(i, job[c].deed)
      BY <1>3 DEF Refuse
    <2>2. job[c].deed \in Deeds
      BY <1>3 DEF Refuse
    <2>3. UNCHANGED <<now, answer, passed>>
      BY <2>1 DEF Request
    <2>4. /\ items' \in [Ids -> Approval \cup {None}]
          /\ asked' \in [Ids -> Deeds \cup Tools \cup {None}]
      BY <2>1, <2>2, RequestType
    <2> QED
      BY <1>3, <2>3, <2>4 DEF Refuse, End, Goto, waitVars
  <1>4. CASE Return(c)
    BY <1>4 DEF Return, End, Goto, storeVars, waitVars
  <1> QED
    BY <1>1, <1>2, <1>3, <1>4 DEF ClientStep

LEMMA AgentTypes ==
    ASSUME TypeOK, JobsComplete, NEW a \in Agents, Want(a) \/ Abandon(a) \/ AgentStep(a)
    PROVE  TypeOK' /\ JobsComplete'
  <1> USE JobTypes, ApprovalsAssumption DEF States, Actors, TypeOK, JobsComplete
  <1>1. CASE Want(a)
    <2>1. PICK t \in Tools : job' = [job EXCEPT ![a] = [NoJob EXCEPT !.deed = t]]
      BY <1>1 DEF Want
    <2>2. [NoJob EXCEPT !.deed = t] \in Job /\ [NoJob EXCEPT !.deed = t].deed = t
      BY DEF Job, NoJob
    <2> QED
      BY <1>1, <2>1, <2>2 DEF Want, Goto, storeVars, waitVars
  <1>2. CASE Ask(a)
    <2>1. PICK i \in Ids : Request(i, job[a].deed) /\ job' = [job EXCEPT ![a].id = i]
      BY <1>2 DEF Ask
    <2>2. job[a].deed \in Tools
      BY <1>2 DEF Ask
    <2>3. UNCHANGED <<now, answer, passed>>
      BY <2>1 DEF Request
    <2>4. /\ items' \in [Ids -> Approval \cup {None}]
          /\ asked' \in [Ids -> Deeds \cup Tools \cup {None}]
      BY <2>1, <2>2, RequestType
    <2>5. /\ [job[a] EXCEPT !.id = i] \in Job
          /\ [job[a] EXCEPT !.id = i].id = i
          /\ [job[a] EXCEPT !.id = i].deed = job[a].deed
      BY DEF Job
    <2> QED
      BY <1>2, <2>1, <2>2, <2>3, <2>4, <2>5 DEF Ask, Goto, waitVars
  <1>3. CASE Listen(a) \/ GiveUp(a) \/ StopWaiting(a)
    BY <1>3 DEF Listen, GiveUp, StopWaiting, Goto, storeVars, waitVars
  <1>4. CASE Hear(a)
    <2> DEFINE heard == [job[a] EXCEPT !.approved = (inbox[job[a].id] = "yes")]
    <2>1. heard \in Job /\ heard.id = job[a].id /\ heard.deed = job[a].deed
      BY DEF Job
    <2>2. job' = [job EXCEPT ![a] = heard]
      BY <1>4 DEF Hear
    <2> HIDE DEF heard
    <2> QED
      BY <1>4, <2>1, <2>2 DEF Hear, Goto, storeVars, waitVars
  <1>5. CASE Forget(a)
    BY <1>5 DEF Forget, Goto
  <1>6. CASE Finish(a) \/ Abandon(a)
    BY <1>6 DEF Finish, Abandon, End, Goto, storeVars, waitVars
  <1> QED
    BY <1>1, <1>2, <1>3, <1>4, <1>5, <1>6 DEF AgentStep

LEMMA OwnerTypes ==
    ASSUME TypeOK, JobsComplete, NEW o \in Owners, Answer(o) \/ OwnerStep(o)
    PROVE  TypeOK' /\ JobsComplete'
  <1> USE JobTypes, ApprovalsAssumption DEF States, Actors, TypeOK, JobsComplete
  <1>1. CASE Answer(o)
    <2>1. PICK i \in Ids, yes \in BOOLEAN :
              job' = [job EXCEPT ![o] = [NoJob EXCEPT !.id = i, !.approved = yes]]
      BY <1>1 DEF Answer, Issued
    <2>2. /\ [NoJob EXCEPT !.id = i, !.approved = yes] \in Job
          /\ [NoJob EXCEPT !.id = i, !.approved = yes].id = i
      BY DEF Job, NoJob
    <2> QED
      BY <1>1, <2>1, <2>2 DEF Answer, Goto, storeVars, waitVars
  <1>2. CASE Decide(o)
    <2>1. job[o].id \in Ids /\ items[job[o].id] \in Approval
      BY <1>2 DEF Decide, Decidable
    <2>2. \A s \in {"approved", "rejected"} :
              [items[job[o].id] EXCEPT !.status = s] \in Approval
      BY <2>1 DEF Approval
    <2> QED
      BY <1>2, <2>1, <2>2 DEF Decide, Verdict, Goto, waitVars
  <1>3. CASE DecideNothing(o)
    BY <1>3 DEF DecideNothing, End, Goto, storeVars, waitVars
  <1>4. CASE Tell(o)
    BY <1>4 DEF Tell, Verdict, End, Goto, storeVars
  <1> QED
    BY <1>1, <1>2, <1>3, <1>4 DEF OwnerStep

LEMMA TypeInit == Init => TypeOK /\ JobsComplete
  BY JobTypes, ApprovalsAssumption DEF Init, TypeOK, JobsComplete, States, Actors

LEMMA TypeStep == TypeOK /\ JobsComplete /\ [Next]_vars => TypeOK' /\ JobsComplete'
  <1> SUFFICES ASSUME TypeOK, JobsComplete, [Next]_vars
               PROVE  TypeOK' /\ JobsComplete'
    OBVIOUS
  <1>1. CASE UNCHANGED vars
    BY <1>1 DEF TypeOK, JobsComplete, vars, storeVars, waitVars
  <1>2. CASE List
    BY <1>2 DEF List, Pruned, Live, Oldest, TypeOK, JobsComplete, waitVars
  <1>3. CASE Tick
    BY <1>3 DEF Tick, TypeOK, JobsComplete, waitVars
  <1>4. CASE Restart
    BY <1>4, JobTypes DEF Restart, TypeOK, JobsComplete, States, Actors
  <1> QED
    BY <1>1, <1>2, <1>3, <1>4, ClientTypes, AgentTypes, OwnerTypes DEF Next

\* Every variable of the store and of its calls has its type, whatever the
\* limits are (approval.rs, authorize.rs).
THEOREM TypeCorrect == Spec => []TypeOK
  <1>1. Init => TypeOK /\ JobsComplete
    BY TypeInit
  <1>2. (TypeOK /\ JobsComplete) /\ [Next]_vars => (TypeOK /\ JobsComplete)'
    BY TypeStep
  <1> QED
    BY <1>1, <1>2, PTL DEF Spec

-----------------------------------------------------------------------------
(* The store.                                                              *)

\* What the store knows of an id, and what it can still do for a call: an
\* approval that is kept was asked for, is decided once, and lets one call
\* through only while it is approved.
IdInv(i) ==
    /\ asked[i] = None => items[i] = None /\ answer[i] = None /\ passed[i] = 0
    /\ items[i] # None => items[i].deed = asked[i]
    /\ items[i] # None /\ items[i].status = "pending" => answer[i] = None /\ passed[i] = 0
    /\ items[i] # None /\ items[i].status = "approved" => answer[i] = "yes" /\ passed[i] = 0
    /\ passed[i] # 0 => passed[i] = 1 /\ answer[i] = "yes"
StoreInv == \A i \in Ids : IdInv(i)

\* History is never rewritten: an id keeps its deed, its answer, and that it
\* let a call through.
HistoryKept ==
    \A i \in Ids : /\ asked[i] # None => asked'[i] = asked[i]
                   /\ answer[i] # None => answer'[i] = answer[i]
                   /\ passed[i] = 1 => passed'[i] = 1

\* A step that changes none of the history and drops approvals at most.
LEMMA StoreDrop ==
    ASSUME StoreInv, UNCHANGED <<asked, answer, passed>>,
           \A i \in Ids : items'[i] \in {items[i], None}
    PROVE  StoreInv' /\ HistoryKept
  BY DEF StoreInv, IdInv, HistoryKept

LEMMA StoreRequest ==
    ASSUME TypeOK, StoreInv, NEW i \in Ids, NEW d \in Deeds \cup Tools, Request(i, d)
    PROVE  StoreInv' /\ HistoryKept
  <1>1. asked[i] = None /\ answer[i] = None /\ passed[i] = 0
    BY DEF Request, Issued, StoreInv, IdInv
  <1>2. asked' = [asked EXCEPT ![i] = d] /\ UNCHANGED <<answer, passed>>
    BY DEF Request
  <1>3. items'[i] = [deed |-> d, status |-> "pending", expires |-> now + Ttl]
    BY DEF Request
  <1>4. \A j \in Ids \ {i} : items'[j] \in {items[j], None}
    BY DEF Request
  <1>5. items'[i].deed = d /\ items'[i].status = "pending"
    BY <1>3
  <1>6. IdInv(i)'
    BY <1>1, <1>2, <1>5, ApprovalsAssumption DEF IdInv, TypeOK
  <1>7. \A j \in Ids \ {i} : IdInv(j)'
    BY <1>2, <1>4 DEF StoreInv, IdInv, TypeOK
  <1> QED
    BY <1>1, <1>2, <1>6, <1>7 DEF StoreInv, HistoryKept, TypeOK

LEMMA StoreConsume ==
    ASSUME TypeOK, StoreInv, NEW c \in Clients, Consume(c)
    PROVE  StoreInv' /\ HistoryKept /\ passed'[job[c].id] = 1 /\ asked[job[c].id] = job[c].deed
  <1> DEFINE i == job[c].id
  <1>1. i \in Ids /\ items[i] \in Approval
    BY DEF Consume, Valid, TypeOK, Job, Actors
  <1>2. items[i].status = "approved" /\ items[i].deed = job[c].deed /\ items[i] # None
    BY DEF Consume, Valid
  <1>3. answer[i] = "yes" /\ passed[i] = 0 /\ asked[i] = items[i].deed
    BY <1>1, <1>2 DEF StoreInv, IdInv
  <1>4. items' = [items EXCEPT ![i] = [items[i] EXCEPT !.status = "used"]]
    BY DEF Consume
  <1>5. /\ [items[i] EXCEPT !.status = "used"].status = "used"
        /\ [items[i] EXCEPT !.status = "used"].deed = items[i].deed
    BY <1>1 DEF Approval
  <1>6. passed' = [passed EXCEPT ![i] = 1] /\ UNCHANGED <<asked, answer>>
    BY <1>1, <1>3 DEF Consume, TypeOK
  <1> HIDE DEF i
  <1>7. StoreInv'
    <2> SUFFICES ASSUME NEW j \in Ids
                 PROVE  IdInv(j)'
      BY DEF StoreInv
    <2>1. CASE j = i
      <3>1. items'[j].status = "used" /\ items'[j].deed = asked[j] /\ passed'[j] = 1
        BY <1>1, <1>3, <1>4, <1>5, <1>6, <2>1 DEF TypeOK
      <3>2. asked[j] # None
        BY <1>1, <1>2, <2>1 DEF StoreInv, IdInv
      <3> QED
        BY <1>3, <1>6, <2>1, <3>1, <3>2 DEF IdInv
    <2>2. CASE j # i
      BY <1>4, <1>6, <2>2 DEF StoreInv, IdInv, TypeOK
    <2> QED
      BY <2>1, <2>2
  <1>8. HistoryKept
    BY <1>3, <1>6 DEF HistoryKept, TypeOK
  <1> QED
    BY <1>1, <1>2, <1>3, <1>6, <1>7, <1>8 DEF TypeOK, i

LEMMA StoreDecide ==
    ASSUME TypeOK, JobsComplete, StoreInv, NEW o \in Owners, Decide(o)
    PROVE  StoreInv' /\ HistoryKept
  <1> DEFINE i == job[o].id
             s == IF job[o].approved THEN "approved" ELSE "rejected"
  <1>1. i \in Ids /\ items[i] \in Approval /\ items[i] # None
    BY DEF Decide, Decidable, TypeOK, JobsComplete
  <1>2. items[i].status = "pending"
    BY DEF Decide, Decidable
  <1>3. answer[i] = None /\ passed[i] = 0 /\ asked[i] = items[i].deed
    BY <1>1, <1>2 DEF StoreInv, IdInv
  <1>4. items' = [items EXCEPT ![i] = [items[i] EXCEPT !.status = s]]
    BY DEF Decide
  <1>5. /\ [items[i] EXCEPT !.status = s].status = s
        /\ [items[i] EXCEPT !.status = s].deed = items[i].deed
    BY <1>1 DEF Approval
  <1>6. answer' = [answer EXCEPT ![i] = Verdict(o)] /\ UNCHANGED <<asked, passed>>
    BY DEF Decide
  <1>7. s \in {"approved", "rejected"} /\ (s = "approved" => Verdict(o) = "yes")
    BY DEF Verdict
  <1> HIDE DEF i, s
  <1>8. StoreInv'
    <2> SUFFICES ASSUME NEW j \in Ids
                 PROVE  IdInv(j)'
      BY DEF StoreInv
    <2>1. CASE j = i
      <3>1. items'[j].status = s /\ items'[j].deed = asked[j] /\ answer'[j] = Verdict(o)
        BY <1>1, <1>3, <1>4, <1>5, <1>6, <2>1 DEF TypeOK
      <3>2. asked[j] # None
        BY <1>1, <2>1 DEF StoreInv, IdInv
      <3> QED
        BY <1>3, <1>6, <1>7, <2>1, <3>1, <3>2 DEF IdInv
    <2>2. CASE j # i
      BY <1>4, <1>6, <2>2 DEF StoreInv, IdInv, TypeOK
    <2> QED
      BY <2>1, <2>2
  <1>9. HistoryKept
    BY <1>3, <1>6 DEF HistoryKept, TypeOK
  <1> QED
    BY <1>8, <1>9

\* Whatever is done, the store stays right and history is kept.
LEMMA StoreStep ==
    TypeOK /\ JobsComplete /\ StoreInv /\ [Next]_vars => StoreInv' /\ HistoryKept
  <1> SUFFICES ASSUME TypeOK, JobsComplete, StoreInv, [Next]_vars
               PROVE  StoreInv' /\ HistoryKept
    OBVIOUS
  <1>1. CASE UNCHANGED storeVars
    BY <1>1, StoreDrop DEF storeVars
  <1>2. ASSUME NEW c \in Clients, Send(c) \/ ClientStep(c)
        PROVE  StoreInv' /\ HistoryKept
    <2>1. CASE Send(c) \/ Return(c)
      BY <2>1, <1>1 DEF Send, Return
    <2>2. CASE Consume(c)
      BY <2>2, StoreConsume
    <2>3. CASE Refuse(c)
      BY <2>3, StoreRequest DEF Refuse, JobsComplete
    <2> QED
      BY <1>2, <2>1, <2>2, <2>3 DEF ClientStep
  <1>3. ASSUME NEW a \in Agents, Want(a) \/ Abandon(a) \/ AgentStep(a)
        PROVE  StoreInv' /\ HistoryKept
    <2>1. CASE \/ Want(a) \/ Abandon(a) \/ Listen(a) \/ Hear(a) \/ GiveUp(a)
               \/ StopWaiting(a) \/ Finish(a)
      BY <2>1, <1>1 DEF Want, Abandon, Listen, Hear, GiveUp, StopWaiting, Finish
    <2>2. CASE Ask(a)
      BY <2>2, StoreRequest DEF Ask, JobsComplete
    <2>3. CASE Forget(a)
      <3>1. \A i \in Ids : items'[i] \in {items[i], None}
        BY <2>3 DEF Forget, TypeOK
      <3> QED
        BY <2>3, <3>1, StoreDrop DEF Forget
    <2> QED
      BY <1>3, <2>1, <2>2, <2>3 DEF AgentStep
  <1>4. ASSUME NEW o \in Owners, Answer(o) \/ OwnerStep(o)
        PROVE  StoreInv' /\ HistoryKept
    <2>1. CASE Answer(o) \/ DecideNothing(o) \/ Tell(o)
      BY <2>1, <1>1 DEF Answer, DecideNothing, Tell
    <2> QED
      BY <1>4, <2>1, StoreDecide DEF OwnerStep
  <1>5. CASE List \/ Tick \/ Restart
    <2>1. /\ UNCHANGED <<asked, answer, passed>>
          /\ \A i \in Ids : items'[i] \in {items[i], None}
      BY <1>5 DEF List, Tick, Restart
    <2> QED
      BY <2>1, StoreDrop
  <1>6. CASE UNCHANGED vars
    BY <1>6, <1>1 DEF vars
  <1> QED
    BY <1>2, <1>3, <1>4, <1>5, <1>6 DEF Next

-----------------------------------------------------------------------------
(* The calls of CEP clients.                                               *)

\* A call that may go on holds the one use of an approval of its own deed.
ClientInv ==
    \A c \in Clients : pc[c] = "running" /\ job[c].approved
        => /\ job[c].id \in Ids
           /\ passed[job[c].id] = 1
           /\ asked[job[c].id] = job[c].deed

\* The others' steps change neither a call nor the history it relies on.
LEMMA ClientInvKept ==
    ASSUME JobsComplete, ClientInv, HistoryKept,
           NEW c \in Clients, pc'[c] = pc[c], job'[c] = job[c],
           pc'[c] = "running", job'[c].approved
    PROVE  /\ job'[c].id \in Ids
           /\ passed'[job'[c].id] = 1
           /\ asked'[job'[c].id] = job'[c].deed
  <1>1. job[c].id \in Ids /\ passed[job[c].id] = 1 /\ asked[job[c].id] = job[c].deed
    BY DEF ClientInv
  <1>2. job[c].deed # None
    BY ApprovalsAssumption DEF JobsComplete
  <1> QED
    BY <1>1, <1>2 DEF HistoryKept

LEMMA ClientInvStep ==
    TypeOK /\ JobsComplete /\ StoreInv /\ ClientInv /\ [Next]_vars => ClientInv'
  <1> SUFFICES ASSUME TypeOK, JobsComplete, StoreInv, ClientInv, [Next]_vars
               PROVE  ClientInv'
    OBVIOUS
  <1> USE DEF Actors, TypeOK
  <1>0. HistoryKept
    BY StoreStep
  <1>1. CASE \A c \in Clients : pc'[c] = pc[c] /\ job'[c] = job[c]
    BY <1>0, <1>1, ClientInvKept DEF ClientInv
  <1>2. ASSUME NEW d \in Clients, Send(d) \/ ClientStep(d)
        PROVE  ClientInv'
    <2>1. \A c \in Clients \ {d} : pc'[c] = pc[c] /\ job'[c] = job[c]
      BY <1>2 DEF Send, ClientStep, Consume, Refuse, Return, End, Goto
    <2>2. ASSUME pc'[d] = "running", job'[d].approved
          PROVE  /\ job'[d].id \in Ids
                 /\ passed'[job'[d].id] = 1
                 /\ asked'[job'[d].id] = job'[d].deed
      <3>1. CASE Send(d)
        <4>1. PICK e \in Deeds, i \in Ids \cup {None} :
                  job' = [job EXCEPT ![d] = [NoJob EXCEPT !.deed = e, !.id = i]]
          BY <3>1 DEF Send, Issued
        <4>2. job'[d].approved = FALSE
          BY <4>1 DEF NoJob
        <4> QED
          BY <2>2, <4>2
      <3>2. CASE Consume(d)
        <4>1. passed'[job[d].id] = 1 /\ asked[job[d].id] = job[d].deed
          BY <3>2, StoreConsume
        <4>2. job'[d] = [job[d] EXCEPT !.approved = TRUE] /\ asked' = asked
          BY <3>2 DEF Consume
        <4>3. job'[d].id = job[d].id /\ job'[d].deed = job[d].deed
          BY <4>2 DEF Job
        <4>4. job[d].id \in Ids
          BY <3>2 DEF Consume, Valid, Job
        <4> QED
          BY <4>1, <4>2, <4>3, <4>4
      <3>3. CASE Refuse(d) \/ Return(d)
        BY <3>3, <2>2 DEF Refuse, Return, End, Goto
      <3> QED
        BY <1>2, <3>1, <3>2, <3>3 DEF ClientStep
    <2> QED
      BY <1>0, <2>1, <2>2, ClientInvKept DEF ClientInv
  <1>3. ASSUME NEW a \in Agents, Want(a) \/ Abandon(a) \/ AgentStep(a)
        PROVE  ClientInv'
    BY <1>1, <1>3, ApprovalsAssumption DEF Want, Abandon, AgentStep, Ask, Listen, Hear,
        GiveUp, StopWaiting, Forget, Finish, End, Goto
  <1>4. ASSUME NEW o \in Owners, Answer(o) \/ OwnerStep(o)
        PROVE  ClientInv'
    BY <1>1, <1>4, ApprovalsAssumption DEF Answer, OwnerStep, Decide, DecideNothing,
        Tell, End, Goto
  <1>5. CASE List \/ Tick \/ UNCHANGED vars
    BY <1>1, <1>5 DEF List, Tick, vars
  <1>6. CASE Restart
    BY <1>6 DEF Restart, ClientInv
  <1> QED
    BY <1>2, <1>3, <1>4, <1>5, <1>6 DEF Next

\* "An approval covers exactly that caller, method and params, is used once"
\* (docs/api/cep/README.md): whatever is retried, pruned, answered or
\* restarted in between, no approval lets a second call through, and none lets
\* a call through that it was not asked and answered for.
THEOREM ApprovalsAreUsedOnce == Spec => []OneCallPerApproval
  <1> DEFINE Inv == TypeOK /\ JobsComplete /\ StoreInv /\ ClientInv
  <1>1. Init => Inv
    <2>1. Init => StoreInv /\ ClientInv
      BY DEF Init, StoreInv, IdInv, ClientInv, Actors
    <2> QED
      BY <2>1, TypeInit
  <1>2. Inv /\ [Next]_vars => Inv'
    BY TypeStep, StoreStep, ClientInvStep
  <1>3. Inv => OneCallPerApproval
    BY DEF OneCallPerApproval, StoreInv, IdInv, ClientInv, TypeOK
  <1> QED
    BY <1>1, <1>2, <1>3, PTL DEF Spec

-----------------------------------------------------------------------------
(* The tool calls of the agent.                                            *)

\* An answer on its way is the one the store took.
AnswerInv ==
    /\ \A i \in Ids : inbox[i] = "yes" => answer[i] = "yes"
    /\ \A o \in Owners : pc[o] = "telling" => answer[job[o].id] = Verdict(o)

\* A tool call waits for an approval of its own deed, and goes on as approved
\* only once the store took a yes.
AgentInv ==
    \A a \in Agents :
        /\ pc[a] \notin {"idle", "asking"} => asked[job[a].id] = job[a].deed
        /\ pc[a] \in {"asking", "listening", "waiting"} => ~job[a].approved
        /\ pc[a] = "running" => job[a].approved
        /\ job[a].approved => pc[a] \notin {"idle", "asking"} /\ answer[job[a].id] = "yes"

LEMMA AnswerInvStep ==
    TypeOK /\ JobsComplete /\ StoreInv /\ AnswerInv /\ [Next]_vars => AnswerInv'
  <1> SUFFICES ASSUME TypeOK, JobsComplete, StoreInv, AnswerInv, [Next]_vars
               PROVE  AnswerInv'
    OBVIOUS
  <1> USE DEF Actors, TypeOK, Verdict
  <1>0. HistoryKept
    BY StoreStep
  <1>1. ASSUME UNCHANGED inbox, \A o \in Owners : pc'[o] = pc[o] /\ job'[o] = job[o]
        PROVE  AnswerInv'
    BY <1>0, <1>1, ApprovalsAssumption DEF AnswerInv, HistoryKept, JobsComplete
  <1>2. ASSUME NEW c \in Clients, Send(c) \/ ClientStep(c)
        PROVE  AnswerInv'
    <2>1. UNCHANGED inbox
      BY <1>2 DEF Send, ClientStep, Consume, Refuse, Return, waitVars
    <2>2. \A o \in Owners : pc'[o] = pc[o] /\ job'[o] = job[o]
      BY <1>2, ApprovalsAssumption DEF Send, ClientStep, Consume, Refuse, Return, End, Goto
    <2> QED
      BY <1>1, <2>1, <2>2
  <1>3. ASSUME NEW a \in Agents, Want(a) \/ Abandon(a) \/ AgentStep(a)
        PROVE  AnswerInv'
    <2>1. UNCHANGED inbox
      BY <1>3 DEF Want, Abandon, AgentStep, Ask, Listen, Hear, GiveUp, StopWaiting, Forget,
          Finish, waitVars
    <2>2. \A o \in Owners : pc'[o] = pc[o] /\ job'[o] = job[o]
      BY <1>3, ApprovalsAssumption DEF Want, Abandon, AgentStep, Ask, Listen, Hear, GiveUp,
          StopWaiting, Forget, Finish, End, Goto
    <2> QED
      BY <1>1, <2>1, <2>2
  <1>4. ASSUME NEW o \in Owners, Answer(o) \/ OwnerStep(o)
        PROVE  AnswerInv'
    <2>1. \A p \in Owners \ {o} : pc'[p] = pc[p] /\ job'[p] = job[p]
      BY <1>4 DEF Answer, OwnerStep, Decide, DecideNothing, Tell, End, Goto
    <2>2. CASE Answer(o) \/ DecideNothing(o)
      <3>1. pc'[o] # "telling" /\ UNCHANGED inbox
        BY <2>2 DEF Answer, DecideNothing, End, Goto, waitVars
      <3> QED
        BY <1>0, <2>1, <3>1, ApprovalsAssumption DEF AnswerInv, HistoryKept, JobsComplete
    <2>3. CASE Decide(o)
      <3>1. UNCHANGED <<inbox, job>> /\ answer' = [answer EXCEPT ![job[o].id] = Verdict(o)]
        BY <2>3 DEF Decide, waitVars
      <3>2. job[o].id \in Ids
        BY <2>3 DEF Decide, JobsComplete
      <3> QED
        BY <1>0, <2>1, <3>1, <3>2, ApprovalsAssumption DEF AnswerInv, HistoryKept, JobsComplete
    <2>4. CASE Tell(o)
      <3>1. pc[o] = "telling" /\ pc'[o] # "telling" /\ UNCHANGED answer
        BY <2>4 DEF Tell, End, Goto, storeVars
      <3>2. \A i \in Ids : inbox'[i] = "yes" => inbox[i] = "yes" \/ (i = job[o].id /\ Verdict(o) = "yes")
        BY <2>4 DEF Tell
      <3> QED
        BY <1>0, <2>1, <3>1, <3>2, ApprovalsAssumption DEF AnswerInv, HistoryKept, JobsComplete
    <2> QED
      BY <1>4, <2>2, <2>3, <2>4 DEF OwnerStep
  <1>5. CASE List \/ Tick \/ UNCHANGED vars
    <2>1. UNCHANGED <<inbox, pc, job>>
      BY <1>5 DEF List, Tick, vars, waitVars
    <2> QED
      BY <1>1, <2>1
  <1>6. CASE Restart
    BY <1>6, ApprovalsAssumption DEF Restart, AnswerInv
  <1> QED
    BY <1>2, <1>3, <1>4, <1>5, <1>6 DEF Next

\* The others' steps change neither a call nor the history it relies on.
LEMMA AgentInvKept ==
    ASSUME TypeOK, JobsComplete, AgentInv, HistoryKept,
           \A a \in Agents : pc'[a] = pc[a] /\ job'[a] = job[a]
    PROVE  AgentInv'
  <1>1. \A a \in Agents : pc[a] # "idle" => job[a].deed # None
    BY ApprovalsAssumption DEF JobsComplete
  <1> QED
    BY <1>1, ApprovalsAssumption DEF AgentInv, JobsComplete, HistoryKept

LEMMA AgentInvStep ==
    TypeOK /\ JobsComplete /\ StoreInv /\ AnswerInv /\ AgentInv /\ [Next]_vars => AgentInv'
  <1> SUFFICES ASSUME TypeOK, JobsComplete, StoreInv, AnswerInv, AgentInv, [Next]_vars
               PROVE  AgentInv'
    OBVIOUS
  <1> USE DEF Actors, TypeOK
  <1>0. HistoryKept
    BY StoreStep
  <1>1. ASSUME \A a \in Agents : pc'[a] = pc[a] /\ job'[a] = job[a]
        PROVE  AgentInv'
    BY <1>0, <1>1, AgentInvKept
  <1>2. ASSUME NEW c \in Clients, Send(c) \/ ClientStep(c)
        PROVE  AgentInv'
    BY <1>1, <1>2, ApprovalsAssumption DEF Send, ClientStep, Consume, Refuse, Return, End, Goto
  <1>3. ASSUME NEW a \in Agents, Want(a) \/ Abandon(a) \/ AgentStep(a)
        PROVE  AgentInv'
    <2>1. \A b \in Agents \ {a} : pc'[b] = pc[b] /\ job'[b] = job[b]
      BY <1>3 DEF Want, Abandon, AgentStep, Ask, Listen, Hear, GiveUp, StopWaiting, Forget,
          Finish, End, Goto
    <2> DEFINE Right ==
            /\ pc[a] \notin {"idle", "asking"} => asked[job[a].id] = job[a].deed
            /\ pc[a] \in {"asking", "listening", "waiting"} => ~job[a].approved
            /\ pc[a] = "running" => job[a].approved
            /\ job[a].approved => pc[a] \notin {"idle", "asking"} /\ answer[job[a].id] = "yes"
    <2>2. Right
      BY DEF AgentInv
    <2>4. Right'
      <3>1. CASE Want(a)
        <4>1. PICK t \in Tools : job' = [job EXCEPT ![a] = [NoJob EXCEPT !.deed = t]]
          BY <3>1 DEF Want
        <4>2. job'[a].approved = FALSE /\ pc'[a] = "asking"
          BY <3>1, <4>1 DEF NoJob, Want, Goto
        <4> QED
          BY <4>2
      <3>2. CASE Ask(a)
        <4>1. PICK i \in Ids : Request(i, job[a].deed) /\ job' = [job EXCEPT ![a].id = i]
          BY <3>2 DEF Ask
        <4>2. /\ job'[a].id = i
              /\ job'[a].deed = job[a].deed
              /\ job'[a].approved = job[a].approved
          BY <4>1 DEF Job
        <4>3. asked'[i] = job[a].deed
          BY <4>1 DEF Request
        <4>4. pc[a] = "asking" /\ pc'[a] = "listening"
          BY <3>2 DEF Ask, Goto
        <4> QED
          BY <2>2, <4>2, <4>3, <4>4
      <3>3. CASE Listen(a) \/ GiveUp(a) \/ StopWaiting(a)
        BY <2>2, <3>3 DEF Listen, GiveUp, StopWaiting, Goto, storeVars
      <3>4. CASE Hear(a)
        <4>1. /\ job'[a].id = job[a].id
              /\ job'[a].deed = job[a].deed
              /\ job'[a].approved <=> inbox[job[a].id] = "yes"
          BY <3>4 DEF Hear, Job
        <4>2. pc[a] = "waiting" /\ pc'[a] = "stopping" /\ UNCHANGED <<asked, answer>>
          BY <3>4 DEF Hear, Goto, storeVars
        <4>3. job[a].id \in Ids
          BY <4>2 DEF JobsComplete
        <4> QED
          BY <2>2, <4>1, <4>2, <4>3 DEF AnswerInv
      <3>5. CASE Forget(a)
        BY <2>2, <3>5 DEF Forget, Goto
      <3>6. CASE Finish(a) \/ Abandon(a)
        BY <3>6 DEF Finish, Abandon, End, Goto, NoJob
      <3> QED
        BY <1>3, <3>1, <3>2, <3>3, <3>4, <3>5, <3>6 DEF AgentStep
    <2>5. \A b \in Agents : pc[b] # "idle" => job[b].deed # None
      BY ApprovalsAssumption DEF JobsComplete
    <2> QED
      BY <1>0, <2>1, <2>4, <2>5, ApprovalsAssumption DEF AgentInv, JobsComplete, HistoryKept
  <1>4. ASSUME NEW o \in Owners, Answer(o) \/ OwnerStep(o)
        PROVE  AgentInv'
    BY <1>1, <1>4, ApprovalsAssumption DEF Answer, OwnerStep, Decide, DecideNothing,
        Tell, End, Goto
  <1>5. CASE List \/ Tick \/ UNCHANGED vars
    BY <1>1, <1>5 DEF List, Tick, vars
  <1>6. CASE Restart
    BY <1>6 DEF Restart, AgentInv, NoJob
  <1> QED
    BY <1>2, <1>3, <1>4, <1>5, <1>6 DEF Next

\* A tool call that waited runs only on the owner's yes to that call, however
\* the decision, the waiter, the timeout and a restart interleave
\* (approval.rs decide and wait, authorize::wait).
THEOREM CallsRunAsAnswered == Spec => []RunsAsAnswered
  <1> DEFINE Inv == TypeOK /\ JobsComplete /\ StoreInv /\ AnswerInv /\ AgentInv
  <1>1. Init => Inv
    <2>1. Init => StoreInv /\ AnswerInv /\ AgentInv
      BY DEF Init, StoreInv, IdInv, AnswerInv, AgentInv, Actors, NoJob
    <2> QED
      BY <2>1, TypeInit
  <1>2. Inv /\ [Next]_vars => Inv'
    BY TypeStep, StoreStep, AnswerInvStep, AgentInvStep
  <1>3. Inv => RunsAsAnswered
    BY DEF RunsAsAnswered, AgentInv
  <1> QED
    BY <1>1, <1>2, <1>3, PTL DEF Spec

-----------------------------------------------------------------------------
(* How many approvals are kept.                                            *)

KeptInv == IsFiniteSet(Kept(Ids)) /\ Cardinality(Kept(Ids)) <= MaxKept

LEMMA KeptShrinks ==
    ASSUME KeptInv, \A i \in Ids : items'[i] # None => items[i] # None
    PROVE  KeptInv'
  <1>1. Kept(Ids)' \subseteq Kept(Ids)
    BY DEF Kept
  <1>2. /\ IsFiniteSet(Kept(Ids)') /\ Cardinality(Kept(Ids)') <= Cardinality(Kept(Ids))
        /\ Cardinality(Kept(Ids)') \in Nat /\ Cardinality(Kept(Ids)) \in Nat
    BY <1>1, FS_Subset, FS_CardinalityType DEF KeptInv
  <1> QED
    BY <1>2, ApprovalsAssumption DEF KeptInv

\* Pruning leaves a place: it drops one approval at most, which is enough
\* because no more than MaxKept were kept.
LEMMA PrunedHasRoom ==
    ASSUME KeptInv, NEW kept \in Pruned
    PROVE  IsFiniteSet(kept) /\ Cardinality(kept) + 1 <= MaxKept
  <1>1. Live \subseteq Kept(Ids)
    BY DEF Live, Kept
  <1>2. /\ IsFiniteSet(Live) /\ Cardinality(Live) <= Cardinality(Kept(Ids))
        /\ Cardinality(Live) \in Nat /\ Cardinality(Kept(Ids)) \in Nat
    BY <1>1, FS_Subset, FS_CardinalityType DEF KeptInv
  <1>3. CASE Cardinality(Live) < MaxKept
    BY <1>2, <1>3, ApprovalsAssumption DEF Pruned
  <1>4. CASE ~(Cardinality(Live) < MaxKept)
    <2>1. PICK i \in Oldest(Live) : kept = Live \ {i}
      BY <1>4 DEF Pruned
    <2>2. i \in Live
      BY <2>1 DEF Oldest
    <2>3. IsFiniteSet(kept) /\ Cardinality(kept) = Cardinality(Live) - 1
      BY <1>2, <2>1, <2>2, FS_RemoveElement
    <2> QED
      BY <1>2, <2>3, ApprovalsAssumption DEF KeptInv
  <1> QED
    BY <1>3, <1>4

LEMMA KeptRequest ==
    ASSUME KeptInv, NEW i \in Ids, NEW d, Request(i, d)
    PROVE  KeptInv'
  <1>1. PICK kept \in Pruned :
            items' = [j \in Ids |->
                        IF j = i THEN [deed |-> d, status |-> "pending", expires |-> now + Ttl]
                        ELSE IF j \in kept THEN items[j] ELSE None]
    BY DEF Request
  <1>2. IsFiniteSet(kept) /\ Cardinality(kept) + 1 <= MaxKept /\ Cardinality(kept) \in Nat
    BY PrunedHasRoom, FS_CardinalityType
  <1>3. /\ IsFiniteSet(kept \cup {i}) /\ Cardinality(kept \cup {i}) \in Nat
        /\ Cardinality(kept \cup {i}) <= Cardinality(kept) + 1
    <2>1. IsFiniteSet(kept \cup {i})
      BY <1>2, FS_AddElement
    <2>2. Cardinality(kept \cup {i}) = IF i \in kept THEN Cardinality(kept) ELSE Cardinality(kept) + 1
      BY <1>2, FS_AddElement
    <2> QED
      BY <1>2, <2>1, <2>2, FS_CardinalityType
  <1>4. Kept(Ids)' \subseteq kept \cup {i}
    BY <1>1 DEF Kept
  <1>5. /\ IsFiniteSet(Kept(Ids)') /\ Cardinality(Kept(Ids)') \in Nat
        /\ Cardinality(Kept(Ids)') <= Cardinality(kept \cup {i})
    BY <1>3, <1>4, FS_Subset, FS_CardinalityType
  <1>6. Cardinality(Kept(Ids)') <= MaxKept
    BY <1>2, <1>3, <1>5, ApprovalsAssumption
  <1> QED
    BY <1>5, <1>6 DEF KeptInv

LEMMA KeptStep ==
    TypeOK /\ JobsComplete /\ KeptInv /\ [Next]_vars => KeptInv'
  <1> SUFFICES ASSUME TypeOK, JobsComplete, KeptInv, [Next]_vars
               PROVE  KeptInv'
    OBVIOUS
  <1>1. CASE UNCHANGED items
    BY <1>1, KeptShrinks
  <1>2. ASSUME NEW c \in Clients, Send(c) \/ ClientStep(c)
        PROVE  KeptInv'
    <2>1. CASE Send(c) \/ Return(c)
      BY <2>1, <1>1 DEF Send, Return, storeVars
    <2>2. CASE Consume(c)
      <3>1. \A i \in Ids : items'[i] # None => items[i] # None
        BY <2>2 DEF Consume, Valid, TypeOK
      <3> QED
        BY <3>1, KeptShrinks
    <2>3. CASE Refuse(c)
      BY <2>3, KeptRequest DEF Refuse
    <2> QED
      BY <1>2, <2>1, <2>2, <2>3 DEF ClientStep
  <1>3. ASSUME NEW a \in Agents, Want(a) \/ Abandon(a) \/ AgentStep(a)
        PROVE  KeptInv'
    <2>1. CASE \/ Want(a) \/ Abandon(a) \/ Listen(a) \/ Hear(a) \/ GiveUp(a)
               \/ StopWaiting(a) \/ Finish(a)
      BY <2>1, <1>1 DEF Want, Abandon, Listen, Hear, GiveUp, StopWaiting, Finish, storeVars
    <2>2. CASE Ask(a)
      BY <2>2, KeptRequest DEF Ask
    <2>3. CASE Forget(a)
      <3>1. \A i \in Ids : items'[i] # None => items[i] # None
        BY <2>3 DEF Forget, TypeOK
      <3> QED
        BY <3>1, KeptShrinks
    <2> QED
      BY <1>3, <2>1, <2>2, <2>3 DEF AgentStep
  <1>4. ASSUME NEW o \in Owners, Answer(o) \/ OwnerStep(o)
        PROVE  KeptInv'
    <2>1. CASE Answer(o) \/ DecideNothing(o) \/ Tell(o)
      BY <2>1, <1>1 DEF Answer, DecideNothing, Tell, storeVars
    <2>2. CASE Decide(o)
      <3>1. \A i \in Ids : items'[i] # None => items[i] # None
        BY <2>2 DEF Decide, Decidable, TypeOK
      <3> QED
        BY <3>1, KeptShrinks
    <2> QED
      BY <1>4, <2>1, <2>2 DEF OwnerStep
  <1>5. CASE List \/ Tick \/ Restart
    <2>1. \A i \in Ids : items'[i] # None => items[i] # None
      BY <1>5 DEF List, Tick, Restart
    <2> QED
      BY <2>1, KeptShrinks
  <1>6. CASE UNCHANGED vars
    BY <1>6, <1>1 DEF vars, storeVars
  <1> QED
    BY <1>2, <1>3, <1>4, <1>5, <1>6 DEF Next

\* "At most this many approvals are kept" (MAX_KEPT, approval.rs), also when many
\* ask at once: each that asks prunes under the lock it adds its own under.
THEOREM KeptIsBounded == Spec => []KeptBounded
  <1> DEFINE Inv == TypeOK /\ JobsComplete /\ KeptInv
  <1>1. Init => Inv
    <2>1. Init => KeptInv
      <3>1. Init => Kept(Ids) = {}
        BY DEF Init, Kept
      <3> QED
        BY <3>1, FS_EmptySet, ApprovalsAssumption DEF KeptInv
    <2> QED
      BY <2>1, TypeInit
  <1>2. Inv /\ [Next]_vars => Inv'
    BY TypeStep, KeptStep
  <1>3. Inv => KeptBounded
    BY DEF KeptInv, KeptBounded
  <1> QED
    BY <1>1, <1>2, <1>3, PTL DEF Spec

-----------------------------------------------------------------------------
(* Approvals as permissions.                                               *)

\* A call that has not begun is about nothing, and one that has not asked waits
\* for nothing; only the calls of clients use approvals up.
Begins ==
    /\ \A p \in Actors : pc[p] = "idle" => job[p] = NoJob
    /\ \A a \in Agents : pc[a] = "asking" => job[a].id = None
    /\ \A i \in Ids : passed[i] # 0 => asked[i] \in Deeds

PermitInv ==
    TypeOK /\ JobsComplete /\ StoreInv /\ ClientInv /\ AnswerInv /\ AgentInv /\ Begins

LEMMA BeginsStep ==
    TypeOK /\ JobsComplete /\ StoreInv /\ Begins /\ [Next]_vars => Begins'
  <1> SUFFICES ASSUME TypeOK, JobsComplete, StoreInv, Begins, [Next]_vars
               PROVE  Begins'
    OBVIOUS
  <1> USE DEF Actors, TypeOK
  <1>0. HistoryKept
    BY StoreStep
  <1>1. \A i \in Ids : passed'[i] # 0 => asked'[i] \in Deeds
    <2>1. CASE UNCHANGED passed
      BY <1>0, <2>1, ApprovalsAssumption DEF Begins, HistoryKept
    <2>2. ASSUME NEW c \in Clients, Consume(c)
          PROVE  \A i \in Ids : passed'[i] # 0 => asked'[i] \in Deeds
      <3>1. asked[job[c].id] = job[c].deed /\ job[c].deed \in Deeds /\ UNCHANGED asked
        BY <2>2, StoreConsume DEF Consume, JobsComplete
      <3>2. \A i \in Ids : i # job[c].id => passed'[i] = passed[i]
        BY <2>2 DEF Consume
      <3> QED
        BY <3>1, <3>2 DEF Begins
    <2>3. UNCHANGED passed \/ \E c \in Clients : Consume(c)
      BY DEF Next, vars, storeVars, Send, ClientStep, Refuse, Return, Request, Want, Abandon, AgentStep,
         Ask, Listen, Hear, GiveUp, StopWaiting, Forget, Finish, Answer, OwnerStep, Decide,
         DecideNothing, Tell, List, Tick, Restart
    <2> QED
      BY <2>1, <2>2, <2>3
  <1>2. ASSUME NEW p \in Actors,
               \A q \in Actors \ {p} : pc'[q] = pc[q] /\ job'[q] = job[q],
               pc'[p] = "idle" => job'[p] = NoJob,
               p \in Agents /\ pc'[p] = "asking" => job'[p].id = None
        PROVE  Begins'
    BY <1>1, <1>2 DEF Begins
  <1>3. ASSUME NEW c \in Clients, Send(c) \/ ClientStep(c)
        PROVE  Begins'
    <2>1. \A q \in Actors \ {c} : pc'[q] = pc[q] /\ job'[q] = job[q]
      BY <1>3 DEF Send, ClientStep, Consume, Refuse, Return, End, Goto
    <2>2. pc'[c] = "idle" => job'[c] = NoJob
      BY <1>3 DEF Send, ClientStep, Consume, Refuse, Return, End, Goto
    <2> QED
      BY <1>2, <2>1, <2>2, ApprovalsAssumption
  <1>4. ASSUME NEW a \in Agents, Want(a) \/ Abandon(a) \/ AgentStep(a)
        PROVE  Begins'
    <2>1. \A q \in Actors \ {a} : pc'[q] = pc[q] /\ job'[q] = job[q]
      BY <1>4 DEF Want, Abandon, AgentStep, Ask, Listen, Hear, GiveUp, StopWaiting, Forget,
         Finish, End, Goto
    <2>2. pc'[a] = "idle" => job'[a] = NoJob
      BY <1>4 DEF Want, Abandon, AgentStep, Ask, Listen, Hear, GiveUp, StopWaiting, Forget,
         Finish, End, Goto
    <2>3. pc'[a] = "asking" => job'[a].id = None
      <3>1. pc'[a] = "asking" => Want(a)
        BY <1>4 DEF Abandon, AgentStep, Ask, Listen, Hear, GiveUp, StopWaiting, Forget, Finish, End, Goto
      <3>2. ASSUME Want(a) PROVE job'[a].id = None
        BY <3>2 DEF Want, NoJob
      <3> QED
        BY <3>1, <3>2
    <2> QED
      BY <1>2, <2>1, <2>2, <2>3
  <1>5. ASSUME NEW o \in Owners, Answer(o) \/ OwnerStep(o)
        PROVE  Begins'
    <2>1. \A q \in Actors \ {o} : pc'[q] = pc[q] /\ job'[q] = job[q]
      BY <1>5 DEF Answer, OwnerStep, Decide, DecideNothing, Tell, End, Goto
    <2>2. pc'[o] = "idle" => job'[o] = NoJob
      BY <1>5 DEF Answer, OwnerStep, Decide, DecideNothing, Tell, End, Goto
    <2> QED
      BY <1>2, <2>1, <2>2, ApprovalsAssumption
  <1>6. CASE List \/ Tick \/ UNCHANGED vars
    BY <1>1, <1>6 DEF List, Tick, vars, Begins
  <1>7. CASE Restart
    BY <1>1, <1>7 DEF Restart, Begins
  <1> QED
    BY <1>3, <1>4, <1>5, <1>6, <1>7 DEF Next

\* What a change of one call, or of one id, is in the permissions.
LEMMA CallChanges ==
    ASSUME NEW c \in Callers, \A p \in Callers : p # c => job'[p] = job[p]
    PROVE  /\ Wanted' = [Wanted EXCEPT ![c] = job'[c].deed]
           /\ Passes' = [Passes EXCEPT ![c] = Pass(c)']
           /\ Awaited' = [a \in Agents |-> IF a = c THEN job'[c].id ELSE Awaited[a]]
  <1>1. Wanted' = [Wanted EXCEPT ![c] = job'[c].deed]
    BY DEF Wanted
  <1>2. Passes' = [Passes EXCEPT ![c] = Pass(c)']
    <2>1. \A p \in Callers : p # c => Pass(p)' = Pass(p)
      BY DEF Pass
    <2> QED
      BY <2>1 DEF Passes
  <1>3. Awaited' = [a \in Agents |-> IF a = c THEN job'[c].id ELSE Awaited[a]]
    BY DEF Awaited, Callers
  <1> QED
    BY <1>1, <1>2, <1>3

LEMMA IdChanges ==
    ASSUME NEW i \in Ids, \A j \in Ids \ {i} : Standing(j)' = Standing(j)
    PROVE  Standings' = [Standings EXCEPT ![i] = Standing(i)']
  BY DEF Standings

LEMMA IdsStay ==
    ASSUME UNCHANGED <<asked, answer, passed>>
    PROVE  Standings' = Standings
  BY DEF Standings, Standing

\* A step that changes no call and no history is a stutter.
LEMMA PermitStutter ==
    ASSUME UNCHANGED <<asked, answer, passed>>, \A c \in Callers : job'[c] = job[c]
    PROVE  UNCHANGED Permit!permitVars
  <1>1. Standings' = Standings
    BY IdsStay
  <1>2. Wanted' = Wanted /\ Awaited' = Awaited
    BY DEF Wanted, Awaited, Callers
  <1>3. Passes' = Passes
    <2>1. \A c \in Callers : Pass(c)' = Pass(c)
      BY DEF Pass
    <2> QED
      BY <2>1 DEF Passes
  <1> QED
    BY <1>1, <1>2, <1>3 DEF Permit!permitVars

LEMMA PermitEnd ==
    ASSUME TypeOK, NEW c \in Callers, End(c), UNCHANGED <<asked, answer, passed>>
    PROVE  Permit!End(c)
  <1>1. job' = [job EXCEPT ![c] = NoJob] /\ NoJob.deed = None /\ NoJob.id = None /\ ~NoJob.approved
    BY DEF End, NoJob
  <1>2. job'[c] = NoJob /\ \A p \in Callers : p # c => job'[p] = job[p]
    BY <1>1 DEF Actors, Callers, TypeOK
  <1>3. Pass(c)' = None
    BY <1>1, <1>2 DEF Pass
  <1> QED
    BY <1>1, <1>2, <1>3, CallChanges, IdsStay DEF Permit!End

\* A request takes an id that was free.
LEMMA PermitRequest ==
    ASSUME PermitInv, NEW i \in Ids, NEW d \in Deeds \cup Tools, Request(i, d)
    PROVE  /\ Standings[i] = "free" /\ Standings' = [Standings EXCEPT ![i] = "asked"]
           /\ asked' = [asked EXCEPT ![i] = d]
  <1>1. asked[i] = None /\ answer[i] = None /\ passed[i] = 0
    BY DEF Request, Issued, PermitInv, StoreInv, IdInv
  <1>2. asked' = [asked EXCEPT ![i] = d] /\ UNCHANGED <<answer, passed>> /\ d # None
    BY ApprovalsAssumption DEF Request
  <1>3. asked \in [Ids -> Deeds \cup Tools \cup {None}]
    BY DEF PermitInv, TypeOK
  <1>4. Standing(i) = "free" /\ Standing(i)' = "asked" /\ \A j \in Ids \ {i} : Standing(j)' = Standing(j)
    BY <1>1, <1>2, <1>3, ApprovalsAssumption DEF Standing
  <1> QED
    BY <1>2, <1>4, IdChanges DEF Standings

LEMMA PermitOfClients ==
    ASSUME PermitInv, NEW c \in Clients, Send(c) \/ ClientStep(c)
    PROVE  Permit!Next
  <1>0. /\ c \in Actors /\ c \in Callers /\ c \notin Agents /\ Callers \subseteq Actors
        /\ job \in [Actors -> Job] /\ Permit!Callers = Callers /\ Wanted[c] = job[c].deed
    BY ApprovalsAssumption DEF PermitInv, TypeOK, Actors, Callers, Permit!Callers, Wanted
  <1>1. CASE Send(c)
    <2>1. PICK d \in Deeds, i \in Ids \cup {None} :
              job' = [job EXCEPT ![c] = [NoJob EXCEPT !.deed = d, !.id = i]]
      BY <1>1 DEF Send, Issued
    <2>2. job[c] = NoJob
      BY <1>0, <1>1 DEF Send, PermitInv, Begins
    <2>3. job'[c].deed = d /\ ~job'[c].approved /\ job[c].deed = None /\ ~job[c].approved
      BY <1>0, <2>1, <2>2 DEF NoJob
    <2>4. \A p \in Callers : p # c => job'[p] = job[p]
      BY <1>0, <2>1
    <2>5. Wanted' = [Wanted EXCEPT ![c] = d] /\ Awaited' = Awaited
      BY <1>0, <2>3, <2>4, CallChanges DEF Awaited
    <2>6. Passes' = Passes
      <3>1. Pass(c)' = None /\ Pass(c) = None
        BY <2>3 DEF Pass
      <3> QED
        BY <1>0, <2>4, <3>1, CallChanges DEF Passes
    <2>7. UNCHANGED asked /\ Standings' = Standings
      BY <1>1, IdsStay DEF Send, storeVars
    <2>8. Permit!Begin(c)
      BY <1>0, <2>3, <2>5, <2>6, <2>7 DEF Permit!Begin
    <2> QED
      BY <1>0, <2>8 DEF Permit!Next
  <1>2. CASE Consume(c)
    <2> PICK i \in Ids : i = job[c].id
      BY <1>0, <1>2 DEF Consume, Valid, Job
    <2>1. asked[i] = job[c].deed /\ passed'[i] = 1 /\ job[c].deed \in Deeds /\ ~job[c].approved
      BY <1>2, StoreConsume DEF Consume, PermitInv, JobsComplete
    <2>2. answer[i] = "yes" /\ passed[i] = 0 /\ asked[i] # None
      BY <1>2, <2>1, ApprovalsAssumption DEF Consume, Valid, PermitInv, StoreInv, IdInv
    <2>3. job' = [job EXCEPT ![c].approved = TRUE] /\ UNCHANGED <<asked, answer>>
          /\ passed' = [passed EXCEPT ![i] = @ + 1]
      BY <1>2 DEF Consume
    <2>4. job'[c] = [job[c] EXCEPT !.approved = TRUE] /\ \A p \in Callers : p # c => job'[p] = job[p]
      BY <1>0, <2>3
    <2>5. job'[c].deed = job[c].deed /\ job'[c].id = i /\ job'[c].approved
      BY <1>0, <2>4 DEF Job
    <2>6. Standing(i) = "granted" /\ Standing(i)' = "used"
      <3>1. asked'[i] # None /\ passed'[i] # 0
        BY <2>1, <2>2, <2>3
      <3>2. Standing(i)' = "used"
        BY <3>1 DEF Standing
      <3>3. Standing(i) = "granted"
        BY <2>2 DEF Standing
      <3> QED
        BY <3>2, <3>3
    <2>7. \A j \in Ids \ {i} : Standing(j)' = Standing(j)
      BY <2>3 DEF Standing, PermitInv, TypeOK
    <2>8. Standings[i] = "granted" /\ Standings' = [Standings EXCEPT ![i] = "used"]
      BY <2>1, <2>6, <2>7, IdChanges DEF Standings
    <2>9. Wanted' = Wanted /\ Awaited' = Awaited
      <3>1. \A p \in Callers : job'[p].deed = job[p].deed
        BY <2>4, <2>5
      <3>2. Awaited' = Awaited
        BY <1>0, <2>4, CallChanges DEF Awaited
      <3> QED
        BY <3>1, <3>2 DEF Wanted
    <2>10. Passes[c] = None /\ Passes' = [Passes EXCEPT ![c] = i]
      <3>1. Pass(c)' = i /\ Pass(c) = None
        BY <2>1, <2>5 DEF Pass
      <3> QED
        BY <1>0, <2>4, <3>1, CallChanges DEF Passes
    <2>11. job[c].deed # None
      BY <2>1, ApprovalsAssumption
    <2>12. Permit!Use(c, i)
      BY <1>0, <2>1, <2>3, <2>8, <2>9, <2>10, <2>11 DEF Permit!Use, Permit!GoOn
    <2> QED
      BY <2>1, <2>12 DEF Permit!Next
  <1>3. CASE Refuse(c)
    <2>1. PICK i \in Ids : Request(i, job[c].deed)
      BY <1>3 DEF Refuse
    <2>2. job[c].deed \in Deeds /\ ~job[c].approved /\ job' = [job EXCEPT ![c] = NoJob]
      BY <1>3 DEF Refuse, End, PermitInv, JobsComplete
    <2>3. /\ Standings[i] = "free" /\ Standings' = [Standings EXCEPT ![i] = "asked"]
          /\ asked' = [asked EXCEPT ![i] = job[c].deed]
      BY <2>1, <2>2, PermitRequest
    <2>4. job'[c].deed = None /\ ~job'[c].approved /\ \A p \in Callers : p # c => job'[p] = job[p]
      BY <1>0, <2>2 DEF NoJob
    <2>5. Wanted' = [Wanted EXCEPT ![c] = None] /\ Awaited' = Awaited
      BY <1>0, <2>4, CallChanges DEF Awaited
    <2>6. Passes[c] = None /\ Passes' = Passes
      <3>1. Pass(c)' = None /\ Pass(c) = None
        BY <2>2, <2>4 DEF Pass
      <3> QED
        BY <1>0, <2>4, <3>1, CallChanges DEF Passes
    <2>7. job[c].deed # None
      BY <2>2, ApprovalsAssumption
    <2>8. Permit!Refuse(c, i)
      BY <1>0, <2>3, <2>5, <2>6, <2>7 DEF Permit!Refuse, Permit!Ask
    <2> QED
      BY <2>8 DEF Permit!Next
  <1>4. CASE Return(c)
    <2>1. Permit!End(c)
      BY <1>0, <1>4, PermitEnd DEF Return, storeVars, PermitInv
    <2> QED
      BY <1>0, <2>1 DEF Permit!Next
  <1> QED
    BY <1>1, <1>2, <1>3, <1>4 DEF ClientStep

LEMMA PermitOfAgents ==
    ASSUME PermitInv, NEW a \in Agents, Want(a) \/ Abandon(a) \/ AgentStep(a)
    PROVE  Permit!Next \/ UNCHANGED Permit!permitVars
  <1>0. /\ a \in Actors /\ a \in Callers /\ Callers \subseteq Actors
        /\ job \in [Actors -> Job] /\ Permit!Callers = Callers
        /\ Wanted[a] = job[a].deed /\ Awaited[a] = job[a].id /\ Passes[a] = Pass(a)
    BY DEF PermitInv, TypeOK, Actors, Callers, Permit!Callers, Wanted, Awaited, Passes
  <1>1. CASE Want(a)
    <2>1. PICK t \in Tools : job' = [job EXCEPT ![a] = [NoJob EXCEPT !.deed = t]]
      BY <1>1 DEF Want
    <2>2. job[a] = NoJob
      BY <1>0, <1>1 DEF Want, PermitInv, Begins
    <2>3. /\ job'[a].deed = t /\ job'[a].id = None /\ ~job'[a].approved
          /\ job[a].deed = None /\ job[a].id = None /\ ~job[a].approved
      BY <1>0, <2>1, <2>2 DEF NoJob
    <2>4. \A p \in Callers : p # a => job'[p] = job[p]
      BY <1>0, <2>1
    <2>5. Wanted' = [Wanted EXCEPT ![a] = t] /\ Awaited' = Awaited
      BY <1>0, <2>3, <2>4, CallChanges DEF Awaited
    <2>6. Passes' = Passes
      <3>1. Pass(a)' = None /\ Pass(a) = None
        BY <2>3 DEF Pass
      <3> QED
        BY <1>0, <2>4, <3>1, CallChanges DEF Passes
    <2>7. UNCHANGED asked /\ Standings' = Standings
      BY <1>1, IdsStay DEF Want, storeVars
    <2>8. Permit!Begin(a)
      BY <1>0, <2>3, <2>5, <2>6, <2>7 DEF Permit!Begin
    <2> QED
      BY <1>0, <2>8 DEF Permit!Next
  <1>2. CASE Ask(a)
    <2>1. PICK i \in Ids : Request(i, job[a].deed) /\ job' = [job EXCEPT ![a].id = i]
      BY <1>2 DEF Ask
    <2>2. job[a].deed \in Tools /\ job[a].id = None /\ ~job[a].approved
      BY <1>0, <1>2 DEF Ask, PermitInv, JobsComplete, Begins, AgentInv
    <2>3. /\ Standings[i] = "free" /\ Standings' = [Standings EXCEPT ![i] = "asked"]
          /\ asked' = [asked EXCEPT ![i] = job[a].deed]
      BY <2>1, <2>2, PermitRequest
    <2>4. job'[a] = [job[a] EXCEPT !.id = i] /\ \A p \in Callers : p # a => job'[p] = job[p]
      BY <1>0, <2>1
    <2>5. job'[a].deed = job[a].deed /\ job'[a].id = i /\ ~job'[a].approved
      BY <1>0, <2>2, <2>4 DEF Job
    <2>6. Wanted' = Wanted
      <3>1. \A p \in Callers : job'[p].deed = job[p].deed
        BY <2>4, <2>5
      <3> QED
        BY <3>1 DEF Wanted
    <2>7. Awaited' = [Awaited EXCEPT ![a] = i]
      <3>1. \A p \in Agents : p # a => job'[p].id = job[p].id
        BY <2>4 DEF Callers
      <3> QED
        BY <2>5, <3>1 DEF Awaited
    <2>8. Passes[a] = None /\ Passes' = Passes
      <3>1. Pass(a)' = None /\ Pass(a) = None
        BY <2>2, <2>5 DEF Pass
      <3>2. \A p \in Callers : p # a => Pass(p)' = Pass(p)
        BY <2>4 DEF Pass
      <3>3. Passes[a] = None
        BY <1>0, <3>1
      <3> QED
        BY <3>1, <3>2, <3>3 DEF Passes
    <2>9. job[a].deed # None
      BY <2>2, ApprovalsAssumption
    <2>10. Permit!Wait(a, i)
      BY <1>0, <2>2, <2>3, <2>6, <2>7, <2>8, <2>9 DEF Permit!Wait, Permit!Ask
    <2> QED
      BY <2>10 DEF Permit!Next
  <1>3. CASE Hear(a)
    <2> PICK i \in Ids : i = job[a].id
      BY <1>3 DEF Hear, PermitInv, JobsComplete
    <2>1. /\ job[a].deed \in Tools /\ asked[i] = job[a].deed /\ ~job[a].approved
          /\ pc[a] = "waiting" /\ UNCHANGED <<asked, answer, passed>>
      BY <1>3 DEF Hear, PermitInv, JobsComplete, AgentInv, storeVars
    <2>2. job' = [job EXCEPT ![a].approved = (inbox[i] = "yes")]
      BY <1>3 DEF Hear
    <2>3. job'[a] = [job[a] EXCEPT !.approved = (inbox[i] = "yes")]
          /\ \A p \in Callers : p # a => job'[p] = job[p]
      BY <1>0, <2>2
    <2>4. /\ job'[a].deed = job[a].deed /\ job'[a].id = i
          /\ job'[a].approved <=> inbox[i] = "yes"
      BY <1>0, <2>3 DEF Job
    <2>5. Wanted' = Wanted /\ Awaited' = Awaited
      <3>1. \A p \in Callers : job'[p].deed = job[p].deed /\ job'[p].id = job[p].id
        BY <2>3, <2>4
      <3> QED
        BY <3>1 DEF Wanted, Awaited, Callers
    <2>6. Standings' = Standings
      BY <2>1, IdsStay
    <2>7. CASE inbox[i] = "yes"
      <3>1. answer[i] = "yes" /\ passed[i] = 0 /\ asked[i] # None
        BY <2>1, <2>7, ApprovalsAssumption DEF PermitInv, AnswerInv, Begins
      <3>2. Standings[i] = "granted"
        BY <3>1 DEF Standings, Standing
      <3>3. Pass(a) = None /\ Pass(a)' = i
        BY <2>1, <2>4, <2>7 DEF Pass
      <3>4. Passes[a] = None /\ Passes' = [Passes EXCEPT ![a] = i]
        BY <1>0, <2>3, <3>3, CallChanges
      <3>5. Permit!Hear(a, i)
        BY <1>0, <2>1, <2>5, <2>6, <3>1, <3>2, <3>4 DEF Permit!Hear, Permit!GoOn
      <3> QED
        BY <3>5 DEF Permit!Next
    <2>8. CASE inbox[i] # "yes"
      <3>1. Pass(a) = None /\ Pass(a)' = None
        BY <2>1, <2>4, <2>8 DEF Pass
      <3>2. Passes' = Passes
        BY <1>0, <2>3, <3>1, CallChanges DEF Passes
      <3> QED
        BY <2>1, <2>5, <2>6, <3>2 DEF Permit!permitVars
    <2> QED
      BY <2>7, <2>8
  <1>4. CASE Listen(a) \/ GiveUp(a) \/ StopWaiting(a) \/ Forget(a)
    <2>1. UNCHANGED <<asked, answer, passed, job>>
      BY <1>4 DEF Listen, GiveUp, StopWaiting, Forget, storeVars
    <2> QED
      BY <2>1, PermitStutter
  <1>5. CASE Finish(a) \/ Abandon(a)
    <2>1. Permit!End(a)
      BY <1>0, <1>5, PermitEnd DEF Finish, Abandon, storeVars, PermitInv
    <2> QED
      BY <1>0, <2>1 DEF Permit!Next
  <1> QED
    BY <1>1, <1>2, <1>3, <1>4, <1>5 DEF AgentStep

LEMMA PermitOfOwners ==
    ASSUME PermitInv, NEW o \in Owners, Answer(o) \/ OwnerStep(o)
    PROVE  Permit!Next \/ UNCHANGED Permit!permitVars
  <1>1. CASE Answer(o) \/ DecideNothing(o) \/ Tell(o)
    <2>1. UNCHANGED <<asked, answer, passed>>
      BY <1>1 DEF Answer, DecideNothing, Tell, storeVars
    <2>2. \E j : job' = [job EXCEPT ![o] = j]
      BY <1>1 DEF Answer, DecideNothing, Tell, End
    <2>3. \A c \in Callers : c # o /\ c \in Actors
      BY ApprovalsAssumption DEF Callers, Actors
    <2>4. \A c \in Callers : job'[c] = job[c]
      BY <2>2, <2>3 DEF PermitInv, TypeOK
    <2> QED
      BY <2>1, <2>4, PermitStutter
  <1>2. CASE Decide(o)
    <2> PICK i \in Ids : i = job[o].id
      BY <1>2 DEF Decide, PermitInv, JobsComplete
    <2>1. /\ answer[i] = None /\ passed[i] = 0 /\ asked[i] # None
          /\ answer' = [answer EXCEPT ![i] = Verdict(o)] /\ UNCHANGED <<asked, passed, job>>
      BY <1>2 DEF Decide, Decidable, PermitInv, StoreInv, IdInv
    <2>2. answer'[i] \in {"yes", "no"} /\ \A j \in Ids \ {i} : answer'[j] = answer[j]
      BY <2>1 DEF PermitInv, TypeOK, Verdict
    <2>3. Standing(i) = "asked"
      BY <2>1, ApprovalsAssumption DEF Standing
    <2>4. Standing(i)' \in {"granted", "refused"}
      BY <2>1, <2>2 DEF Standing
    <2>5. \A j \in Ids \ {i} : Standing(j)' = Standing(j)
      BY <2>1, <2>2 DEF Standing
    <2>6. Standings[i] = "asked" /\ Standings' = [Standings EXCEPT ![i] = Standing(i)']
      BY <2>3, <2>5, IdChanges DEF Standings
    <2>7. UNCHANGED <<asked, Wanted, Awaited, Passes>>
      <3>1. \A c \in Callers : Pass(c)' = Pass(c)
        BY <2>1 DEF Pass
      <3> QED
        BY <2>1, <3>1 DEF Wanted, Awaited, Passes
    <2>8. Permit!Answer(i)
      BY <2>4, <2>6, <2>7 DEF Permit!Answer
    <2> QED
      BY <2>8 DEF Permit!Next
  <1> QED
    BY <1>1, <1>2 DEF OwnerStep

LEMMA PermitStep ==
    ASSUME PermitInv, [Next]_vars
    PROVE  [Permit!Next]_(Permit!permitVars)
  <1>1. CASE List \/ Tick \/ UNCHANGED vars
    <2>1. UNCHANGED <<asked, answer, passed, job>>
      BY <1>1 DEF List, Tick, vars, storeVars
    <2> QED
      BY <2>1, PermitStutter
  <1>2. CASE Restart
    <2>1. \A c \in Callers : job'[c] = NoJob
      BY <1>2 DEF Restart, Callers, Actors
    <2>2. NoJob.deed = None /\ NoJob.id = None /\ ~NoJob.approved
      BY DEF NoJob
    <2>3. \A c \in Callers : Pass(c)' = None
      BY <2>1, <2>2 DEF Pass
    <2>4. Wanted' = Permit!Nobody(Callers) /\ Awaited' = Permit!Nobody(Agents)
      BY <2>1, <2>2 DEF Wanted, Awaited, Callers, Permit!Nobody
    <2>5. Passes' = Permit!Nobody(Callers)
      BY <2>3 DEF Passes, Permit!Nobody
    <2>6. UNCHANGED asked /\ Standings' = Standings
      BY <1>2, IdsStay DEF Restart
    <2> QED
      BY <2>4, <2>5, <2>6 DEF Permit!Next, Permit!Restart, Permit!Callers, Callers
  <1> QED
    BY <1>1, <1>2, PermitOfClients, PermitOfAgents, PermitOfOwners DEF Next

\* The approval store implements single-use permissions (approval.rs, registry.rs,
\* authorize.rs): whatever two calls, an owner and a restart do between the
\* critical sections, each id is answered once, and lets the call of its deed
\* alone go on.
THEOREM StoreGivesPermissions == Spec => ApprovalsArePermissions
  <1>1. Init => PermitInv /\ Permit!Init
    <2>1. Init => StoreInv /\ ClientInv /\ AnswerInv /\ AgentInv /\ Begins
      BY DEF Init, StoreInv, IdInv, ClientInv, AnswerInv, AgentInv, Begins, Actors, NoJob
    <2>2. Init => Permit!Init
      <3> SUFFICES ASSUME Init PROVE Permit!Init
        OBVIOUS
      <3>1. NoJob.deed = None /\ NoJob.id = None /\ ~NoJob.approved
        BY DEF NoJob
      <3>2. \A c \in Callers : job[c] = NoJob
        BY DEF Init, Callers, Actors
      <3>3. \A c \in Callers : Pass(c) = None
        BY <3>1, <3>2 DEF Pass
      <3>4. Wanted = Permit!Nobody(Callers) /\ Awaited = Permit!Nobody(Agents)
        BY <3>1, <3>2 DEF Wanted, Awaited, Callers, Permit!Nobody
      <3>5. Passes = Permit!Nobody(Callers)
        BY <3>3 DEF Passes, Permit!Nobody
      <3>6. \A i \in Ids : Standing(i) = "free"
        BY DEF Init, Standing
      <3> QED
        BY <3>4, <3>5, <3>6 DEF Permit!Init, Permit!Callers, Permit!Nobody, Init, Standings, Callers
    <2> QED
      BY <2>1, <2>2, TypeInit DEF PermitInv
  <1>2. PermitInv /\ [Next]_vars => PermitInv'
    BY TypeStep, StoreStep, ClientInvStep, AnswerInvStep, AgentInvStep, BeginsStep DEF PermitInv
  <1>3. PermitInv /\ [Next]_vars => [Permit!Next]_(Permit!permitVars)
    BY PermitStep
  <1> QED
    BY <1>1, <1>2, <1>3, PTL DEF Spec, ApprovalsArePermissions, Permit!Spec
=============================================================================
