----------------------------- MODULE Approvals -----------------------------
(***************************************************************************)
(* The owner's yes: the approval store of the protocol (cep/src/           *)
(* approval.rs) and the two kinds of caller that need it - a CEP client,    *)
(* which sends its call again with an approval id (registry.rs), and a tool *)
(* call of the chat agent, which waits (handlers/chat/authorize.rs).        *)
(*                                                                         *)
(* The items and the waiters are two mutexes; each action is one critical   *)
(* section of one of them.                                                  *)
(*                                                                         *)
(* Abstracted: a principal with a method and the digest of its params is a  *)
(* deed; what an approval may become besides (a grant) is ToolGrants.       *)
(***************************************************************************)
EXTENDS Naturals, FiniteSets

CONSTANTS
    Ids,      \* bound: the approval ids of a behaviour (each is fresh)
    Clients,  \* CEP calls in flight
    Agents,   \* tool calls in flight
    Owners,   \* requests of the owner in flight
    Deeds,    \* what CEP clients want to do
    Tools,    \* what the agent wants to run
    MaxKept,  \* MAX_KEPT
    Ttl,      \* how long an approval lives
    MaxTime,  \* bound: the clock
    None

ASSUME ApprovalsAssumption ==
    /\ MaxKept \in Nat \ {0} /\ Ttl \in Nat \ {0} /\ MaxTime \in Nat
    /\ None \notin Ids \cup Deeds \cup Tools \cup {"yes", "no"}
    /\ Deeds \cap Tools = {}
    /\ Clients \cap Agents = {} /\ Clients \cap Owners = {} /\ Agents \cap Owners = {}

Actors == Clients \cup Agents \cup Owners
Approval == [deed : Deeds \cup Tools, status : {"pending", "approved", "rejected", "used"},
             expires : Nat]
\* A call of a client or of the agent, or an answer of the owner; approved says
\* that it may go on, or that the answer is yes.
Job == [deed : Deeds \cup Tools \cup {None}, id : Ids \cup {None}, approved : BOOLEAN]
NoJob == [deed |-> None, id |-> None, approved |-> FALSE]

VARIABLES
    now,
    items,     \* the approvals kept
    waiters,   \* the ids whose decision an agent call waits for
    inbox,     \* the decision sent to the waiter of each id
    pc, job,
    asked, answer, passed \* history: what each id was made for, what the
                          \* owner said, how many calls it let through

storeVars == <<now, items, asked, answer, passed>>
waitVars  == <<waiters, inbox>>
vars == <<storeVars, waitVars, pc, job>>

Init ==
    /\ now = 0
    /\ items = [i \in Ids |-> None]
    /\ waiters = {}
    /\ inbox = [i \in Ids |-> None]
    /\ pc = [p \in Actors |-> "idle"]
    /\ job = [p \in Actors |-> NoJob]
    /\ asked = [i \in Ids |-> None]
    /\ answer = [i \in Ids |-> None]
    /\ passed = [i \in Ids |-> 0]

Goto(p, l) == pc' = [pc EXCEPT ![p] = l]
End(p) == Goto(p, "idle") /\ job' = [job EXCEPT ![p] = NoJob]
Issued == {i \in Ids : asked[i] # None}

-----------------------------------------------------------------------------
(* The store.                                                              *)

Live == {i \in Ids : /\ items[i] # None
                     /\ items[i].expires > now
                     /\ items[i].status \in {"pending", "approved"}}
Oldest(S) == {i \in S : \A j \in S : items[i].expires <= items[j].expires}

\* What prune may keep: used, rejected and expired approvals go, then one of
\* the oldest while the store is full.
Pruned == IF Cardinality(Live) < MaxKept THEN {Live}
          ELSE {Live \ {i} : i \in Oldest(Live)}

\* request: a fresh id, pending.
Request(i, deed) ==
    /\ i \notin Issued
    /\ \E kept \in Pruned :
          items' = [j \in Ids |->
                      IF j = i THEN [deed |-> deed, status |-> "pending", expires |-> now + Ttl]
                      ELSE IF j \in kept THEN items[j] ELSE None]
    /\ asked' = [asked EXCEPT ![i] = deed]
    /\ UNCHANGED <<now, answer, passed>>

\* approvals.list prunes too.
List ==
    /\ \E kept \in Pruned : items' = [j \in Ids |-> IF j \in kept THEN items[j] ELSE None]
    /\ UNCHANGED <<now, asked, answer, passed, waitVars, pc, job>>

-----------------------------------------------------------------------------
(* A CEP client: Call::require_approval.                                   *)

\* A call, the first time or again with the id its error named.
Send(c) ==
    /\ pc[c] = "idle"
    /\ \E d \in Deeds, i \in Issued \cup {None} :
          job' = [job EXCEPT ![c] = [NoJob EXCEPT !.deed = d, !.id = i]]
    /\ Goto(c, "running")
    /\ UNCHANGED <<storeVars, waitVars>>

\* Faulty: the params are not compared.
ValidForAnyDeed(j) ==
    /\ j.id # None
    /\ items[j.id] # None
    /\ items[j.id].status = "approved"
    /\ items[j.id].expires > now

Valid(j) ==
    /\ j.id # None
    /\ items[j.id] # None
    /\ items[j.id].status = "approved"
    /\ items[j.id].expires > now
    /\ items[j.id].deed = j.deed

\* Faulty: the approval is not used up.
ConsumeAgain(c) ==
    /\ pc[c] = "running" /\ ~job[c].approved
    /\ Valid(job[c])
    /\ passed' = [passed EXCEPT ![job[c].id] = @ + 1]
    /\ job' = [job EXCEPT ![c].approved = TRUE]
    /\ UNCHANGED <<now, items, asked, answer, waitVars, pc>>

\* consume: one approval lets one call through, and covers all its checks.
Consume(c) ==
    /\ pc[c] = "running" /\ ~job[c].approved
    /\ Valid(job[c])
    /\ items' = [items EXCEPT ![job[c].id].status = "used"]
    /\ passed' = [passed EXCEPT ![job[c].id] = @ + 1]
    /\ job' = [job EXCEPT ![c].approved = TRUE]
    /\ UNCHANGED <<now, asked, answer, waitVars, pc>>

\* approval_required: the call ends with the id of a new approval.
Refuse(c) ==
    /\ pc[c] = "running" /\ ~job[c].approved
    /\ ~Valid(job[c])
    /\ \E i \in Ids : Request(i, job[c].deed)
    /\ End(c)
    /\ UNCHANGED waitVars

Return(c) ==
    /\ pc[c] = "running" /\ job[c].approved
    /\ End(c)
    /\ UNCHANGED <<storeVars, waitVars>>

-----------------------------------------------------------------------------
(* A tool call of the agent.                                               *)

Want(a) ==
    /\ pc[a] = "idle"
    /\ \E t \in Tools : job' = [job EXCEPT ![a] = [NoJob EXCEPT !.deed = t]]
    /\ Goto(a, "asking")
    /\ UNCHANGED <<storeVars, waitVars>>

\* authorize::request: the approval, then the waiter.
Ask(a) ==
    /\ pc[a] = "asking"
    /\ \E i \in Ids : Request(i, job[a].deed) /\ job' = [job EXCEPT ![a].id = i]
    /\ Goto(a, "listening")
    /\ UNCHANGED waitVars

Listen(a) ==
    /\ pc[a] = "listening"
    /\ waiters' = waiters \cup {job[a].id}
    /\ Goto(a, "waiting")
    /\ UNCHANGED <<storeVars, inbox, job>>

\* authorize::wait: the decision ...
Hear(a) ==
    /\ pc[a] = "waiting"
    /\ inbox[job[a].id] # None
    /\ job' = [job EXCEPT ![a].approved = (inbox[job[a].id] = "yes")]
    /\ Goto(a, "stopping")
    /\ UNCHANGED <<storeVars, waitVars>>

\* Faulty: waits as long as the store keeps the approval.
GiveUpWhenKept(a) ==
    /\ pc[a] = "waiting"
    /\ inbox[job[a].id] = None
    /\ items[job[a].id] # None
    /\ Goto(a, "stopping")
    /\ UNCHANGED <<storeVars, waitVars, job>>

\* ... or the end of the time to answer.
GiveUp(a) ==
    /\ pc[a] = "waiting"
    /\ inbox[job[a].id] = None
    /\ Goto(a, "stopping")
    /\ UNCHANGED <<storeVars, waitVars, job>>

\* forget: the waiter goes, then a pending approval.
StopWaiting(a) ==
    /\ pc[a] = "stopping"
    /\ waiters' = waiters \ {job[a].id}
    /\ Goto(a, "forgetting")
    /\ UNCHANGED <<storeVars, inbox, job>>

Forget(a) ==
    LET i == job[a].id
    IN  /\ pc[a] = "forgetting"
        /\ items' = [items EXCEPT ![i] =
                        IF items[i] # None /\ items[i].status = "pending" THEN None ELSE items[i]]
        /\ Goto(a, IF job[a].approved THEN "running" ELSE "denied")
        /\ UNCHANGED <<now, asked, answer, passed, waiters, inbox, job>>

Finish(a) ==
    /\ pc[a] \in {"running", "denied"}
    /\ End(a)
    /\ UNCHANGED <<storeVars, waitVars>>

\* The client of the chat leaves: the waiting call is dropped as it is.
Abandon(a) ==
    /\ pc[a] = "waiting"
    /\ End(a)
    /\ UNCHANGED <<storeVars, waitVars>>

-----------------------------------------------------------------------------
(* The owner.                                                              *)

\* approvals.approve and approvals.reject
Answer(o) ==
    /\ pc[o] = "idle"
    /\ \E i \in Issued, yes \in BOOLEAN :
          job' = [job EXCEPT ![o] = [NoJob EXCEPT !.id = i, !.approved = yes]]
    /\ Goto(o, "deciding")
    /\ UNCHANGED <<storeVars, waitVars>>

Verdict(o) == IF job[o].approved THEN "yes" ELSE "no"

Decidable(i) == items[i] # None /\ items[i].expires > now /\ items[i].status = "pending"

\* Faulty: a decision can be taken again.
DecideAgain(o) ==
    LET i == job[o].id
    IN  /\ pc[o] = "deciding"
        /\ items[i] # None /\ items[i].expires > now
        /\ items' = [items EXCEPT ![i].status =
                        IF job[o].approved THEN "approved" ELSE "rejected"]
        /\ answer' = [answer EXCEPT ![i] = Verdict(o)]
        /\ Goto(o, "telling")
        /\ UNCHANGED <<now, asked, passed, waitVars, job>>

\* decide: the status, under the lock of the items ...
Decide(o) ==
    LET i == job[o].id
    IN  /\ pc[o] = "deciding"
        /\ Decidable(i)
        /\ items' = [items EXCEPT ![i].status =
                        IF job[o].approved THEN "approved" ELSE "rejected"]
        /\ answer' = [answer EXCEPT ![i] = Verdict(o)]
        /\ Goto(o, "telling")
        /\ UNCHANGED <<now, asked, passed, waitVars, job>>

\* approval_not_found, approval_decided
DecideNothing(o) ==
    /\ pc[o] = "deciding"
    /\ ~Decidable(job[o].id)
    /\ End(o)
    /\ UNCHANGED <<storeVars, waitVars>>

\* ... then the waiter, if there is one by now.
Tell(o) ==
    LET i == job[o].id
    IN  /\ pc[o] = "telling"
        /\ waiters' = waiters \ {i}
        /\ inbox' = [inbox EXCEPT ![i] = IF i \in waiters THEN Verdict(o) ELSE @]
        /\ End(o)
        /\ UNCHANGED storeVars

-----------------------------------------------------------------------------
Kept(S) == {i \in S \cap Ids : items[i] # None}

\* The agent's time to answer (120 s) is shorter than an approval's life
\* (300 s): an approval does not expire while its call waits.
Tick ==
    /\ now < MaxTime
    /\ \A i \in Kept({job[a].id : a \in {a \in Agents : pc[a] # "idle"}}) :
          items[i].expires > now + 1
    /\ now' = now + 1
    /\ UNCHANGED <<items, asked, answer, passed, waitVars, pc, job>>

\* The store is memory only.
Restart ==
    /\ items' = [i \in Ids |-> None]
    /\ waiters' = {}
    /\ inbox' = [i \in Ids |-> None]
    /\ pc' = [p \in Actors |-> "idle"]
    /\ job' = [p \in Actors |-> NoJob]
    /\ UNCHANGED <<now, asked, answer, passed>>

ClientStep(c) == Consume(c) \/ Refuse(c) \/ Return(c)
AgentStep(a) ==
    \/ Ask(a) \/ Listen(a) \/ Hear(a) \/ GiveUp(a) \/ StopWaiting(a) \/ Forget(a) \/ Finish(a)
OwnerStep(o) == Decide(o) \/ DecideNothing(o) \/ Tell(o)

Next ==
    \/ \E c \in Clients : Send(c) \/ ClientStep(c)
    \/ \E a \in Agents : Want(a) \/ Abandon(a) \/ AgentStep(a)
    \/ \E o \in Owners : Answer(o) \/ OwnerStep(o)
    \/ List \/ Tick \/ Restart

Spec == Init /\ [][Next]_vars

\* A call in flight goes on; nobody has to answer, to retry or to leave.
FairSpec == Spec /\ \A a \in Agents : WF_vars(AgentStep(a))

-----------------------------------------------------------------------------
(* Correctness.                                                            *)

States == {"idle", "running", "asking", "listening", "waiting", "stopping",
           "forgetting", "denied", "deciding", "telling"}

\* Every variable has its type.
TypeOK ==
    /\ now \in Nat
    /\ items \in [Ids -> Approval \cup {None}]
    /\ waiters \subseteq Ids
    /\ inbox \in [Ids -> {"yes", "no", None}]
    /\ pc \in [Actors -> States] /\ job \in [Actors -> Job]
    /\ asked \in [Ids -> Deeds \cup Tools \cup {None}]
    /\ answer \in [Ids -> {"yes", "no", None}]
    /\ passed \in [Ids -> Nat]

\* "An approval covers exactly that caller, method and params, is used once"
\* (docs/api/cep/README.md), also when two retries carry the same id and the
\* store is pruned or the owner answers in between: a call that goes on has
\* the owner's yes to that very deed, and no other call had it.
OneCallPerApproval ==
    /\ \A i \in Ids : passed[i] # 0 => passed[i] = 1 /\ answer[i] = "yes"
    /\ \A c \in Clients : pc[c] = "running" /\ job[c].approved
                            => passed[job[c].id] = 1 /\ asked[job[c].id] = job[c].deed

\* A tool call that waited runs only on the owner's yes to that call; the answer
\* travels through two mutexes and can meet a timeout (authorize::wait).
RunsAsAnswered ==
    \A a \in Agents : pc[a] = "running" /\ job[a].id # None
                        => answer[job[a].id] = "yes" /\ asked[job[a].id] = job[a].deed

\* Where an id is in its life, by what was asked, answered and used.
Standing(i) ==
    IF asked[i] = None THEN "free"
    ELSE IF passed[i] # 0 THEN "used"
    ELSE IF answer[i] = "yes" THEN "granted"
    ELSE IF answer[i] = "no" THEN "refused" ELSE "asked"

\* Of each call: what it wants to do, the id it waits for, the id it goes on with.
Callers == Clients \cup Agents
Standings == [i \in Ids |-> Standing(i)]
Wanted == [c \in Callers |-> job[c].deed]
Awaited == [a \in Agents |-> job[a].id]
Pass(c) == IF job[c].approved THEN job[c].id ELSE None
Passes == [c \in Callers |-> Pass(c)]

\* "The owner's yes for one exact call" (approval.rs): the store with its two
\* mutexes, its pruning and its waiters gives permissions that are answered once
\* and let the call of their deed alone go on.
Permit == INSTANCE Permission WITH
    Deeds <- Deeds \cup Tools,
    about <- asked, standing <- Standings,
    deed <- Wanted, waits <- Awaited, permitted <- Passes
ApprovalsArePermissions == Permit!Spec

\* "At most this many approvals are kept" (MAX_KEPT), whoever asks at once.
KeptBounded == Cardinality(Kept(Ids)) <= MaxKept

\* A waiting tool call ends, also when nobody answers and when its approval was
\* pruned or decided meanwhile.
EveryWaitEnds == \A a \in Agents : pc[a] = "waiting" ~> pc[a] \in {"idle", "running", "denied"}
=============================================================================
