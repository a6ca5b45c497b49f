----------------------------- MODULE ToolGrants -----------------------------
(***************************************************************************)
(* "Allow this tool for this chat": the grants of one chat in memory        *)
(* (agents/src/lifecycle/grants.rs), the grant events of its log, and the    *)
(* requests that give, use, revoke and delete them (handlers/chat/           *)
(* authorize.rs, cep/methods/approvals.rs and memory.rs).                    *)
(*                                                                         *)
(* Each action is one critical section of GRANTS, of REQUESTS or of the     *)
(* approval store, or one read or write of the log.                         *)
(*                                                                         *)
(* Abstracted: of an approval only its status (Approvals models the store); *)
(* of the log the last grant event of each tool, which is all replay reads; *)
(* grants do not run out (time takes a grant away in memory and in the log  *)
(* by the same clock).                                                      *)
(***************************************************************************)
CONSTANTS
    Ids,     \* approval ids; one that nothing refers to any more stands for a fresh one
    Agents,  \* tool calls in flight
    Owners,  \* requests of the owner in flight
    Tools,
    None

ASSUME GrantsAssumption ==
    /\ None \notin Ids \cup Tools
    /\ Agents \cap Owners = {}

Actors == Agents \cup Owners
Log == [Tools -> {"granted", "revoked", "nothing"}]
Kinds == {"call", "approve", "remember", "reject", "revoke", "delete"}
\* A tool call, or a request of the owner; a revoke without a tool is for all.
Job == [kind : Kinds, tool : Tools \cup {None}, id : Ids \cup {None}]

VARIABLES
    granted,   \* GRANTS.until: the tools allowed
    replayed,  \* GRANTS.replayed: the log was read in this run
    log,       \* the chat's grant events
    seen,      \* the log as an actor read it, until it replays it
    status,    \* the approvals
    requests,  \* REQUESTS: the tool a pending approval can become a grant for
    pc, job,
    allowed,   \* history: the tools an accepted approval allowed for the chat
    abandoned  \* history: the approvals whose call was dropped while it waited

grantVars == <<granted, replayed, log, seen, allowed>>
askVars   == <<status, requests, abandoned>>
vars == <<grantVars, askVars, pc, job>>

NoLog == [t \in Tools |-> "nothing"]
NoJob == [kind |-> "call", tool |-> None, id |-> None]

Init ==
    /\ granted = {} /\ replayed = FALSE
    /\ log = NoLog
    /\ seen = [p \in Actors |-> NoLog]
    /\ status = [i \in Ids |-> None]
    /\ requests = [i \in Ids |-> None]
    /\ pc = [p \in Actors |-> "idle"]
    /\ job = [p \in Actors |-> NoJob]
    /\ allowed = {} /\ abandoned = {}

Goto(p, l) == pc' = [pc EXCEPT ![p] = l]
Start(p, kind, t, i) == job' = [job EXCEPT ![p] = [kind |-> kind, tool |-> t, id |-> i]]
End(p) == Goto(p, "idle") /\ job' = [job EXCEPT ![p] = NoJob]

-----------------------------------------------------------------------------
(* chat_grants: the log is read once after a restart, without the lock of  *)
(* GRANTS, and replayed under it.                                          *)

ReadLog(p) ==
    /\ pc[p] = "loading"
    /\ IF replayed THEN Goto(p, "loaded") /\ UNCHANGED seen
                   ELSE Goto(p, "replaying") /\ seen' = [seen EXCEPT ![p] = log]
    /\ UNCHANGED <<granted, replayed, log, allowed, askVars, job>>

Replay(p) ==
    /\ pc[p] = "replaying"
    /\ granted' = (granted \cup {t \in Tools : seen[p][t] = "granted"})
                      \ {t \in Tools : seen[p][t] = "revoked"}
    /\ replayed' = TRUE
    /\ seen' = [seen EXCEPT ![p] = NoLog]
    /\ Goto(p, "loaded")
    /\ UNCHANGED <<log, allowed, askVars, job>>

-----------------------------------------------------------------------------
(* A tool call of the agent.                                               *)

Want(a) ==
    /\ pc[a] = "idle"
    /\ \E t \in Tools : Start(a, "call", t, None)
    /\ Goto(a, "loading")
    /\ UNCHANGED <<grantVars, askVars>>

\* assess: a tool allowed for the chat runs, another one asks.
Assess(a) ==
    /\ pc[a] = "loaded"
    /\ Goto(a, IF job[a].tool \in granted THEN "running" ELSE "asking")
    /\ UNCHANGED <<grantVars, askVars, job>>

Unused(i) == /\ status[i] = None /\ requests[i] = None
             /\ i \notin abandoned
             /\ \A p \in Actors : job[p].id # i

\* authorize::request: the approval, then the tool it is for.
Ask(a) ==
    /\ pc[a] = "asking"
    /\ \E i \in Ids : /\ Unused(i)
                      /\ status' = [status EXCEPT ![i] = "pending"]
                      /\ job' = [job EXCEPT ![a].id = i]
    /\ Goto(a, "noting")
    /\ UNCHANGED <<grantVars, requests, abandoned>>

Note(a) ==
    /\ pc[a] = "noting"
    /\ requests' = [requests EXCEPT ![job[a].id] = job[a].tool]
    /\ Goto(a, "waiting")
    /\ UNCHANGED <<grantVars, status, abandoned, job>>

\* The answer, or the end of the time for one; the store forgets a pending
\* approval (and an answered one no longer matters here).
Hear(a) ==
    /\ pc[a] = "waiting"
    /\ status' = [status EXCEPT ![job[a].id] = None]
    /\ Goto(a, IF status[job[a].id] = "yes" THEN "running" ELSE "denied")
    /\ UNCHANGED <<grantVars, requests, abandoned, job>>

\* Faulty: only an answer removes the entry.
EndCallKeeping(a) ==
    /\ pc[a] \in {"running", "denied"}
    /\ requests' = [i \in Ids |-> IF i = job[a].id /\ pc[a] = "running" THEN None ELSE requests[i]]
    /\ End(a)
    /\ UNCHANGED <<grantVars, status, abandoned>>

\* wait's last line, then the call.
EndCall(a) ==
    /\ pc[a] \in {"running", "denied"}
    /\ requests' = [i \in Ids |-> IF i = job[a].id THEN None ELSE requests[i]]
    /\ End(a)
    /\ UNCHANGED <<grantVars, status, abandoned>>

\* The client of the chat leaves: the waiting call is dropped as it is.
Abandon(a) ==
    /\ pc[a] = "waiting"
    /\ abandoned' = abandoned \cup {job[a].id}
    /\ End(a)
    /\ UNCHANGED <<grantVars, status, requests>>

\* An abandoned approval expires.
Expire(i) ==
    /\ i \in abandoned
    /\ status[i] # None
    /\ status' = [status EXCEPT ![i] = None]
    /\ UNCHANGED <<grantVars, requests, abandoned, pc, job>>

-----------------------------------------------------------------------------
(* The owner.                                                              *)

\* grant_from_request: the grant comes before the decision.
Grant(t) ==
    IF t = None THEN UNCHANGED <<granted, replayed>>
                ELSE granted' = granted \cup {t} /\ replayed' = TRUE

Answer(o) ==
    /\ pc[o] = "idle"
    /\ \E i \in Ids, kind \in {"approve", "remember", "reject"} :
          /\ ~Unused(i)
          /\ Start(o, kind, IF kind = "remember" THEN requests[i] ELSE None, i)
          /\ Grant(IF kind = "remember" THEN requests[i] ELSE None)
    /\ Goto(o, "deciding")
    /\ UNCHANGED <<log, seen, allowed, askVars>>

Remembers(o) == job[o].kind = "remember" /\ job[o].tool # None

Decide(o) ==
    /\ pc[o] = "deciding"
    /\ status[job[o].id] = "pending"
    /\ status' = [status EXCEPT ![job[o].id] = IF job[o].kind = "reject" THEN "no" ELSE "yes"]
    /\ IF Remembers(o)
       THEN /\ Goto(o, "recording")
            /\ allowed' = allowed \cup {job[o].tool}
            /\ UNCHANGED job
       ELSE End(o) /\ UNCHANGED allowed
    /\ UNCHANGED <<granted, replayed, log, seen, requests, abandoned>>

\* Faulty: records the grant although the decision came too late.
DecideNothingAndRecord(o) ==
    /\ pc[o] = "deciding"
    /\ status[job[o].id] # "pending"
    /\ IF Remembers(o) THEN Goto(o, "recording") /\ UNCHANGED job ELSE End(o)
    /\ UNCHANGED <<grantVars, askVars>>

\* approval_not_found, approval_decided: the request ends here, and a grant
\* already made stays in memory.
DecideNothing(o) ==
    /\ pc[o] = "deciding"
    /\ status[job[o].id] # "pending"
    /\ End(o)
    /\ UNCHANGED <<grantVars, askVars>>

RecordGrant(o) ==
    /\ pc[o] = "recording"
    /\ log' = [log EXCEPT ![job[o].tool] = "granted"]
    /\ End(o)
    /\ UNCHANGED <<granted, replayed, seen, allowed, askVars>>

\* memory.revoke_grants
AskRevoke(o) ==
    /\ pc[o] = "idle"
    /\ \E t \in Tools \cup {None} : Start(o, "revoke", t, None)
    /\ Goto(o, "loading")
    /\ UNCHANGED <<grantVars, askVars>>

Chosen(o) == IF job[o].tool = None THEN Tools ELSE {job[o].tool}

\* Nothing removed: nothing to record.
Revoke(o) ==
    /\ pc[o] = "loaded"
    /\ granted' = granted \ Chosen(o)
    /\ IF granted' = granted THEN End(o) ELSE Goto(o, "revoking") /\ UNCHANGED job
    /\ UNCHANGED <<replayed, log, seen, allowed, askVars>>

RecordRevoke(o) ==
    /\ pc[o] = "revoking"
    /\ log' = [t \in Tools |-> IF t \in Chosen(o) THEN "revoked" ELSE log[t]]
    /\ End(o)
    /\ UNCHANGED <<granted, replayed, seen, allowed, askVars>>

\* memory.delete: the log, then the grants.
DeleteLog(o) ==
    /\ pc[o] = "idle"
    /\ log' = NoLog
    /\ Start(o, "delete", None, None)
    /\ Goto(o, "deleting")
    /\ UNCHANGED <<granted, replayed, seen, allowed, askVars>>

ForgetGrants(o) ==
    /\ pc[o] = "deleting"
    /\ granted' = {}
    /\ End(o)
    /\ UNCHANGED <<replayed, log, seen, allowed, askVars>>

\* Only the log outlives the process.
Restart ==
    /\ granted' = {} /\ replayed' = FALSE
    /\ seen' = [p \in Actors |-> NoLog]
    /\ status' = [i \in Ids |-> None]
    /\ requests' = [i \in Ids |-> None]
    /\ pc' = [p \in Actors |-> "idle"]
    /\ job' = [p \in Actors |-> NoJob]
    /\ abandoned' = {}
    /\ UNCHANGED <<log, allowed>>

Next ==
    \/ \E p \in Actors : ReadLog(p) \/ Replay(p)
    \/ \E a \in Agents : \/ Want(a) \/ Assess(a) \/ Ask(a) \/ Note(a) \/ Hear(a)
                         \/ EndCall(a) \/ Abandon(a)
    \/ \E i \in Ids : Expire(i)
    \/ \E o \in Owners : \/ Answer(o) \/ Decide(o) \/ DecideNothing(o) \/ RecordGrant(o)
                         \/ AskRevoke(o) \/ Revoke(o) \/ RecordRevoke(o)
                         \/ DeleteLog(o) \/ ForgetGrants(o)
    \/ Restart

Spec == Init /\ [][Next]_vars

-----------------------------------------------------------------------------
(* Correctness.                                                            *)

States == {"idle", "loading", "replaying", "loaded", "asking", "noting", "waiting",
           "running", "denied", "deciding", "recording", "revoking", "deleting"}

\* Every variable has its type.
TypeOK ==
    /\ granted \subseteq Tools /\ allowed \subseteq Tools
    /\ replayed \in BOOLEAN
    /\ log \in Log /\ seen \in [Actors -> Log]
    /\ status \in [Ids -> {"pending", "yes", "no", None}]
    /\ requests \in [Ids -> Tools \cup {None}]
    /\ abandoned \subseteq Ids
    /\ pc \in [Actors -> States] /\ job \in [Actors -> Job]

\* What a restart brings back was really allowed: every grant in the log comes
\* from a decision the approval store accepted, whoever else answers, revokes
\* or deletes at the same time (approvals.approve appends after decide).
LoggedGrantsWereAccepted == \A t \in Tools : log[t] = "granted" => t \in allowed

\* REQUESTS does not grow with the calls that end, however they end; only a
\* call dropped while it waited leaves its entry behind (authorize::wait).
EntriesHaveCalls ==
    \A i \in Ids : requests[i] # None => i \in abandoned \/ \E a \in Agents : job[a].id = i

\* "Grants and revokes are grant events in the chat's log, so after a restart a
\* chat's grants come back" (grants.rs): when no request is in flight, the log
\* gives back what is granted in memory, and no more.
GrantsAreLogged ==
    (\A p \in Actors : pc[p] = "idle") /\ replayed
        => granted = {t \in Tools : log[t] = "granted"}
=============================================================================
