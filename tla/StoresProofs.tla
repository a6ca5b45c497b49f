----------------------------- MODULE StoresProofs -----------------------------
(* What holds of the parts that MCStores puts side by side: of ToolGrants,   *)
(* for any number of tools, calls and requests of the owner; of ContextFit,  *)
(* for any conversation and any sizes; of ModelSupply, for any number of     *)
(* models, files and tries; of Placement, for any model, settings and        *)
(* machine; and, at the end, that a behaviour of MCStores is one of          *)
(* EventStore, so that the theorems of EventStoreProofs hold of it.          *)
EXTENDS MCStores, SequenceTheorems, WellFoundedInduction, TLAPS

-----------------------------------------------------------------------------
(* Types.                                                                  *)

\* A call that waits knows its approval, and one that has not asked has none; a
\* request that records a grant was accepted.
JobsComplete ==
    /\ \A a \in Agents : /\ pc[a] \in {"noting", "waiting"} => job[a].id \in Ids
                         /\ pc[a] \in {"idle", "loading", "replaying", "loaded", "asking"}
                               => job[a].id = None
    /\ \A o \in Owners : pc[o] = "recording" => job[o].tool \in allowed
    /\ \A p \in Actors : pc[p] = "recording" => p \in Owners

\* The job an actor begins, and what the steps that read or change one job
\* need of it.
LEMMA JobTypes ==
    /\ NoJob \in Job /\ NoJob.id = None
    /\ \A kind \in Kinds, t \in Tools \cup {None}, i \in Ids \cup {None} :
          [kind |-> kind, tool |-> t, id |-> i] \in Job
    /\ \A j \in Job : j.tool \in Tools \cup {None} /\ j.id \in Ids \cup {None}
    /\ \A j \in Job, i \in Ids : [j EXCEPT !.id = i] \in Job
  BY DEF NoJob, Job, Kinds

LEMMA CallTypes ==
    ASSUME TypeOK, JobsComplete, NEW a \in Agents,
           \/ Want(a) \/ Assess(a) \/ Ask(a) \/ Note(a) \/ Hear(a) \/ EndCall(a) \/ Abandon(a)
    PROVE  TypeOK' /\ JobsComplete'
  <1> USE JobTypes, GrantsAssumption DEF TypeOK, JobsComplete, States, Actors, Goto, End
  <1>1. CASE Want(a)
    <2>1. PICK t \in Tools : job' = [job EXCEPT ![a] = [kind |-> "call", tool |-> t, id |-> None]]
      BY <1>1 DEF Want, Start
    <2>2. /\ [kind |-> "call", tool |-> t, id |-> None] \in Job
          /\ [kind |-> "call", tool |-> t, id |-> None].id = None
      BY DEF Job, Kinds
    <2> QED
      BY <1>1, <2>1, <2>2 DEF Want, grantVars, askVars
  <1>2. CASE Assess(a)
    BY <1>2 DEF Assess, grantVars, askVars
  <1>3. CASE Ask(a)
    <2>1. PICK i \in Ids : /\ status' = [status EXCEPT ![i] = "pending"]
                           /\ job' = [job EXCEPT ![a].id = i]
      BY <1>3 DEF Ask
    <2>2. [job[a] EXCEPT !.id = i] \in Job /\ [job[a] EXCEPT !.id = i].id = i
      BY DEF Job
    <2> QED
      BY <1>3, <2>1, <2>2 DEF Ask, grantVars
  <1>4. CASE Note(a)
    <2>1. job[a].tool \in Tools \cup {None}
      BY JobTypes
    <2> QED
      BY <1>4, <2>1 DEF Note, grantVars
  <1>5. CASE Hear(a)
    BY <1>5 DEF Hear, grantVars
  <1>6. CASE EndCall(a)
    BY <1>6 DEF EndCall, grantVars
  <1>7. CASE Abandon(a)
    <2>1. job[a].id \in Ids
      BY <1>7 DEF Abandon
    <2> QED
      BY <1>7, <2>1 DEF Abandon, grantVars
  <1> QED
    BY <1>1, <1>2, <1>3, <1>4, <1>5, <1>6, <1>7

LEMMA OwnerTypes ==
    ASSUME TypeOK, JobsComplete, NEW o \in Owners,
           \/ Answer(o) \/ Decide(o) \/ DecideNothing(o) \/ RecordGrant(o)
           \/ AskRevoke(o) \/ Revoke(o) \/ RecordRevoke(o) \/ DeleteLog(o) \/ ForgetGrants(o)
    PROVE  TypeOK' /\ JobsComplete'
  <1> USE JobTypes, GrantsAssumption DEF TypeOK, JobsComplete, States, Actors, Goto, End
  <1>1. CASE Answer(o)
    <2>1. PICK i \in Ids, kind \in {"approve", "remember", "reject"} :
            /\ job' = [job EXCEPT ![o] = [kind |-> kind, id |-> i,
                                           tool |-> IF kind = "remember" THEN requests[i] ELSE None]]
            /\ Grant(IF kind = "remember" THEN requests[i] ELSE None)
      BY <1>1 DEF Answer, Start
    <2>2. PICK t \in Tools \cup {None} : t = IF kind = "remember" THEN requests[i] ELSE None
      OBVIOUS
    <2>3. [kind |-> kind, tool |-> t, id |-> i] \in Job
      BY DEF Job, Kinds
    <2>4. job' = [job EXCEPT ![o] = [kind |-> kind, tool |-> t, id |-> i]] /\ Grant(t)
      BY <2>1, <2>2
    <2>5. granted' \subseteq Tools /\ replayed' \in BOOLEAN
      <3>1. CASE t = None
        BY <2>4, <3>1 DEF Grant
      <3>2. CASE t # None
        BY <2>4, <3>2 DEF Grant
      <3> QED
        BY <3>1, <3>2
    <2> QED
      BY <1>1, <2>3, <2>4, <2>5 DEF Answer, askVars
  <1>2. CASE Decide(o)
    <2>1. /\ o \notin Agents /\ UNCHANGED <<granted, replayed, log, seen, requests, abandoned>>
          /\ status' \in [Ids -> {"pending", "yes", "no", None}]
      BY <1>2 DEF Decide
    <2>2. CASE Remembers(o)
      <3>1. job[o].tool \in Tools
        BY <2>2, JobTypes DEF Remembers
      <3>2. pc' = [pc EXCEPT ![o] = "recording"] /\ allowed' = allowed \cup {job[o].tool} /\ job' = job
        BY <1>2, <2>2 DEF Decide
      <3>3. TypeOK'
        BY <2>1, <3>1, <3>2
      <3>4. JobsComplete'
        BY <2>1, <3>1, <3>2
      <3> QED
        BY <3>3, <3>4
    <2>3. CASE ~Remembers(o)
      <3>1. pc' = [pc EXCEPT ![o] = "idle"] /\ allowed' = allowed /\ job' = [job EXCEPT ![o] = NoJob]
        BY <1>2, <2>3 DEF Decide
      <3>2. TypeOK'
        BY <2>1, <3>1
      <3>3. JobsComplete'
        BY <2>1, <3>1
      <3> QED
        BY <3>2, <3>3
    <2> QED
      BY <2>2, <2>3
  <1>3. CASE DecideNothing(o)
    BY <1>3 DEF DecideNothing, grantVars, askVars
  <1>4. CASE RecordGrant(o)
    BY <1>4 DEF RecordGrant, Log, askVars
  <1>5. CASE AskRevoke(o)
    <2>1. PICK t \in Tools \cup {None} :
            job' = [job EXCEPT ![o] = [kind |-> "revoke", tool |-> t, id |-> None]]
      BY <1>5 DEF AskRevoke, Start
    <2>2. [kind |-> "revoke", tool |-> t, id |-> None] \in Job
      BY DEF Job, Kinds
    <2> QED
      BY <1>5, <2>1, <2>2 DEF AskRevoke, grantVars, askVars
  <1>6. CASE Revoke(o)
    BY <1>6 DEF Revoke, askVars
  <1>7. CASE RecordRevoke(o)
    BY <1>7 DEF RecordRevoke, Log, askVars
  <1>8. CASE DeleteLog(o)
    <2>1. [kind |-> "delete", tool |-> None, id |-> None] \in Job
      BY DEF Job, Kinds
    <2> QED
      BY <1>8, <2>1 DEF DeleteLog, Start, NoLog, Log, askVars
  <1>9. CASE ForgetGrants(o)
    BY <1>9 DEF ForgetGrants, askVars
  <1> QED
    BY <1>1, <1>2, <1>3, <1>4, <1>5, <1>6, <1>7, <1>8, <1>9

LEMMA TypeInit == Init => TypeOK /\ JobsComplete
  <1> SUFFICES ASSUME Init
               PROVE  TypeOK /\ JobsComplete
    OBVIOUS
  <1>1. NoLog \in Log
    BY DEF NoLog, Log
  <1>2. TypeOK
    BY <1>1, JobTypes DEF Init, TypeOK, States
  <1>3. JobsComplete
    BY JobTypes DEF Init, JobsComplete, Actors
  <1> QED
    BY <1>2, <1>3

LEMMA TypeStep == TypeOK /\ JobsComplete /\ [Next]_vars => TypeOK' /\ JobsComplete'
  <1> SUFFICES ASSUME TypeOK, JobsComplete, [Next]_vars
               PROVE  TypeOK' /\ JobsComplete'
    OBVIOUS
  <1>1. CASE UNCHANGED vars
    BY <1>1 DEF TypeOK, JobsComplete, vars, grantVars, askVars
  <1>2. ASSUME NEW p \in Actors, ReadLog(p)
        PROVE  TypeOK' /\ JobsComplete'
    BY <1>2 DEF ReadLog, Goto, TypeOK, JobsComplete, States, Actors, askVars
  <1>3. ASSUME NEW p \in Actors, Replay(p)
        PROVE  TypeOK' /\ JobsComplete'
    BY <1>3 DEF Replay, Goto, TypeOK, JobsComplete, States, Actors, NoLog, Log, askVars
  <1>4. ASSUME NEW i \in Ids, Expire(i)
        PROVE  TypeOK' /\ JobsComplete'
    BY <1>4 DEF Expire, TypeOK, JobsComplete, grantVars
  <1>5. CASE Restart
    BY <1>5, JobTypes DEF Restart, TypeOK, JobsComplete, States, NoLog, Log, Actors
  <1> QED
    BY <1>1, <1>2, <1>3, <1>4, <1>5, CallTypes, OwnerTypes DEF Next

\* Every variable of the grants, of the log and of the requests has its type
\* (grants.rs, authorize.rs).
THEOREM TypeCorrect == Spec => []TypeOK
  <1>1. (TypeOK /\ JobsComplete) /\ [Next]_vars => (TypeOK /\ JobsComplete)'
    BY TypeStep
  <1> QED
    BY <1>1, TypeInit, PTL DEF Spec

-----------------------------------------------------------------------------
(* The log.                                                                *)

\* Only an accepted request writes a grant to the log, and what was accepted
\* stays so.
LEMMA LogStep ==
    TypeOK /\ JobsComplete /\ LoggedGrantsWereAccepted /\ [Next]_vars => LoggedGrantsWereAccepted'
  <1> SUFFICES ASSUME TypeOK, JobsComplete, LoggedGrantsWereAccepted, [Next]_vars
               PROVE  LoggedGrantsWereAccepted'
    OBVIOUS
  <1> USE DEF LoggedGrantsWereAccepted
  <1>1. CASE UNCHANGED <<log, allowed>>
    BY <1>1
  <1>2. ASSUME NEW o \in Owners, RecordGrant(o)
        PROVE  LoggedGrantsWereAccepted'
    <2>1. job[o].tool \in allowed
      BY <1>2 DEF RecordGrant, JobsComplete
    <2> QED
      BY <1>2, <2>1 DEF RecordGrant, TypeOK, Log
  <1>3. ASSUME NEW o \in Owners, RecordRevoke(o) \/ DeleteLog(o)
        PROVE  LoggedGrantsWereAccepted'
    BY <1>3 DEF RecordRevoke, DeleteLog, NoLog
  <1>4. ASSUME NEW o \in Owners, Decide(o)
        PROVE  LoggedGrantsWereAccepted'
    BY <1>4 DEF Decide
  <1>5. ASSUME NEW o \in Owners,
               Answer(o) \/ DecideNothing(o) \/ AskRevoke(o) \/ Revoke(o) \/ ForgetGrants(o)
        PROVE  UNCHANGED <<log, allowed>>
    BY <1>5 DEF Answer, DecideNothing, AskRevoke, Revoke, ForgetGrants, grantVars
  <1>6. ASSUME NEW a \in Agents,
               \/ Want(a) \/ Assess(a) \/ Ask(a) \/ Note(a) \/ Hear(a) \/ EndCall(a) \/ Abandon(a)
        PROVE  UNCHANGED <<log, allowed>>
    BY <1>6 DEF Want, Assess, Ask, Note, Hear, EndCall, Abandon, grantVars
  <1>7. ASSUME NEW p \in Actors, ReadLog(p) \/ Replay(p)
        PROVE  UNCHANGED <<log, allowed>>
    BY <1>7 DEF ReadLog, Replay
  <1>8. ASSUME NEW i \in Ids, Expire(i)
        PROVE  UNCHANGED <<log, allowed>>
    BY <1>8 DEF Expire, grantVars
  <1>9. CASE Restart \/ UNCHANGED vars
    BY <1>1, <1>9 DEF Restart, vars, grantVars
  <1> QED
    BY <1>1, <1>2, <1>3, <1>4, <1>5, <1>6, <1>7, <1>8, <1>9 DEF Next

\* What comes back from the log after a restart was accepted by the approval
\* store, for any number of owners, calls and tools (approvals.rs, grants.rs).
THEOREM LoggedWereAccepted == Spec => []LoggedGrantsWereAccepted
  <1>1. Init => TypeOK /\ JobsComplete /\ LoggedGrantsWereAccepted
    <2>1. Init => LoggedGrantsWereAccepted
      BY DEF Init, LoggedGrantsWereAccepted, NoLog
    <2> QED
      BY <2>1, TypeInit
  <1>2. (TypeOK /\ JobsComplete /\ LoggedGrantsWereAccepted) /\ [Next]_vars
            => (TypeOK /\ JobsComplete /\ LoggedGrantsWereAccepted)'
    BY TypeStep, LogStep
  <1> QED
    BY <1>1, <1>2, PTL DEF Spec

-----------------------------------------------------------------------------
(* The requests.                                                           *)

\* A step of an actor touches the entry of its own call alone.
LEMMA EntriesStep ==
    TypeOK /\ JobsComplete /\ EntriesHaveCalls /\ [Next]_vars => EntriesHaveCalls'
  <1> SUFFICES ASSUME TypeOK, JobsComplete, EntriesHaveCalls, [Next]_vars
               PROVE  EntriesHaveCalls'
    OBVIOUS
  <1>1. CASE UNCHANGED <<requests, abandoned>> /\ \A a \in Agents : job'[a].id = job[a].id
    BY <1>1 DEF EntriesHaveCalls
  <1>2. ASSUME NEW a \in Agents, Note(a)
        PROVE  EntriesHaveCalls'
    BY <1>2 DEF Note, EntriesHaveCalls, TypeOK
  <1>3. ASSUME NEW a \in Agents, EndCall(a) \/ Abandon(a)
        PROVE  EntriesHaveCalls'
    <2>1. \A b \in Agents \ {a} : job'[b] = job[b]
      BY <1>3 DEF EndCall, Abandon, End, TypeOK, Actors
    <2>2. CASE EndCall(a)
      <3>1. \A i \in Ids : requests'[i] = IF i = job[a].id THEN None ELSE requests[i]
        BY <2>2 DEF EndCall
      <3>2. UNCHANGED abandoned
        BY <2>2 DEF EndCall
      <3> QED
        BY <2>1, <3>1, <3>2 DEF EntriesHaveCalls
    <2>3. CASE Abandon(a)
      <3>1. UNCHANGED requests /\ abandoned' = abandoned \cup {job[a].id}
        BY <2>3 DEF Abandon
      <3> QED
        BY <2>1, <3>1 DEF EntriesHaveCalls
    <2> QED
      BY <1>3, <2>2, <2>3
  <1>4. ASSUME NEW a \in Agents, Want(a) \/ Ask(a)
        PROVE  EntriesHaveCalls'
    <2>1. job[a].id = None /\ UNCHANGED <<requests, abandoned>>
      BY <1>4 DEF Want, Ask, JobsComplete, askVars
    <2>2. \A b \in Agents \ {a} : job'[b] = job[b]
      BY <1>4 DEF Want, Ask, Start, TypeOK, Actors
    <2> QED
      BY <2>1, <2>2, GrantsAssumption DEF EntriesHaveCalls
  <1>5. ASSUME NEW a \in Agents, Assess(a) \/ Hear(a)
        PROVE  EntriesHaveCalls'
    BY <1>1, <1>5 DEF Assess, Hear, askVars
  <1>6. ASSUME NEW o \in Owners,
               \/ Answer(o) \/ Decide(o) \/ DecideNothing(o) \/ RecordGrant(o)
               \/ AskRevoke(o) \/ Revoke(o) \/ RecordRevoke(o) \/ DeleteLog(o) \/ ForgetGrants(o)
        PROVE  EntriesHaveCalls'
    <2>1. UNCHANGED <<requests, abandoned>>
      BY <1>6 DEF Answer, Decide, DecideNothing, RecordGrant, AskRevoke, Revoke, RecordRevoke,
                  DeleteLog, ForgetGrants, askVars
    <2>2. \A a \in Agents : job'[a] = job[a]
      <3>1. \A a \in Agents : a # o
        BY GrantsAssumption
      <3> QED
        BY <1>6, <3>1 DEF Answer, Decide, DecideNothing, RecordGrant, AskRevoke, Revoke, RecordRevoke,
                          DeleteLog, ForgetGrants, Start, End, TypeOK, Actors
    <2> QED
      BY <1>1, <2>1, <2>2
  <1>7. ASSUME NEW p \in Actors, ReadLog(p) \/ Replay(p)
        PROVE  EntriesHaveCalls'
    BY <1>1, <1>7 DEF ReadLog, Replay, askVars
  <1>8. ASSUME NEW i \in Ids, Expire(i)
        PROVE  EntriesHaveCalls'
    BY <1>1, <1>8 DEF Expire
  <1>9. CASE Restart
    BY <1>9 DEF Restart, EntriesHaveCalls
  <1>10. CASE UNCHANGED vars
    BY <1>1, <1>10 DEF vars, askVars
  <1> QED
    BY <1>2, <1>3, <1>4, <1>5, <1>6, <1>7, <1>8, <1>9, <1>10 DEF Next

\* The table of the requests grows with the calls that wait and with those that
\* were dropped while they waited, and with nothing else (authorize.rs).
THEOREM EntriesEndWithCalls == Spec => []EntriesHaveCalls
  <1>1. Init => TypeOK /\ JobsComplete /\ EntriesHaveCalls
    <2>1. Init => EntriesHaveCalls
      BY DEF Init, EntriesHaveCalls
    <2> QED
      BY <2>1, TypeInit
  <1>2. (TypeOK /\ JobsComplete /\ EntriesHaveCalls) /\ [Next]_vars
            => (TypeOK /\ JobsComplete /\ EntriesHaveCalls)'
    BY TypeStep, EntriesStep
  <1> QED
    BY <1>1, <1>2, PTL DEF Spec

-----------------------------------------------------------------------------
(* Induction over numbers and sequences, with sets for predicates.           *)

LEMMA SetInduction ==
    ASSUME NEW P, 0 \in P, \A n \in Nat : n \in P => n + 1 \in P
    PROVE  \A n \in Nat : n \in P
  <1> DEFINE Rest == Nat \ P
  <1> SUFFICES ASSUME Rest # {} PROVE FALSE
    OBVIOUS
  <1>1. Rest \subseteq Nat
    OBVIOUS
  <1> HIDE DEF Rest
  <1>2. PICK x \in Rest : \A y \in Rest : ~(<<y, x>> \in OpToRel(<, Nat))
    BY <1>1, WFMin, NatLessThanWellFounded
  <1>3. \A y \in Rest : ~(y < x)
    BY <1>1, <1>2 DEF OpToRel
  <1> QED
    BY <1>3 DEF Rest

LEMMA SeqInduction ==
    ASSUME NEW S, NEW P, <<>> \in P, \A s \in Seq(S), x \in S : s \in P => Append(s, x) \in P
    PROVE  \A s \in Seq(S) : s \in P
  <1> DEFINE Q == {n \in Nat : \A s \in Seq(S) : Len(s) = n => s \in P}
  <1>1. 0 \in Q
    <2>1. \A s \in Seq(S) : Len(s) = 0 => s = <<>>
      BY EmptySeq
    <2> QED
      BY <2>1
  <1>2. ASSUME NEW n \in Nat, n \in Q
        PROVE  n + 1 \in Q
    <2> SUFFICES ASSUME NEW s \in Seq(S), Len(s) = n + 1
                 PROVE  s \in P
      OBVIOUS
    <2>1. s # <<>>
      BY EmptySeq
    <2>2. PICK t \in Seq(S), x \in S : s = Append(t, x)
      BY <2>1, SequenceEmptyOrAppend
    <2>3. Len(t) = n
      BY <2>2, AppendProperties
    <2> QED
      BY <1>2, <2>2, <2>3
  <1> HIDE DEF Q
  <1>3. \A n \in Nat : n \in Q
    BY <1>1, <1>2, SetInduction
  <1> QED
    BY <1>3 DEF Q

-----------------------------------------------------------------------------
(* Conversations. A prompt's tokens are a fold over the messages, which the  *)
(* lemmas turn into sums; what goes in a round is a part in the middle.      *)

\* The least and the greatest of some numbers up to a bound.
LEMMA LeastOf ==
    ASSUME NEW n \in Nat, NEW S, S \subseteq 0..n, S # {}
    PROVE  Fit!Min(S) \in S /\ \A y \in S : Fit!Min(S) <= y
  <1> DEFINE Q == {k \in Nat : k \in S => \E x \in S : \A y \in S : x <= y}
             R == {k \in Nat : \A j \in 0..k : j \in Q}
  <1>1. 0 \in R
    OBVIOUS
  <1>2. ASSUME NEW k \in Nat, k \in R PROVE k + 1 \in R
    <2>1. k + 1 \in Q
      <3> SUFFICES ASSUME k + 1 \in S, ~ \E x \in S : \A y \in S : x <= y PROVE FALSE
        OBVIOUS
      <3>1. \A j \in 0..k : j \notin S
        BY <1>2
      <3>2. \A y \in S : k + 1 <= y
        BY <3>1
      <3> QED
        BY <3>2
    <2> QED
      BY <1>2, <2>1
  <1> HIDE DEF R
  <1>3. \A k \in Nat : k \in R
    BY <1>1, <1>2, SetInduction
  <1>4. \E x \in S : \A y \in S : x <= y
    BY <1>3 DEF R
  <1> QED
    BY <1>4 DEF Fit!Min

LEMMA GreatestOf ==
    ASSUME NEW n \in Nat, NEW S, S \subseteq 0..n, S # {}
    PROVE  Fit!Max(S) \in S /\ \A y \in S : Fit!Max(S) >= y
  <1> DEFINE T == {n - x : x \in S}
  <1>1. T \subseteq 0..n /\ T # {}
    <2>1. \A x \in S : x \in Nat /\ x <= n /\ n - x \in 0..n
      OBVIOUS
    <2> QED
      BY <2>1
  <1>2. Fit!Min(T) \in T /\ \A y \in T : Fit!Min(T) <= y
    BY <1>1, LeastOf
  <1>3. PICK x \in S : Fit!Min(T) = n - x
    BY <1>2
  <1>4. \A y \in S : x >= y
    <2> SUFFICES ASSUME NEW y \in S PROVE x >= y
      OBVIOUS
    <2>1. n - y \in T /\ x \in 0..n /\ y \in 0..n
      OBVIOUS
    <2>2. n - x <= n - y
      BY <1>2, <1>3, <2>1
    <2> QED
      BY <2>1, <2>2
  <1> QED
    BY <1>4 DEF Fit!Max

\* Of a message only its size counts here.
Sorts == {"system", "request", "call", "result", "answer"}
Messages == [what : Sorts, size : Nat, nr : Nat]

\* h[s] is the number of tokens of the messages at the places s.
Sums(h, ms) ==
    /\ h \in [SUBSET DOMAIN ms -> Nat] /\ h[{}] = 0
    /\ \A s \in SUBSET DOMAIN ms : s # {} => h[s] = h[s \ {Fit!Max(s)}] + ms[Fit!Max(s)].size

LEMMA SumsExist ==
    ASSUME NEW ms \in Seq(Messages)
    PROVE  \E h : Sums(h, ms)
  <1> DEFINE N == Len(ms)
             Sum(h, k) == /\ h \in [SUBSET (1..k) -> Nat] /\ h[{}] = 0
                          /\ \A s \in SUBSET (1..k) :
                                s # {} => h[s] = h[s \ {Fit!Max(s)}] + ms[Fit!Max(s)].size
             Q == {k \in Nat : k <= N => \E h : Sum(h, k)}
  <1>5. N \in Nat /\ DOMAIN ms = 1..N
    OBVIOUS
  <1>1. 0 \in Q
    <2> DEFINE f == [s \in SUBSET (1..0) |-> 0]
    <2>1. 1..0 = {} /\ SUBSET (1..0) = {{}}
      OBVIOUS
    <2>2. f \in [SUBSET (1..0) -> Nat] /\ f[{}] = 0
      BY <2>1
    <2>3. Sum(f, 0)
      BY <2>1, <2>2
    <2> QED
      BY <2>3
  <1>2. ASSUME NEW k \in Nat, k \in Q PROVE k + 1 \in Q
    <2> HIDE DEF Sum
    <2> SUFFICES ASSUME k + 1 <= N PROVE \E h : Sum(h, k + 1)
      OBVIOUS
    <2>10. k <= N
      BY <1>5
    <2>1. PICK h : Sum(h, k)
      BY <1>2, <2>10
    <2> USE DEF Sum
    <2> DEFINE size == ms[k + 1].size
               g == [s \in SUBSET (1..(k + 1)) |->
                        IF k + 1 \in s THEN h[s \ {k + 1}] + size ELSE h[s]]
    <2>2. size \in Nat
      <3>1. k + 1 \in 1..Len(ms)
        OBVIOUS
      <3>2. ms[k + 1] \in Messages
        BY <3>1, ElementOfSeq
      <3> QED
        BY <3>2 DEF Messages
    <2>3. \A s \in SUBSET (1..(k + 1)) :
             /\ s \ {k + 1} \in SUBSET (1..k)
             /\ k + 1 \notin s => s \in SUBSET (1..k)
      OBVIOUS
    <2>4. g \in [SUBSET (1..(k + 1)) -> Nat]
      BY <2>1, <2>2, <2>3
    <2>5. g[{}] = 0
      BY <2>1
    <2>6. ASSUME NEW s \in SUBSET (1..(k + 1)), s # {}
          PROVE  g[s] = g[s \ {Fit!Max(s)}] + ms[Fit!Max(s)].size
      <3>1. Fit!Max(s) \in s /\ \A y \in s : Fit!Max(s) >= y
        <4>1. s \subseteq 0..(k + 1)
          OBVIOUS
        <4> QED
          BY <2>6, <4>1, k + 1 \in Nat, GreatestOf
      <3>2. s \ {Fit!Max(s)} \in SUBSET (1..(k + 1))
        OBVIOUS
      <3>3. CASE k + 1 \in s
        <4>1. Fit!Max(s) = k + 1
          <5>1. Fit!Max(s) \in 1..(k + 1) /\ Fit!Max(s) >= k + 1
            BY <3>1, <3>3
          <5> QED
            BY <5>1
        <4>2. k + 1 \notin s \ {Fit!Max(s)} /\ s \ {Fit!Max(s)} = s \ {k + 1}
          BY <4>1
        <4>3. g[s] = h[s \ {k + 1}] + size
          BY <3>3
        <4>4. g[s \ {Fit!Max(s)}] = h[s \ {k + 1}]
          BY <3>2, <4>2
        <4> QED
          BY <4>1, <4>3, <4>4
      <3>4. CASE k + 1 \notin s
        <4>1. s \in SUBSET (1..k)
          BY <2>3, <3>4
        <4>2. g[s] = h[s] /\ g[s \ {Fit!Max(s)}] = h[s \ {Fit!Max(s)}]
          BY <3>2, <3>4
        <4>3. h[s] = h[s \ {Fit!Max(s)}] + ms[Fit!Max(s)].size
          BY <2>1, <2>6, <4>1
        <4> QED
          BY <4>2, <4>3
      <3> QED
        BY <3>3, <3>4
    <2> HIDE DEF g
    <2>7. Sum(g, k + 1)
      BY <2>4, <2>5, <2>6
    <2> QED
      BY <2>7
  <1> HIDE DEF Q
  <1>3. N \in Q
    BY <1>1, <1>2, SetInduction
  <1> HIDE DEF Sum
  <1>4. PICK h : Sum(h, N)
    BY <1>3, <1>5 DEF Q
  <1> QED
    BY <1>4, <1>5 DEF Sums, Sum

LEMMA TokensAreSums ==
    ASSUME NEW ms \in Seq(Messages)
    PROVE  \E h : Sums(h, ms) /\ Fit!Tokens(ms) = h[DOMAIN ms]
  <1> DEFINE D == SUBSET DOMAIN ms
             Iter(f) == [s \in D |-> IF s = {} THEN 0
                                     ELSE f[s \ {Fit!Max(s)}] + ms[Fit!Max(s)].size]
             iter == CHOOSE f : f = Iter(f)
  <1>1. PICK h : Sums(h, ms)
    BY SumsExist
  <1>2. h = Iter(h)
    BY <1>1 DEF Sums
  <1>3. iter = Iter(iter)
    BY <1>2
  <1>4. Fit!Tokens(ms) = iter[DOMAIN ms]
    BY DEF Fit!Tokens, Fit!FoldLeft, Fit!MapThenFoldSet
  <1>5. Len(ms) \in Nat /\ DOMAIN ms = 1..Len(ms)
    OBVIOUS
  <1>6. \A s \in D : iter[s] = IF s = {} THEN 0 ELSE iter[s \ {Fit!Max(s)}] + ms[Fit!Max(s)].size
    BY <1>3
  <1> HIDE DEF iter
  <1> DEFINE Q == {k \in Nat : k <= Len(ms) => \A s \in SUBSET (1..k) : iter[s] = h[s]}
  <1>7. 0 \in Q
    <2>1. SUBSET (1..0) = {{}} /\ {} \in D
      OBVIOUS
    <2>2. iter[{}] = 0 /\ h[{}] = 0
      BY <1>1, <1>6, <2>1 DEF Sums
    <2> QED
      BY <2>1, <2>2
  <1>8. ASSUME NEW k \in Nat, k \in Q PROVE k + 1 \in Q
    <2> SUFFICES ASSUME k + 1 <= Len(ms)
                 PROVE  \A s \in SUBSET (1..(k + 1)) : iter[s] = h[s]
      BY k + 1 \in Nat, Zenon DEF Q
    <2> TAKE s \in SUBSET (1..(k + 1))
    <2>1. s \in D
      BY <1>5
    <2>2. CASE s = {}
      BY <1>1, <1>6, <2>1, <2>2 DEF Sums
    <2>3. CASE s # {}
      <3>1. Fit!Max(s) \in s /\ \A y \in s : Fit!Max(s) >= y
        <4>1. s \subseteq 0..(k + 1)
          OBVIOUS
        <4> QED
          BY <2>3, <4>1, k + 1 \in Nat, GreatestOf
      <3>2. s \ {Fit!Max(s)} \in SUBSET (1..k)
        <4>1. ASSUME NEW x \in s \ {Fit!Max(s)} PROVE x \in 1..k
          <5>1. x \in 1..(k + 1) /\ Fit!Max(s) \in 1..(k + 1) /\ x # Fit!Max(s) /\ Fit!Max(s) >= x
            BY <3>1
          <5> QED
            BY <5>1
        <4> QED
          BY <4>1
      <3>3. iter[s \ {Fit!Max(s)}] = h[s \ {Fit!Max(s)}]
        BY <1>8, <1>5, <3>2
      <3> QED
        BY <1>1, <1>6, <2>1, <2>3, <3>3 DEF Sums
    <2> QED
      BY <2>2, <2>3
  <1> HIDE DEF Q
  <1>9. Len(ms) \in Q
    BY <1>5, <1>7, <1>8, SetInduction
  <1>10. iter[DOMAIN ms] = h[DOMAIN ms]
    BY <1>5, <1>9 DEF Q
  <1> QED
    BY <1>1, <1>4, <1>10

\* Tokens is the sum: nothing for no message, and one message after another.
LEMMA TokensOfNone == Fit!Tokens(<<>>) = 0
  <1>1. <<>> \in Seq(Messages) /\ DOMAIN <<>> = {}
    OBVIOUS
  <1>2. PICK h : Sums(h, <<>>) /\ Fit!Tokens(<<>>) = h[DOMAIN <<>>]
    BY <1>1, TokensAreSums
  <1> QED
    BY <1>1, <1>2 DEF Sums

LEMMA SumOfFirst ==
    ASSUME NEW ms \in Seq(Messages), NEW h, Sums(h, ms), NEW k \in Nat, k + 1 <= Len(ms)
    PROVE  h[1..(k + 1)] = h[1..k] + ms[k + 1].size /\ h[1..k] \in Nat
  <1> DEFINE s == 1..(k + 1)
  <1>1. s \subseteq 0..(k + 1)
    OBVIOUS
  <1>8. k + 1 \in s /\ k + 1 \in Nat
    OBVIOUS
  <1>2. s \in SUBSET DOMAIN ms /\ 1..k \in SUBSET DOMAIN ms
    <2>1. DOMAIN ms = 1..Len(ms) /\ Len(ms) \in Nat
      OBVIOUS
    <2> QED
      BY <2>1
  <1>3. s \ {k + 1} = 1..k
    OBVIOUS
  <1>4. \A y \in s : y <= k + 1
    OBVIOUS
  <1> HIDE DEF s
  <1>5. Fit!Max(s) = k + 1
    <2>1. Fit!Max(s) \in s /\ Fit!Max(s) >= k + 1
      BY <1>1, <1>8, GreatestOf
    <2>2. Fit!Max(s) \in 0..(k + 1) /\ Fit!Max(s) <= k + 1
      BY <1>1, <1>4, <2>1
    <2> QED
      BY <2>1, <2>2
  <1>6. h[s] = h[s \ {Fit!Max(s)}] + ms[Fit!Max(s)].size
    BY <1>8, <1>2 DEF Sums
  <1>7. h[1..k] \in Nat
    BY <1>2 DEF Sums
  <1> QED
    BY <1>3, <1>5, <1>6, <1>7 DEF s

LEMMA TokensOfAppend ==
    ASSUME NEW ms \in Seq(Messages), NEW m \in Messages
    PROVE  Fit!Tokens(Append(ms, m)) = Fit!Tokens(ms) + m.size /\ Fit!Tokens(ms) \in Nat
  <1> DEFINE n == Len(ms)
             ns == Append(ms, m)
  <1>1. /\ ns \in Seq(Messages) /\ Len(ns) = n + 1 /\ ns[n + 1] = m
        /\ \A i \in 1..n : ns[i] = ms[i]
    BY AppendProperties
  <1>2. n \in Nat /\ DOMAIN ms = 1..n /\ DOMAIN ns = 1..(n + 1)
    BY <1>1
  <1>3. PICK h : Sums(h, ms) /\ Fit!Tokens(ms) = h[DOMAIN ms]
    BY TokensAreSums
  <1>4. PICK g : Sums(g, ns) /\ Fit!Tokens(ns) = g[DOMAIN ns]
    BY <1>1, TokensAreSums
  <1> HIDE DEF ns, n
  <1> DEFINE P == {k \in Nat : k <= n => h[1..k] = g[1..k]}
  <1>6. 0 \in P
    <2>1. 1..0 = {}
      OBVIOUS
    <2> QED
      BY <1>3, <1>4, <2>1 DEF Sums
  <1>7. ASSUME NEW k \in Nat, k \in P PROVE k + 1 \in P
    <2> SUFFICES ASSUME k + 1 <= n PROVE h[1..(k + 1)] = g[1..(k + 1)]
      OBVIOUS
    <2>1. k <= n /\ k + 1 <= n + 1
      BY <1>2
    <2>2. h[1..(k + 1)] = h[1..k] + ms[k + 1].size
      BY <1>3, SumOfFirst DEF n
    <2>3. g[1..(k + 1)] = g[1..k] + ns[k + 1].size
      BY <1>1, <1>4, <2>1, SumOfFirst
    <2>4. ms[k + 1] = ns[k + 1]
      BY <1>1, <1>2
    <2> QED
      BY <1>7, <2>1, <2>2, <2>3, <2>4
  <1> HIDE DEF P
  <1>8. h[1..n] = g[1..n]
    <2>1. n \in P
      BY <1>2, <1>6, <1>7, SetInduction
    <2> QED
      BY <1>2, <2>1 DEF P
  <1>9. g[1..(n + 1)] = g[1..n] + m.size
    <2>1. n + 1 <= Len(ns)
      BY <1>1, <1>2
    <2> QED
      BY <1>1, <1>2, <1>4, <2>1, SumOfFirst
  <1>10. h[1..n] \in Nat
    BY <1>2, <1>3 DEF Sums
  <1> QED
    BY <1>2, <1>3, <1>4, <1>8, <1>9, <1>10 DEF ns

LEMMA TokensAreNumbers == \A ms \in Seq(Messages) : Fit!Tokens(ms) \in Nat
  <1>1. [what |-> "call", size |-> 0, nr |-> 0] \in Messages
    BY DEF Messages, Sorts
  <1> QED
    BY <1>1, TokensOfAppend

LEMMA TokensOfConcat ==
    ASSUME NEW ms \in Seq(Messages), NEW ns \in Seq(Messages)
    PROVE  Fit!Tokens(ms \o ns) = Fit!Tokens(ms) + Fit!Tokens(ns)
  <1> DEFINE P == {r \in Seq(Messages) : Fit!Tokens(ms \o r) = Fit!Tokens(ms) + Fit!Tokens(r)}
  <1>1. <<>> \in P
    <2>1. ms \o <<>> = ms /\ <<>> \in Seq(Messages)
      BY ConcatEmptySeq
    <2> QED
      BY <2>1, TokensOfNone, TokensAreNumbers
  <1>2. ASSUME NEW r \in Seq(Messages), NEW m \in Messages, r \in P PROVE Append(r, m) \in P
    <2>1. /\ ms \o r \in Seq(Messages) /\ Append(r, m) \in Seq(Messages)
          /\ ms \o Append(r, m) = Append(ms \o r, m)
      OBVIOUS
    <2>2. Fit!Tokens(Append(ms \o r, m)) = Fit!Tokens(ms \o r) + m.size
      BY <2>1, TokensOfAppend
    <2>3. Fit!Tokens(Append(r, m)) = Fit!Tokens(r) + m.size
      BY TokensOfAppend
    <2>4. m.size \in Nat
      BY DEF Messages
    <2>5. Fit!Tokens(ms) \in Nat /\ Fit!Tokens(r) \in Nat
      BY TokensAreNumbers
    <2>6. Fit!Tokens(ms \o r) = Fit!Tokens(ms) + Fit!Tokens(r)
      BY <1>2
    <2>7. Fit!Tokens(Append(ms \o r, m)) = Fit!Tokens(ms) + Fit!Tokens(Append(r, m))
      BY <2>2, <2>3, <2>4, <2>5, <2>6
    <2> QED
      BY <2>1, <2>7
  <1> HIDE DEF P
  <1>3. \A r \in Seq(Messages) : r \in P
    BY <1>1, <1>2, SeqInduction
  <1> QED
    BY <1>3 DEF P

\* The tokens of a part: of two parts that meet, of one message, of all.
LEMMA PartOf ==
    ASSUME NEW ms \in Seq(Messages), NEW a \in 1..(Len(ms) + 1), NEW b \in a..(Len(ms) + 1)
    PROVE  /\ SubSeq(ms, a, b - 1) \in Seq(Messages) /\ Len(SubSeq(ms, a, b - 1)) = b - a
           /\ \A i \in 1..(b - a) : SubSeq(ms, a, b - 1)[i] = ms[a + i - 1]
           /\ Fit!Between(ms, a, b) \in Nat
  <1>1. Len(ms) \in Nat /\ a \in Int /\ b - 1 \in Int /\ \A i \in a..(b - 1) : ms[i] \in Messages
    OBVIOUS
  <1>2. SubSeq(ms, a, b - 1) \in Seq(Messages)
    BY <1>1, SubSeqProperties
  <1>3. Len(SubSeq(ms, a, b - 1)) = IF a <= b - 1 THEN (b - 1) - a + 1 ELSE 0
    BY <1>1, SubSeqProperties
  <1>4. \A i \in 1..((b - 1) - a + 1) : SubSeq(ms, a, b - 1)[i] = ms[a + i - 1]
    BY <1>1, SubSeqProperties
  <1>5. (b - 1) - a + 1 = b - a /\ (~(a <= b - 1) => b - a = 0)
    OBVIOUS
  <1>6. Fit!Between(ms, a, b) \in Nat
    BY <1>2, TokensAreNumbers DEF Fit!Between
  <1> QED
    BY <1>2, <1>3, <1>4, <1>5, <1>6

LEMMA PartsMeet ==
    ASSUME NEW ms \in Seq(Messages), NEW a \in 1..(Len(ms) + 1), NEW b \in a..(Len(ms) + 1),
           NEW c \in b..(Len(ms) + 1)
    PROVE  Fit!Between(ms, a, c) = Fit!Between(ms, a, b) + Fit!Between(ms, b, c)
  <1>1. Len(ms) \in Nat /\ b - 1 \in (a - 1)..Len(ms) /\ c - 1 \in (b - 1)..Len(ms)
        /\ (b - 1) + 1 = b /\ b \in 1..(Len(ms) + 1)
    OBVIOUS
  <1>2. SubSeq(ms, a, b - 1) \o SubSeq(ms, b, c - 1) = SubSeq(ms, a, c - 1)
    BY <1>1, ConcatAdjacentSubSeq
  <1>3. SubSeq(ms, a, b - 1) \in Seq(Messages) /\ SubSeq(ms, b, c - 1) \in Seq(Messages)
    BY <1>1, PartOf
  <1> QED
    BY <1>2, <1>3, TokensOfConcat DEF Fit!Between

LEMMA PartOfNone == \A ms : \A a \in Int : Fit!Between(ms, a, a) = 0
  <1> SUFFICES ASSUME NEW ms, NEW a \in Int PROVE Fit!Between(ms, a, a) = 0
    OBVIOUS
  <1>1. SubSeq(ms, a, a - 1) = <<>>
    BY SubSeqEmpty
  <1> QED
    BY <1>1, TokensOfNone DEF Fit!Between

LEMMA PartOfOne ==
    ASSUME NEW ms \in Seq(Messages), NEW i \in 1..Len(ms)
    PROVE  Fit!Between(ms, i, i + 1) = ms[i].size
  <1> DEFINE s == SubSeq(ms, i, (i + 1) - 1)
  <1>5. ms[i] \in Messages
    BY ElementOfSeq
  <1>6. i \in 1..(Len(ms) + 1) /\ i + 1 \in i..(Len(ms) + 1) /\ (i + 1) - i = 1 /\ i + 1 - 1 = i
    OBVIOUS
  <1>7. s \in Seq(Messages) /\ Len(s) = 1 /\ \A j \in 1..1 : s[j] = ms[i + j - 1]
    BY <1>6, PartOf
  <1> HIDE DEF s
  <1>8. s[1] = ms[i]
    <2>1. 1 \in 1..1 /\ i + 1 - 1 = i
      BY <1>6
    <2> QED
      BY <1>7, <2>1
  <1>1. s = <<ms[i]>>
    <2>1. <<ms[i]>> \in Seq(Messages) /\ Len(<<ms[i]>>) = 1 /\ <<ms[i]>>[1] = ms[i]
      BY <1>5
    <2> QED
      BY <1>7, <1>8, <2>1, SeqEqual
  <1>2. Append(<<>>, ms[i]) = <<ms[i]>> /\ <<>> \in Seq(Messages)
    OBVIOUS
  <1>3. Fit!Tokens(<<ms[i]>>) = 0 + ms[i].size
    BY <1>5, <1>2, TokensOfAppend, TokensOfNone
  <1>4. ms[i].size \in Nat
    BY <1>5 DEF Messages
  <1>9. Fit!Between(ms, i, i + 1) = Fit!Tokens(s)
    BY DEF Fit!Between, s
  <1> QED
    BY <1>1, <1>3, <1>4, <1>9

LEMMA PartOfAll ==
    ASSUME NEW ms \in Seq(Messages)
    PROVE  Fit!Between(ms, 1, Len(ms) + 1) = Fit!Tokens(ms)
  <1>1. (Len(ms) + 1) - 1 = Len(ms) /\ SubSeq(ms, 1, Len(ms)) = ms
    BY SubSeqFull
  <1> QED
    BY <1>1 DEF Fit!Between

\* What stays when a part goes.
LEMMA WithoutPart ==
    ASSUME NEW ms \in Seq(Messages), NEW a \in 1..(Len(ms) + 1), NEW b \in a..(Len(ms) + 1)
    PROVE  LET rest == Fit!Without(ms, a, b) IN
           /\ rest \in Seq(Messages) /\ Len(rest) = Len(ms) - (b - a)
           /\ \A i \in 1..Len(rest) : rest[i] = IF i < a THEN ms[i] ELSE ms[i + (b - a)]
           /\ Fit!Tokens(rest) = Fit!Tokens(ms) - Fit!Between(ms, a, b)
  <1> DEFINE p == SubSeq(ms, 1, a - 1)
             r == SubSeq(ms, b, Len(ms))
  <1>1. /\ Len(ms) \in Nat /\ 1 \in 1..(Len(ms) + 1) /\ a \in 1..(Len(ms) + 1)
        /\ b \in 1..(Len(ms) + 1) /\ Len(ms) + 1 \in b..(Len(ms) + 1)
        /\ (Len(ms) + 1) - 1 = Len(ms) /\ b \in a..(Len(ms) + 1) /\ b \in Nat /\ a \in Nat
        /\ Len(ms) + 1 \in a..(Len(ms) + 1)
    OBVIOUS
  <1>2. /\ p \in Seq(Messages) /\ Len(p) = a - 1 /\ Fit!Between(ms, 1, a) \in Nat
        /\ \A i \in 1..(a - 1) : p[i] = ms[1 + i - 1]
    BY <1>1, PartOf
  <1>3. /\ r \in Seq(Messages) /\ Len(r) = (Len(ms) + 1) - b
        /\ Fit!Between(ms, b, Len(ms) + 1) \in Nat
        /\ \A i \in 1..((Len(ms) + 1) - b) : r[i] = ms[b + i - 1]
    BY <1>1, PartOf
  <1>4. Fit!Tokens(ms)
           = Fit!Between(ms, 1, a) + Fit!Between(ms, a, b) + Fit!Between(ms, b, Len(ms) + 1)
    <2>1. Fit!Between(ms, 1, Len(ms) + 1)
             = Fit!Between(ms, 1, a) + Fit!Between(ms, a, Len(ms) + 1)
      BY <1>1, PartsMeet
    <2>2. Fit!Between(ms, a, Len(ms) + 1)
             = Fit!Between(ms, a, b) + Fit!Between(ms, b, Len(ms) + 1)
      BY <1>1, PartsMeet
    <2>3. Fit!Between(ms, a, b) \in Nat
      BY PartOf
    <2> QED
      BY <1>2, <1>3, <2>1, <2>2, <2>3, PartOfAll
  <1>5. Fit!Between(ms, a, b) \in Nat
    BY PartOf
  <1>6. Fit!Tokens(p) = Fit!Between(ms, 1, a) /\ Fit!Tokens(r) = Fit!Between(ms, b, Len(ms) + 1)
    BY <1>1 DEF Fit!Between
  <1>7. Fit!Without(ms, a, b) = p \o r
    BY DEF Fit!Without
  <1> HIDE DEF p, r
  <1>8. Fit!Tokens(p \o r) = Fit!Tokens(p) + Fit!Tokens(r)
    BY <1>2, <1>3, TokensOfConcat
  <1>9. /\ p \o r \in Seq(Messages) /\ Len(p \o r) = Len(p) + Len(r)
        /\ \A i \in 1..(Len(p) + Len(r)) :
              (p \o r)[i] = IF i <= Len(p) THEN p[i] ELSE r[i - Len(p)]
    BY <1>2, <1>3, ConcatProperties
  <1>10. ASSUME NEW i \in 1..(Len(p) + Len(r))
         PROVE  (p \o r)[i] = IF i < a THEN ms[i] ELSE ms[i + (b - a)]
    <2>1. CASE i < a
      <3>1. i <= Len(p) /\ i \in 1..(a - 1) /\ 1 + i - 1 = i
        BY <1>1, <1>2, <1>3, <2>1
      <3> QED
        BY <1>2, <1>9, <2>1, <3>1
    <2>2. CASE ~(i < a)
      <3>1. /\ ~(i <= Len(p)) /\ i - Len(p) \in 1..((Len(ms) + 1) - b)
            /\ b + (i - Len(p)) - 1 = i + (b - a)
        BY <1>1, <1>2, <1>3, <2>2
      <3> QED
        BY <1>3, <1>9, <2>2, <3>1
    <2> QED
      BY <2>1, <2>2
  <1>11. Len(p \o r) = Len(ms) - (b - a)
    BY <1>1, <1>2, <1>3, <1>9
  <1>12. Fit!Tokens(p \o r) = Fit!Tokens(ms) - Fit!Between(ms, a, b)
    BY <1>2, <1>3, <1>4, <1>5, <1>6, <1>8
  <1> QED
    BY <1>7, <1>9, <1>10, <1>11, <1>12

\* A part behind the one that went.
LEMMA PartAfter ==
    ASSUME NEW ms \in Seq(Messages), NEW a \in 1..(Len(ms) + 1), NEW b \in a..(Len(ms) + 1),
           NEW c \in b..(Len(ms) + 1)
    PROVE  Fit!Between(Fit!Without(ms, a, b), a, c - (b - a)) = Fit!Between(ms, b, c)
  <1> DEFINE rest == Fit!Without(ms, a, b)
             d == c - (b - a)
             s == SubSeq(rest, a, d - 1)
             t == SubSeq(ms, b, c - 1)
  <1>1. /\ rest \in Seq(Messages) /\ Len(rest) = Len(ms) - (b - a)
        /\ \A i \in 1..Len(rest) : rest[i] = IF i < a THEN ms[i] ELSE ms[i + (b - a)]
    BY WithoutPart
  <1> HIDE DEF rest
  <1>2. /\ Len(ms) \in Nat /\ a \in 1..(Len(rest) + 1) /\ d \in a..(Len(rest) + 1)
        /\ b \in 1..(Len(ms) + 1) /\ a \in Nat /\ b \in Nat /\ c \in Nat /\ b >= a /\ c >= b
        /\ d - a = c - b /\ c <= Len(ms) + 1
    BY <1>1
  <1>3. s \in Seq(Messages) /\ Len(s) = d - a /\ \A i \in 1..(d - a) : s[i] = rest[a + i - 1]
    BY <1>1, <1>2, PartOf
  <1>4. t \in Seq(Messages) /\ Len(t) = c - b /\ \A i \in 1..(c - b) : t[i] = ms[b + i - 1]
    BY <1>2, PartOf
  <1>5. ASSUME NEW i \in 1..(c - b) PROVE rest[a + i - 1] = ms[b + i - 1]
    <2>1. a + i - 1 \in 1..Len(rest) /\ ~(a + i - 1 < a) /\ (a + i - 1) + (b - a) = b + i - 1
      BY <1>1, <1>2
    <2> QED
      BY <1>1, <2>1
  <1> HIDE DEF s, t, d
  <1>6. Len(s) = Len(t) /\ \A i \in 1..Len(s) : s[i] = t[i]
    BY <1>2, <1>3, <1>4, <1>5
  <1>7. s = t
    BY <1>3, <1>4, <1>6, SeqEqual
  <1> QED
    BY <1>7 DEF Fit!Between, s, t, d, rest

\* A message that was made smaller or larger.
Resized(ms, i, n) == [ms EXCEPT ![i].size = n]

LEMMA ResizedPart ==
    ASSUME NEW ms \in Seq(Messages), NEW i \in 1..Len(ms), NEW n \in Nat,
           NEW a \in 1..i, NEW b \in (i + 1)..(Len(ms) + 1)
    PROVE  LET new == Resized(ms, i, n) IN
           /\ new \in Seq(Messages) /\ Len(new) = Len(ms)
           /\ \A j \in 1..Len(ms) : new[j] = IF j = i THEN [ms[i] EXCEPT !.size = n] ELSE ms[j]
           /\ Fit!Between(new, a, b) = Fit!Between(ms, a, b) - ms[i].size + n
           /\ ms[i].size \in Nat /\ ms[i].size <= Fit!Between(ms, a, b)
  <1> DEFINE m == [ms[i] EXCEPT !.size = n]
             new == [ms EXCEPT ![i] = m]
  <1>1. ms[i] \in Messages /\ m \in Messages /\ m.size = n /\ ms[i].size \in Nat
    <2>1. ms[i] \in Messages
      BY ElementOfSeq
    <2> QED
      BY <2>1 DEF Messages
  <1>2. Resized(ms, i, n) = new
    BY DEF Resized
  <1> HIDE DEF m
  <1>3. /\ new \in Seq(Messages) /\ Len(new) = Len(ms)
        /\ \A j \in 1..Len(ms) : new[j] = IF j = i THEN m ELSE ms[j]
    BY <1>1, ExceptSeq
  <1>4. /\ Len(ms) \in Nat /\ a \in 1..(Len(ms) + 1) /\ i \in a..(Len(ms) + 1)
        /\ i \in 1..(Len(ms) + 1)
        /\ i + 1 \in i..(Len(ms) + 1) /\ i + 1 \in 1..(Len(ms) + 1) /\ i + 1 \in a..(Len(ms) + 1)
        /\ b \in (i + 1)..(Len(ms) + 1) /\ b \in i..(Len(ms) + 1) /\ b \in a..(Len(ms) + 1)
    OBVIOUS
  <1> HIDE DEF new
  <1>5. Fit!Between(ms, a, b) = Fit!Between(ms, a, i) + ms[i].size + Fit!Between(ms, i + 1, b)
    <2>1. Fit!Between(ms, a, b) = Fit!Between(ms, a, i) + Fit!Between(ms, i, b)
      BY <1>4, PartsMeet
    <2>2. Fit!Between(ms, i, b) = Fit!Between(ms, i, i + 1) + Fit!Between(ms, i + 1, b)
      BY <1>4, PartsMeet
    <2>3. Fit!Between(ms, a, i) \in Nat /\ Fit!Between(ms, i + 1, b) \in Nat
      BY <1>4, PartOf
    <2> QED
      BY <1>1, <2>1, <2>2, <2>3, PartOfOne
  <1>6. Fit!Between(new, a, b) = Fit!Between(new, a, i) + n + Fit!Between(new, i + 1, b)
    <2>1. Fit!Between(new, a, b) = Fit!Between(new, a, i) + Fit!Between(new, i, b)
      BY <1>3, <1>4, PartsMeet
    <2>2. Fit!Between(new, i, b) = Fit!Between(new, i, i + 1) + Fit!Between(new, i + 1, b)
      BY <1>3, <1>4, PartsMeet
    <2>3. Fit!Between(new, a, i) \in Nat /\ Fit!Between(new, i + 1, b) \in Nat
      BY <1>3, <1>4, PartOf
    <2>4. Fit!Between(new, i, i + 1) = n
      BY <1>1, <1>3, PartOfOne
    <2> QED
      BY <2>1, <2>2, <2>3, <2>4
  <1>7. ASSUME NEW c \in 1..(Len(ms) + 1), NEW d \in c..(Len(ms) + 1), i \notin c..(d - 1)
        PROVE  Fit!Between(new, c, d) = Fit!Between(ms, c, d)
    <2> DEFINE s == SubSeq(new, c, d - 1)
               t == SubSeq(ms, c, d - 1)
    <2>1. s \in Seq(Messages) /\ Len(s) = d - c /\ \A j \in 1..(d - c) : s[j] = new[c + j - 1]
      BY <1>3, PartOf
    <2>2. t \in Seq(Messages) /\ Len(t) = d - c /\ \A j \in 1..(d - c) : t[j] = ms[c + j - 1]
      BY PartOf
    <2>3. ASSUME NEW j \in 1..(d - c) PROVE new[c + j - 1] = ms[c + j - 1]
      <3>1. c + j - 1 \in 1..Len(ms) /\ c + j - 1 \in c..(d - 1)
        BY <1>4
      <3> QED
        BY <1>3, <1>7, <3>1
    <2> HIDE DEF s, t
    <2>4. s = t
      BY <2>1, <2>2, <2>3, SeqEqual
    <2> QED
      BY <2>4 DEF Fit!Between, s, t
  <1>8. /\ Fit!Between(new, a, i) = Fit!Between(ms, a, i)
        /\ Fit!Between(new, i + 1, b) = Fit!Between(ms, i + 1, b)
    <2>1. i \notin a..(i - 1) /\ i \notin (i + 1)..(b - 1)
      OBVIOUS
    <2> QED
      BY <1>4, <1>7, <2>1
  <1>9. Fit!Between(ms, a, i) \in Nat /\ Fit!Between(ms, i + 1, b) \in Nat
    BY <1>4, PartOf
  <1>10. /\ Fit!Between(new, a, b) = Fit!Between(ms, a, b) - ms[i].size + n
         /\ ms[i].size <= Fit!Between(ms, a, b)
    BY <1>1, <1>5, <1>6, <1>8, <1>9
  <1>11. \A j \in 1..Len(ms) : new[j] = IF j = i THEN [ms[i] EXCEPT !.size = n] ELSE ms[j]
    BY <1>3 DEF m
  <1> HIDE DEF m, new
  <1> QED
    BY <1>1, <1>2, <1>3, <1>10, <1>11

\* What the theorems assume of the constants: sizes are numbers, the template
\* marks each message, and a note is no longer than the results it replaces.
FitConstants ==
    /\ ToolRole \in BOOLEAN
    /\ Context \in Nat /\ MaxTokens \in Nat /\ ReserveLeast \in Nat /\ ReserveMost \in Nat
    /\ LongResult \in Nat /\ NoteSize \in Nat /\ NoteSize <= LongResult
    /\ Schemas \in Nat /\ Markers \in Nat \ {0}
    /\ SystemSize \in Nat /\ CallSize \in Nat /\ AnswerSize \in Nat
    /\ RequestSizes \subseteq Nat /\ ResultSizes \subseteq Nat
    /\ MaxMessages \in Nat \ {0}

LEMMA RoomsAreNumbers ==
    ASSUME FitConstants
    PROVE  Fit!AnswerRoom \in Nat /\ Fit!ThinkingRoom \in Nat
  <1>1. Fit!AnswerRoom \in Nat
    BY DEF FitConstants, Fit!AnswerRoom, Fit!Lower
  <1>2. Context \div 2 \in Nat
    BY DEF FitConstants
  <1> QED
    BY <1>1, <1>2 DEF Fit!ThinkingRoom, Fit!Lower

LEMMA Product ==
    ASSUME NEW m \in Nat, NEW a \in Nat, NEW b \in Nat
    PROVE  /\ m * a \in Nat /\ m * (a + b) = m * a + m * b
           /\ m # 0 /\ b # 0 => m * b > 0
  OBVIOUS

\* The prompt, and what it loses with a part.
LEMMA PromptIs ==
    ASSUME FitConstants, NEW ms \in Seq(Messages)
    PROVE  Fit!Prompt(ms) \in Nat /\ Fit!Prompt(ms) >= Fit!Tokens(ms)
  <1>1. Fit!Tokens(ms) \in Nat /\ Markers * Len(ms) \in Nat
    BY TokensAreNumbers, Product DEF FitConstants
  <1> QED
    BY <1>1 DEF Fit!Prompt, FitConstants

LEMMA PromptWithout ==
    ASSUME FitConstants, NEW ms \in Seq(Messages), NEW a \in 1..(Len(ms) + 1),
           NEW b \in a..(Len(ms) + 1)
    PROVE  /\ Fit!Prompt(Fit!Without(ms, a, b)) <= Fit!Prompt(ms) - Fit!Between(ms, a, b)
           /\ b > a => Fit!Prompt(Fit!Without(ms, a, b)) < Fit!Prompt(ms) - Fit!Between(ms, a, b)
  <1> DEFINE rest == Fit!Without(ms, a, b)
             gone == b - a
  <1>1. /\ rest \in Seq(Messages) /\ Len(rest) = Len(ms) - gone
        /\ Fit!Tokens(rest) = Fit!Tokens(ms) - Fit!Between(ms, a, b)
    BY WithoutPart
  <1>2. /\ Len(ms) \in Nat /\ Len(rest) \in Nat /\ gone \in Nat /\ Len(ms) = Len(rest) + gone
        /\ b > a => gone # 0
    BY <1>1
  <1>3. Fit!Between(ms, a, b) \in Nat /\ Fit!Tokens(ms) \in Nat /\ Fit!Tokens(rest) \in Nat
    BY <1>1, PartOf, TokensAreNumbers
  <1> HIDE DEF rest, gone
  <1>4. /\ Markers * Len(rest) \in Nat /\ Markers * gone \in Nat
        /\ Markers * Len(ms) = Markers * Len(rest) + Markers * gone
        /\ gone # 0 => Markers * gone > 0
    BY <1>2, Product DEF FitConstants
  <1> DEFINE x == Markers * Len(rest)
             y == Markers * gone
             z == Markers * Len(ms)
  <1>5. /\ Fit!Prompt(rest) = Schemas + Fit!Tokens(rest) + x
        /\ Fit!Prompt(ms) = Schemas + Fit!Tokens(ms) + z
    BY DEF Fit!Prompt
  <1>6. x \in Nat /\ y \in Nat /\ z = x + y /\ (gone # 0 => y > 0) /\ Schemas \in Nat
    BY <1>4 DEF FitConstants
  <1> HIDE DEF x, y, z
  <1>7. Fit!Prompt(rest) <= Fit!Prompt(ms) - Fit!Between(ms, a, b)
    BY <1>1, <1>3, <1>5, <1>6
  <1>8. gone # 0 => Fit!Prompt(rest) < Fit!Prompt(ms) - Fit!Between(ms, a, b)
    BY <1>1, <1>3, <1>5, <1>6
  <1> QED
    BY <1>2, <1>7, <1>8 DEF rest

\* Roles of the messages.
LEMMA Roles ==
    ASSUME FitConstants, NEW m \in Messages
    PROVE  /\ Fit!Role(m) = "system" <=> m.what = "system"
           /\ Fit!Role(m) = "tool" <=> (m.what = "result" /\ ToolRole)
           /\ Fit!Role(m) = "user" <=> (m.what = "request" \/ (m.what = "result" /\ ~ToolRole))
  <1>1. m.what \in Sorts
    BY DEF Messages
  <1>2. CASE m.what = "system"
    BY <1>2 DEF Fit!Role
  <1>3. CASE m.what = "request"
    BY <1>3 DEF Fit!Role
  <1>4. CASE m.what = "result"
    <2>1. Fit!Role(m) = IF ToolRole THEN "tool" ELSE "user"
      BY <1>4 DEF Fit!Role
    <2>2. CASE ToolRole
      BY <1>4, <2>1, <2>2
    <2>3. CASE ~ToolRole
      BY <1>4, <2>1, <2>3
    <2> QED
      BY <2>2, <2>3
  <1>5. CASE m.what \in {"call", "answer"}
    BY <1>5 DEF Fit!Role
  <1> QED
    BY <1>1, <1>2, <1>3, <1>4, <1>5 DEF Sorts

HasUser(ms) == \E i \in 1..Len(ms) : Fit!Role(ms[i]) = "user"

\* Same(ms, ns): the messages are the same, but for their sizes.
Same(ms, ns) == Len(ns) = Len(ms) /\ \A i \in 1..Len(ms) : ns[i].what = ms[i].what

LEMMA LastUserIs ==
    ASSUME NEW ms \in Seq(Messages), HasUser(ms)
    PROVE  /\ Fit!LastUser(ms) \in 1..Len(ms) /\ Fit!Role(ms[Fit!LastUser(ms)]) = "user"
           /\ \A i \in 1..Len(ms) : Fit!Role(ms[i]) = "user" => i <= Fit!LastUser(ms)
  <1> DEFINE I == {i \in 1..Len(ms) : Fit!Role(ms[i]) = "user"}
  <1>1. Fit!LastUser(ms) = IF I # {} THEN Fit!Max(I) ELSE 0
    BY DEF Fit!LastUser, Fit!SelectLastInSeq
  <1>2. I \subseteq 0..Len(ms) /\ I # {} /\ Len(ms) \in Nat
    BY DEF HasUser
  <1>3. Fit!Max(I) \in I /\ \A y \in I : Fit!Max(I) >= y
    BY <1>2, GreatestOf
  <1> QED
    BY <1>1, <1>2, <1>3

LEMMA LastUserAt ==
    ASSUME NEW ms \in Seq(Messages), NEW k \in 1..Len(ms), Fit!Role(ms[k]) = "user",
           \A i \in (k + 1)..Len(ms) : Fit!Role(ms[i]) # "user"
    PROVE  Fit!LastUser(ms) = k /\ HasUser(ms)
  <1>1. HasUser(ms)
    BY DEF HasUser
  <1>2. /\ Fit!LastUser(ms) \in 1..Len(ms) /\ Fit!Role(ms[Fit!LastUser(ms)]) = "user"
        /\ k <= Fit!LastUser(ms)
    BY <1>1, LastUserIs
  <1>3. Fit!LastUser(ms) \notin (k + 1)..Len(ms)
    BY <1>2
  <1> QED
    BY <1>1, <1>2, <1>3

LEMMA LastUserSame ==
    ASSUME NEW ms \in Seq(Messages), NEW ns \in Seq(Messages), Same(ms, ns), HasUser(ms)
    PROVE  Fit!LastUser(ns) = Fit!LastUser(ms) /\ Fit!First(ns) = Fit!First(ms) /\ HasUser(ns)
  <1>1. \A i \in 1..Len(ms) : Fit!Role(ns[i]) = Fit!Role(ms[i])
    BY DEF Same, Fit!Role
  <1>2. Fit!LastUser(ms) \in 1..Len(ms) /\ Fit!Role(ms[Fit!LastUser(ms)]) = "user"
        /\ \A i \in 1..Len(ms) : Fit!Role(ms[i]) = "user" => i <= Fit!LastUser(ms)
    BY LastUserIs
  <1>3. \A i \in (Fit!LastUser(ms) + 1)..Len(ns) : Fit!Role(ns[i]) # "user"
    BY <1>1, <1>2 DEF Same
  <1>4. Fit!LastUser(ms) \in 1..Len(ns) /\ Fit!Role(ns[Fit!LastUser(ms)]) = "user"
    BY <1>1, <1>2 DEF Same
  <1>5. 1 \in 1..Len(ms)
    BY <1>2
  <1> QED
    BY <1>1, <1>3, <1>4, <1>5, LastUserAt DEF Fit!First

LEMMA FirstIs ==
    ASSUME FitConstants, NEW ms \in Seq(Messages), HasUser(ms)
    PROVE  /\ Fit!First(ms) \in {1, 2} /\ Fit!First(ms) <= Fit!LastUser(ms)
           /\ Fit!First(ms) \in 1..Len(ms)
  <1>1. Fit!LastUser(ms) \in 1..Len(ms) /\ Fit!Role(ms[Fit!LastUser(ms)]) = "user"
    BY LastUserIs
  <1>2. Fit!First(ms) = 2 => Fit!LastUser(ms) # 1
    BY <1>1 DEF Fit!First
  <1> QED
    BY <1>1, <1>2 DEF Fit!First

\* The spread prompt has the same messages.
LEMMA SpreadIs ==
    ASSUME FitConstants, NEW ms \in Seq(Messages), ms # <<>>
    PROVE  Fit!Spread(ms) \in Seq(Messages) /\ Same(ms, Fit!Spread(ms))
  <1> DEFINE each == (Fit!Prompt(ms) - Fit!Tokens(ms)) \div Len(ms)
  <1>1. /\ Fit!Prompt(ms) \in Nat /\ Fit!Prompt(ms) >= Fit!Tokens(ms)
        /\ Fit!Tokens(ms) \in Nat /\ Len(ms) \in Nat \ {0}
    BY PromptIs, TokensAreNumbers, EmptySeq
  <1>2. Fit!Prompt(ms) - Fit!Tokens(ms) \in Nat
    BY <1>1
  <1>3. each \in Nat
    BY <1>1, <1>2
  <1>4. Fit!Spread(ms) = [i \in DOMAIN ms |-> [ms[i] EXCEPT !.size = @ + each]]
    BY DEF Fit!Spread
  <1> HIDE DEF each
  <1>5. DOMAIN ms = 1..Len(ms)
    OBVIOUS
  <1>6. \A i \in 1..Len(ms) : /\ [ms[i] EXCEPT !.size = @ + each] \in Messages
                              /\ [ms[i] EXCEPT !.size = @ + each].what = ms[i].what
    <2> SUFFICES ASSUME NEW i \in 1..Len(ms)
                 PROVE  /\ [ms[i] EXCEPT !.size = @ + each] \in Messages
                        /\ [ms[i] EXCEPT !.size = @ + each].what = ms[i].what
      OBVIOUS
    <2>1. ms[i] \in Messages
      BY ElementOfSeq
    <2> QED
      BY <1>3, <2>1 DEF Messages
  <1>7. Fit!Spread(ms) \in Seq(Messages) /\ Len(Fit!Spread(ms)) = Len(ms)
    BY <1>1, <1>4, <1>5, <1>6
  <1> QED
    BY <1>4, <1>5, <1>6, <1>7 DEF Same

\* Where turns and steps end.
LEMMA TurnsEndIs ==
    ASSUME FitConstants, NEW ms \in Seq(Messages), HasUser(ms), NEW target
    PROVE  LET e == Fit!TurnsEnd(ms, target) IN
           /\ e \in Fit!First(ms)..Fit!LastUser(ms)
           /\ \/ e = Fit!LastUser(ms)
              \/ Fit!Role(ms[e]) = "user" /\ Fit!Between(ms, Fit!First(ms), e) >= target
  <1> DEFINE f == Fit!First(ms)
             l == Fit!LastUser(ms)
             E == {e \in f..l : \/ e = l
                                \/ Fit!Role(ms[e]) = "user" /\ Fit!Between(ms, f, e) >= target}
  <1>1. l \in Nat /\ f \in Nat /\ f <= l
    BY LastUserIs, FirstIs
  <1>2. Fit!TurnsEnd(ms, target) = Fit!Min(E)
    BY DEF Fit!TurnsEnd
  <1> HIDE DEF f, l
  <1>3. E \subseteq 0..l /\ l \in E
    BY <1>1
  <1>4. Fit!Min(E) \in E
    BY <1>1, <1>3, LeastOf
  <1> QED
    BY <1>2, <1>4 DEF f, l

LEMMA StepsEndIs ==
    ASSUME FitConstants, NEW ms \in Seq(Messages), HasUser(ms), Fit!Steps(ms) # {}
    PROVE  LET e == Fit!StepsEnd(ms) IN
           /\ e \in Fit!Steps(ms) /\ e \in (Fit!LastUser(ms) + 1)..Len(ms)
           /\ Fit!Role(ms[e]) # "tool"
           /\ \/ e = Fit!Max(Fit!Steps(ms))
              \/ Fit!Between(Fit!Spread(ms), Fit!LastUser(ms) + 1, e) >= Fit!Short(ms)
           /\ \A i \in Fit!Steps(ms) : i <= Fit!Max(Fit!Steps(ms))
  <1> DEFINE l == Fit!LastUser(ms)
             S == Fit!Steps(ms)
             E == {e \in S : \/ e = Fit!Max(S)
                             \/ Fit!Between(Fit!Spread(ms), l + 1, e) >= Fit!Short(ms)}
  <1>1. l \in Nat /\ Len(ms) \in Nat
    BY LastUserIs
  <1>2. Fit!StepsEnd(ms) = Fit!Min(E)
    BY DEF Fit!StepsEnd
  <1>3. S \subseteq 0..Len(ms) /\ \A e \in S : e \in (l + 1)..Len(ms) /\ Fit!Role(ms[e]) # "tool"
    BY <1>1 DEF Fit!Steps
  <1> HIDE DEF S, l
  <1>4. Fit!Max(S) \in S /\ \A y \in S : Fit!Max(S) >= y
    BY <1>1, <1>3, GreatestOf DEF S
  <1>5. E \subseteq 0..Len(ms) /\ E # {}
    BY <1>3, <1>4
  <1>6. Fit!Min(E) \in E
    BY <1>1, <1>5, LeastOf
  <1>7. \A i \in S : i <= Fit!Max(S)
    BY <1>3, <1>4
  <1> QED
    BY <1>2, <1>3, <1>6, <1>7 DEF S, l

\* A part before the one that went.
LEMMA PartBefore ==
    ASSUME NEW ms \in Seq(Messages), NEW a \in 1..(Len(ms) + 1), NEW b \in a..(Len(ms) + 1),
           NEW x \in 1..a, NEW c \in x..a
    PROVE  Fit!Between(Fit!Without(ms, a, b), x, c) = Fit!Between(ms, x, c)
  <1> DEFINE rest == Fit!Without(ms, a, b)
             s == SubSeq(rest, x, c - 1)
             t == SubSeq(ms, x, c - 1)
  <1>1. /\ rest \in Seq(Messages) /\ Len(rest) = Len(ms) - (b - a)
        /\ \A i \in 1..Len(rest) : rest[i] = IF i < a THEN ms[i] ELSE ms[i + (b - a)]
    BY WithoutPart
  <1> HIDE DEF rest
  <1>2. /\ Len(ms) \in Nat /\ Len(rest) \in Nat /\ x \in 1..(Len(rest) + 1)
        /\ c \in x..(Len(rest) + 1) /\ x \in 1..(Len(ms) + 1) /\ c \in x..(Len(ms) + 1)
    BY <1>1
  <1>3. s \in Seq(Messages) /\ Len(s) = c - x /\ \A i \in 1..(c - x) : s[i] = rest[x + i - 1]
    BY <1>1, <1>2, PartOf
  <1>4. t \in Seq(Messages) /\ Len(t) = c - x /\ \A i \in 1..(c - x) : t[i] = ms[x + i - 1]
    BY <1>2, PartOf
  <1>5. ASSUME NEW i \in 1..(c - x) PROVE rest[x + i - 1] = ms[x + i - 1]
    <2>1. x + i - 1 \in 1..Len(rest) /\ x + i - 1 < a
      BY <1>1, <1>2
    <2> QED
      BY <1>1, <2>1
  <1> HIDE DEF s, t
  <1>6. s = t
    BY <1>3, <1>4, <1>5, SeqEqual
  <1> QED
    BY <1>6 DEF Fit!Between, s, t, rest

\* What is left of the prompt when all earlier turns have gone.
Bare(ms) == Fit!Prompt(ms) - Fit!Between(ms, Fit!First(ms), Fit!LastUser(ms))

\* A round that takes earlier turns, one that takes steps, one that shortens a
\* result.
LEMMA TurnsGo ==
    ASSUME FitConstants, NEW ms \in Seq(Messages), HasUser(ms),
           NEW e \in Fit!First(ms)..Fit!LastUser(ms), e > Fit!First(ms), Fit!Role(ms[e]) = "user"
    PROVE  LET rest == Fit!Without(ms, Fit!First(ms), e) IN
           /\ rest \in Seq(Messages) /\ Len(rest) = Len(ms) - (e - Fit!First(ms)) /\ HasUser(rest)
           /\ \A i \in 1..Len(rest) :
                 rest[i] = IF i < Fit!First(ms) THEN ms[i] ELSE ms[i + (e - Fit!First(ms))]
           /\ Fit!First(rest) = Fit!First(ms)
           /\ Fit!LastUser(rest) = Fit!LastUser(ms) - (e - Fit!First(ms))
           /\ Fit!Prompt(rest) < Fit!Prompt(ms) /\ Bare(rest) <= Bare(ms)
  <1> DEFINE f == Fit!First(ms)
             l == Fit!LastUser(ms)
             rest == Fit!Without(ms, f, e)
             gone == e - f
  <1>1. f \in {1, 2} /\ f <= l /\ l \in 1..Len(ms) /\ Len(ms) \in Nat /\ Fit!Role(ms[l]) = "user"
        /\ \A i \in 1..Len(ms) : Fit!Role(ms[i]) = "user" => i <= l
    BY FirstIs, LastUserIs
  <1>2. /\ f \in 1..(Len(ms) + 1) /\ e \in f..(Len(ms) + 1) /\ l \in e..(Len(ms) + 1)
        /\ e \in Nat /\ gone \in Nat /\ gone > 0 /\ e <= l /\ l \in f..(Len(ms) + 1)
        /\ e \in 1..(Len(ms) + 1)
    BY <1>1
  <1>3. /\ rest \in Seq(Messages) /\ Len(rest) = Len(ms) - gone
        /\ \A i \in 1..Len(rest) : rest[i] = IF i < f THEN ms[i] ELSE ms[i + gone]
    BY <1>2, WithoutPart
  <1>4. /\ Fit!Prompt(rest) <= Fit!Prompt(ms) - Fit!Between(ms, f, e)
        /\ Fit!Prompt(rest) < Fit!Prompt(ms) - Fit!Between(ms, f, e)
    BY <1>2, PromptWithout
  <1>5. Fit!Between(rest, f, l - gone) = Fit!Between(ms, e, l)
    BY <1>2, PartAfter
  <1>6. Fit!Between(ms, f, l) = Fit!Between(ms, f, e) + Fit!Between(ms, e, l)
    BY <1>2, PartsMeet
  <1>7. Fit!Between(ms, f, e) \in Nat /\ Fit!Between(ms, e, l) \in Nat
    BY <1>2, PartOf
  <1>8. Fit!Prompt(ms) \in Nat /\ Fit!Prompt(rest) \in Nat
    BY <1>3, PromptIs
  <1>9. f = IF Fit!Role(ms[1]) = "system" THEN 2 ELSE 1
    BY DEF Fit!First
  <1> HIDE DEF rest, f, l
  <1>10. Fit!LastUser(rest) = l - gone /\ HasUser(rest)
    <2>1. l - gone \in 1..Len(rest) /\ ~(l - gone < f) /\ (l - gone) + gone = l
      BY <1>1, <1>2, <1>3
    <2>2. Fit!Role(rest[l - gone]) = "user"
      BY <1>1, <1>3, <2>1
    <2>3. ASSUME NEW i \in ((l - gone) + 1)..Len(rest) PROVE Fit!Role(rest[i]) # "user"
      <3>1. /\ i \in 1..Len(rest) /\ ~(i < f) /\ i + gone \in 1..Len(ms) /\ ~(i + gone <= l)
        BY <1>1, <1>2, <1>3, <2>1
      <3> QED
        BY <1>1, <1>3, <3>1
    <2> QED
      BY <1>3, <2>1, <2>2, <2>3, LastUserAt
  <1>11. Fit!First(rest) = f
    <2>1. 1 \in 1..Len(rest)
      BY <1>1, <1>2, <1>3
    <2>2. CASE f = 2
      <3>1. rest[1] = ms[1]
        BY <1>3, <2>1, <2>2
      <3> QED
        BY <1>9, <2>2, <3>1 DEF Fit!First
    <2>3. CASE f = 1
      <3>1. rest[1] = ms[e]
        <4>1. ~(1 < f) /\ 1 + gone = e
          BY <1>2, <2>3
        <4> QED
          BY <1>3, <2>1, <4>1
      <3> QED
        BY <2>3, <3>1 DEF Fit!First
    <2> QED
      BY <1>1, <2>2, <2>3
  <1>12. Fit!Prompt(rest) < Fit!Prompt(ms)
    BY <1>4, <1>7, <1>8
  <1>13. Fit!Prompt(rest) - Fit!Between(rest, f, l - gone)
            <= Fit!Prompt(ms) - Fit!Between(ms, f, l)
    BY <1>4, <1>5, <1>6, <1>7, <1>8
  <1>14. Bare(rest) <= Bare(ms)
    BY <1>10, <1>11, <1>13 DEF Bare, f, l
  <1> QED
    BY <1>3, <1>10, <1>11, <1>12, <1>14 DEF f, l, rest

LEMMA StepsGo ==
    ASSUME FitConstants, NEW ms \in Seq(Messages), HasUser(ms),
           NEW e \in (Fit!LastUser(ms) + 1)..Len(ms)
    PROVE  LET rest == Fit!Without(ms, Fit!LastUser(ms) + 1, e)
               gone == e - (Fit!LastUser(ms) + 1) IN
           /\ rest \in Seq(Messages) /\ Len(rest) = Len(ms) - gone /\ HasUser(rest)
           /\ \A i \in 1..Len(rest) :
                 rest[i] = IF i < Fit!LastUser(ms) + 1 THEN ms[i] ELSE ms[i + gone]
           /\ Fit!First(rest) = Fit!First(ms) /\ Fit!LastUser(rest) = Fit!LastUser(ms)
           /\ (e > Fit!LastUser(ms) + 1 => Fit!Prompt(rest) < Fit!Prompt(ms))
           /\ Bare(rest) <= Bare(ms)
  <1> DEFINE f == Fit!First(ms)
             l == Fit!LastUser(ms)
             rest == Fit!Without(ms, l + 1, e)
             gone == e - (l + 1)
  <1>1. f \in {1, 2} /\ f <= l /\ l \in 1..Len(ms) /\ Len(ms) \in Nat /\ Fit!Role(ms[l]) = "user"
        /\ \A i \in 1..Len(ms) : Fit!Role(ms[i]) = "user" => i <= l
    BY FirstIs, LastUserIs
  <1>2. /\ l + 1 \in 1..(Len(ms) + 1) /\ e \in (l + 1)..(Len(ms) + 1) /\ e <= Len(ms)
        /\ e \in Nat /\ gone \in Nat /\ f \in 1..(l + 1) /\ l \in f..(l + 1)
    BY <1>1
  <1>3. /\ rest \in Seq(Messages) /\ Len(rest) = Len(ms) - gone
        /\ \A i \in 1..Len(rest) : rest[i] = IF i < l + 1 THEN ms[i] ELSE ms[i + gone]
    BY <1>2, WithoutPart
  <1>4. /\ Fit!Prompt(rest) <= Fit!Prompt(ms) - Fit!Between(ms, l + 1, e)
        /\ e > l + 1 => Fit!Prompt(rest) < Fit!Prompt(ms) - Fit!Between(ms, l + 1, e)
    BY <1>2, PromptWithout
  <1>5. Fit!Between(rest, f, l) = Fit!Between(ms, f, l)
    BY <1>2, PartBefore
  <1>6. Fit!Between(ms, l + 1, e) \in Nat /\ Fit!Between(ms, f, l) \in Nat
    <2>1. f \in 1..(Len(ms) + 1) /\ l \in f..(Len(ms) + 1)
      BY <1>1
    <2> QED
      BY <1>2, <2>1, PartOf
  <1>8. Fit!Prompt(ms) \in Nat /\ Fit!Prompt(rest) \in Nat
    BY <1>3, PromptIs
  <1> HIDE DEF rest, f, l
  <1>10. Fit!LastUser(rest) = l /\ HasUser(rest)
    <2>1. l \in 1..Len(rest) /\ l < l + 1
      BY <1>1, <1>2, <1>3
    <2>2. Fit!Role(rest[l]) = "user"
      BY <1>1, <1>3, <2>1
    <2>3. ASSUME NEW i \in (l + 1)..Len(rest) PROVE Fit!Role(rest[i]) # "user"
      <3>1. /\ i \in 1..Len(rest) /\ ~(i < l + 1) /\ i + gone \in 1..Len(ms) /\ ~(i + gone <= l)
        BY <1>1, <1>2, <1>3, <2>1
      <3> QED
        BY <1>1, <1>3, <3>1
    <2> QED
      BY <1>3, <2>1, <2>2, <2>3, LastUserAt
  <1>11. Fit!First(rest) = f
    <2>1. 1 \in 1..Len(rest) /\ 1 < l + 1
      BY <1>1, <1>2, <1>3
    <2>2. rest[1] = ms[1]
      BY <1>3, <2>1
    <2> QED
      BY <2>2 DEF Fit!First, f
  <1>12. e > l + 1 => Fit!Prompt(rest) < Fit!Prompt(ms)
    BY <1>4, <1>6, <1>8
  <1>13. Fit!Prompt(rest) - Fit!Between(rest, f, l) <= Fit!Prompt(ms) - Fit!Between(ms, f, l)
    BY <1>4, <1>5, <1>6, <1>8
  <1>14. Bare(rest) <= Bare(ms)
    BY <1>10, <1>11, <1>13 DEF Bare, f, l
  <1> QED
    BY <1>3, <1>10, <1>11, <1>12, <1>14 DEF f, l, rest

LEMMA ResultGoes ==
    ASSUME FitConstants, NEW ms \in Seq(Messages), HasUser(ms), Fit!EarlierResults(ms) # {}
    PROVE  LET i == Fit!Min(Fit!EarlierResults(ms))
               new == Resized(ms, i, NoteSize) IN
           /\ i \in 1..(Fit!LastUser(ms) - 1) /\ i \in 1..Len(ms) /\ Fit!Role(ms[i]) = "tool"
           /\ new \in Seq(Messages) /\ Same(ms, new)
           /\ \A j \in 1..Len(ms) : new[j] = IF j = i THEN [ms[i] EXCEPT !.size = NoteSize]
                                             ELSE ms[j]
           /\ Fit!Prompt(new) < Fit!Prompt(ms) /\ Bare(new) = Bare(ms)
  <1> DEFINE f == Fit!First(ms)
             l == Fit!LastUser(ms)
             R == Fit!EarlierResults(ms)
             i == Fit!Min(R)
             new == Resized(ms, i, NoteSize)
  <1>1. f \in {1, 2} /\ f <= l /\ l \in 1..Len(ms) /\ Len(ms) \in Nat
    BY FirstIs, LastUserIs
  <1>2. R \subseteq 0..l
    BY <1>1 DEF Fit!EarlierResults
  <1>3. i \in R
    BY <1>1, <1>2, LeastOf
  <1>4. i \in 1..(l - 1) /\ Fit!Role(ms[i]) = "tool" /\ ms[i].size > LongResult
    BY <1>3 DEF Fit!EarlierResults
  <1> HIDE DEF i, l, f
  <1>5. i \in 1..Len(ms)
    BY <1>1, <1>4
  <1>6. f <= i
    <2>1. f = 2 => i # 1
      BY <1>4 DEF f, Fit!First
    <2> QED
      BY <1>1, <1>4, <2>1
  <1>7. NoteSize \in Nat /\ ms[i].size \in Nat /\ NoteSize < ms[i].size
    <2>1. ms[i] \in Messages
      BY <1>5, ElementOfSeq
    <2>2. ms[i].size \in Nat
      BY <2>1 DEF Messages
    <2> QED
      BY <1>4, <2>2 DEF FitConstants
  <1>8. /\ new \in Seq(Messages) /\ Len(new) = Len(ms)
        /\ \A j \in 1..Len(ms) :
              new[j] = IF j = i THEN [ms[i] EXCEPT !.size = NoteSize] ELSE ms[j]
        /\ Fit!Between(new, 1, Len(ms) + 1)
              = Fit!Between(ms, 1, Len(ms) + 1) - ms[i].size + NoteSize
    <2>1. 1 \in 1..i /\ Len(ms) + 1 \in (i + 1)..(Len(ms) + 1)
      BY <1>1, <1>5
    <2> QED
      BY <1>5, <1>7, <2>1, ResizedPart
  <1>9. Fit!Between(new, f, l) = Fit!Between(ms, f, l) - ms[i].size + NoteSize
    <2>1. f \in 1..i /\ l \in (i + 1)..(Len(ms) + 1)
      BY <1>1, <1>4, <1>6
    <2> HIDE DEF new
    <2>2. /\ Resized(ms, i, NoteSize) \in Seq(Messages)
          /\ Len(Resized(ms, i, NoteSize)) = Len(ms)
          /\ \A j \in 1..Len(ms) :
                Resized(ms, i, NoteSize)[j] = IF j = i THEN [ms[i] EXCEPT !.size = NoteSize]
                                              ELSE ms[j]
          /\ Fit!Between(Resized(ms, i, NoteSize), f, l)
                = Fit!Between(ms, f, l) - ms[i].size + NoteSize
      BY <1>5, <1>7, <2>1, ResizedPart
    <2> QED
      BY <2>2 DEF new
  <1>10. Same(ms, new)
    <2>1. \A j \in 1..Len(ms) : ms[j] \in Messages
      BY ElementOfSeq
    <2>2. \A j \in 1..Len(ms) : [ms[j] EXCEPT !.size = NoteSize].what = ms[j].what
      BY <2>1 DEF Messages
    <2> HIDE DEF new
    <2> QED
      BY <1>8, <2>2 DEF Same
  <1> HIDE DEF new
  <1>11. Fit!Tokens(new) = Fit!Tokens(ms) - ms[i].size + NoteSize
    BY <1>8, PartOfAll
  <1>12. Fit!First(new) = f /\ Fit!LastUser(new) = l
    BY <1>8, <1>10, LastUserSame DEF f, l
  <1>13. Fit!Tokens(new) \in Nat /\ Fit!Tokens(ms) \in Nat /\ Markers * Len(ms) \in Nat
    BY <1>1, <1>8, TokensAreNumbers, Product DEF FitConstants
  <1> DEFINE z == Markers * Len(ms)
             sz == ms[i].size
  <1>14. /\ Fit!Prompt(new) = Schemas + Fit!Tokens(new) + z
         /\ Fit!Prompt(ms) = Schemas + Fit!Tokens(ms) + z
    BY <1>8 DEF Fit!Prompt
  <1>15. z \in Nat /\ Schemas \in Nat /\ sz \in Nat /\ NoteSize \in Nat /\ NoteSize < sz
    BY <1>7, <1>13 DEF FitConstants
  <1>22. /\ Fit!Tokens(new) = Fit!Tokens(ms) - sz + NoteSize
         /\ Fit!Between(new, f, l) = Fit!Between(ms, f, l) - sz + NoteSize
    BY <1>9, <1>11
  <1> HIDE DEF z, sz
  <1>16. Fit!Prompt(new) = Fit!Prompt(ms) - sz + NoteSize
    BY <1>22, <1>13, <1>14, <1>15
  <1>17. Fit!Prompt(new) \in Nat /\ Fit!Prompt(ms) \in Nat
    BY <1>8, PromptIs
  <1>18. Fit!Between(ms, f, l) \in Nat
    <2>1. f \in 1..(Len(ms) + 1) /\ l \in f..(Len(ms) + 1)
      BY <1>1
    <2> QED
      BY <2>1, PartOf
  <1>19. Fit!Prompt(new) - Fit!Between(new, f, l) = Fit!Prompt(ms) - Fit!Between(ms, f, l)
    BY <1>15, <1>22, <1>16, <1>17, <1>18
  <1>20. Bare(new) = Bare(ms)
    BY <1>12, <1>19 DEF Bare, f, l
  <1>21. Fit!Prompt(new) < Fit!Prompt(ms)
    BY <1>15, <1>16, <1>17
  <1> QED
    BY <1>4, <1>5, <1>8, <1>10, <1>20, <1>21 DEF l, i, new

\* The invariant of the loops: types, a request in the conversation and a user's
\* message in what is shown. When earlier turns went for room that the answer
\* alone did not need, the room for thinking is there once all have gone.
HasRequest(ms) == \E i \in 1..Len(ms) : ms[i].what = "request"
RoomWillBe ==
    traded /\ ~settings.media /\ at = "fitting" =>
        settings.mode # "off" /\ Bare(shown) + Fit!ThinkingRoom <= Context
FitTypes ==
    /\ at \in {"waiting", "fitting", "generating", "exceeded"}
    /\ settings \in [mode : Fit!Modes, shifts : BOOLEAN, thinks : BOOLEAN, media : BOOLEAN]
    /\ settings.media => ~settings.thinks
    /\ owed \in Nat /\ traded \in BOOLEAN
    /\ chat \in Seq(Messages) /\ shown \in Seq(Messages)
    /\ Len(chat) <= MaxMessages /\ Len(shown) <= Len(chat)
    /\ at # "waiting" => HasRequest(chat) /\ HasUser(shown)
FitInv == FitTypes /\ RoomWillBe /\ Fit!TurnsBuyRoom

\* The conversation as it is rendered.
LEMMA RequestIs ==
    ASSUME NEW ms \in Seq(Messages), HasRequest(ms)
    PROVE  /\ Fit!Request(ms) \in 1..Len(ms) /\ ms[Fit!Request(ms)].what = "request"
           /\ \A i \in 1..Len(ms) : ms[i].what = "request" => i <= Fit!Request(ms)
  <1> DEFINE I == {i \in 1..Len(ms) : ms[i].what = "request"}
  <1>1. Fit!Request(ms) = IF I # {} THEN Fit!Max(I) ELSE 0
    BY DEF Fit!Request, Fit!SelectLastInSeq
  <1>2. I \subseteq 0..Len(ms) /\ I # {} /\ Len(ms) \in Nat
    BY DEF HasRequest
  <1>3. Fit!Max(I) \in I /\ \A y \in I : Fit!Max(I) >= y
    BY <1>2, GreatestOf
  <1> QED
    BY <1>1, <1>2, <1>3

LEMMA RenderedIs ==
    ASSUME NEW ms \in Seq(Messages), HasRequest(ms)
    PROVE  LET all == Fit!Rendered(ms)
               r == Fit!Request(ms) IN
           /\ all \in Seq(Messages) /\ Len(all) \in r..Len(ms)
           /\ Len(all) = IF settings.media THEN r ELSE Len(ms)
           /\ \A i \in 1..Len(all) : all[i].what = ms[i].what /\ all[i].nr = ms[i].nr
           /\ \A i \in 1..Len(all) : i # r => all[i] = ms[i]
  <1> DEFINE r == Fit!Request(ms)
             rest == Fit!Between(ms, r + 1, Len(ms) + 1)
             p == SubSeq(ms, 1, r - 1)
             m == [ms[r] EXCEPT !.size = @ + rest]
  <1>1. r \in 1..Len(ms) /\ ms[r].what = "request" /\ Len(ms) \in Nat
    BY RequestIs
  <1>2. CASE ~settings.media
    BY <1>1, <1>2 DEF Fit!Rendered
  <1>3. CASE settings.media
    <2>1. rest \in Nat
      <3>1. r + 1 \in 1..(Len(ms) + 1) /\ Len(ms) + 1 \in (r + 1)..(Len(ms) + 1)
        BY <1>1
      <3> QED
        BY <3>1, PartOf
    <2>2. p \in Seq(Messages) /\ Len(p) = r - 1 /\ \A i \in 1..(r - 1) : p[i] = ms[1 + i - 1]
      <3>1. 1 \in 1..(Len(ms) + 1) /\ r \in 1..(Len(ms) + 1)
        BY <1>1
      <3> QED
        BY <3>1, PartOf
    <2>3. ms[r] \in Messages
      BY <1>1, ElementOfSeq
    <2> HIDE DEF rest
    <2>4. m \in Messages /\ m.what = ms[r].what /\ m.nr = ms[r].nr
      <3>1. \A x \in Messages : /\ [x EXCEPT !.size = @ + rest] \in Messages
                               /\ [x EXCEPT !.size = @ + rest].what = x.what
                               /\ [x EXCEPT !.size = @ + rest].nr = x.nr
        BY <2>1 DEF Messages
      <3> QED
        BY <2>3, <3>1
    <2>5. Fit!Rendered(ms) = Append(p, m)
      BY <1>3 DEF Fit!Rendered, rest
    <2> HIDE DEF p, m, r
    <2>6. Append(p, m) \in Seq(Messages) /\ Len(Append(p, m)) = r
          /\ \A i \in 1..r : Append(p, m)[i] = IF i = r THEN m ELSE ms[i]
      <3>1. /\ Append(p, m) \in Seq(Messages) /\ Len(Append(p, m)) = Len(p) + 1
            /\ Append(p, m)[Len(p) + 1] = m
            /\ \A i \in 1..Len(p) : Append(p, m)[i] = p[i]
        BY <2>2, <2>4, AppendProperties
      <3>2. /\ Len(p) + 1 = r
            /\ \A i \in 1..r : i # r => i \in 1..Len(p) /\ i \in 1..(r - 1) /\ 1 + i - 1 = i
        BY <1>1, <2>2
      <3> QED
        BY <2>2, <3>1, <3>2
    <2>7. Len(Fit!Rendered(ms)) = r /\ r \in r..Len(ms)
      BY <1>1, <2>5, <2>6
    <2>8. \A i \in 1..r : Fit!Rendered(ms)[i] = IF i = r THEN m ELSE ms[i]
      BY <2>5, <2>6
    <2>9. Fit!Rendered(ms) \in Seq(Messages)
      BY <2>5, <2>6
    <2> QED
      BY <1>3, <2>4, <2>7, <2>8, <2>9 DEF r
  <1> QED
    BY <1>2, <1>3

LEMMA HasUserRendered ==
    ASSUME FitConstants, NEW ms \in Seq(Messages), HasRequest(ms)
    PROVE  HasUser(Fit!Rendered(ms))
  <1>1. /\ Fit!Request(ms) \in 1..Len(Fit!Rendered(ms))
        /\ Fit!Rendered(ms)[Fit!Request(ms)].what = "request"
    BY RequestIs, RenderedIs
  <1>2. Fit!Rendered(ms)[Fit!Request(ms)] \in Messages
    BY <1>1, RenderedIs, ElementOfSeq
  <1> QED
    BY <1>1, <1>2, Roles DEF HasUser

LEMMA BegunFits ==
    ASSUME FitConstants, FitTypes, NEW ms \in Seq(Messages), HasRequest(ms),
           Len(ms) <= MaxMessages, Fit!Begin(ms)
    PROVE  FitInv'
  <1>1. /\ chat' = ms /\ shown' = Fit!Rendered(ms) /\ at' = "fitting" /\ owed' = 0
        /\ traded' = FALSE /\ settings' = settings
    BY DEF Fit!Begin
  <1>2. /\ Fit!Rendered(ms) \in Seq(Messages) /\ Len(Fit!Rendered(ms)) <= Len(ms)
        /\ HasUser(Fit!Rendered(ms))
    <2>1. Fit!Rendered(ms) \in Seq(Messages) /\ Len(Fit!Rendered(ms)) \in Fit!Request(ms)..Len(ms)
      BY RenderedIs
    <2> QED
      BY <2>1, RequestIs, HasUserRendered
  <1>3. FitTypes'
    BY <1>1, <1>2 DEF FitTypes
  <1> QED
    BY <1>1, <1>3 DEF FitInv, RoomWillBe, Fit!TurnsBuyRoom

\* A message of the conversation.
LEMMA MessageIs ==
    ASSUME FitTypes, NEW what \in Sorts, NEW size \in Nat
    PROVE  Fit!Message(what, size) \in Messages /\ Fit!Message(what, size).what = what
           /\ Fit!Message(what, size).nr = Len(chat) + 1
  BY DEF FitTypes, Fit!Message, Messages

LEMMA AskedFits ==
    ASSUME FitConstants, FitInv, NEW size \in RequestSizes, Fit!Ask(size)
    PROVE  FitInv'
  <1> DEFINE m == Fit!Message("request", size)
             ms == Append(chat, m)
  <1>1. FitTypes /\ chat \in Seq(Messages) /\ Len(chat) < MaxMessages /\ MaxMessages \in Nat
    BY DEF FitInv, FitTypes, Fit!Ask, FitConstants
  <1>2. m \in Messages /\ m.what = "request"
    <2>1. "request" \in Sorts /\ size \in Nat
      BY DEF Sorts, FitConstants
    <2> QED
      BY <1>1, <2>1, MessageIs
  <1> HIDE DEF m
  <1>3. ms \in Seq(Messages) /\ Len(ms) = Len(chat) + 1 /\ ms[Len(chat) + 1] = m
    BY <1>1, <1>2, AppendProperties
  <1>4. HasRequest(ms) /\ Len(ms) <= MaxMessages
    BY <1>1, <1>2, <1>3 DEF HasRequest
  <1>5. Fit!Begin(ms)
    BY DEF Fit!Ask, m
  <1> QED
    BY <1>1, <1>3, <1>4, <1>5, BegunFits

\* The conversation with one more step.
StepAdded(size) ==
    chat \o <<Fit!Message("call", CallSize), [Fit!Message("result", size) EXCEPT !.nr = @ + 1]>>

LEMMA StepAddedIs ==
    ASSUME FitConstants, FitTypes, NEW size \in ResultSizes
    PROVE  /\ StepAdded(size) \in Seq(Messages) /\ Len(StepAdded(size)) = Len(chat) + 2
           /\ \A i \in 1..Len(chat) : StepAdded(size)[i] = chat[i]
           /\ StepAdded(size)[Len(chat) + 1].what = "call"
           /\ StepAdded(size)[Len(chat) + 2].what = "result"
           /\ StepAdded(size)[Len(chat) + 1].nr = Len(chat) + 1
           /\ StepAdded(size)[Len(chat) + 2].nr = Len(chat) + 2
  <1> DEFINE a == Fit!Message("call", CallSize)
             b == [Fit!Message("result", size) EXCEPT !.nr = @ + 1]
             t == <<a, b>>
  <1>1. chat \in Seq(Messages) /\ Len(chat) \in Nat
    BY DEF FitTypes
  <1>2. a \in Messages /\ a.what = "call" /\ a.nr = Len(chat) + 1
    <2>1. "call" \in Sorts /\ CallSize \in Nat
      BY DEF Sorts, FitConstants
    <2> QED
      BY <2>1, MessageIs
  <1>3. b \in Messages /\ b.what = "result" /\ b.nr = Len(chat) + 2
    <2>1. "result" \in Sorts /\ size \in Nat
      BY DEF Sorts, FitConstants
    <2>2. /\ Fit!Message("result", size) \in Messages
          /\ Fit!Message("result", size).what = "result"
          /\ Fit!Message("result", size).nr = Len(chat) + 1
      BY <2>1, MessageIs
    <2> QED
      BY <1>1, <2>2 DEF Messages
  <1> HIDE DEF a, b
  <1>4. t \in Seq(Messages) /\ Len(t) = 2 /\ t[1] = a /\ t[2] = b
    BY <1>2, <1>3
  <1>5. StepAdded(size) = chat \o t
    BY DEF StepAdded, a, b
  <1> HIDE DEF t
  <1>6. /\ chat \o t \in Seq(Messages) /\ Len(chat \o t) = Len(chat) + Len(t)
        /\ \A i \in 1..(Len(chat) + Len(t)) :
              (chat \o t)[i] = IF i <= Len(chat) THEN chat[i] ELSE t[i - Len(chat)]
    BY <1>1, <1>4, ConcatProperties
  <1>7. (chat \o t)[Len(chat) + 1] = a /\ (chat \o t)[Len(chat) + 2] = b
    <2>1. /\ Len(chat) + 1 \in 1..(Len(chat) + Len(t)) /\ ~(Len(chat) + 1 <= Len(chat))
          /\ Len(chat) + 2 \in 1..(Len(chat) + Len(t)) /\ ~(Len(chat) + 2 <= Len(chat))
          /\ (Len(chat) + 1) - Len(chat) = 1 /\ (Len(chat) + 2) - Len(chat) = 2
      BY <1>1, <1>4
    <2> QED
      BY <1>4, <1>6, <2>1
  <1>8. \A i \in 1..Len(chat) : (chat \o t)[i] = chat[i]
    BY <1>1, <1>4, <1>6
  <1> QED
    BY <1>2, <1>3, <1>4, <1>5, <1>6, <1>7, <1>8

LEMMA AddStepFits ==
    ASSUME FitConstants, FitInv, NEW size \in ResultSizes, Fit!AddStep(size)
    PROVE  FitInv'
  <1>1. FitTypes /\ Len(chat) \in Nat /\ Len(chat) + 1 < MaxMessages /\ MaxMessages \in Nat
        /\ HasRequest(chat)
    BY DEF FitInv, FitTypes, Fit!AddStep, FitConstants
  <1>2. /\ StepAdded(size) \in Seq(Messages) /\ Len(StepAdded(size)) = Len(chat) + 2
        /\ \A i \in 1..Len(chat) : StepAdded(size)[i] = chat[i]
    BY <1>1, StepAddedIs
  <1>3. HasRequest(StepAdded(size)) /\ Len(StepAdded(size)) <= MaxMessages
    BY <1>1, <1>2 DEF HasRequest
  <1>4. Fit!Begin(StepAdded(size))
    BY DEF Fit!AddStep, StepAdded
  <1> QED
    BY <1>1, <1>2, <1>3, <1>4, BegunFits

LEMMA AnswerFits ==
    ASSUME FitConstants, FitInv, Fit!Answer
    PROVE  FitInv'
  <1>1. FitTypes /\ chat \in Seq(Messages) /\ Len(chat) < MaxMessages /\ MaxMessages \in Nat
    BY DEF FitInv, FitTypes, Fit!Answer, FitConstants
  <1>2. Fit!Message("answer", AnswerSize) \in Messages
    <2>1. "answer" \in Sorts /\ AnswerSize \in Nat
      BY DEF Sorts, FitConstants
    <2> QED
      BY <1>1, <2>1, MessageIs
  <1>3. /\ chat' \in Seq(Messages) /\ Len(chat') = Len(chat) + 1 /\ shown' = chat'
        /\ at' = "waiting" /\ owed' = 0 /\ traded' = FALSE /\ settings' = settings
    BY <1>1, <1>2, AppendProperties DEF Fit!Answer
  <1>4. Len(chat') <= MaxMessages /\ Len(shown') <= Len(chat') /\ shown' \in Seq(Messages)
    <2>1. Len(chat) \in Nat /\ Len(chat) + 1 <= MaxMessages
      BY <1>1
    <2> QED
      BY <1>3, <2>1
  <1>5. FitTypes'
    BY <1>1, <1>3, <1>4 DEF FitTypes
  <1> QED
    BY <1>3, <1>5 DEF FitInv, RoomWillBe, Fit!TurnsBuyRoom

LEMMA ToFreeIs ==
    ASSUME FitConstants, FitTypes, settings.mode # "off", NEW overflow \in Int,
           NEW shifts \in BOOLEAN
    PROVE  Fit!ToFree(overflow, shifts) \in Int /\ Fit!ToFree(overflow, shifts) >= overflow
  <1> DEFINE share == IF settings.mode = "auto"
                      THEN IF shifts THEN 0 ELSE Context \div 4
                      ELSE (Context * Fit!Shares[settings.mode]) \div 100
  <1>1. share \in Int
    <2>1. CASE settings.mode = "auto"
      BY <2>1 DEF FitConstants
    <2>2. CASE settings.mode # "auto"
      <3>1. settings.mode \in {"minimal", "standard", "aggressive", "extreme"}
        BY <2>2 DEF FitTypes, Fit!Modes, Fit!Shares
      <3>2. Fit!Shares[settings.mode] \in Nat
        BY <3>1 DEF Fit!Shares
      <3>3. Context * Fit!Shares[settings.mode] \in Nat
        BY <3>2, Product DEF FitConstants
      <3> QED
        BY <2>2, <3>3
    <2> QED
      BY <2>1, <2>2
  <1>2. Fit!ToFree(overflow, shifts) = IF share > overflow THEN share ELSE overflow
    BY DEF Fit!ToFree
  <1> HIDE DEF share
  <1> QED
    BY <1>1, <1>2

LEMMA OverflowIs ==
    ASSUME FitConstants, NEW ms \in Seq(Messages)
    PROVE  /\ Fit!RoomToKeep(ms) \in Nat
           /\ Fit!Overflow(ms) = IF Fit!Prompt(ms) + Fit!RoomToKeep(ms) > Context
                             THEN Fit!Prompt(ms) + Fit!RoomToKeep(ms) - Context ELSE 0
  <1>1. Fit!Prompt(ms) \in Nat /\ Context \in Nat
    BY PromptIs DEF FitConstants
  <1>2. Fit!RoomToKeep(ms) \in Nat
    BY RoomsAreNumbers DEF Fit!RoomToKeep
  <1> QED
    BY <1>1, <1>2 DEF Fit!Overflow

\* A round of the loop.
LEMMA LeaveFits ==
    ASSUME FitConstants, FitInv, at = "fitting", NEW new \in Seq(Messages), Fit!Leave(new),
           Len(new) <= Len(shown), HasUser(new), owed' \in Nat,
           ~settings.media => Fit!MustShrink /\ Bare(new) <= Bare(shown)
    PROVE  FitInv'
  <1>1. /\ FitTypes /\ shown' = new /\ at' = "fitting" /\ chat' = chat /\ settings' = settings
        /\ traded' = (traded \/ /\ Fit!Prompt(shown) + Fit!AnswerRoom <= Context
                                /\ Len(new) < Len(shown))
    BY DEF FitInv, Fit!Leave
  <1>2. FitTypes'
    <2>1. traded' \in BOOLEAN
      BY <1>1 DEF FitTypes
    <2>2. Len(new) <= Len(chat) /\ HasRequest(chat)
      BY <1>1 DEF FitTypes
    <2> QED
      BY <1>1, <2>1, <2>2 DEF FitTypes
  <1>3. RoomWillBe'
    <2> SUFFICES ASSUME traded', ~settings.media
                 PROVE  settings.mode # "off" /\ Bare(new) + Fit!ThinkingRoom <= Context
      BY <1>1 DEF RoomWillBe, Fit!ThinkingRoom, Bare
    <2>1. Fit!MustShrink /\ Bare(new) <= Bare(shown)
      OBVIOUS
    <2>2. settings.mode # "off"
      BY <2>1 DEF Fit!MustShrink
    <2>3. /\ Fit!Prompt(shown) \in Nat /\ Fit!Prompt(new) \in Nat
          /\ Fit!AnswerRoom \in Nat /\ Fit!ThinkingRoom \in Nat /\ Context \in Nat
      BY <1>1, RoomsAreNumbers, PromptIs DEF FitTypes, FitConstants
    <2>4. Bare(shown) \in Int /\ Bare(new) \in Int
      <3>1. ASSUME NEW ms \in Seq(Messages), HasUser(ms) PROVE Bare(ms) \in Int
        <4>1. /\ Fit!First(ms) \in 1..(Len(ms) + 1)
              /\ Fit!LastUser(ms) \in Fit!First(ms)..(Len(ms) + 1)
          BY <3>1, FirstIs, LastUserIs
        <4>2. Fit!Between(ms, Fit!First(ms), Fit!LastUser(ms)) \in Nat /\ Fit!Prompt(ms) \in Nat
          BY <4>1, PartOf, PromptIs
        <4> QED
          BY <4>2 DEF Bare
      <3> QED
        BY <1>1, <3>1 DEF FitTypes
    <2>5. Bare(shown) + Fit!ThinkingRoom <= Context
      <3>1. CASE traded
        BY <3>1 DEF FitInv, RoomWillBe
      <3>2. CASE ~traded
        <4>1. Fit!Prompt(shown) + Fit!AnswerRoom <= Context
          BY <1>1, <3>2
        <4>2. Fit!Overflow(shown) > 0
          BY <2>1 DEF Fit!MustShrink
        <4>3. Fit!RoomToKeep(shown)
                 = IF Bare(shown) + Fit!ThinkingRoom <= Context THEN Fit!ThinkingRoom
                   ELSE Fit!AnswerRoom
          BY DEF Fit!RoomToKeep, Bare
        <4>4. Fit!Overflow(shown) = IF Fit!Prompt(shown) + Fit!RoomToKeep(shown) > Context
                                THEN Fit!Prompt(shown) + Fit!RoomToKeep(shown) - Context ELSE 0
          BY <1>1, OverflowIs DEF FitTypes
        <4> QED
          BY <2>3, <4>1, <4>2, <4>3, <4>4
      <3> QED
        BY <3>1, <3>2
    <2> QED
      BY <2>1, <2>2, <2>3, <2>4, <2>5
  <1>4. Fit!TurnsBuyRoom'
    BY <1>1 DEF Fit!TurnsBuyRoom
  <1> QED
    BY <1>2, <1>3, <1>4 DEF FitInv

\* Each of the four rounds takes something and makes the prompt smaller.
LEMMA LeaveResultOutFits ==
    ASSUME FitConstants, FitInv, Fit!LeaveResultOut
    PROVE  FitInv' /\ Fit!Prompt(shown') < Fit!Prompt(shown)
  <1> DEFINE i == Fit!Min(Fit!EarlierResults(shown))
             new == Resized(shown, i, NoteSize)
  <1>1. /\ Fit!MustShrink /\ Fit!EarlierResults(shown) # {} /\ owed' = owed /\ at = "fitting"
        /\ ~settings.media
    BY DEF Fit!LeaveResultOut, Fit!MustShrink
  <1>2. shown \in Seq(Messages) /\ HasUser(shown) /\ owed \in Nat
    BY <1>1 DEF FitInv, FitTypes
  <1>3. Fit!Leave(new) /\ shown' = new
    BY DEF Fit!LeaveResultOut, Fit!Leave, Resized
  <1>4. /\ new \in Seq(Messages) /\ Same(shown, new) /\ Fit!Prompt(new) < Fit!Prompt(shown)
        /\ Bare(new) = Bare(shown)
    BY <1>1, <1>2, ResultGoes
  <1>5. HasUser(new) /\ Len(new) = Len(shown) /\ Len(shown) \in Nat
    BY <1>2, <1>4, LastUserSame DEF Same
  <1>6. Fit!Prompt(new) \in Nat /\ Fit!Prompt(shown) \in Nat
    BY <1>2, <1>4, PromptIs
  <1> HIDE DEF new
  <1>7. Bare(new) <= Bare(shown)
    <2>1. /\ Fit!First(shown) \in 1..(Len(shown) + 1)
          /\ Fit!LastUser(shown) \in Fit!First(shown)..(Len(shown) + 1)
      BY <1>2, FirstIs, LastUserIs
    <2>2. Bare(shown) \in Int
      BY <1>2, <1>6, <2>1, PartOf DEF Bare
    <2> QED
      BY <1>4, <2>2
  <1> QED
    BY <1>1, <1>2, <1>3, <1>4, <1>5, <1>7, LeaveFits

LEMMA SpreadTurnsEnd ==
    ASSUME FitConstants, NEW ms \in Seq(Messages), HasUser(ms), NEW target
    PROVE  LET e == Fit!TurnsEnd(Fit!Spread(ms), target) IN
           /\ Fit!Role(ms[e]) = "user"
           /\ e \in Fit!First(ms)..Fit!LastUser(ms)
           /\ e = Fit!LastUser(ms) \/ Fit!Between(Fit!Spread(ms), Fit!First(ms), e) >= target
  <1>1. ms # <<>>
    BY EmptySeq DEF HasUser
  <1>2. Fit!Spread(ms) \in Seq(Messages) /\ Same(ms, Fit!Spread(ms))
    BY <1>1, SpreadIs
  <1>3. /\ Fit!LastUser(Fit!Spread(ms)) = Fit!LastUser(ms)
        /\ Fit!First(Fit!Spread(ms)) = Fit!First(ms) /\ HasUser(Fit!Spread(ms))
    BY <1>2, LastUserSame
  <1> DEFINE e == Fit!TurnsEnd(Fit!Spread(ms), target)
  <1>4. /\ e \in Fit!First(ms)..Fit!LastUser(ms)
        /\ \/ e = Fit!LastUser(ms)
           \/ /\ Fit!Role(Fit!Spread(ms)[e]) = "user"
              /\ Fit!Between(Fit!Spread(ms), Fit!First(ms), e) >= target
    BY <1>2, <1>3, TurnsEndIs
  <1>5. e \in 1..Len(ms) /\ Fit!Role(ms[Fit!LastUser(ms)]) = "user"
    BY <1>4, FirstIs, LastUserIs
  <1>6. Fit!Role(Fit!Spread(ms)[e]) = Fit!Role(ms[e])
    BY <1>2, <1>5 DEF Same, Fit!Role
  <1> QED
    BY <1>4, <1>5, <1>6

LEMMA DropTurnsFits ==
    ASSUME FitConstants, FitInv, Fit!DropTurns
    PROVE  FitInv' /\ Fit!Prompt(shown') < Fit!Prompt(shown)
  <1> DEFINE e == Fit!OldTurnsEnd
             new == Fit!Without(shown, Fit!First(shown), e)
  <1>1. /\ Fit!MustShrink /\ e > Fit!First(shown) /\ owed' = owed /\ at = "fitting"
        /\ ~settings.media
        /\ Fit!Leave(new) /\ shown' = new
    BY DEF Fit!DropTurns, Fit!MustShrink, Fit!Leave
  <1>2. shown \in Seq(Messages) /\ HasUser(shown) /\ owed \in Nat
    BY <1>1 DEF FitInv, FitTypes
  <1>3. e \in Fit!First(shown)..Fit!LastUser(shown) /\ Fit!Role(shown[e]) = "user"
    <2>1. e = Fit!TurnsEnd(Fit!Spread(shown), Fit!ToFree(Fit!Overflow(shown), settings.shifts))
      BY DEF Fit!OldTurnsEnd
    <2>2. Fit!First(shown) \in Nat
      BY <1>2, FirstIs
    <2> QED
      BY <1>1, <1>2, <2>1, <2>2, SpreadTurnsEnd
  <1> HIDE DEF e
  <1>4. /\ new \in Seq(Messages) /\ Len(new) = Len(shown) - (e - Fit!First(shown)) /\ HasUser(new)
        /\ Fit!Prompt(new) < Fit!Prompt(shown) /\ Bare(new) <= Bare(shown)
    BY <1>1, <1>2, <1>3, TurnsGo
  <1>5. Len(new) <= Len(shown)
    <2>1. Fit!First(shown) \in Nat /\ e \in Nat /\ Len(shown) \in Nat /\ e > Fit!First(shown)
      BY <1>1, <1>2, <1>3, FirstIs, LastUserIs
    <2> QED
      BY <1>4, <2>1
  <1> HIDE DEF new
  <1> QED
    BY <1>1, <1>2, <1>4, <1>5, LeaveFits

LEMMA DropStepsFits ==
    ASSUME FitConstants, FitInv, Fit!DropSteps
    PROVE  FitInv' /\ Fit!Prompt(shown') < Fit!Prompt(shown)
  <1> DEFINE l == Fit!LastUser(shown)
             e == Fit!StepsEnd(shown)
             new == Fit!Without(shown, l + 1, e)
  <1>1. /\ Fit!MustShrink /\ e > l + 1 /\ owed' = owed /\ at = "fitting" /\ ~settings.media
        /\ Fit!Leave(new) /\ shown' = new
    BY DEF Fit!DropSteps, Fit!StepsCanGo, Fit!MustShrink, Fit!Leave
  <1>2. shown \in Seq(Messages) /\ HasUser(shown) /\ owed \in Nat
    BY <1>1 DEF FitInv, FitTypes
  <1>6. l \in Nat /\ l \in 1..Len(shown) /\ Len(shown) \in Nat
    BY <1>2, LastUserIs
  <1>3. e \in (l + 1)..Len(shown)
    <2>1. Fit!Steps(shown) # {}
      BY <1>1, <1>6 DEF Fit!StepsEnd
    <2> QED
      BY <1>2, <2>1, StepsEndIs
  <1> HIDE DEF e
  <1>4. /\ new \in Seq(Messages) /\ Len(new) = Len(shown) - (e - (l + 1)) /\ HasUser(new)
        /\ Fit!Prompt(new) < Fit!Prompt(shown) /\ Bare(new) <= Bare(shown)
    BY <1>1, <1>2, <1>3, StepsGo
  <1>5. Len(new) <= Len(shown)
    BY <1>3, <1>4, <1>6
  <1> HIDE DEF new
  <1> QED
    BY <1>1, <1>2, <1>4, <1>5, LeaveFits

LEMMA MediaTurnEndIs ==
    ASSUME FitConstants, shown \in Seq(Messages), HasUser(shown)
    PROVE  /\ Fit!MediaTurnEnd \in Fit!First(shown)..Fit!LastUser(shown)
           /\ Fit!Role(shown[Fit!MediaTurnEnd]) = "user"
           /\ Fit!MediaTurnEnd = Fit!First(shown) => Fit!First(shown) = Fit!LastUser(shown)
  <1> DEFINE ones == [i \in DOMAIN shown |-> [shown[i] EXCEPT !.size = 1]]
             e == Fit!TurnsEnd(ones, 1)
  <1>1. \A i \in 1..Len(shown) : /\ [shown[i] EXCEPT !.size = 1] \in Messages
                                 /\ [shown[i] EXCEPT !.size = 1].what = shown[i].what
    <2>1. \A x \in Messages : /\ [x EXCEPT !.size = 1] \in Messages
                              /\ [x EXCEPT !.size = 1].what = x.what
      BY DEF Messages
    <2> QED
      BY <2>1, ElementOfSeq
  <1>2. DOMAIN shown = 1..Len(shown) /\ Len(shown) \in Nat
    OBVIOUS
  <1>3. ones \in Seq(Messages) /\ Len(ones) = Len(shown)
    BY <1>1, <1>2
  <1>4. Same(shown, ones)
    BY <1>1, <1>2, <1>3 DEF Same
  <1> HIDE DEF ones
  <1>5. /\ Fit!LastUser(ones) = Fit!LastUser(shown) /\ Fit!First(ones) = Fit!First(shown)
        /\ HasUser(ones)
    BY <1>3, <1>4, LastUserSame
  <1>6. /\ e \in Fit!First(shown)..Fit!LastUser(shown)
        /\ (e = Fit!LastUser(shown) \/ Fit!Role(ones[e]) = "user")
    BY <1>3, <1>5, TurnsEndIs
  <1>7. e \in 1..Len(shown) /\ Fit!Role(shown[Fit!LastUser(shown)]) = "user"
    BY <1>6, FirstIs, LastUserIs
  <1>8. Fit!Role(ones[e]) = Fit!Role(shown[e])
    BY <1>4, <1>7 DEF Same, Fit!Role
  <1>9. Fit!MediaTurnEnd = e
    BY DEF Fit!MediaTurnEnd, ones
  <1>10. e = Fit!First(shown) => Fit!First(shown) = Fit!LastUser(shown)
    <2>1. Fit!Between(ones, Fit!First(shown), Fit!First(shown)) = 0
      BY FirstIs, PartOfNone
    <2>2. e = Fit!LastUser(shown) \/ Fit!Between(ones, Fit!First(shown), e) >= 1
      BY <1>3, <1>5, TurnsEndIs
    <2> QED
      BY <2>1, <2>2
  <1> QED
    BY <1>6, <1>7, <1>8, <1>9, <1>10

LEMMA DropMediaTurnFits ==
    ASSUME FitConstants, FitInv, Fit!DropMediaTurn
    PROVE  FitInv' /\ Fit!Prompt(shown') < Fit!Prompt(shown)
  <1> DEFINE e == Fit!MediaTurnEnd
             new == Fit!Without(shown, Fit!First(shown), e)
  <1>1. /\ e > Fit!First(shown) /\ at = "fitting" /\ settings.media /\ settings.mode # "off"
        /\ Fit!Leave(new) /\ shown' = new
    BY DEF Fit!DropMediaTurn, Fit!MediaTurnCanGo, Fit!Leave
  <1>2. /\ FitTypes /\ shown \in Seq(Messages) /\ HasUser(shown) /\ owed \in Nat
        /\ settings.shifts \in BOOLEAN
    BY <1>1 DEF FitInv, FitTypes
  <1>3. e \in Fit!First(shown)..Fit!LastUser(shown) /\ Fit!Role(shown[e]) = "user"
    BY <1>1, <1>2, MediaTurnEndIs
  <1> HIDE DEF e
  <1>4. /\ new \in Seq(Messages) /\ Len(new) = Len(shown) - (e - Fit!First(shown)) /\ HasUser(new)
        /\ Fit!Prompt(new) < Fit!Prompt(shown)
    BY <1>1, <1>2, <1>3, TurnsGo
  <1>5. Len(new) <= Len(shown)
    <2>1. Fit!First(shown) \in Nat /\ e \in Nat /\ Len(shown) \in Nat /\ e > Fit!First(shown)
      BY <1>1, <1>2, <1>3, FirstIs, LastUserIs
    <2> QED
      BY <1>4, <2>1
  <1> HIDE DEF new
  <1>6. owed' \in Nat
    <2> DEFINE over == Fit!Prompt(shown) + Fit!AnswerRoom - Context
               goal == IF owed > 0 THEN owed ELSE Fit!ToFree(over, settings.shifts)
               freed == Fit!Prompt(shown) - Fit!Prompt(shown')
    <2>1. /\ Fit!Prompt(shown) \in Nat /\ Fit!Prompt(shown') \in Nat
          /\ Fit!AnswerRoom \in Nat /\ Context \in Nat
      BY <1>1, <1>2, <1>4, PromptIs, RoomsAreNumbers DEF FitConstants
    <2>2. over \in Int /\ freed \in Int
      BY <2>1
    <2> HIDE DEF over
    <2>3. goal \in Int
      BY <1>1, <1>2, <2>2, ToFreeIs
    <2>4. owed' = IF goal > freed THEN goal - freed ELSE 0
      BY DEF Fit!DropMediaTurn, over
    <2> HIDE DEF goal, freed
    <2> QED
      BY <2>2, <2>3, <2>4
  <1> QED
    BY <1>1, <1>2, <1>4, <1>5, <1>6, LeaveFits

LEMMA EndFitFits ==
    ASSUME FitConstants, FitInv, Fit!EndFit
    PROVE  FitInv'
  <1>1. /\ at' \in {"generating", "exceeded"} /\ chat' = chat /\ shown' = shown
        /\ settings' = settings /\ owed' = owed /\ traded' = traded
        /\ at = "fitting" /\ ~settings.media
    BY DEF Fit!EndFit, Fit!Dispatch
  <1>2. shown \in Seq(Messages) /\ HasUser(shown) /\ FitTypes
    BY <1>1 DEF FitInv, FitTypes
  <1>3. FitTypes'
    BY <1>1, <1>2 DEF FitTypes
  <1>4. RoomWillBe'
    BY <1>1 DEF RoomWillBe
  <1>5. ASSUME traded PROVE Fit!Prompt(shown) + Fit!ThinkingRoom <= Context
    <2>1. settings.mode # "off" /\ Bare(shown) + Fit!ThinkingRoom <= Context
      BY <1>1, <1>5 DEF FitInv, RoomWillBe
    <2> SUFFICES ASSUME ~(Fit!Prompt(shown) + Fit!ThinkingRoom <= Context) PROVE FALSE
      OBVIOUS
    <2>2. /\ Fit!Prompt(shown) \in Nat /\ Fit!ThinkingRoom \in Nat /\ Context \in Nat
          /\ Fit!AnswerRoom \in Nat
      BY <1>2, PromptIs, RoomsAreNumbers DEF FitConstants
    <2>3. Fit!RoomToKeep(shown) = Fit!ThinkingRoom
      BY <2>1 DEF Fit!RoomToKeep, Bare
    <2>4. Fit!Overflow(shown) > 0 /\ Fit!Overflow(shown) \in Int
      BY <1>2, <2>2, <2>3, OverflowIs
    <2>5. Fit!MustShrink
      BY <1>1, <2>1, <2>2, <2>4 DEF Fit!MustShrink
    <2>6. Fit!OldTurnsEnd = Fit!First(shown)
      BY <1>1, <2>5 DEF Fit!EndFit, Fit!OnlyRequestLeft
    <2> DEFINE target == Fit!ToFree(Fit!Overflow(shown), settings.shifts)
    <2>7. target \in Int /\ target > 0
      <3>1. settings.shifts \in BOOLEAN
        BY <1>2 DEF FitTypes
      <3> QED
        BY <1>2, <2>1, <2>4, <3>1, ToFreeIs
    <2> HIDE DEF target
    <2>8. \/ Fit!First(shown) = Fit!LastUser(shown)
          \/ Fit!Between(Fit!Spread(shown), Fit!First(shown), Fit!First(shown)) >= target
      <3>1. Fit!OldTurnsEnd = Fit!TurnsEnd(Fit!Spread(shown), target)
        BY DEF Fit!OldTurnsEnd, target
      <3> QED
        BY <1>2, <2>6, <3>1, SpreadTurnsEnd
    <2>9. Fit!First(shown) = Fit!LastUser(shown) /\ Fit!First(shown) \in Int
      BY <1>2, <2>7, <2>8, FirstIs, PartOfNone
    <2>10. Fit!Between(shown, Fit!First(shown), Fit!LastUser(shown)) = 0
      BY <2>9, PartOfNone
    <2> QED
      BY <2>1, <2>2, <2>10 DEF Bare
  <1>6. Fit!TurnsBuyRoom'
    BY <1>1, <1>5 DEF Fit!TurnsBuyRoom, Fit!ThinkingRoom
  <1> QED
    BY <1>3, <1>4, <1>6 DEF FitInv

LEMMA EndMediaFitFits ==
    ASSUME FitConstants, FitInv, Fit!EndMediaFit
    PROVE  FitInv'
  <1>1. /\ at' = (IF Fit!MediaFits THEN "generating" ELSE "exceeded") /\ chat' = chat
        /\ shown' = shown /\ settings' = settings /\ owed' = owed /\ traded' = traded
        /\ at = "fitting" /\ settings.media
    BY DEF Fit!EndMediaFit, Fit!Dispatch
  <1>2. FitTypes /\ ~settings.thinks
    BY <1>1 DEF FitInv, FitTypes
  <1>3. FitTypes'
    BY <1>1, <1>2 DEF FitTypes
  <1>4. RoomWillBe'
    BY <1>1 DEF RoomWillBe
  <1>5. Fit!MediaFits => Fit!Prompt(shown) + Fit!ThinkingRoom <= Context
    BY <1>2 DEF Fit!MediaFits, Fit!ThinkingRoom
  <1>6. Fit!TurnsBuyRoom'
    BY <1>1, <1>5 DEF Fit!TurnsBuyRoom, Fit!ThinkingRoom
  <1> QED
    BY <1>3, <1>4, <1>6 DEF FitInv

LEMMA FitBegins ==
    ASSUME FitConstants, Fit!Init
    PROVE  FitInv
  <1> DEFINE m == [what |-> "system", size |-> SystemSize, nr |-> 1]
  <1>1. m \in Messages
    BY DEF FitConstants, Messages, Sorts
  <1>2. <<m>> \in Seq(Messages) /\ Len(<<m>>) = 1 /\ <<>> \in Seq(Messages) /\ Len(<<>>) = 0
    BY <1>1
  <1> HIDE DEF m
  <1>3. chat \in Seq(Messages) /\ Len(chat) \in 0..1
    <2>1. chat \in {<<>>, <<m>>}
      BY DEF Fit!Init, m
    <2>2. CASE chat = <<>>
      BY <1>2, <2>2
    <2>3. CASE chat = <<m>>
      BY <1>2, <2>3
    <2> QED
      BY <2>1, <2>2, <2>3
  <1>5. /\ at = "waiting" /\ shown = chat /\ owed = 0 /\ traded = FALSE
        /\ settings \in [mode : Fit!Modes, shifts : BOOLEAN, thinks : BOOLEAN, media : BOOLEAN]
        /\ settings.media => ~settings.thinks
    BY DEF Fit!Init
  <1>6. Len(chat) <= MaxMessages /\ Len(shown) <= Len(chat)
    <2>1. \A k \in 0..1 : k <= MaxMessages /\ k <= k
      BY DEF FitConstants
    <2>2. Len(shown) = Len(chat)
      BY <1>5
    <2> QED
      BY <1>3, <2>1, <2>2
  <1>4. FitTypes
    BY <1>3, <1>5, <1>6 DEF FitTypes
  <1> QED
    BY <1>4 DEF Fit!Init, FitInv, RoomWillBe, Fit!TurnsBuyRoom

LEMMA FitStays ==
    ASSUME FitConstants, FitInv, [Fit!Next]_(Fit!vars)
    PROVE  FitInv' /\ (at = "fitting" /\ shown' # shown => Fit!Prompt(shown') < Fit!Prompt(shown))
  <1>1. ASSUME NEW size \in RequestSizes, Fit!Ask(size) PROVE FitInv' /\ at # "fitting"
    BY <1>1, AskedFits DEF Fit!Ask
  <1>2. ASSUME NEW size \in ResultSizes, Fit!AddStep(size) PROVE FitInv' /\ at # "fitting"
    BY <1>2, AddStepFits DEF Fit!AddStep
  <1>3. CASE Fit!Answer
    BY <1>3, AnswerFits DEF Fit!Answer
  <1>4. CASE Fit!EndFit
    BY <1>4, EndFitFits DEF Fit!EndFit, Fit!Dispatch
  <1>5. CASE Fit!EndMediaFit
    BY <1>5, EndMediaFitFits DEF Fit!EndMediaFit, Fit!Dispatch
  <1>6. CASE UNCHANGED Fit!vars
    BY <1>6 DEF Fit!vars, FitInv, FitTypes, RoomWillBe, Fit!TurnsBuyRoom, Fit!ThinkingRoom
  <1> QED
    BY <1>1, <1>2, <1>3, <1>4, <1>5, <1>6, LeaveResultOutFits, DropTurnsFits,
       DropStepsFits, DropMediaTurnFits DEF Fit!Next


\* What may come after what.
NextTo(a, b) ==
    \/ a.what = "system" /\ b.what = "request"
    \/ a.what \in {"request", "result"} /\ b.what \in {"call", "answer"}
    \/ a.what = "call" /\ b.what = "result" /\ b.nr = a.nr + 1
    \/ a.what = "answer" /\ b.what = "request"
Orderly(ms) ==
    /\ Len(ms) > 0 => ms[1].what \in {"system", "request"}
    /\ \A i \in 2..Len(ms) : NextTo(ms[i - 1], ms[i])

\* What is shown begins with the system message, goes on in order, and from the
\* request on is a part of the conversation up to its end.
Stays(ms, all, r) ==
    LET l == Fit!LastUser(ms) IN
    /\ Orderly(ms)
    /\ ms[l].what = "request" /\ ms[l].nr = r
    /\ \A i \in (l + 1)..Len(ms) : ms[i].what \in {"call", "result"}
    /\ \A i \in l..Len(ms) : ms[i].nr \in r..Len(all) /\ ms[i] = all[ms[i].nr]
    /\ ms[Len(ms)].nr = Len(all)
    /\ all[1].what = "system" => ms[1] = all[1]
    /\ ms[1].what = "system" => all[1].what = "system"

\* The conversation: what was said, in order, and a request at work.
Numbered(ms) == \A i \in 1..Len(ms) : ms[i].nr = i
AtWork(ms) ==
    /\ HasRequest(ms) /\ ms[Len(ms)].what \in {"request", "result"}
    /\ \A i \in (Fit!Request(ms) + 1)..Len(ms) : ms[i].what \in {"call", "result"}
ChatFits ==
    /\ Numbered(chat) /\ Orderly(chat)
    /\ at = "waiting" /\ Len(chat) > 0 => chat[Len(chat)].what \in {"system", "answer"}
    /\ at # "waiting" => AtWork(chat)
ShownFits == at # "waiting" => Stays(shown, Fit!Rendered(chat), Fit!Request(chat))
WorkInv == FitInv /\ ChatFits /\ ShownFits

LEMMA RequestAt ==
    ASSUME NEW ms \in Seq(Messages), NEW k \in 1..Len(ms), ms[k].what = "request",
           \A i \in (k + 1)..Len(ms) : ms[i].what # "request"
    PROVE  Fit!Request(ms) = k /\ HasRequest(ms)
  <1>1. HasRequest(ms)
    BY DEF HasRequest
  <1>2. /\ Fit!Request(ms) \in 1..Len(ms) /\ ms[Fit!Request(ms)].what = "request"
        /\ k <= Fit!Request(ms)
    BY <1>1, RequestIs
  <1>3. Fit!Request(ms) \notin (k + 1)..Len(ms)
    BY <1>2
  <1> QED
    BY <1>1, <1>2, <1>3

LEMMA RenderedStays ==
    ASSUME FitConstants, ToolRole, NEW ms \in Seq(Messages), Numbered(ms), Orderly(ms), AtWork(ms)
    PROVE  Stays(Fit!Rendered(ms), Fit!Rendered(ms), Fit!Request(ms))
  <1> DEFINE all == Fit!Rendered(ms)
             r == Fit!Request(ms)
  <1>1. HasRequest(ms)
    BY DEF AtWork
  <1>2. r \in 1..Len(ms) /\ ms[r].what = "request" /\ Len(ms) \in Nat
    BY <1>1, RequestIs
  <1>3. /\ all \in Seq(Messages) /\ Len(all) \in r..Len(ms)
        /\ \A i \in 1..Len(all) : all[i].what = ms[i].what /\ all[i].nr = ms[i].nr
    BY <1>1, RenderedIs
  <1> HIDE DEF all, r
  <1>4. \A i \in 1..Len(all) : all[i].nr = i /\ all[i] \in Messages
    BY <1>2, <1>3, ElementOfSeq DEF Numbered
  <1>5. \A i \in (r + 1)..Len(all) : all[i].what \in {"call", "result"}
    BY <1>2, <1>3 DEF AtWork, r
  <1>6. r \in 1..Len(all) /\ all[r].what = "request"
    BY <1>2, <1>3
  <1>7. Fit!LastUser(all) = r
    <2>1. Fit!Role(all[r]) = "user"
      BY <1>4, <1>6, Roles
    <2>2. ASSUME NEW i \in (r + 1)..Len(all) PROVE Fit!Role(all[i]) # "user"
      <3>1. all[i] \in Messages /\ all[i].what \in {"call", "result"}
        BY <1>2, <1>4, <1>5
      <3> QED
        BY <3>1, Roles
    <2> QED
      BY <1>3, <1>6, <2>1, <2>2, LastUserAt
  <1>8. Orderly(all)
    <2>1. all[1].what \in {"system", "request"}
      <3>1. 1 \in 1..Len(all) /\ Len(ms) > 0
        BY <1>2, <1>3
      <3> QED
        BY <1>3, <3>1 DEF Orderly
    <2>2. ASSUME NEW i \in 2..Len(all) PROVE NextTo(all[i - 1], all[i])
      <3>1. i \in 1..Len(all) /\ i - 1 \in 1..Len(all) /\ i \in 2..Len(ms)
        BY <1>2, <1>3
      <3>2. NextTo(ms[i - 1], ms[i])
        BY <3>1 DEF Orderly
      <3> QED
        BY <1>3, <3>1, <3>2 DEF NextTo
    <2> QED
      BY <2>1, <2>2 DEF Orderly
  <1>9. \A i \in r..Len(all) : all[i].nr \in r..Len(all) /\ all[i] = all[all[i].nr]
    BY <1>2, <1>4
  <1>10. all[r].nr = r /\ all[Len(all)].nr = Len(all)
    BY <1>2, <1>3, <1>4
  <1> QED
    BY <1>5, <1>6, <1>7, <1>8, <1>9, <1>10 DEF Stays, all, r

LEMMA BeginWorks ==
    ASSUME FitConstants, ToolRole, FitTypes, NEW ms \in Seq(Messages), Len(ms) <= MaxMessages,
           Numbered(ms), Orderly(ms), AtWork(ms), Fit!Begin(ms)
    PROVE  WorkInv'
  <1>1. /\ chat' = ms /\ shown' = Fit!Rendered(ms) /\ at' = "fitting" /\ settings' = settings
    BY DEF Fit!Begin
  <1>2. FitInv'
    BY BegunFits DEF AtWork
  <1>3. Stays(Fit!Rendered(ms), Fit!Rendered(ms), Fit!Request(ms))
    BY RenderedStays
  <1>4. Fit!Rendered(chat)' = Fit!Rendered(ms)
    BY <1>1 DEF Fit!Rendered
  <1>5. ChatFits'
    BY <1>1 DEF ChatFits
  <1>6. ShownFits'
    BY <1>1, <1>3, <1>4 DEF ShownFits
  <1> QED
    BY <1>2, <1>5, <1>6 DEF WorkInv

LEMMA AskWorks ==
    ASSUME FitConstants, ToolRole, WorkInv, NEW size \in RequestSizes, Fit!Ask(size)
    PROVE  WorkInv'
  <1> DEFINE m == Fit!Message("request", size)
             ms == Append(chat, m)
             n == Len(chat)
  <1>1. /\ FitTypes /\ chat \in Seq(Messages) /\ n < MaxMessages /\ MaxMessages \in Nat
        /\ at = "waiting" /\ ChatFits /\ n \in Nat
    BY DEF WorkInv, FitInv, FitTypes, Fit!Ask, FitConstants
  <1>2. m \in Messages /\ m.what = "request" /\ m.nr = n + 1
    <2>1. "request" \in Sorts /\ size \in Nat
      BY DEF Sorts, FitConstants
    <2> QED
      BY <1>1, <2>1, MessageIs
  <1> HIDE DEF m
  <1>3. /\ ms \in Seq(Messages) /\ Len(ms) = n + 1 /\ ms[n + 1] = m
        /\ \A i \in 1..n : ms[i] = chat[i]
    BY <1>1, <1>2, AppendProperties
  <1>4. Fit!Begin(ms)
    BY DEF Fit!Ask, m
  <1> HIDE DEF ms
  <1>5. n > 0 => chat[n].what \in {"system", "answer"}
    BY <1>1 DEF ChatFits
  <1>6. Len(ms) <= MaxMessages
    BY <1>1, <1>3
  <1>7. Numbered(ms)
    <2>1. \A i \in 1..(n + 1) : i = n + 1 \/ i \in 1..n
      BY <1>1
    <2> QED
      BY <1>1, <1>2, <1>3, <2>1 DEF ChatFits, Numbered
  <1>8. Orderly(ms)
    <2>1. ms[1].what \in {"system", "request"}
      <3>1. CASE n = 0
        BY <1>2, <1>3, <3>1
      <3>2. CASE n > 0
        <4>1. 1 \in 1..n
          BY <1>1, <3>2
        <4> QED
          BY <1>1, <1>3, <3>2, <4>1 DEF ChatFits, Orderly
      <3> QED
        BY <1>1, <3>1, <3>2
    <2>2. ASSUME NEW i \in 2..(n + 1) PROVE NextTo(ms[i - 1], ms[i])
      <3>1. CASE i = n + 1
        <4>1. i - 1 = n /\ n \in 1..n /\ n > 0
          BY <1>1, <2>2, <3>1
        <4> QED
          BY <1>2, <1>3, <1>5, <3>1, <4>1 DEF NextTo
      <3>2. CASE i # n + 1
        <4>1. i \in 2..n /\ i \in 1..n /\ i - 1 \in 1..n
          BY <1>1, <2>2, <3>2
        <4> QED
          BY <1>1, <1>3, <4>1 DEF ChatFits, Orderly
      <3> QED
        BY <3>1, <3>2
    <2> QED
      BY <1>3, <2>1, <2>2 DEF Orderly
  <1>9. AtWork(ms)
    <2>1. n + 1 \in 1..Len(ms) /\ ((n + 1) + 1)..Len(ms) = {}
      BY <1>1, <1>3
    <2>2. Fit!Request(ms) = n + 1 /\ HasRequest(ms)
      BY <1>2, <1>3, <2>1, RequestAt
    <2> QED
      BY <1>2, <1>3, <2>1, <2>2 DEF AtWork
  <1> QED
    BY <1>1, <1>3, <1>4, <1>6, <1>7, <1>8, <1>9, BeginWorks

LEMMA AddStepWorks ==
    ASSUME FitConstants, ToolRole, WorkInv, NEW size \in ResultSizes, Fit!AddStep(size)
    PROVE  WorkInv'
  <1> DEFINE ms == StepAdded(size)
             n == Len(chat)
             r == Fit!Request(chat)
  <1>1. /\ FitTypes /\ chat \in Seq(Messages) /\ n + 1 < MaxMessages /\ MaxMessages \in Nat
        /\ at = "generating" /\ ChatFits /\ n \in Nat /\ HasRequest(chat)
    BY DEF WorkInv, FitInv, FitTypes, Fit!AddStep, FitConstants
  <1>2. /\ Numbered(chat) /\ Orderly(chat) /\ chat[n].what \in {"request", "result"}
        /\ \A i \in (r + 1)..n : chat[i].what \in {"call", "result"}
    BY <1>1 DEF ChatFits, AtWork
  <1>3. r \in 1..n /\ chat[r].what = "request"
    BY <1>1, RequestIs
  <1>4. /\ ms \in Seq(Messages) /\ Len(ms) = n + 2 /\ \A i \in 1..n : ms[i] = chat[i]
        /\ ms[n + 1].what = "call" /\ ms[n + 2].what = "result"
        /\ ms[n + 1].nr = n + 1 /\ ms[n + 2].nr = n + 2
    BY <1>1, StepAddedIs
  <1>5. Fit!Begin(ms)
    BY DEF Fit!AddStep, StepAdded
  <1> HIDE DEF ms, r
  <1>6. Len(ms) <= MaxMessages
    BY <1>1, <1>4
  <1>7. \A i \in 1..(n + 2) : i = n + 2 \/ i = n + 1 \/ i \in 1..n
    BY <1>1
  <1>8. Numbered(ms)
    BY <1>1, <1>2, <1>4, <1>7 DEF Numbered
  <1>9. Orderly(ms)
    <2>1. ms[1].what \in {"system", "request"}
      <3>1. 1 \in 1..n /\ n > 0
        BY <1>1, <1>3
      <3> QED
        BY <1>2, <1>4, <3>1 DEF Orderly
    <2>2. ASSUME NEW i \in 2..(n + 2) PROVE NextTo(ms[i - 1], ms[i])
      <3>1. CASE i = n + 2
        <4>1. i - 1 = n + 1 /\ n + 2 = (n + 1) + 1
          BY <1>1, <3>1
        <4> QED
          BY <1>4, <3>1, <4>1 DEF NextTo
      <3>2. CASE i = n + 1
        <4>1. i - 1 = n /\ n \in 1..n
          BY <1>1, <1>3, <3>2
        <4> QED
          BY <1>2, <1>4, <3>2, <4>1 DEF NextTo
      <3>3. CASE i \in 1..n
        <4>1. i \in 2..n /\ i - 1 \in 1..n
          BY <1>1, <2>2, <3>3
        <4> QED
          BY <1>2, <1>4, <3>3, <4>1 DEF Orderly
      <3> QED
        BY <1>1, <1>7, <3>1, <3>2, <3>3
    <2> QED
      BY <1>4, <2>1, <2>2 DEF Orderly
  <1>10. AtWork(ms)
    <2>1. \A i \in (r + 1)..(n + 2) : ms[i].what \in {"call", "result"}
      <3>1. \A i \in (r + 1)..(n + 2) : i = n + 2 \/ i = n + 1 \/ (i \in (r + 1)..n /\ i \in 1..n)
        BY <1>1, <1>3
      <3> QED
        BY <1>2, <1>4, <3>1
    <2>2. r \in 1..Len(ms) /\ ms[r].what = "request"
      BY <1>1, <1>3, <1>4
    <2>3. Fit!Request(ms) = r /\ HasRequest(ms)
      BY <1>4, <2>1, <2>2, RequestAt
    <2> QED
      BY <1>4, <2>1, <2>3 DEF AtWork
  <1> QED
    BY <1>1, <1>4, <1>5, <1>6, <1>8, <1>9, <1>10, BeginWorks

LEMMA AnswerWorks ==
    ASSUME FitConstants, ToolRole, WorkInv, Fit!Answer
    PROVE  WorkInv'
  <1> DEFINE m == Fit!Message("answer", AnswerSize)
             ms == Append(chat, m)
             n == Len(chat)
  <1>1. /\ FitTypes /\ FitInv /\ chat \in Seq(Messages) /\ at = "generating" /\ ChatFits
        /\ n \in Nat
        /\ HasRequest(chat)
    BY DEF WorkInv, FitInv, FitTypes, Fit!Answer
  <1>2. /\ Numbered(chat) /\ Orderly(chat) /\ chat[n].what \in {"request", "result"}
    BY <1>1 DEF ChatFits, AtWork
  <1>3. n > 0
    BY <1>1, RequestIs
  <1>4. m \in Messages /\ m.what = "answer" /\ m.nr = n + 1
    <2>1. "answer" \in Sorts /\ AnswerSize \in Nat
      BY DEF Sorts, FitConstants
    <2> QED
      BY <1>1, <2>1, MessageIs
  <1> HIDE DEF m
  <1>5. /\ ms \in Seq(Messages) /\ Len(ms) = n + 1 /\ ms[n + 1] = m
        /\ \A i \in 1..n : ms[i] = chat[i]
    BY <1>1, <1>4, AppendProperties
  <1>6. chat' = ms /\ at' = "waiting"
    BY DEF Fit!Answer, m
  <1> HIDE DEF ms
  <1>7. Numbered(ms)
    <2>1. \A i \in 1..(n + 1) : i = n + 1 \/ i \in 1..n
      BY <1>1
    <2> QED
      BY <1>2, <1>4, <1>5, <2>1 DEF Numbered
  <1>8. Orderly(ms)
    <2>1. ms[1].what \in {"system", "request"}
      <3>1. 1 \in 1..n
        BY <1>1, <1>3
      <3> QED
        BY <1>2, <1>3, <1>5, <3>1 DEF Orderly
    <2>2. ASSUME NEW i \in 2..(n + 1) PROVE NextTo(ms[i - 1], ms[i])
      <3>1. CASE i = n + 1
        <4>1. i - 1 = n /\ n \in 1..n
          BY <1>1, <1>3, <3>1
        <4> QED
          BY <1>2, <1>4, <1>5, <3>1, <4>1 DEF NextTo
      <3>2. CASE i # n + 1
        <4>1. i \in 2..n /\ i \in 1..n /\ i - 1 \in 1..n
          BY <1>1, <2>2, <3>2
        <4> QED
          BY <1>2, <1>5, <4>1 DEF Orderly
      <3> QED
        BY <3>1, <3>2
    <2> QED
      BY <1>5, <2>1, <2>2 DEF Orderly
  <1>9. FitInv'
    BY <1>1, AnswerFits
  <1>10. ms[Len(ms)].what = "answer"
    BY <1>4, <1>5
  <1>11. ChatFits'
    BY <1>6, <1>7, <1>8, <1>10 DEF ChatFits
  <1>12. ShownFits'
    BY <1>6 DEF ShownFits
  <1> QED
    BY <1>9, <1>11, <1>12 DEF WorkInv

\* A round leaves what must stay: earlier turns go,
LEMMA TurnsStay ==
    ASSUME FitConstants, ToolRole, NEW ms \in Seq(Messages), HasUser(ms), NEW all, NEW r,
           Stays(ms, all, r), NEW e \in Fit!First(ms)..Fit!LastUser(ms), e > Fit!First(ms),
           Fit!Role(ms[e]) = "user"
    PROVE  Stays(Fit!Without(ms, Fit!First(ms), e), all, r)
  <1> DEFINE f == Fit!First(ms)
             l == Fit!LastUser(ms)
             rest == Fit!Without(ms, f, e)
             gone == e - f
  <1>1. f \in {1, 2} /\ f <= l /\ l \in 1..Len(ms) /\ Len(ms) \in Nat
    BY FirstIs, LastUserIs
  <1>2. e \in 1..Len(ms) /\ gone \in Nat /\ gone > 0 /\ e <= l /\ l - gone \in Nat /\ f + gone = e
        /\ l \in Nat
    BY <1>1
  <1>3. /\ rest \in Seq(Messages) /\ Len(rest) = Len(ms) - gone
        /\ \A i \in 1..Len(rest) : rest[i] = IF i < f THEN ms[i] ELSE ms[i + gone]
        /\ Fit!LastUser(rest) = l - gone
    BY TurnsGo
  <1>4. ms[e].what = "request"
    <2>1. ms[e] \in Messages
      BY <1>2, ElementOfSeq
    <2> QED
      BY <2>1, Roles
  <1>5. f = 2 <=> ms[1].what = "system"
    <2>1. ms[1] \in Messages
      BY <1>1, ElementOfSeq
    <2> QED
      BY <2>1, Roles DEF Fit!First
  <1>6. /\ Orderly(ms)
        /\ ms[l].what = "request" /\ ms[l].nr = r
        /\ \A i \in (l + 1)..Len(ms) : ms[i].what \in {"call", "result"}
        /\ \A i \in l..Len(ms) : ms[i].nr \in r..Len(all) /\ ms[i] = all[ms[i].nr]
        /\ ms[Len(ms)].nr = Len(all)
        /\ all[1].what = "system" => ms[1] = all[1]
        /\ ms[1].what = "system" => all[1].what = "system"
    BY DEF Stays
  <1> HIDE DEF f, l, gone, rest
  <1>7. rest[1] = IF f = 2 THEN ms[1] ELSE ms[e]
    <2>1. 1 \in 1..Len(rest) /\ (1 < f <=> f = 2) /\ (f = 1 => 1 + gone = e)
      BY <1>1, <1>2, <1>3
    <2> QED
      BY <1>1, <1>3, <2>1
  <1>8. rest[f] = ms[e] /\ f \in 1..Len(rest)
    <2>1. f \in 1..Len(rest) /\ ~(f < f)
      BY <1>1, <1>2, <1>3
    <2> QED
      BY <1>2, <1>3, <2>1
  <1>9. Orderly(rest)
    <2>1. rest[1].what \in {"system", "request"}
      BY <1>1, <1>4, <1>5, <1>7
    <2>2. ASSUME NEW i \in 2..Len(rest) PROVE NextTo(rest[i - 1], rest[i])
      <3>1. CASE i <= f
        <4>1. f = 2 /\ i = f /\ i - 1 = 1
          BY <1>1, <1>3, <3>1
        <4> QED
          BY <1>4, <1>5, <1>7, <1>8, <4>1 DEF NextTo
      <3>2. CASE i > f
        <4>1. /\ i \in 1..Len(rest) /\ ~(i < f) /\ i - 1 \in 1..Len(rest) /\ ~(i - 1 < f)
              /\ i + gone \in 2..Len(ms) /\ (i - 1) + gone = (i + gone) - 1
          BY <1>1, <1>2, <1>3, <3>2
        <4>2. rest[i] = ms[i + gone] /\ rest[i - 1] = ms[(i + gone) - 1]
          BY <1>3, <4>1
        <4> QED
          BY <1>6, <4>1, <4>2 DEF Orderly
      <3> QED
        BY <1>1, <1>3, <3>1, <3>2
    <2> QED
      BY <2>1, <2>2 DEF Orderly
  <1>10. \A i \in (l - gone)..Len(rest) : i + gone \in l..Len(ms) /\ rest[i] = ms[i + gone]
    <2> SUFFICES ASSUME NEW i \in (l - gone)..Len(rest)
                 PROVE  i + gone \in l..Len(ms) /\ rest[i] = ms[i + gone]
      OBVIOUS
    <2>1. i \in 1..Len(rest) /\ ~(i < f) /\ i + gone \in l..Len(ms)
      BY <1>1, <1>2, <1>3
    <2> QED
      BY <1>3, <2>1
  <1>11. rest[l - gone] = ms[l] /\ rest[Len(rest)] = ms[Len(ms)]
    <2>1. /\ l - gone \in (l - gone)..Len(rest) /\ Len(rest) \in (l - gone)..Len(rest)
          /\ (l - gone) + gone = l /\ Len(rest) + gone = Len(ms)
      BY <1>1, <1>2, <1>3
    <2> QED
      BY <1>10, <2>1
  <1>12. \A i \in ((l - gone) + 1)..Len(rest) : rest[i].what \in {"call", "result"}
    <2>1. \A i \in ((l - gone) + 1)..Len(rest) :
             i \in (l - gone)..Len(rest) /\ i + gone \in (l + 1)..Len(ms)
      BY <1>1, <1>2, <1>3
    <2> QED
      BY <1>6, <1>10, <2>1
  <1>13. \A i \in (l - gone)..Len(rest) : rest[i].nr \in r..Len(all) /\ rest[i] = all[rest[i].nr]
    BY <1>6, <1>10
  <1>14. all[1].what = "system" => rest[1] = all[1]
    BY <1>5, <1>6, <1>7
  <1>15. rest[1].what = "system" => all[1].what = "system"
    BY <1>4, <1>5, <1>6, <1>7
  <1>16. Stays(rest, all, r)
    BY <1>3, <1>6, <1>9, <1>11, <1>12, <1>13, <1>14, <1>15 DEF Stays
  <1> QED
    BY <1>16 DEF rest, f

\* steps of the request go, from a call on,
LEMMA StepsStay ==
    ASSUME FitConstants, ToolRole, NEW ms \in Seq(Messages), HasUser(ms), NEW all, NEW r,
           Stays(ms, all, r), NEW e \in (Fit!LastUser(ms) + 1)..Len(ms), Fit!Role(ms[e]) # "tool"
    PROVE  Stays(Fit!Without(ms, Fit!LastUser(ms) + 1, e), all, r)
  <1> DEFINE l == Fit!LastUser(ms)
             rest == Fit!Without(ms, l + 1, e)
             gone == e - (l + 1)
  <1>1. l \in 1..Len(ms) /\ Len(ms) \in Nat
    BY LastUserIs
  <1>2. e \in 1..Len(ms) /\ gone \in Nat /\ e = (l + 1) + gone /\ l \in Nat
    BY <1>1
  <1>3. /\ rest \in Seq(Messages) /\ Len(rest) = Len(ms) - gone
        /\ \A i \in 1..Len(rest) : rest[i] = IF i < l + 1 THEN ms[i] ELSE ms[i + gone]
        /\ Fit!LastUser(rest) = l
    BY StepsGo
  <1>6. /\ Orderly(ms)
        /\ ms[l].what = "request" /\ ms[l].nr = r
        /\ \A i \in (l + 1)..Len(ms) : ms[i].what \in {"call", "result"}
        /\ \A i \in l..Len(ms) : ms[i].nr \in r..Len(all) /\ ms[i] = all[ms[i].nr]
        /\ ms[Len(ms)].nr = Len(all)
        /\ all[1].what = "system" => ms[1] = all[1]
        /\ ms[1].what = "system" => all[1].what = "system"
    BY DEF Stays
  <1>4. ms[e].what = "call"
    <2>1. ms[e] \in Messages /\ e \in (l + 1)..Len(ms)
      BY <1>2, ElementOfSeq
    <2> QED
      BY <1>6, <2>1, Roles
  <1> HIDE DEF l, gone, rest
  <1>5. \A i \in 1..l : i \in 1..Len(rest) /\ rest[i] = ms[i]
    <2>1. \A i \in 1..l : i \in 1..Len(rest) /\ i < l + 1
      BY <1>1, <1>2, <1>3
    <2> QED
      BY <1>3, <2>1
  <1>7. \A i \in (l + 1)..Len(rest) : i + gone \in (l + 1)..Len(ms) /\ rest[i] = ms[i + gone]
    <2>1. \A i \in (l + 1)..Len(rest) :
             i \in 1..Len(rest) /\ ~(i < l + 1) /\ i + gone \in (l + 1)..Len(ms)
      BY <1>1, <1>2, <1>3
    <2> QED
      BY <1>3, <2>1
  <1>8. l + 1 \in (l + 1)..Len(rest) /\ Len(rest) \in (l + 1)..Len(rest) /\ rest[l + 1] = ms[e]
        /\ rest[Len(rest)] = ms[Len(ms)] /\ 1 \in 1..l /\ l \in 1..l
    <2>1. /\ l + 1 \in (l + 1)..Len(rest) /\ Len(rest) \in (l + 1)..Len(rest)
          /\ (l + 1) + gone = e /\ Len(rest) + gone = Len(ms) /\ 1 \in 1..l /\ l \in 1..l
      BY <1>1, <1>2, <1>3
    <2> QED
      BY <1>7, <2>1
  <1>9. Orderly(rest)
    <2>1. rest[1].what \in {"system", "request"}
      BY <1>1, <1>5, <1>6, <1>8 DEF Orderly
    <2>2. ASSUME NEW i \in 2..Len(rest) PROVE NextTo(rest[i - 1], rest[i])
      <3>1. CASE i \in 1..l
        <4>1. i - 1 \in 1..l /\ i \in 2..Len(ms)
          BY <1>1, <2>2, <3>1
        <4> QED
          BY <1>5, <1>6, <3>1, <4>1 DEF Orderly
      <3>2. CASE i = l + 1
        <4>1. i - 1 = l
          BY <1>1, <3>2
        <4> QED
          BY <1>4, <1>5, <1>6, <1>8, <3>2, <4>1 DEF NextTo
      <3>3. CASE i > l + 1
        <4>1. /\ i \in (l + 1)..Len(rest) /\ i - 1 \in (l + 1)..Len(rest)
              /\ i + gone \in 2..Len(ms) /\ (i - 1) + gone = (i + gone) - 1
          BY <1>1, <1>2, <1>3, <2>2, <3>3
        <4>2. rest[i] = ms[i + gone] /\ rest[i - 1] = ms[(i + gone) - 1]
          BY <1>7, <4>1
        <4> QED
          BY <1>6, <4>1, <4>2 DEF Orderly
      <3> QED
        BY <1>1, <1>3, <3>1, <3>2, <3>3
    <2> QED
      BY <2>1, <2>2 DEF Orderly
  <1>10. \A i \in (l + 1)..Len(rest) : rest[i].what \in {"call", "result"}
    BY <1>6, <1>7
  <1>11. \A i \in l..Len(rest) : rest[i].nr \in r..Len(all) /\ rest[i] = all[rest[i].nr]
    <2>1. \A i \in l..Len(rest) : i = l \/ i \in (l + 1)..Len(rest)
      BY <1>1, <1>3
    <2>2. \A i \in (l + 1)..Len(ms) : i \in l..Len(ms)
      BY <1>1
    <2>3. l \in l..Len(ms)
      BY <1>1
    <2>4. rest[l].nr \in r..Len(all) /\ rest[l] = all[rest[l].nr]
      BY <1>5, <1>6, <1>8, <2>3
    <2>5. ASSUME NEW i \in (l + 1)..Len(rest)
          PROVE  rest[i].nr \in r..Len(all) /\ rest[i] = all[rest[i].nr]
      <3>1. i + gone \in l..Len(ms) /\ rest[i] = ms[i + gone]
        BY <1>7, <2>2
      <3> QED
        BY <1>6, <3>1
    <2> QED
      BY <2>1, <2>4, <2>5
  <1>12. Stays(rest, all, r)
    BY <1>3, <1>5, <1>6, <1>8, <1>9, <1>10, <1>11 DEF Stays
  <1> QED
    BY <1>12 DEF rest, l

\* and an earlier result becomes a note.
LEMMA ResultStays ==
    ASSUME FitConstants, ToolRole, NEW ms \in Seq(Messages), HasUser(ms), NEW all, NEW r,
           Stays(ms, all, r), Fit!EarlierResults(ms) # {}
    PROVE  Stays(Resized(ms, Fit!Min(Fit!EarlierResults(ms)), NoteSize), all, r)
  <1> DEFINE l == Fit!LastUser(ms)
             k == Fit!Min(Fit!EarlierResults(ms))
             new == Resized(ms, k, NoteSize)
  <1>1. l \in 1..Len(ms) /\ Len(ms) \in Nat
    BY LastUserIs
  <1>2. /\ k \in 1..(l - 1) /\ k \in 1..Len(ms) /\ Fit!Role(ms[k]) = "tool"
        /\ new \in Seq(Messages) /\ Same(ms, new)
        /\ \A j \in 1..Len(ms) :
              new[j] = IF j = k THEN [ms[k] EXCEPT !.size = NoteSize] ELSE ms[j]
    BY ResultGoes
  <1>3. Fit!LastUser(new) = l /\ Len(new) = Len(ms)
    BY <1>2, LastUserSame DEF Same
  <1>4. /\ Orderly(ms)
        /\ ms[l].what = "request" /\ ms[l].nr = r
        /\ \A i \in (l + 1)..Len(ms) : ms[i].what \in {"call", "result"}
        /\ \A i \in l..Len(ms) : ms[i].nr \in r..Len(all) /\ ms[i] = all[ms[i].nr]
        /\ ms[Len(ms)].nr = Len(all)
        /\ all[1].what = "system" => ms[1] = all[1]
        /\ ms[1].what = "system" => all[1].what = "system"
    BY DEF Stays
  <1> HIDE DEF k, new, l
  <1>5. \A j \in 1..Len(ms) : new[j].what = ms[j].what /\ new[j].nr = ms[j].nr
    <2>1. \A x \in Messages : /\ [x EXCEPT !.size = NoteSize].what = x.what
                              /\ [x EXCEPT !.size = NoteSize].nr = x.nr
      BY DEF Messages
    <2> QED
      BY <1>2, <2>1, ElementOfSeq
  <1>6. \A j \in l..Len(ms) : j \in 1..Len(ms) /\ new[j] = ms[j]
    <2>1. \A j \in l..Len(ms) : j \in 1..Len(ms) /\ j # k
      BY <1>1, <1>2
    <2> QED
      BY <1>2, <2>1
  <1>7. 1 \in 1..Len(ms) /\ l \in l..Len(ms) /\ Len(ms) \in l..Len(ms)
    BY <1>1
  <1>8. ms[1].what = "system" => k # 1
    <2>1. ms[1] \in Messages
      BY <1>7, ElementOfSeq
    <2> QED
      BY <1>2, <2>1, Roles
  <1>9. ms[1].what = "system" => new[1] = ms[1]
    BY <1>2, <1>7, <1>8
  <1>10. Orderly(new)
    <2>1. new[1].what \in {"system", "request"}
      BY <1>1, <1>4, <1>5, <1>7 DEF Orderly
    <2>2. ASSUME NEW i \in 2..Len(ms) PROVE NextTo(new[i - 1], new[i])
      <3>1. i \in 1..Len(ms) /\ i - 1 \in 1..Len(ms)
        BY <1>1
      <3>2. NextTo(ms[i - 1], ms[i])
        BY <1>4 DEF Orderly
      <3> QED
        BY <1>5, <3>1, <3>2 DEF NextTo
    <2> QED
      BY <1>3, <2>1, <2>2 DEF Orderly
  <1>11. \A i \in (l + 1)..Len(ms) : new[i].what \in {"call", "result"}
    <2>1. \A i \in (l + 1)..Len(ms) : i \in l..Len(ms)
      BY <1>1
    <2> QED
      BY <1>4, <1>6, <2>1
  <1>12. \A i \in l..Len(ms) : new[i].nr \in r..Len(all) /\ new[i] = all[new[i].nr]
    BY <1>4, <1>6
  <1>13. new[l] = ms[l] /\ new[Len(ms)] = ms[Len(ms)]
    BY <1>6, <1>7
  <1>14. all[1].what = "system" => new[1] = all[1]
    BY <1>4, <1>9
  <1>15. new[1].what = "system" => all[1].what = "system"
    BY <1>4, <1>5, <1>7
  <1>16. Stays(new, all, r)
    BY <1>3, <1>4, <1>10, <1>11, <1>12, <1>13, <1>14, <1>15 DEF Stays
  <1> QED
    BY <1>16 DEF new, k

LEMMA RoundWorks ==
    ASSUME WorkInv, FitInv', at = "fitting", NEW new, Fit!Leave(new),
           Stays(new, Fit!Rendered(chat), Fit!Request(chat))
    PROVE  WorkInv'
  <1>1. shown' = new /\ at' = at /\ chat' = chat /\ settings' = settings
    BY DEF Fit!Leave
  <1>2. Fit!Rendered(chat)' = Fit!Rendered(chat)
    BY <1>1 DEF Fit!Rendered
  <1>3. ChatFits' /\ ShownFits'
    BY <1>1, <1>2 DEF WorkInv, ChatFits, ShownFits
  <1> QED
    BY <1>3 DEF WorkInv

LEMMA DispatchWorks ==
    ASSUME WorkInv, FitInv', at = "fitting", NEW ok, Fit!Dispatch(ok)
    PROVE  WorkInv'
  <1>1. /\ shown' = shown /\ at' # "waiting" /\ chat' = chat /\ settings' = settings
    BY DEF Fit!Dispatch
  <1>2. Fit!Rendered(chat)' = Fit!Rendered(chat)
    BY <1>1 DEF Fit!Rendered
  <1>3. ChatFits' /\ ShownFits'
    BY <1>1, <1>2 DEF WorkInv, ChatFits, ShownFits
  <1> QED
    BY <1>3 DEF WorkInv

LEMMA ShownIs ==
    ASSUME WorkInv, at # "waiting"
    PROVE  /\ FitInv /\ FitTypes /\ shown \in Seq(Messages) /\ HasUser(shown)
           /\ Stays(shown, Fit!Rendered(chat), Fit!Request(chat))
  BY DEF WorkInv, FitInv, FitTypes, ShownFits

LEMMA LeaveResultOutWorks ==
    ASSUME FitConstants, ToolRole, WorkInv, Fit!LeaveResultOut
    PROVE  WorkInv'
  <1>1. /\ at = "fitting" /\ Fit!EarlierResults(shown) # {}
        /\ Fit!Leave(Resized(shown, Fit!Min(Fit!EarlierResults(shown)), NoteSize))
    BY DEF Fit!LeaveResultOut, Fit!MustShrink, Fit!Leave, Resized
  <1>2. /\ FitInv /\ shown \in Seq(Messages) /\ HasUser(shown)
        /\ Stays(shown, Fit!Rendered(chat), Fit!Request(chat))
    BY <1>1, ShownIs
  <1>3. FitInv'
    BY <1>2, LeaveResultOutFits
  <1>4. Stays(Resized(shown, Fit!Min(Fit!EarlierResults(shown)), NoteSize),
              Fit!Rendered(chat), Fit!Request(chat))
    BY <1>1, <1>2, ResultStays
  <1> QED
    BY <1>1, <1>3, <1>4, RoundWorks

LEMMA DropTurnsWorks ==
    ASSUME FitConstants, ToolRole, WorkInv, Fit!DropTurns
    PROVE  WorkInv'
  <1>1. /\ at = "fitting" /\ Fit!OldTurnsEnd > Fit!First(shown)
        /\ Fit!Leave(Fit!Without(shown, Fit!First(shown), Fit!OldTurnsEnd))
    BY DEF Fit!DropTurns, Fit!MustShrink
  <1>2. /\ FitInv /\ shown \in Seq(Messages) /\ HasUser(shown)
        /\ Stays(shown, Fit!Rendered(chat), Fit!Request(chat))
    BY <1>1, ShownIs
  <1>3. FitInv'
    BY <1>2, DropTurnsFits
  <1>4. /\ Fit!OldTurnsEnd \in Fit!First(shown)..Fit!LastUser(shown)
        /\ Fit!Role(shown[Fit!OldTurnsEnd]) = "user"
    BY <1>2, SpreadTurnsEnd DEF Fit!OldTurnsEnd
  <1>5. Stays(Fit!Without(shown, Fit!First(shown), Fit!OldTurnsEnd),
              Fit!Rendered(chat), Fit!Request(chat))
    BY <1>1, <1>2, <1>4, TurnsStay
  <1> QED
    BY <1>1, <1>3, <1>5, RoundWorks

LEMMA DropStepsWorks ==
    ASSUME FitConstants, ToolRole, WorkInv, Fit!DropSteps
    PROVE  WorkInv'
  <1> DEFINE new == Fit!Without(shown, Fit!LastUser(shown) + 1, Fit!StepsEnd(shown))
  <1>1. /\ at = "fitting" /\ Fit!StepsEnd(shown) > Fit!LastUser(shown) + 1 /\ Fit!Leave(new)
    BY DEF Fit!DropSteps, Fit!StepsCanGo, Fit!MustShrink
  <1>2. /\ FitInv /\ shown \in Seq(Messages) /\ HasUser(shown)
        /\ Stays(shown, Fit!Rendered(chat), Fit!Request(chat))
    BY <1>1, ShownIs
  <1>3. FitInv'
    BY <1>2, DropStepsFits
  <1>4. /\ Fit!StepsEnd(shown) \in (Fit!LastUser(shown) + 1)..Len(shown)
        /\ Fit!Role(shown[Fit!StepsEnd(shown)]) # "tool"
    <2>1. Fit!LastUser(shown) \in Nat
      BY <1>2, LastUserIs
    <2>2. Fit!Steps(shown) # {}
      BY <1>1, <2>1 DEF Fit!StepsEnd
    <2> QED
      BY <1>2, <2>2, StepsEndIs
  <1>5. Stays(new, Fit!Rendered(chat), Fit!Request(chat))
    BY <1>2, <1>4, StepsStay
  <1> QED
    BY <1>1, <1>3, <1>5, RoundWorks

LEMMA DropMediaTurnWorks ==
    ASSUME FitConstants, ToolRole, WorkInv, Fit!DropMediaTurn
    PROVE  WorkInv'
  <1>1. /\ at = "fitting" /\ Fit!MediaTurnEnd > Fit!First(shown)
        /\ Fit!Leave(Fit!Without(shown, Fit!First(shown), Fit!MediaTurnEnd))
    BY DEF Fit!DropMediaTurn, Fit!MediaTurnCanGo
  <1>2. /\ FitInv /\ shown \in Seq(Messages) /\ HasUser(shown)
        /\ Stays(shown, Fit!Rendered(chat), Fit!Request(chat))
    BY <1>1, ShownIs
  <1>3. FitInv'
    BY <1>2, DropMediaTurnFits
  <1>4. /\ Fit!MediaTurnEnd \in Fit!First(shown)..Fit!LastUser(shown)
        /\ Fit!Role(shown[Fit!MediaTurnEnd]) = "user"
    BY <1>1, <1>2, MediaTurnEndIs
  <1>5. Stays(Fit!Without(shown, Fit!First(shown), Fit!MediaTurnEnd),
              Fit!Rendered(chat), Fit!Request(chat))
    BY <1>1, <1>2, <1>4, TurnsStay
  <1> QED
    BY <1>1, <1>3, <1>5, RoundWorks

LEMMA WorkBegins ==
    ASSUME FitConstants, Fit!Init
    PROVE  WorkInv
  <1> DEFINE m == [what |-> "system", size |-> SystemSize, nr |-> 1]
  <1>1. FitInv
    BY FitBegins
  <1>2. at = "waiting"
    BY DEF Fit!Init
  <1>3. chat \in {<<>>, <<m>>}
    BY DEF Fit!Init
  <1>4. m.what = "system" /\ m.nr = 1
    OBVIOUS
  <1> HIDE DEF m
  <1>5. Numbered(chat) /\ Orderly(chat) /\ (Len(chat) > 0 => chat[Len(chat)].what = "system")
    <2>1. CASE chat = <<>>
      <3>1. Len(chat) = 0 /\ 1..0 = {} /\ 2..0 = {}
        BY <2>1
      <3> QED
        BY <3>1 DEF Numbered, Orderly
    <2>2. CASE chat = <<m>>
      <3>1. Len(chat) = 1 /\ chat[1] = m /\ 1..1 = {1} /\ 2..1 = {}
        BY <2>2
      <3> QED
        BY <1>4, <3>1 DEF Numbered, Orderly
    <2> QED
      BY <1>3, <2>1, <2>2
  <1> QED
    BY <1>1, <1>2, <1>5 DEF WorkInv, ChatFits, ShownFits

LEMMA WorkGoesOn ==
    ASSUME FitConstants, ToolRole, WorkInv, [Fit!Next]_(Fit!vars)
    PROVE  WorkInv'
  <1>1. FitInv'
    BY FitStays DEF WorkInv
  <1>2. CASE Fit!EndFit
    BY <1>1, <1>2, DispatchWorks DEF Fit!EndFit
  <1>3. CASE Fit!EndMediaFit
    BY <1>1, <1>3, DispatchWorks DEF Fit!EndMediaFit
  <1>4. CASE UNCHANGED Fit!vars
    <2>1. at' = at /\ chat' = chat /\ shown' = shown /\ settings' = settings
      BY <1>4 DEF Fit!vars
    <2>2. Fit!Rendered(chat)' = Fit!Rendered(chat)
      BY <2>1 DEF Fit!Rendered
    <2>3. ChatFits' /\ ShownFits'
      BY <2>1, <2>2 DEF WorkInv, ChatFits, ShownFits
    <2> QED
      BY <1>1, <2>3 DEF WorkInv
  <1> QED
    BY <1>2, <1>3, <1>4, AskWorks, AddStepWorks, AnswerWorks, LeaveResultOutWorks,
       DropTurnsWorks, DropStepsWorks, DropMediaTurnWorks DEF Fit!Next

LEMMA WorkIsKept ==
    ASSUME FitConstants, WorkInv
    PROVE  Fit!WorkStays
  <1> SUFFICES ASSUME at # "waiting"
               PROVE  /\ Fit!RequestStays
                      /\ ~settings.media => Fit!Last(shown).nr = Len(chat)
                      /\ chat[1].what = "system" => shown[1] = chat[1]
                      /\ \A i \in DOMAIN shown : shown[i].what \in {"call", "answer"}
                              => i > 1 /\ shown[i - 1].what # "system"
                      /\ \A i \in DOMAIN shown : shown[i].what = "result"
                              => i > 1 /\ shown[i - 1].nr = shown[i].nr - 1
    BY DEF Fit!WorkStays
  <1> DEFINE all == Fit!Rendered(chat)
             r == Fit!Request(chat)
             l == Fit!LastUser(shown)
  <1>1. /\ FitTypes /\ shown \in Seq(Messages) /\ HasUser(shown) /\ Stays(shown, all, r)
        /\ chat \in Seq(Messages) /\ HasRequest(chat)
    BY ShownIs DEF FitTypes
  <1>2. l \in 1..Len(shown) /\ Len(shown) \in Nat /\ DOMAIN shown = 1..Len(shown)
    BY <1>1, LastUserIs
  <1>3. /\ Orderly(shown) /\ shown[l].nr = r /\ shown[Len(shown)].nr = Len(all)
        /\ all[1].what = "system" => shown[1] = all[1]
    BY <1>1 DEF Stays
  <1>4. /\ r \in 1..Len(chat) /\ chat[r].what = "request"
    BY <1>1, RequestIs
  <1>5. /\ Len(all) \in r..Len(chat) /\ (~settings.media => Len(all) = Len(chat))
        /\ \A i \in 1..Len(all) : all[i].what = chat[i].what
        /\ \A i \in 1..Len(all) : i # r => all[i] = chat[i]
    BY <1>1, RenderedIs
  <1> HIDE DEF all, r, l
  <1>6. Fit!RequestStays
    BY <1>2, <1>3 DEF Fit!RequestStays, r
  <1>7. ~settings.media => Fit!Last(shown).nr = Len(chat)
    BY <1>3, <1>5 DEF Fit!Last
  <1>8. chat[1].what = "system" => shown[1] = chat[1]
    <2>1. 1 \in 1..Len(all)
      BY <1>4, <1>5
    <2> QED
      BY <1>3, <1>4, <1>5, <2>1
  <1>9. ASSUME NEW i \in 1..Len(shown), shown[i].what \in {"call", "answer", "result"}
        PROVE  i \in 2..Len(shown) /\ NextTo(shown[i - 1], shown[i])
    <2>1. shown[1].what \in {"system", "request"}
      BY <1>2, <1>3 DEF Orderly
    <2>2. i # 1
      BY <1>9, <2>1
    <2>3. i \in 2..Len(shown)
      BY <1>2, <2>2
    <2> QED
      BY <1>3, <2>3 DEF Orderly
  <1>10. ASSUME NEW i \in 1..Len(shown), shown[i].what \in {"call", "answer"}
         PROVE  i > 1 /\ shown[i - 1].what # "system"
    BY <1>9, <1>10 DEF NextTo
  <1>11. ASSUME NEW i \in 1..Len(shown), shown[i].what = "result"
         PROVE  i > 1 /\ shown[i - 1].nr = shown[i].nr - 1
    <2>1. i \in 2..Len(shown) /\ NextTo(shown[i - 1], shown[i])
      BY <1>9, <1>11
    <2>2. shown[i - 1] \in Messages /\ shown[i].nr = shown[i - 1].nr + 1
      <3>1. i - 1 \in 1..Len(shown)
        BY <1>2, <2>1
      <3> QED
        BY <1>1, <1>11, <2>1, <3>1, ElementOfSeq DEF NextTo
    <2>3. shown[i - 1].nr \in Nat
      BY <2>2 DEF Messages
    <2> QED
      BY <2>1, <2>2, <2>3
  <1> QED
    BY <1>2, <1>6, <1>7, <1>8, <1>10, <1>11


\* What is left when no more can go is what must stay.
LEMMA NoMoreThanMustStay ==
    ASSUME FitConstants, NEW ms \in Seq(Messages), HasUser(ms), NEW all \in Seq(Messages),
           NEW r \in 1..Len(all), Stays(ms, all, r), Fit!First(ms) = Fit!LastUser(ms),
           \/ Len(ms) = Fit!LastUser(ms) /\ Len(all) = r
           \/ /\ Len(ms) = Fit!LastUser(ms) + 2 /\ Len(all) # r
              /\ ms[Fit!LastUser(ms) + 1] = all[Len(all) - 1]
    PROVE  ms = Fit!MustStay(all, r)
  <1> DEFINE l == Fit!LastUser(ms)
             n == Len(all)
             from == IF n = r THEN r + 1 ELSE n - 1
             a == SubSeq(all, 1, l - 1)
             b == SubSeq(all, r, r)
             c == SubSeq(all, from, n)
  <1>1. l \in {1, 2} /\ l \in 1..Len(ms) /\ Len(ms) \in Nat /\ l = Fit!First(ms)
    BY FirstIs, LastUserIs
  <1>2. /\ ms[l].what = "request" /\ ms[l].nr = r
        /\ \A i \in l..Len(ms) : ms[i].nr \in r..n /\ ms[i] = all[ms[i].nr]
        /\ ms[Len(ms)].nr = n
        /\ all[1].what = "system" => ms[1] = all[1]
        /\ ms[1].what = "system" => all[1].what = "system"
    BY DEF Stays
  <1> HIDE DEF l
  <1>3. r \in 1..n /\ n \in Nat /\ 1 \in 1..n /\ 1 \in 1..Len(ms)
    BY <1>1
  <1>4. l = Fit!First(all)
    <2>1. ms[1] \in Messages /\ all[1] \in Messages
      BY <1>3, ElementOfSeq
    <2> QED
      BY <1>1, <1>2, <2>1, Roles DEF Fit!First
  <1>5. l = 2 => ms[1] = all[1]
    <2>1. ms[1] \in Messages
      BY <1>3, ElementOfSeq
    <2> QED
      BY <1>1, <1>2, <2>1, Roles DEF Fit!First
  <1>6. ms[l] = all[r] /\ ms[Len(ms)] = all[n]
    <2>1. l \in l..Len(ms) /\ Len(ms) \in l..Len(ms)
      BY <1>1
    <2> QED
      BY <1>2, <2>1
  <1>7. Fit!MustStay(all, r) = (a \o b) \o c
    BY <1>4 DEF Fit!MustStay
  <1>8. l = 2 => r # 1
    BY <1>1, <1>2, <1>3, <1>5, <1>6, Roles, ElementOfSeq DEF Fit!First
  <1>9. l - 1 <= n /\ from \in 1..(n + 1) /\ (n # r => r < n)
    BY <1>1, <1>3
  <1>10. a \in Seq(Messages) /\ Len(a) = l - 1 /\ \A i \in 1..(l - 1) : a[i] = all[i]
    <2>1. 1 \in 1..(n + 1) /\ l \in 1..(n + 1)
      BY <1>1, <1>3
    <2>2. /\ SubSeq(all, 1, l - 1) \in Seq(Messages) /\ Len(SubSeq(all, 1, l - 1)) = l - 1
          /\ \A i \in 1..(l - 1) : SubSeq(all, 1, l - 1)[i] = all[1 + i - 1]
      BY <2>1, PartOf
    <2>3. \A i \in 1..(l - 1) : 1 + i - 1 = i
      OBVIOUS
    <2> QED
      BY <2>2, <2>3
  <1>11. b \in Seq(Messages) /\ Len(b) = 1 /\ b[1] = all[r]
    <2>1. r \in 1..(n + 1) /\ r + 1 \in r..(n + 1) /\ (r + 1) - 1 = r /\ (r + 1) - r = 1
          /\ r + 1 - 1 = r /\ 1 \in 1..1
      BY <1>3
    <2> QED
      BY <2>1, PartOf
  <1>12. /\ c \in Seq(Messages) /\ Len(c) = IF n = r THEN 0 ELSE 2
         /\ n # r => c[1] = all[n - 1] /\ c[2] = all[n]
    <2>1. CASE n = r
      <3>1. from = n + 1 /\ n + 1 \in 1..(n + 1) /\ (n + 1) - 1 = n /\ n + 1 - (n + 1) = 0
            /\ n + 1 \in (n + 1)..(n + 1)
        BY <1>3, <2>1
      <3> QED
        BY <2>1, <3>1, PartOf
    <2>2. CASE n # r
      <3>1. from = n - 1 /\ n - 1 \in 1..(n + 1) /\ n + 1 \in (n - 1)..(n + 1)
            /\ (n + 1) - 1 = n /\ (n + 1) - (n - 1) = 2
            /\ (n - 1) + 1 - 1 = n - 1 /\ (n - 1) + 2 - 1 = n /\ 1 \in 1..2 /\ 2 \in 1..2
        BY <1>3, <1>9, <2>2
      <3>2. /\ SubSeq(all, n - 1, (n + 1) - 1) \in Seq(Messages)
            /\ Len(SubSeq(all, n - 1, (n + 1) - 1)) = (n + 1) - (n - 1)
            /\ \A i \in 1..((n + 1) - (n - 1)) :
                  SubSeq(all, n - 1, (n + 1) - 1)[i] = all[(n - 1) + i - 1]
        BY <3>1, PartOf
      <3> QED
        BY <2>2, <3>1, <3>2
    <2> QED
      BY <2>1, <2>2
  <1>13. /\ Len(ms) = IF n = r THEN l ELSE l + 2
         /\ n # r => ms[l + 1] = all[n - 1]
    BY <1>1 DEF l
  <1> HIDE DEF a, b, c, from
  <1>14. /\ a \o b \in Seq(Messages) /\ Len(a \o b) = l
         /\ \A i \in 1..l : (a \o b)[i] = IF i <= l - 1 THEN all[i] ELSE all[r]
    <2>1. /\ a \o b \in Seq(Messages) /\ Len(a \o b) = Len(a) + Len(b)
          /\ \A i \in 1..(Len(a) + Len(b)) :
                (a \o b)[i] = IF i <= Len(a) THEN a[i] ELSE b[i - Len(a)]
      BY <1>10, <1>11, ConcatProperties
    <2>2. Len(a) + Len(b) = l /\ \A i \in 1..l : ~(i <= l - 1) => i = l /\ i - (l - 1) = 1
      BY <1>1, <1>10, <1>11
    <2>3. \A i \in 1..l : i <= l - 1 => i \in 1..(l - 1)
      BY <1>1
    <2> QED
      BY <1>10, <1>11, <2>1, <2>2, <2>3
  <1> DEFINE d == a \o b
  <1> HIDE DEF d
  <1>15. /\ d \o c \in Seq(Messages) /\ Len(d \o c) = Len(d) + Len(c)
         /\ \A i \in 1..(Len(d) + Len(c)) :
               (d \o c)[i] = IF i <= Len(d) THEN d[i] ELSE c[i - Len(d)]
    BY <1>12, <1>14, ConcatProperties DEF d
  <1>16. /\ d \in Seq(Messages) /\ Len(d) = l
         /\ \A i \in 1..l : d[i] = IF i <= l - 1 THEN all[i] ELSE all[r]
    BY <1>14 DEF d
  <1>17. \A i \in 1..l : ms[i] = d[i]
    <2>1. \A i \in 1..l : (i <= l - 1 /\ i = 1 /\ l = 2) \/ (~(i <= l - 1) /\ i = l)
      BY <1>1
    <2> QED
      BY <1>5, <1>6, <1>16, <2>1
  <1>18. Len(ms) = Len(d) + Len(c)
    BY <1>1, <1>12, <1>13, <1>16
  <1>19. ASSUME NEW i \in 1..Len(ms) PROVE ms[i] = (d \o c)[i]
    <2>1. CASE i <= l
      <3>1. i \in 1..l /\ i <= Len(d) /\ i \in 1..(Len(d) + Len(c))
        BY <1>1, <1>16, <1>18, <2>1
      <3> QED
        BY <1>15, <1>17, <3>1
    <2>2. CASE i > l
      <3>1. n # r
        BY <1>1, <1>13, <2>2
      <3>2. i = l + 1 \/ i = l + 2
        BY <1>1, <1>13, <2>2, <3>1
      <3>3. /\ i \in 1..(Len(d) + Len(c)) /\ ~(i <= Len(d))
            /\ (l + 1) - Len(d) = 1 /\ (l + 2) - Len(d) = 2
        BY <1>1, <1>16, <1>18, <2>2
      <3>4. ms[l + 1] = c[1] /\ ms[l + 2] = c[2]
        BY <1>6, <1>12, <1>13, <3>1
      <3> QED
        BY <1>15, <3>2, <3>3, <3>4
    <2>3. i <= l \/ i > l
      BY <1>1
    <2> QED
      BY <2>1, <2>2, <2>3
  <1>20. ms = d \o c
    BY <1>15, <1>18, <1>19, SeqEqual
  <1> QED
    BY <1>7, <1>20 DEF d

\* For GivesUpLast: there is room to be asked for.
RoomConstants ==
    MaxTokens > 0 /\ ReserveLeast > 0 /\ ReserveMost > 0 /\ Context > 1

LEMMA RoomIsAsked ==
    ASSUME FitConstants, RoomConstants
    PROVE  Fit!AnswerRoom > 0 /\ Fit!ThinkingRoom > 0
  <1>1. Fit!AnswerRoom > 0 /\ Fit!AnswerRoom \in Nat
    BY RoomsAreNumbers DEF FitConstants, RoomConstants, Fit!AnswerRoom, Fit!Lower
  <1>2. Context \div 2 > 0 /\ 2 * Fit!AnswerRoom > 0
    BY <1>1 DEF FitConstants, RoomConstants
  <1> QED
    BY <1>1, <1>2 DEF Fit!ThinkingRoom, Fit!Lower

\* No step can go: there is none, or there is one.
LEMMA NoStepCanGo ==
    ASSUME FitConstants, NEW ms \in Seq(Messages), HasUser(ms), Fit!Short(ms) > 0,
           ~(Fit!StepsEnd(ms) > Fit!LastUser(ms) + 1)
    PROVE  \A i \in (Fit!LastUser(ms) + 1)..Len(ms) :
              Fit!Role(ms[i]) # "tool" => i = Fit!LastUser(ms) + 1
  <1> DEFINE l == Fit!LastUser(ms)
  <1>1. l \in Nat /\ l \in 1..Len(ms) /\ Len(ms) \in Nat
    BY LastUserIs
  <1>2. CASE Fit!Steps(ms) = {}
    BY <1>2 DEF Fit!Steps
  <1>3. CASE Fit!Steps(ms) # {}
    <2>1. /\ Fit!StepsEnd(ms) \in (l + 1)..Len(ms)
          /\ \/ Fit!StepsEnd(ms) = Fit!Max(Fit!Steps(ms))
             \/ Fit!Between(Fit!Spread(ms), l + 1, Fit!StepsEnd(ms)) >= Fit!Short(ms)
          /\ \A i \in Fit!Steps(ms) : i <= Fit!Max(Fit!Steps(ms))
      BY <1>3, StepsEndIs
    <2>2. Fit!StepsEnd(ms) = l + 1
      BY <1>1, <2>1
    <2>3. Fit!Between(Fit!Spread(ms), l + 1, l + 1) = 0
      BY <1>1, PartOfNone
    <2>4. ~(Fit!Between(Fit!Spread(ms), l + 1, l + 1) >= Fit!Short(ms))
      <3>1. Fit!Short(ms) \in Int
        <4>1. Fit!Prompt(ms) \in Nat /\ Fit!AnswerRoom \in Nat /\ Context \in Nat
          BY PromptIs, RoomsAreNumbers DEF FitConstants
        <4> QED
          BY <4>1 DEF Fit!Short
      <3> QED
        BY <2>3, <3>1
    <2>5. Fit!Max(Fit!Steps(ms)) = l + 1
      BY <2>1, <2>2, <2>4
    <2>6. \A i \in (l + 1)..Len(ms) : Fit!Role(ms[i]) # "tool" => i \in Fit!Steps(ms)
      BY DEF Fit!Steps
    <2>7. \A i \in Fit!Steps(ms) : i <= l + 1
      BY <2>1, <2>5
    <2> HIDE DEF l
    <2>8. \A i \in (l + 1)..Len(ms) : i <= l + 1 => i = l + 1
      BY <1>1
    <2> QED
      BY <2>6, <2>7, <2>8 DEF l
  <1> QED
    BY <1>2, <1>3

LEMMA EndFitGivesUpLast ==
    ASSUME FitConstants, RoomConstants, ToolRole, WorkInv, Fit!EndFit
    PROVE  Fit!GivesUpLast'
  <1> DEFINE all == Fit!Rendered(chat)
             r == Fit!Request(chat)
             l == Fit!LastUser(shown)
             f == Fit!First(shown)
             n == Len(all)
  <1>1. /\ at' = (IF Fit!Prompt(shown) < Context THEN "generating" ELSE "exceeded")
        /\ chat' = chat
        /\ settings' = settings /\ at = "fitting" /\ ~settings.media
    BY DEF Fit!EndFit, Fit!Dispatch
  <1>2. /\ FitTypes /\ shown \in Seq(Messages) /\ HasUser(shown) /\ Stays(shown, all, r)
        /\ chat \in Seq(Messages) /\ HasRequest(chat) /\ ChatFits
    BY <1>1, ShownIs DEF FitTypes, WorkInv
  <1>3. Fit!MustStay(Fit!Rendered(chat), Fit!Request(chat))' = Fit!MustStay(all, r)
    BY <1>1 DEF Fit!MustStay, Fit!Rendered
  <1> SUFFICES ASSUME ~(Fit!Prompt(shown) < Context), settings.mode # "off"
               PROVE  Fit!Prompt(Fit!MustStay(all, r)) + 0 >= Context
    BY <1>1, <1>3 DEF Fit!GivesUpLast, Fit!AnswerRoom
  <1>4. /\ Fit!Prompt(shown) \in Nat /\ Fit!ThinkingRoom \in Nat /\ Fit!AnswerRoom \in Nat
        /\ Context \in Nat
        /\ Fit!ThinkingRoom > 0 /\ Fit!AnswerRoom > 0
    BY <1>2, PromptIs, RoomsAreNumbers, RoomIsAsked DEF FitConstants
  <1>5. Fit!Overflow(shown) > 0 /\ Fit!Overflow(shown) \in Int
    <2>1. Fit!RoomToKeep(shown) \in {Fit!ThinkingRoom, Fit!AnswerRoom}
      BY DEF Fit!RoomToKeep
    <2>2. Fit!Overflow(shown) = IF Fit!Prompt(shown) + Fit!RoomToKeep(shown) > Context
                            THEN Fit!Prompt(shown) + Fit!RoomToKeep(shown) - Context ELSE 0
      BY <1>2, OverflowIs
    <2> QED
      BY <1>4, <2>1, <2>2
  <1>6. Fit!MustShrink
    BY <1>1, <1>4, <1>5 DEF Fit!MustShrink
  <1>7. Fit!OldTurnsEnd = f /\ ~Fit!StepsCanGo
    BY <1>6 DEF Fit!EndFit, Fit!OnlyRequestLeft
  <1>8. f = l
    <2> DEFINE target == Fit!ToFree(Fit!Overflow(shown), settings.shifts)
    <2>1. target \in Int /\ target > 0
      <3>1. settings.shifts \in BOOLEAN
        BY <1>2 DEF FitTypes
      <3> QED
        BY <1>2, <1>5, <3>1, ToFreeIs
    <2> HIDE DEF target
    <2>2. Fit!OldTurnsEnd = Fit!TurnsEnd(Fit!Spread(shown), target)
      BY DEF Fit!OldTurnsEnd, target
    <2>3. f = l \/ Fit!Between(Fit!Spread(shown), f, f) >= target
      BY <1>2, <1>7, <2>2, SpreadTurnsEnd
    <2>4. Fit!Between(Fit!Spread(shown), f, f) = 0
      BY <1>2, FirstIs, PartOfNone
    <2> QED
      BY <2>1, <2>3, <2>4
  <1>9. \A i \in (l + 1)..Len(shown) : Fit!Role(shown[i]) # "tool" => i = l + 1
    <2>1. Fit!Short(shown) > 0
      BY <1>4 DEF Fit!Short
    <2> QED
      BY <1>2, <1>7, <2>1, NoStepCanGo DEF Fit!StepsCanGo
  <1>10. /\ Orderly(shown) /\ shown[l].what = "request" /\ shown[l].nr = r
         /\ \A i \in (l + 1)..Len(shown) : shown[i].what \in {"call", "result"}
         /\ \A i \in l..Len(shown) : shown[i].nr \in r..n /\ shown[i] = all[shown[i].nr]
         /\ shown[Len(shown)].nr = n
    BY <1>2 DEF Stays
  <1>11. all = chat /\ AtWork(chat)
    BY <1>1, <1>2 DEF Fit!Rendered, ChatFits
  <1>12. r \in 1..n /\ n \in Nat
    BY <1>2, <1>11, RequestIs
  <1>13. l \in 1..Len(shown) /\ Len(shown) \in Nat
    BY <1>2, LastUserIs
  <1>14. all[n].what \in {"request", "result"}
    BY <1>11 DEF AtWork
  <1>15. shown[Len(shown)] = all[n]
    BY <1>10, <1>13
  <1> HIDE DEF all, r, l, f
  <1>16. ASSUME NEW i \in (l + 1)..Len(shown) PROVE shown[i].what = "call" <=> i = l + 1
    <2>1. i \in 1..Len(shown) /\ i \in 2..Len(shown) /\ shown[i] \in Messages
      BY <1>2, <1>13, ElementOfSeq
    <2>2. NextTo(shown[i - 1], shown[i]) /\ shown[i].what \in {"call", "result"}
      BY <1>10, <2>1 DEF Orderly
    <2>3. CASE i = l + 1
      <3>1. i - 1 = l
        BY <1>13, <2>3
      <3> QED
        BY <1>10, <2>2, <2>3, <3>1 DEF NextTo
    <2>4. CASE i # l + 1
      <3>1. Fit!Role(shown[i]) = "tool"
        BY <1>9, <2>4
      <3>2. shown[i].what = "result"
        BY <2>1, <3>1, Roles
      <3> QED
        BY <2>4, <3>2
    <2> QED
      BY <2>3, <2>4
  <1>17. ~(Len(shown) > l + 2)
    <2> SUFFICES ASSUME Len(shown) > l + 2 PROVE FALSE
      OBVIOUS
    <2>1. /\ l + 3 \in (l + 1)..Len(shown) /\ l + 2 \in (l + 1)..Len(shown)
          /\ l + 3 \in 2..Len(shown)
          /\ l + 3 # l + 1 /\ l + 2 # l + 1 /\ (l + 3) - 1 = l + 2
      BY <1>13
    <2>2. shown[l + 2].what = "result" /\ shown[l + 3].what = "result"
      BY <1>10, <1>16, <2>1
    <2>3. NextTo(shown[(l + 3) - 1], shown[l + 3])
      BY <1>10, <2>1 DEF Orderly
    <2> QED
      BY <2>1, <2>2, <2>3 DEF NextTo
  <1>18. Len(shown) # l + 1
    <2> SUFFICES ASSUME Len(shown) = l + 1 PROVE FALSE
      OBVIOUS
    <2>1. l + 1 \in (l + 1)..Len(shown)
      BY <1>13
    <2>2. shown[l + 1].what = "call"
      BY <1>16, <2>1
    <2> QED
      BY <1>14, <1>15, <2>2
  <1>19. \/ Len(shown) = l /\ n = r
         \/ /\ Len(shown) = l + 2 /\ n # r
            /\ shown[l + 1] = all[n - 1]
    <2>1. CASE Len(shown) = l
      BY <1>10, <2>1
    <2>2. CASE Len(shown) = l + 2
      <3>1. /\ l + 1 \in (l + 1)..Len(shown) /\ l + 2 \in (l + 1)..Len(shown)
            /\ l + 2 \in 2..Len(shown)
            /\ l + 2 # l + 1 /\ (l + 2) - 1 = l + 1 /\ l + 1 \in l..Len(shown)
            /\ l \in l..Len(shown)
        BY <1>13, <2>2
      <3>2. shown[l + 2].what = "result" /\ shown[l + 1].what = "call"
        BY <1>10, <1>16, <3>1
      <3>3. NextTo(shown[(l + 2) - 1], shown[l + 2])
        BY <1>10, <3>1 DEF Orderly
      <3>4. shown[l + 2].nr = shown[l + 1].nr + 1
        BY <3>1, <3>2, <3>3 DEF NextTo
      <3>5. shown[l + 1].nr \in r..n /\ shown[l + 2].nr = n
        BY <1>10, <2>2, <3>1
      <3>6. shown[l + 1].nr = n - 1 /\ n # r
        BY <1>12, <3>4, <3>5
      <3>7. shown[l + 1] = all[n - 1]
        BY <1>10, <3>1, <3>6
      <3> QED
        BY <2>2, <3>6, <3>7
    <2>3. Len(shown) = l \/ Len(shown) = l + 2
      BY <1>13, <1>17, <1>18
    <2> QED
      BY <2>1, <2>2, <2>3
  <1>20. all \in Seq(Messages)
    BY <1>2, <1>11
  <1>21. shown = Fit!MustStay(all, r)
    BY <1>2, <1>8, <1>12, <1>19, <1>20, NoMoreThanMustStay DEF l, f
  <1> QED
    BY <1>4, <1>21

LEMMA EndMediaFitGivesUpLast ==
    ASSUME FitConstants, RoomConstants, ToolRole, WorkInv, Fit!EndMediaFit
    PROVE  Fit!GivesUpLast'
  <1> DEFINE all == Fit!Rendered(chat)
             r == Fit!Request(chat)
             l == Fit!LastUser(shown)
             f == Fit!First(shown)
             n == Len(all)
  <1>1. /\ at' = (IF Fit!MediaFits THEN "generating" ELSE "exceeded") /\ chat' = chat
        /\ settings' = settings /\ at = "fitting" /\ settings.media
    BY DEF Fit!EndMediaFit, Fit!Dispatch
  <1>2. /\ FitTypes /\ shown \in Seq(Messages) /\ HasUser(shown) /\ Stays(shown, all, r)
        /\ chat \in Seq(Messages) /\ HasRequest(chat)
    BY <1>1, ShownIs DEF FitTypes
  <1>3. Fit!MustStay(Fit!Rendered(chat), Fit!Request(chat))' = Fit!MustStay(all, r)
    BY <1>1 DEF Fit!MustStay, Fit!Rendered
  <1> SUFFICES ASSUME ~Fit!MediaFits, settings.mode # "off"
               PROVE  Fit!Prompt(Fit!MustStay(all, r)) + (Fit!AnswerRoom - 1) >= Context
    BY <1>1, <1>3 DEF Fit!GivesUpLast, Fit!AnswerRoom
  <1>4. Fit!Prompt(shown) \in Nat /\ Fit!AnswerRoom \in Nat /\ Context \in Nat
    BY <1>2, PromptIs, RoomsAreNumbers DEF FitConstants
  <1>5. Fit!Prompt(shown) + (Fit!AnswerRoom - 1) >= Context
    BY <1>4 DEF Fit!MediaFits
  <1>6. f = l
    <2>1. ~(Fit!MediaTurnEnd > f)
      BY DEF Fit!EndMediaFit, Fit!MediaTurnCanGo
    <2>2. /\ Fit!MediaTurnEnd \in f..l
          /\ Fit!MediaTurnEnd = f => f = l
      BY <1>2, MediaTurnEndIs
    <2>3. f \in Int /\ l \in Int
      BY <1>2, FirstIs, LastUserIs
    <2> HIDE DEF f, l
    <2>4. Fit!MediaTurnEnd = f
      BY <2>1, <2>2, <2>3
    <2> QED
      BY <2>2, <2>4
  <1>7. /\ shown[l].what = "request" /\ shown[l].nr = r
        /\ \A i \in (l + 1)..Len(shown) : shown[i].what \in {"call", "result"}
        /\ \A i \in l..Len(shown) : shown[i].nr \in r..n /\ shown[i] = all[shown[i].nr]
    BY <1>2 DEF Stays
  <1>8. n = r /\ r \in 1..n /\ all \in Seq(Messages) /\ n \in Nat
    BY <1>1, <1>2, RenderedIs, RequestIs
  <1>9. l \in 1..Len(shown) /\ Len(shown) \in Nat
    BY <1>2, LastUserIs
  <1> HIDE DEF all, r, l, f
  <1>10. Len(shown) = l
    <2> SUFFICES ASSUME Len(shown) # l PROVE FALSE
      OBVIOUS
    <2>1. l + 1 \in (l + 1)..Len(shown) /\ l + 1 \in l..Len(shown) /\ l \in l..Len(shown)
      BY <1>9
    <2>2. /\ shown[l + 1].nr = r /\ shown[l + 1] = all[shown[l + 1].nr]
          /\ shown[l] = all[shown[l].nr]
      BY <1>7, <1>8, <2>1
    <2>3. shown[l + 1] = shown[l]
      BY <1>7, <2>2
    <2> QED
      BY <1>7, <2>1, <2>3
  <1>11. shown = Fit!MustStay(all, r)
    BY <1>2, <1>6, <1>8, <1>10, NoMoreThanMustStay DEF l, f
  <1> QED
    BY <1>5, <1>11

LEMMA GivesUpLastStays ==
    ASSUME FitConstants, RoomConstants, ToolRole, WorkInv, Fit!GivesUpLast, [Fit!Next]_(Fit!vars)
    PROVE  Fit!GivesUpLast'
  <1>1. CASE Fit!EndFit
    BY <1>1, EndFitGivesUpLast
  <1>2. CASE Fit!EndMediaFit
    BY <1>2, EndMediaFitGivesUpLast
  <1>3. CASE UNCHANGED Fit!vars
    <2>1. at' = at /\ chat' = chat /\ settings' = settings
      BY <1>3 DEF Fit!vars
    <2>2. Fit!MustStay(Fit!Rendered(chat), Fit!Request(chat))'
             = Fit!MustStay(Fit!Rendered(chat), Fit!Request(chat))
      BY <2>1 DEF Fit!MustStay, Fit!Rendered
    <2> QED
      BY <2>1, <2>2 DEF Fit!GivesUpLast
  <1>4. ASSUME \/ \E size \in RequestSizes : Fit!Ask(size)
               \/ Fit!LeaveResultOut \/ Fit!DropTurns \/ Fit!DropSteps \/ Fit!DropMediaTurn
               \/ \E size \in ResultSizes : Fit!AddStep(size)
               \/ Fit!Answer
        PROVE  at' # "exceeded"
    BY <1>4 DEF Fit!Ask, Fit!AddStep, Fit!Answer, Fit!Begin, Fit!LeaveResultOut,
       Fit!DropTurns, Fit!DropSteps, Fit!DropMediaTurn, Fit!MustShrink, Fit!Leave
  <1>5. at' # "exceeded" => Fit!GivesUpLast'
    BY DEF Fit!GivesUpLast
  <1> QED
    BY <1>1, <1>2, <1>3, <1>4, <1>5 DEF Fit!Next

LEMMA FitRun ==
    ASSUME FitConstants
    PROVE  SpecAll => []FitInv /\ [][Fit!Next]_(Fit!vars)
  <1>1. InitAll => FitInv
    BY FitBegins DEF InitAll
  <1>2. [NextAll]_allVars => [Fit!Next]_(Fit!vars)
    BY DEF NextAll, allVars, fitVars, Fit!vars
  <1>3. FitInv /\ [NextAll]_allVars => FitInv'
    BY <1>2, FitStays
  <1> QED
    BY <1>1, <1>2, <1>3, PTL DEF SpecAll

\* Conversations and what is shown of them keep their types: what is shown is
\* never longer, and a conversation not at rest has a request.
THEOREM ConversationTypes ==
    ASSUME FitConstants
    PROVE  SpecAll => []Fit!TypeOK
  <1>1. FitInv => Fit!TypeOK
    BY DEF FitInv, FitTypes, Fit!TypeOK
  <1> QED
    BY <1>1, FitRun, PTL

\* "Earlier turns are not given up for room that dropping them cannot make"
\* (room_to_keep): if the answer alone had fitted and turns went all the same,
\* the room for thinking is there in the end, in every mode, with media or not.
THEOREM TurnsBuy ==
    ASSUME FitConstants
    PROVE  SpecAll => []TurnsBuyRoom
  <1>1. FitInv => TurnsBuyRoom
    BY DEF FitInv, TurnsBuyRoom
  <1> QED
    BY <1>1, FitRun, PTL

\* The loops end (stream.rs, media.rs): each round makes the prompt smaller.
THEOREM RoundsFree ==
    ASSUME FitConstants
    PROVE  SpecAll => EveryRoundFrees
  <1>1. FitInv /\ [Fit!Next]_(Fit!vars) =>
           [at = "fitting" /\ shown' # shown => Fit!Prompt(shown') < Fit!Prompt(shown)]_(Fit!vars)
    BY FitStays
  <1> QED
    BY <1>1, FitRun, PTL DEF EveryRoundFrees, Fit!EveryRoundFrees

LEMMA WorkRun ==
    ASSUME FitConstants, ToolRole
    PROVE  SpecAll => []WorkInv /\ [][Fit!Next]_(Fit!vars)
  <1>1. InitAll => WorkInv
    BY WorkBegins DEF InitAll
  <1>2. [NextAll]_allVars => [Fit!Next]_(Fit!vars)
    BY DEF NextAll, allVars, fitVars, Fit!vars
  <1>3. WorkInv /\ [NextAll]_allVars => WorkInv'
    BY <1>2, WorkGoesOn
  <1> QED
    BY <1>1, <1>2, <1>3, PTL DEF SpecAll

\* "The current request always stays", and with it the system message, the newest
\* step and the call of each result that is shown (chat.rs, chat_completions.md),
\* for templates with a role for tool results.
THEOREM WorkIsThere ==
    ASSUME FitConstants, ToolRole
    PROVE  SpecAll => []WorkStays
  <1>1. WorkInv => WorkStays
    BY WorkIsKept DEF WorkStays
  <1> QED
    BY <1>1, WorkRun, PTL

\* A request fails for its size only when what must stay does not fit: all else
\* was taken away first, however the mode shares the context.
THEOREM LastResort ==
    ASSUME FitConstants, RoomConstants, ToolRole
    PROVE  SpecAll => []GivesUpLast
  <1>1. InitAll => Fit!GivesUpLast
    BY DEF InitAll, Fit!Init, Fit!GivesUpLast
  <1>2. WorkInv /\ Fit!GivesUpLast /\ [Fit!Next]_(Fit!vars) => Fit!GivesUpLast'
    BY GivesUpLastStays
  <1>3. Fit!GivesUpLast => GivesUpLast
    BY DEF GivesUpLast
  <1>4. SpecAll => InitAll
    BY DEF SpecAll
  <1> QED
    BY <1>1, <1>2, <1>3, <1>4, WorkRun, PTL

-----------------------------------------------------------------------------
(* The models. A request writes a file of its own model only, so that the   *)
(* invariant says of each request what its file holds, and what it leaves.  *)

\* "pull" refuses a name that is being pulled, and so two pulls of one model
\* only if the model has one name. With a second name they share the .part.
OneNameEach == \A a, b \in Names : ModelOf[a] = ModelOf[b] => a = b

\* What the theorems assume of the constants: a plan has a file, each model one
\* name, and None is no file.
SupplyConstants ==
    /\ Listed \in Nat \ {0} /\ Helpers \in Nat /\ Size \in Nat /\ MaxCrashes \in Nat
    /\ ModelOf \in [Names -> Models] /\ OneNameEach
    /\ None \notin Seq(Nat)

\* The first n pieces of a file.
UpTo(n) == [i \in 1..n |-> i]
Trying == {"ask", "sent", "stream", "retry", "rename", "gaveup", "aborted"}
Steps == Trying \cup {"idle", "resolve", "file", "load", "save"}
Pull == [step : Steps, name : Names \cup {None}, idx : 0..(Supply!Count + 1), at : 0..Size,
         from : 0..Size, grows : BOOLEAN, on : {"part", "gone"}, fails : Nat, abort : BOOLEAN,
         created : SUBSET Supply!Files, had : SUBSET Supply!Files, read : SUBSET Models]

\* The file at hand is one of the plan, when the step is about a file.
Placed(q) ==
    /\ q.step \notin {"idle", "resolve"} => q.idx >= 1
    /\ q.step \in Trying => q.idx <= Supply!Count
    /\ Helpers = 0 /\ q.step = "aborted" => q.idx <= Listed

\* The requests, and that each name is pulled by one of them.
PullsFit ==
    /\ pull \in [Pulls -> Pull] /\ pulling \subseteq Names
    /\ \A p \in Pulls : /\ Supply!At(p, "idle") => pull[p] = Supply!NoPull
                        /\ ~Supply!At(p, "idle") => pull[p].name \in pulling
                        /\ Placed(pull[p])
    /\ \A p, q \in Pulls :
          ~Supply!At(p, "idle") /\ ~Supply!At(q, "idle") /\ pull[p].name = pull[q].name => p = q

\* A .part is the beginning of its file, a finished file is all of it.
FilesFit ==
    /\ part \in [Supply!Files -> {UpTo(n) : n \in 0..Size} \cup {None}]
    /\ dest \in [Supply!Files -> {Supply!Whole, None}]
    /\ dirs \subseteq Models
    /\ \A f \in Supply!Files : (part[f] # None \/ dest[f] # None) => f[1] \in dirs
RecordsFit ==
    /\ registry \subseteq Models
    /\ removal \in [step : {"idle", "load", "save"}, model : Models \cup {None}, read : SUBSET Models]
    /\ crashes \in 0..MaxCrashes

\* The .part at hand holds what the request takes it to hold, or was removed.
Holds(p) ==
    /\ Supply!At(p, "sent") => part[Supply!File(p)] \in {None, UpTo(pull[p].at)}
    /\ Supply!At(p, "stream") =>
          part[Supply!File(p)] = IF pull[p].on = "part" THEN UpTo(pull[p].at) ELSE None
    /\ Supply!At(p, "rename") => part[Supply!File(p)] \in {None, Supply!Whole}

\* What was not there before is the .part at hand or a file the request created,
\* and once it was stopped only the latter.
LeavesNothing(p) ==
    pull[p].step \notin {"idle", "resolve"} =>
      \A f \in Supply!Files \ pull[p].had : f[1] = Supply!ModelWanted(p) =>
        /\ part[f] # None => pull[p].step \in Trying \ {"aborted"} /\ f = Supply!File(p)
        /\ dest[f] # None => f \in pull[p].created
OwnFiles(p) == ~Supply!At(p, "idle") => \A f \in pull[p].created : f[1] = Supply!ModelWanted(p)
Follows(p) == Holds(p) /\ LeavesNothing(p) /\ OwnFiles(p)

SupplyInv == PullsFit /\ FilesFit /\ RecordsFit /\ \A p \in Pulls : Follows(p)

\* What a file holds while it grows, piece after piece or written over.
LEMMA Pieces ==
    ASSUME SupplyConstants
    PROVE  /\ \A n \in Nat : UpTo(n) \in Seq(Nat) /\ Len(UpTo(n)) = n /\ UpTo(n) # None
           /\ Supply!Whole = UpTo(Size) /\ UpTo(0) = <<>>
           /\ \A n \in Nat, grows \in BOOLEAN : Supply!Written(UpTo(n), n + 1, grows) = UpTo(n + 1)
  <1>1. \A n \in Nat : UpTo(n) \in Seq(Nat) /\ Len(UpTo(n)) = n
    BY DEF UpTo
  <1>2. \A n \in Nat : UpTo(n) # None
    BY <1>1 DEF SupplyConstants
  <1>3. Supply!Whole = UpTo(Size) /\ UpTo(0) = <<>>
    BY DEF Supply!Whole, UpTo
  <1>4. ASSUME NEW n \in Nat
        PROVE  /\ Supply!Written(UpTo(n), n + 1, TRUE) = UpTo(n + 1)
               /\ Supply!Written(UpTo(n), n + 1, FALSE) = UpTo(n + 1)
    <2>1. Append(UpTo(n), n + 1) = UpTo(n + 1)
      BY DEF UpTo
    <2>2. Supply!Written(UpTo(n), n + 1, FALSE) = UpTo(n + 1)
      BY <1>1 DEF Supply!Written, UpTo
    <2> QED
      BY <2>1, <2>2 DEF Supply!Written
  <1> QED
    BY <1>1, <1>2, <1>3, <1>4

\* No two pulls are of one model.
LEMMA OwnModel ==
    ASSUME SupplyConstants, PullsFit, NEW p \in Pulls, ~Supply!At(p, "idle")
    PROVE  /\ Supply!ModelWanted(p) \in Models
           /\ pull[p].idx \in 1..Supply!Count =>
                 Supply!File(p) \in Supply!Files /\ Supply!File(p)[1] = Supply!ModelWanted(p)
           /\ pull[p].step \in Trying => pull[p].idx \in 1..Supply!Count
           /\ \A q \in Pulls : q # p /\ ~Supply!At(q, "idle") =>
                 Supply!ModelWanted(q) # Supply!ModelWanted(p)
  <1>1. \A q \in Pulls : ~Supply!At(q, "idle") => pull[q].name \in Names
    BY DEF PullsFit
  <1>2. Supply!ModelWanted(p) \in Models
    BY <1>1 DEF SupplyConstants, Supply!ModelWanted
  <1>3. pull[p].step \in Trying => pull[p].idx \in 1..Supply!Count
    BY DEF PullsFit, Pull, Placed, Trying, SupplyConstants, Supply!Count
  <1>4. \A q \in Pulls : q # p /\ ~Supply!At(q, "idle") =>
           Supply!ModelWanted(q) # Supply!ModelWanted(p)
    BY <1>1 DEF SupplyConstants, OneNameEach, Supply!ModelWanted, PullsFit
  <1> QED
    BY <1>2, <1>3, <1>4 DEF Supply!File, Supply!Files

\* So no other pull writes the file that is renamed or removed.
LEMMA MovedIsSet ==
    ASSUME SupplyConstants, PullsFit, NEW p \in Pulls, pull[p].step \in Trying, NEW where, NEW new,
           Supply!Moved(Supply!File(p), where, Supply!One(p, new))
    PROVE  Supply!Set(p, new)
  <1>1. ~Supply!At(p, "idle")
    BY DEF Supply!At, Trying
  <1>2. \A q \in Pulls : q # p /\ ~Supply!At(q, "idle") => Supply!File(q) # Supply!File(p)
    <2>1. \A q \in Pulls : Supply!File(q)[1] = Supply!ModelWanted(q)
      BY DEF Supply!File
    <2> QED
      BY <1>1, <2>1, OwnModel
  <1>3. \A q \in Pulls : Supply!At(q, "stream") => ~Supply!At(q, "idle")
    BY DEF Supply!At
  <1>4. DOMAIN Supply!One(p, new) = {p} /\ Supply!One(p, new)[p] = new
    BY DEF Supply!One
  <1>5. pull' = [q \in Pulls |-> IF q = p THEN new ELSE pull[q]]
    BY <1>2, <1>3, <1>4 DEF Supply!Moved
  <1> QED
    BY <1>5 DEF Supply!Set, PullsFit

\* A request goes on: nothing changes for the others.
LEMMA GoesOn ==
    ASSUME PullsFit, NEW p \in Pulls, ~Supply!At(p, "idle"), NEW new \in Pull, Supply!Set(p, new),
           new.name = pull[p].name, new.step # "idle", Placed(new), UNCHANGED pulling
    PROVE  PullsFit' /\ pull'[p] = new /\ \A q \in Pulls : q # p => pull'[q] = pull[q]
  <1>1. pull' \in [Pulls -> Pull] /\ pull'[p] = new /\ \A q \in Pulls : q # p => pull'[q] = pull[q]
    BY DEF PullsFit, Supply!Set
  <1> QED
    BY <1>1 DEF PullsFit, Supply!At

LEMMA NoPullFits ==
    ASSUME SupplyConstants
    PROVE  Supply!NoPull \in Pull /\ Supply!NoPull.step = "idle" /\ Placed(Supply!NoPull)
  BY DEF Supply!NoPull, Pull, Placed, Trying, Steps, SupplyConstants, Supply!Count

LEMMA Ends ==
    ASSUME PullsFit, SupplyConstants, NEW p \in Pulls, ~Supply!At(p, "idle"), Supply!Finish(p)
    PROVE  PullsFit' /\ pull'[p] = Supply!NoPull /\ \A q \in Pulls : q # p => pull'[q] = pull[q]
  <1>1. Supply!NoPull \in Pull /\ Supply!NoPull.step = "idle" /\ Placed(Supply!NoPull)
    BY NoPullFits
  <1>2. pull' \in [Pulls -> Pull] /\ pull'[p] = Supply!NoPull /\ \A q \in Pulls : q # p => pull'[q] = pull[q]
    BY <1>1 DEF PullsFit, Supply!Finish, Supply!Set
  <1>3. pulling' = pulling \ {pull[p].name}
    BY DEF Supply!Finish
  <1> QED
    BY <1>1, <1>2, <1>3 DEF PullsFit, Supply!At

\* A request that is not of the model that changes follows as before.
LEMMA OthersFollow ==
    ASSUME SupplyConstants, SupplyInv, NEW p \in Pulls, ~Supply!At(p, "idle"), NEW q \in Pulls, q # p, 
           pull'[q] = pull[q],
           \A f \in Supply!Files : f[1] # Supply!ModelWanted(p) =>
              part'[f] = part[f] /\ dest'[f] = dest[f]
    PROVE  Follows(q)'
  <1>1. CASE Supply!At(q, "idle")
    BY <1>1 DEF Follows, Holds, LeavesNothing, OwnFiles, Supply!At
  <1>2. CASE ~Supply!At(q, "idle")
    <2>1. Supply!ModelWanted(q) # Supply!ModelWanted(p)
      BY <1>2, OwnModel DEF SupplyInv
    <2>2. \A f \in Supply!Files : f[1] = Supply!ModelWanted(q) =>
             part'[f] = part[f] /\ dest'[f] = dest[f]
      BY <2>1
    <2>3. Supply!ModelWanted(q)' = Supply!ModelWanted(q) /\ Supply!File(q)' = Supply!File(q)
      BY DEF Supply!ModelWanted, Supply!File
    <2>4. pull[q].step \in Trying =>
             Supply!File(q) \in Supply!Files /\ Supply!File(q)[1] = Supply!ModelWanted(q)
      BY <1>2, OwnModel DEF SupplyInv
    <2>5. Holds(q)'
      BY <2>2, <2>3, <2>4 DEF SupplyInv, Follows, Holds, Supply!At, Trying
    <2>6. LeavesNothing(q)'
      BY <2>2, <2>3 DEF SupplyInv, Follows, LeavesNothing
    <2>7. OwnFiles(q)'
      BY <2>3 DEF SupplyInv, Follows, OwnFiles, Supply!At
    <2> QED
      BY <2>5, <2>6, <2>7 DEF Follows
  <1> QED
    BY <1>1, <1>2

\* What a step of the request p has to show.
LEMMA StepFits ==
    ASSUME SupplyConstants, SupplyInv, NEW p \in Pulls, ~Supply!At(p, "idle"),
           PullsFit', FilesFit', RecordsFit', Follows(p)',
           \A q \in Pulls : q # p => pull'[q] = pull[q],
           \A f \in Supply!Files : f[1] # Supply!ModelWanted(p) =>
              part'[f] = part[f] /\ dest'[f] = dest[f]
    PROVE  SupplyInv'
  <1>1. \A q \in Pulls : q # p => Follows(q)'
    BY OthersFollow
  <1> QED
    BY <1>1 DEF SupplyInv

\* What a step of the request p that touches no file has to show.
LEMMA QuietStep ==
    ASSUME SupplyConstants, SupplyInv, NEW p \in Pulls, ~Supply!At(p, "idle"),
           UNCHANGED <<part, dest, registry, removal, crashes>>,
           dirs' = dirs \cup {Supply!ModelWanted(p)} \/ dirs' = dirs,
           \/ Supply!Finish(p)
           \/ \E new \in Pull : /\ Supply!Set(p, new) /\ pulling' = pulling
                               /\ new.name = pull[p].name /\ new.step # "idle" /\ Placed(new)
                               /\ Follows(p)'
    PROVE  SupplyInv'
  <1>1. RecordsFit'
    BY DEF SupplyInv, RecordsFit
  <1>2. FilesFit'
    <2>1. Supply!ModelWanted(p) \in Models
      BY OwnModel DEF SupplyInv
    <2> QED
      BY <2>1 DEF SupplyInv, FilesFit
  <1>3. CASE Supply!Finish(p)
    <2>1. PullsFit' /\ pull'[p] = Supply!NoPull /\ \A q \in Pulls : q # p => pull'[q] = pull[q]
      BY <1>3, Ends DEF SupplyInv
    <2>2. Follows(p)'
      BY <2>1 DEF Follows, Holds, LeavesNothing, OwnFiles, Supply!At, Supply!NoPull
    <2> QED
      BY <1>1, <1>2, <2>1, <2>2, StepFits
  <1>4. CASE ~Supply!Finish(p)
    <2>1. PICK new \in Pull : /\ Supply!Set(p, new) /\ pulling' = pulling
                              /\ new.name = pull[p].name /\ new.step # "idle" /\ Placed(new)
                              /\ Follows(p)'
      BY <1>4
    <2>2. PullsFit' /\ \A q \in Pulls : q # p => pull'[q] = pull[q]
      BY <2>1, GoesOn DEF SupplyInv
    <2> QED
      BY <1>1, <1>2, <2>1, <2>2, StepFits
  <1> QED
    BY <1>3, <1>4

\* The same for a step that changes the .part of its file.
LEMMA PartStep ==
    ASSUME SupplyConstants, SupplyInv, NEW p \in Pulls, pull[p].step \in Trying,
           NEW new \in Pull, Supply!Set(p, new), pulling' = pulling,
           new.name = pull[p].name, new.idx = pull[p].idx, new.had = pull[p].had,
           new.created = pull[p].created, new.step \in Trying, Placed(new),
           NEW v \in {UpTo(n) : n \in 0..Size} \cup {None}, part' = [part EXCEPT ![Supply!File(p)] = v],
           v # None => Supply!ModelWanted(p) \in dirs /\ new.step # "aborted",
           UNCHANGED <<dirs, dest, registry, removal, crashes>>,
           new.step = "sent" => v \in {None, UpTo(new.at)},
           new.step = "stream" => v = IF new.on = "part" THEN UpTo(new.at) ELSE None,
           new.step = "rename" => v \in {None, Supply!Whole}
    PROVE  SupplyInv'
  <1>1. ~Supply!At(p, "idle") /\ new.step # "idle" /\ pull[p].step \notin {"idle", "resolve"}
    BY DEF Supply!At, Trying
  <1>2. PullsFit' /\ pull'[p] = new /\ \A q \in Pulls : q # p => pull'[q] = pull[q]
    BY <1>1, GoesOn DEF SupplyInv
  <1>3. Supply!File(p) \in Supply!Files /\ Supply!File(p)[1] = Supply!ModelWanted(p)
    BY <1>1, OwnModel DEF SupplyInv
  <1>4. Supply!File(p)' = Supply!File(p) /\ Supply!ModelWanted(p)' = Supply!ModelWanted(p)
    BY <1>2 DEF Supply!File, Supply!ModelWanted
  <1>5. RecordsFit'
    BY DEF SupplyInv, RecordsFit
  <1>6. FilesFit'
    BY <1>3 DEF SupplyInv, FilesFit
  <1>7. part'[Supply!File(p)] = v /\ \A f \in Supply!Files : f # Supply!File(p) => part'[f] = part[f]
    BY <1>3 DEF SupplyInv, FilesFit
  <1>8. Holds(p)'
    BY <1>2, <1>4, <1>7 DEF Holds, Supply!At
  <1>9. LeavesNothing(p)'
    <2> SUFFICES ASSUME NEW f \in Supply!Files \ pull[p].had, f[1] = Supply!ModelWanted(p)
                 PROVE  /\ part'[f] # None => new.step # "aborted" /\ f = Supply!File(p)
                        /\ dest'[f] # None => f \in new.created
      BY <1>2, <1>4 DEF LeavesNothing
    <2>1. /\ part[f] # None => f = Supply!File(p)
          /\ dest[f] # None => f \in pull[p].created
      BY <1>1 DEF SupplyInv, Follows, LeavesNothing
    <2> QED
      BY <1>7, <2>1
  <1>10. OwnFiles(p)'
    BY <1>1, <1>2, <1>4 DEF SupplyInv, Follows, OwnFiles
  <1> QED
    BY <1>1, <1>2, <1>3, <1>5, <1>6, <1>7, <1>8, <1>9, <1>10, StepFits DEF Follows

\* What a request and its file are while it goes through a try.
LEMMA AtFile ==
    ASSUME SupplyConstants, SupplyInv, NEW p \in Pulls, pull[p].step \in Trying
    PROVE  /\ ~Supply!At(p, "idle") /\ pull[p] \in Pull /\ Placed(pull[p])
           /\ Supply!File(p) \in Supply!Files /\ Supply!File(p)[1] = Supply!ModelWanted(p)
           /\ part[Supply!File(p)] \in {UpTo(n) : n \in 0..Size} \cup {None}
           /\ Supply!Length(Supply!File(p)) \in 0..Size
           /\ part[Supply!File(p)] \in {None, UpTo(Supply!Length(Supply!File(p)))}
           /\ part[Supply!File(p)] # None => Supply!ModelWanted(p) \in dirs
           /\ [part EXCEPT ![Supply!File(p)] = part[Supply!File(p)]] = part
  <1>1. ~Supply!At(p, "idle") /\ pull[p] \in Pull /\ Placed(pull[p])
    BY DEF SupplyInv, PullsFit, Supply!At, Trying
  <1>2. Supply!File(p) \in Supply!Files /\ Supply!File(p)[1] = Supply!ModelWanted(p)
    BY <1>1, OwnModel DEF SupplyInv
  <1>3. /\ part[Supply!File(p)] \in {UpTo(n) : n \in 0..Size} \cup {None}
        /\ part[Supply!File(p)] # None => Supply!ModelWanted(p) \in dirs
        /\ [part EXCEPT ![Supply!File(p)] = part[Supply!File(p)]] = part
    BY <1>2 DEF SupplyInv, FilesFit
  <1>4. /\ Supply!Length(Supply!File(p)) \in 0..Size
        /\ part[Supply!File(p)] \in {None, UpTo(Supply!Length(Supply!File(p)))}
    <2>1. Size \in Nat
      BY DEF SupplyConstants
    <2>2. CASE part[Supply!File(p)] = None
      BY <2>1, <2>2 DEF Supply!Length
    <2>3. CASE part[Supply!File(p)] # None
      <3>1. PICK n \in 0..Size : part[Supply!File(p)] = UpTo(n)
        BY <1>3, <2>3
      <3>2. Len(UpTo(n)) = n
        BY <2>1, Pieces
      <3> QED
        BY <2>3, <3>1, <3>2 DEF Supply!Length
    <2> QED
      BY <2>2, <2>3
  <1> QED
    BY <1>1, <1>2, <1>3, <1>4

LEMMA BeginFits ==
    ASSUME SupplyConstants, SupplyInv, NEW p \in Pulls, Supply!Begin(p)
    PROVE  SupplyInv'
  <1>1. PICK n \in Names \ pulling : /\ pulling' = pulling \cup {n}
                                     /\ Supply!Set(p, [Supply!NoPull EXCEPT !.step = "resolve", !.name = n])
    BY DEF Supply!Begin
  <1> DEFINE new == [Supply!NoPull EXCEPT !.step = "resolve", !.name = n]
  <1>2. new \in Pull /\ new.step = "resolve" /\ new.name = n /\ Placed(new)
    <2>1. new \in Pull /\ new.step = "resolve" /\ new.name = n
      BY NoPullFits DEF Pull, Steps
    <2> QED
      BY <2>1 DEF Placed, Trying
  <1> HIDE DEF new
  <1>3. pull' = [pull EXCEPT ![p] = new]
    BY <1>1 DEF new, Supply!Set
  <1>4. pull' \in [Pulls -> Pull] /\ pull'[p] = new /\ \A q \in Pulls : q # p => pull'[q] = pull[q]
    BY <1>2, <1>3 DEF SupplyInv, PullsFit
  <1>5. PullsFit'
    <2>1. \A q \in Pulls : ~Supply!At(q, "idle") => pull[q].name # n
      BY DEF SupplyInv, PullsFit
    <2> QED
      BY <1>1, <1>2, <1>4, <2>1 DEF SupplyInv, PullsFit, Supply!At
  <1>6. UNCHANGED <<dirs, part, dest, registry, removal, crashes>>
    BY DEF Supply!Begin
  <1>7. FilesFit' /\ RecordsFit'
    BY <1>6 DEF SupplyInv, FilesFit, RecordsFit
  <1>8. Follows(p)'
    <2>1. new.created = {}
      BY DEF new, Supply!NoPull
    <2> QED
      BY <1>2, <1>4, <2>1 DEF Follows, Holds, LeavesNothing, OwnFiles, Supply!At
  <1>9. ASSUME NEW q \in Pulls, q # p PROVE Follows(q)'
    <2>1. Follows(q)
      BY DEF SupplyInv
    <2> QED
      BY <1>4, <1>6, <1>9, <2>1 DEF Follows, Holds, LeavesNothing, OwnFiles, Supply!At,
         Supply!File, Supply!ModelWanted
  <1> QED
    BY <1>5, <1>7, <1>8, <1>9 DEF SupplyInv

LEMMA AbortFits ==
    ASSUME SupplyConstants, SupplyInv, NEW p \in Pulls, Supply!Abort(p)
    PROVE  SupplyInv'
  <1> DEFINE new == [pull[p] EXCEPT !.abort = TRUE]
  <1>1. ~Supply!At(p, "idle") /\ Supply!Set(p, new)
    BY DEF Supply!Abort
  <1>2. pull[p] \in Pull /\ Placed(pull[p])
    BY DEF SupplyInv, PullsFit
  <1>3. /\ new \in Pull /\ new.name = pull[p].name /\ new.step = pull[p].step /\ new.idx = pull[p].idx
        /\ new.had = pull[p].had /\ new.created = pull[p].created
        /\ new.at = pull[p].at /\ new.on = pull[p].on
    BY <1>2 DEF Pull
  <1> HIDE DEF new
  <1>4. Placed(new) /\ new.step # "idle"
    BY <1>1, <1>2, <1>3 DEF Placed, Supply!At
  <1>5. UNCHANGED <<pulling, dirs, part, dest, registry, removal, crashes>>
    BY DEF Supply!Abort
  <1>6. pull'[p] = new
    BY <1>1 DEF Supply!Set, SupplyInv, PullsFit
  <1>7. Follows(p)'
    BY <1>3, <1>5, <1>6 DEF SupplyInv, Follows, Holds, LeavesNothing, OwnFiles, Supply!At,
       Supply!File, Supply!ModelWanted
  <1> QED
    BY <1>1, <1>3, <1>4, <1>5, <1>7, QuietStep

LEMMA ResolveFits ==
    ASSUME SupplyConstants, SupplyInv, NEW p \in Pulls, Supply!Resolve(p)
    PROVE  SupplyInv'
  <1>1. ~Supply!At(p, "idle") /\ UNCHANGED <<part, dest, registry, removal, crashes>>
    BY DEF Supply!Resolve, Supply!At
  <1>2. CASE Supply!Finish(p) /\ dirs' = dirs
    BY <1>1, <1>2, QuietStep
  <1>3. CASE ~(Supply!Finish(p) /\ dirs' = dirs)
    <2> DEFINE had == {f \in Supply!Files :
                         f[1] = Supply!ModelWanted(p) /\ (part[f] # None \/ dest[f] # None)}
               new == [pull[p] EXCEPT !.step = "file", !.idx = 1, !.had = had]
    <2>1. Supply!Set(p, new) /\ pulling' = pulling /\ dirs' = dirs \cup {Supply!ModelWanted(p)}
      BY <1>3 DEF Supply!Resolve
    <2>2. pull[p] \in Pull /\ had \in SUBSET Supply!Files /\ 1 \in 0..(Supply!Count + 1)
      BY DEF SupplyInv, PullsFit, SupplyConstants, Supply!Count
    <2> HIDE DEF had
    <2>3. /\ new \in Pull /\ new.name = pull[p].name /\ new.step = "file" /\ new.idx = 1
          /\ new.had = had /\ new.created = pull[p].created
      BY <2>2 DEF Pull, Steps
    <2> HIDE DEF new
    <2>4. Placed(new)
      BY <2>3 DEF Placed, Trying
    <2>5. pull'[p] = new
      BY <2>1 DEF Supply!Set, SupplyInv, PullsFit
    <2>6. Holds(p)'
      BY <2>3, <2>5 DEF Holds, Supply!At
    <2>7. LeavesNothing(p)'
      BY <1>1, <2>3, <2>5 DEF LeavesNothing, Supply!ModelWanted, had
    <2>8. OwnFiles(p)'
      BY <1>1, <2>3, <2>5 DEF SupplyInv, Follows, OwnFiles, Supply!ModelWanted
    <2> QED
      BY <1>1, <2>1, <2>3, <2>4, <2>6, <2>7, <2>8, QuietStep DEF Follows
  <1> QED
    BY <1>2, <1>3

\* The next file: nothing is written, and a request leaves the loop with no
\* .part of its own.
LEMMA NextFileFits ==
    ASSUME SupplyConstants, SupplyInv, NEW p \in Pulls, Supply!NextFile(p)
    PROVE  SupplyInv'
  <1>1. /\ ~Supply!At(p, "idle") /\ Supply!At(p, "file")
        /\ UNCHANGED <<part, dest, registry, removal, crashes>>
    BY DEF Supply!NextFile, Supply!At
  <1>2. /\ pull[p] \in Pull /\ pull[p].idx \in 1..(Supply!Count + 1)
        /\ Supply!Count \in Nat /\ Supply!Count = Listed + Helpers
    BY <1>1 DEF SupplyInv, PullsFit, Placed, Pull, Supply!At, SupplyConstants, Supply!Count
  <1>3. dirs' = dirs \cup {Supply!ModelWanted(p)} \/ dirs' = dirs
    BY DEF Supply!NextFile
  <1>4. CASE Supply!Finish(p)
    BY <1>1, <1>3, <1>4, QuietStep
  <1>5. ASSUME NEW new \in Pull, Supply!Set(p, new), pulling' = pulling,
               new.name = pull[p].name, new.had = pull[p].had, new.created = pull[p].created,
               new.step \in {"file", "ask", "load", "aborted"}, Placed(new)
        PROVE  SupplyInv'
    <2>1. pull'[p] = new
      BY <1>5 DEF Supply!Set, SupplyInv, PullsFit
    <2>2. Holds(p)'
      BY <1>5, <2>1 DEF Holds, Supply!At
    <2>3. \A f \in Supply!Files \ pull[p].had : f[1] = Supply!ModelWanted(p) =>
             part[f] = None /\ (dest[f] # None => f \in pull[p].created)
      BY <1>1 DEF SupplyInv, Follows, LeavesNothing, Supply!At, Trying
    <2>4. LeavesNothing(p)'
      BY <1>1, <1>5, <2>1, <2>3 DEF LeavesNothing, Supply!ModelWanted
    <2>5. new.step # "idle"
      BY <1>5
    <2>6. OwnFiles(p)'
      BY <1>1, <1>5, <2>1 DEF SupplyInv, Follows, OwnFiles, Supply!ModelWanted
    <2> QED
      BY <1>1, <1>3, <1>5, <2>2, <2>4, <2>5, <2>6, QuietStep DEF Follows
  <1>6. CASE Supply!Go(p, "load") /\ pulling' = pulling
    <2> DEFINE new == [pull[p] EXCEPT !.step = "load"]
    <2>1. /\ new \in Pull /\ new.name = pull[p].name /\ new.had = pull[p].had
          /\ new.created = pull[p].created /\ new.step = "load" /\ new.idx = pull[p].idx
      BY <1>2 DEF Pull, Steps
    <2>2. Supply!Set(p, new)
      BY <1>6 DEF Supply!Go
    <2> HIDE DEF new
    <2>3. Placed(new)
      BY <1>2, <2>1 DEF Placed, Trying
    <2> QED
      BY <1>5, <1>6, <2>1, <2>2, <2>3
  <1>7. CASE /\ pull[p].idx <= Supply!Count /\ pulling' = pulling
             /\ Supply!Set(p, [pull[p] EXCEPT !.idx = @ + 1])
    <2> DEFINE new == [pull[p] EXCEPT !.idx = @ + 1]
    <2>1. pull[p].idx + 1 \in 0..(Supply!Count + 1)
      BY <1>2, <1>7
    <2>2. /\ new \in Pull /\ new.name = pull[p].name /\ new.had = pull[p].had
          /\ new.created = pull[p].created /\ new.step = "file" /\ new.idx = pull[p].idx + 1
      BY <1>1, <1>2, <2>1 DEF Pull, Steps, Supply!At
    <2>3. Supply!Set(p, new)
      BY <1>7
    <2> HIDE DEF new
    <2>4. Placed(new)
      BY <1>2, <2>2 DEF Placed, Trying
    <2> QED
      BY <1>5, <1>7, <2>2, <2>3, <2>4
  <1>8. CASE /\ pull[p].idx <= Supply!Count /\ pull[p].idx > Listed
             /\ Supply!Go(p, "aborted") /\ pulling' = pulling
    <2> DEFINE new == [pull[p] EXCEPT !.step = "aborted"]
    <2>1. /\ new \in Pull /\ new.name = pull[p].name /\ new.had = pull[p].had
          /\ new.created = pull[p].created /\ new.step = "aborted" /\ new.idx = pull[p].idx
      BY <1>2 DEF Pull, Steps, Trying
    <2>2. Supply!Set(p, new)
      BY <1>8 DEF Supply!Go
    <2> HIDE DEF new
    <2>3. Placed(new)
      BY <1>2, <1>8, <2>1 DEF Placed, Trying, SupplyConstants
    <2> QED
      BY <1>5, <1>8, <2>1, <2>2, <2>3
  <1>9. CASE /\ pull[p].idx <= Supply!Count /\ pulling' = pulling
             /\ Supply!Set(p, [pull[p] EXCEPT !.step = "ask", !.fails = 0])
    <2> DEFINE new == [pull[p] EXCEPT !.step = "ask", !.fails = 0]
    <2>1. /\ new \in Pull /\ new.name = pull[p].name /\ new.had = pull[p].had
          /\ new.created = pull[p].created /\ new.step = "ask" /\ new.idx = pull[p].idx
      BY <1>2 DEF Pull, Steps, Trying
    <2>2. Supply!Set(p, new)
      BY <1>9
    <2> HIDE DEF new
    <2>3. Placed(new)
      BY <1>2, <1>9, <2>1 DEF Placed, Trying
    <2> QED
      BY <1>5, <1>9, <2>1, <2>2, <2>3
  <1>10. ~(pull[p].idx > Supply!Count) => pull[p].idx <= Supply!Count
    BY <1>2
  <1> QED
    BY <1>4, <1>6, <1>7, <1>8, <1>9, <1>10 DEF Supply!NextFile

-----------------------------------------------------------------------------
(* A try. Unless it writes, its file stays as it was.                      *)

LEMMA NoWriteFits ==
    ASSUME SupplyConstants, SupplyInv, NEW p \in Pulls, pull[p].step \in Trying,
           NEW new \in Pull, Supply!Set(p, new),
           UNCHANGED <<pulling, dirs, part, dest, registry, removal, crashes>>,
           new.name = pull[p].name, new.idx = pull[p].idx, new.had = pull[p].had,
           new.created = pull[p].created, new.step \in Trying \ {"aborted"},
           new.step = "sent" => part[Supply!File(p)] \in {None, UpTo(new.at)},
           new.step = "stream" => part[Supply!File(p)] = IF new.on = "part" THEN UpTo(new.at) ELSE None,
           new.step = "rename" => part[Supply!File(p)] \in {None, Supply!Whole}
    PROVE  SupplyInv'
  <1> DEFINE v == part[Supply!File(p)]
  <1>1. /\ v \in {UpTo(n) : n \in 0..Size} \cup {None} /\ Placed(pull[p])
        /\ v # None => Supply!ModelWanted(p) \in dirs
        /\ part' = [part EXCEPT ![Supply!File(p)] = v]
    BY AtFile
  <1>2. Placed(new)
    BY <1>1 DEF Placed, Trying
  <1> HIDE DEF v
  <1>3. /\ new.step = "sent" => v \in {None, UpTo(new.at)}
        /\ new.step = "stream" => v = IF new.on = "part" THEN UpTo(new.at) ELSE None
        /\ new.step = "rename" => v \in {None, Supply!Whole}
    BY DEF v
  <1>4. new.step \in Trying /\ new.step # "aborted" /\ pulling' = pulling
        /\ UNCHANGED <<dirs, dest, registry, removal, crashes>>
    OBVIOUS
  <1> QED
    BY <1>1, <1>2, <1>3, <1>4, PartStep

LEMMA GivesUpFits ==
    ASSUME SupplyConstants, SupplyInv, NEW p \in Pulls, ~Supply!At(p, "idle"), Supply!Finish(p),
           UNCHANGED <<dirs, part, dest, registry, removal, crashes>>
    PROVE  SupplyInv'
  BY QuietStep

LEMMA AskFits ==
    ASSUME SupplyConstants, SupplyInv, NEW p \in Pulls, Supply!Ask(p)
    PROVE  SupplyInv'
  <1> DEFINE len == Supply!Length(Supply!File(p))
             new == [pull[p] EXCEPT !.step = "sent", !.at = len, !.from = len]
  <1>1. pull[p].step \in Trying /\ Supply!Set(p, new)
        /\ UNCHANGED <<pulling, dirs, part, dest, registry, removal, crashes>>
    BY DEF Supply!Ask, Supply!At, Trying
  <1>2. pull[p] \in Pull /\ len \in 0..Size /\ part[Supply!File(p)] \in {None, UpTo(len)}
    BY <1>1, AtFile
  <1> HIDE DEF len
  <1>3. /\ new \in Pull /\ new.name = pull[p].name /\ new.idx = pull[p].idx /\ new.had = pull[p].had
        /\ new.created = pull[p].created /\ new.step = "sent" /\ new.at = len
    BY <1>2 DEF Pull, Steps, Trying
  <1> HIDE DEF new
  <1>4. new.step \in Trying \ {"aborted"}
    BY <1>3 DEF Trying
  <1> QED
    BY <1>1, <1>2, <1>3, <1>4, NoWriteFits

\* The step alone changes.
LEMMA GoFits ==
    ASSUME SupplyConstants, SupplyInv, NEW p \in Pulls, pull[p].step \in Trying,
           NEW step \in {"retry", "rename", "gaveup", "ask"}, Supply!Go(p, step),
           step = "rename" => part[Supply!File(p)] \in {None, Supply!Whole},
           UNCHANGED <<pulling, dirs, part, dest, registry, removal, crashes>>
    PROVE  SupplyInv'
  <1> DEFINE new == [pull[p] EXCEPT !.step = step]
  <1>1. pull[p] \in Pull /\ Supply!Set(p, new)
    BY AtFile DEF Supply!Go
  <1>2. /\ new \in Pull /\ new.name = pull[p].name /\ new.idx = pull[p].idx /\ new.had = pull[p].had
        /\ new.created = pull[p].created /\ new.step = step
    BY <1>1 DEF Pull, Steps, Trying
  <1> HIDE DEF new
  <1>3. new.step \in Trying \ {"aborted"} /\ new.step # "sent" /\ new.step # "stream"
    BY <1>2 DEF Trying
  <1> QED
    BY <1>1, <1>2, <1>3, NoWriteFits

LEMMA NoFileFits ==
    ASSUME SupplyConstants, SupplyInv, NEW p \in Pulls, Supply!NoFile(p)
    PROVE  SupplyInv'
  <1>1. /\ pull[p].step \in Trying /\ ~Supply!At(p, "idle")
        /\ UNCHANGED <<dirs, part, dest, registry, removal, crashes>>
    BY DEF Supply!NoFile, Supply!At, Trying
  <1>2. CASE Supply!Go(p, "retry") /\ pulling' = pulling
    BY <1>1, <1>2, GoFits
  <1>3. CASE Supply!Finish(p)
    BY <1>1, <1>3, GivesUpFits
  <1> QED
    BY <1>2, <1>3 DEF Supply!NoFile

LEMMA GiveUpFits ==
    ASSUME SupplyConstants, SupplyInv, NEW p \in Pulls, Supply!GiveUp(p)
    PROVE  SupplyInv'
  BY GivesUpFits DEF Supply!GiveUp, Supply!At

LEMMA StreamEndFits ==
    ASSUME SupplyConstants, SupplyInv, NEW p \in Pulls, Supply!StreamEnd(p)
    PROVE  SupplyInv'
  <1> DEFINE step == IF pull[p].at = Size THEN "rename" ELSE "retry"
  <1>1. /\ Supply!At(p, "stream") /\ Supply!Go(p, step) /\ pull[p].step \in Trying
        /\ UNCHANGED <<pulling, dirs, part, dest, registry, removal, crashes>>
    BY DEF Supply!StreamEnd, Supply!At, Trying
  <1>2. step \in {"retry", "rename", "gaveup", "ask"}
    OBVIOUS
  <1>3. step = "rename" => part[Supply!File(p)] \in {None, Supply!Whole}
    BY <1>1, Pieces DEF SupplyInv, Follows, Holds
  <1> HIDE DEF step
  <1> QED
    BY <1>1, <1>2, <1>3, GoFits

\* The .part is removed.
LEMMA GoneFits ==
    ASSUME SupplyConstants, SupplyInv, NEW p \in Pulls, pull[p].step \in Trying,
           NEW step \in {"retry", "aborted"}, NEW fails \in Nat,
           step = "aborted" => pull[p].idx <= Listed \/ Helpers # 0,
           part' = [part EXCEPT ![Supply!File(p)] = None],
           Supply!Moved(Supply!File(p), "gone",
                        Supply!One(p, [pull[p] EXCEPT !.step = step, !.fails = fails])),
           UNCHANGED <<pulling, dirs, dest, registry, removal, crashes>>
    PROVE  SupplyInv'
  <1> DEFINE new == [pull[p] EXCEPT !.step = step, !.fails = fails]
  <1>1. pull[p] \in Pull /\ Placed(pull[p])
    BY AtFile
  <1>2. /\ new \in Pull /\ new.name = pull[p].name /\ new.idx = pull[p].idx /\ new.had = pull[p].had
        /\ new.created = pull[p].created /\ new.step = step
    BY <1>1 DEF Pull, Steps, Trying
  <1>3. Supply!Set(p, new)
    BY MovedIsSet DEF SupplyInv
  <1> HIDE DEF new
  <1>4. new.step \in Trying /\ new.step # "sent" /\ new.step # "stream" /\ new.step # "rename"
    BY <1>2 DEF Trying
  <1>5. Placed(new)
    BY <1>1, <1>2 DEF Placed, Trying
  <1>6. None \in {UpTo(n) : n \in 0..Size} \cup {None}
    OBVIOUS
  <1> QED
    BY <1>2, <1>3, <1>4, <1>5, <1>6, PartStep

LEMMA NotSatisfiableFits ==
    ASSUME SupplyConstants, SupplyInv, NEW p \in Pulls, Supply!NotSatisfiable(p)
    PROVE  SupplyInv'
  <1>1. /\ Supply!At(p, "sent") /\ pull[p].step \in Trying /\ pull[p].at >= Size
        /\ UNCHANGED <<pulling, dirs, dest, registry, removal, crashes>>
    BY DEF Supply!NotSatisfiable, Supply!At, Trying
  <1>2. pull[p].at = Size
    BY <1>1, AtFile DEF Pull, SupplyConstants
  <1>3. part[Supply!File(p)] \in {None, Supply!Whole}
    BY <1>1, <1>2, Pieces DEF SupplyInv, Follows, Holds
  <1>4. Supply!Go(p, "rename") /\ part' = part
    BY <1>2 DEF Supply!NotSatisfiable
  <1> QED
    BY <1>1, <1>3, <1>4, GoFits

LEMMA PartialFits ==
    ASSUME SupplyConstants, SupplyInv, NEW p \in Pulls, Supply!Partial(p)
    PROVE  SupplyInv'
  <1>1. /\ Supply!At(p, "sent") /\ ~Supply!At(p, "idle") /\ pull[p].step \in Trying
        /\ UNCHANGED <<dirs, part, dest, registry, removal, crashes>>
    BY DEF Supply!Partial, Supply!At, Trying
  <1>2. CASE part[Supply!File(p)] = None
    BY <1>1, <1>2, GivesUpFits DEF Supply!Partial
  <1>3. CASE part[Supply!File(p)] # None
    <2> DEFINE new == [pull[p] EXCEPT !.step = "stream", !.grows = TRUE, !.on = "part"]
    <2>1. pull[p] \in Pull
      BY <1>1, AtFile
    <2>2. /\ new \in Pull /\ new.name = pull[p].name /\ new.idx = pull[p].idx /\ new.had = pull[p].had
          /\ new.created = pull[p].created /\ new.step = "stream" /\ new.on = "part" /\ new.at = pull[p].at
      BY <2>1 DEF Pull, Steps, Trying
    <2>3. Supply!Set(p, new) /\ pulling' = pulling
      BY <1>3 DEF Supply!Partial
    <2> HIDE DEF new
    <2>4. part[Supply!File(p)] = UpTo(new.at)
      BY <1>1, <1>3, <2>2 DEF SupplyInv, Follows, Holds
    <2>5. new.step \in Trying \ {"aborted"}
      BY <2>2 DEF Trying
    <2> QED
      BY <1>1, <2>2, <2>3, <2>4, <2>5, NoWriteFits
  <1> QED
    BY <1>2, <1>3

LEMMA SameFails ==
    ASSUME SupplyConstants, SupplyInv, NEW p \in Pulls, NEW step \in Steps
    PROVE  /\ pull[p].fails \in Nat
           /\ [pull[p] EXCEPT !.step = step] = [pull[p] EXCEPT !.step = step, !.fails = pull[p].fails]
  <1>1. pull[p] \in Pull
    BY DEF SupplyInv, PullsFit
  <1> QED
    BY <1>1 DEF Pull

LEMMA OtherPartFits ==
    ASSUME SupplyConstants, SupplyInv, NEW p \in Pulls, Supply!OtherPart(p)
    PROVE  SupplyInv'
  <1>1. "retry" \in Steps /\ pull[p].step \in Trying
    BY DEF Steps, Trying, Supply!OtherPart, Supply!At
  <1> QED
    BY <1>1, SameFails, GoneFits DEF Supply!OtherPart

LEMMA StopFits ==
    ASSUME SupplyConstants, SupplyInv, NEW p \in Pulls, Supply!Stop(p)
    PROVE  SupplyInv'
  <1>1. "aborted" \in Steps /\ pull[p].step \in Trying
    BY DEF Steps, Trying, Supply!Stop, Supply!At
  <1>2. pull[p].idx <= Listed \/ Helpers # 0
    BY <1>1, OwnModel DEF SupplyInv, PullsFit, Pull, Placed, SupplyConstants, Supply!Count
  <1> QED
    BY <1>1, <1>2, SameFails, GoneFits DEF Supply!Stop

LEMMA RetryFits ==
    ASSUME SupplyConstants, SupplyInv, NEW p \in Pulls, Supply!Retry(p)
    PROVE  SupplyInv'
  <1> DEFINE n == Supply!Failures(p, Supply!Length(Supply!File(p)) > pull[p].from)
  <1>1. /\ pull[p].step \in Trying
        /\ UNCHANGED <<pulling, dirs, dest, registry, removal, crashes>>
    BY DEF Supply!Retry, Supply!At, Trying
  <1>2. pull[p] \in Pull /\ n \in Nat
    <2>1. pull[p] \in Pull /\ pull[p].fails \in Nat
      BY <1>1, AtFile DEF Pull
    <2> QED
      BY <2>1 DEF Supply!Failures
  <1>3. \/ Supply!Set(p, [[pull[p] EXCEPT !.fails = n] EXCEPT !.step = "gaveup"]) /\ part' = part
        \/ /\ part' = [part EXCEPT ![Supply!File(p)] = None]
           /\ Supply!Moved(Supply!File(p), "gone",
                 Supply!One(p, [[pull[p] EXCEPT !.fails = n] EXCEPT !.step = "aborted"]))
        \/ Supply!Set(p, [[pull[p] EXCEPT !.fails = n] EXCEPT !.step = "ask"]) /\ part' = part
    BY DEF Supply!Retry
  <1> HIDE DEF n
  <1>4. \A step : [[pull[p] EXCEPT !.fails = n] EXCEPT !.step = step]
                    = [pull[p] EXCEPT !.step = step, !.fails = n]
    BY <1>2 DEF Pull
  <1>5. ASSUME NEW step \in {"gaveup", "ask"}, part' = part,
               Supply!Set(p, [[pull[p] EXCEPT !.fails = n] EXCEPT !.step = step])
        PROVE  SupplyInv'
    <2> DEFINE new == [pull[p] EXCEPT !.step = step, !.fails = n]
    <2>1. /\ new \in Pull /\ new.name = pull[p].name /\ new.idx = pull[p].idx /\ new.had = pull[p].had
          /\ new.created = pull[p].created /\ new.step = step
      BY <1>2 DEF Pull, Steps, Trying
    <2>2. Supply!Set(p, new)
      BY <1>4, <1>5
    <2> HIDE DEF new
    <2>3. /\ new.step \in Trying \ {"aborted"}
          /\ new.step # "sent" /\ new.step # "stream" /\ new.step # "rename"
      BY <2>1 DEF Trying
    <2> QED
      BY <1>1, <1>5, <2>1, <2>2, <2>3, NoWriteFits
  <1>6. ASSUME part' = [part EXCEPT ![Supply!File(p)] = None],
               Supply!Moved(Supply!File(p), "gone",
                  Supply!One(p, [[pull[p] EXCEPT !.fails = n] EXCEPT !.step = "aborted"]))
        PROVE  SupplyInv'
    <2>1. pull[p].idx <= Listed \/ Helpers # 0
      BY <1>1, OwnModel DEF SupplyInv, PullsFit, Pull, Placed, SupplyConstants,
         Supply!Count, Supply!At, Trying
    <2>2. Supply!Moved(Supply!File(p), "gone",
                       Supply!One(p, [pull[p] EXCEPT !.step = "aborted", !.fails = n]))
      BY <1>4, <1>6
    <2> QED
      BY <1>1, <1>2, <1>6, <2>1, <2>2, GoneFits
  <1> QED
    BY <1>3, <1>5, <1>6

LEMMA WholeFileFits ==
    ASSUME SupplyConstants, SupplyInv, NEW p \in Pulls, Supply!WholeFile(p)
    PROVE  SupplyInv'
  <1>1. /\ pull[p].step \in Trying /\ ~Supply!At(p, "idle")
        /\ UNCHANGED <<dirs, dest, registry, removal, crashes>>
    BY DEF Supply!WholeFile, Supply!At, Trying
  <1>2. CASE Supply!ModelWanted(p) \notin dirs
    BY <1>1, <1>2, GivesUpFits DEF Supply!WholeFile
  <1>3. CASE Supply!ModelWanted(p) \in dirs
    <2> DEFINE new == [pull[p] EXCEPT !.step = "stream", !.at = 0, !.grows = FALSE, !.on = "part"]
    <2>1. pull[p] \in Pull /\ Placed(pull[p]) /\ 0 \in 0..Size
      BY <1>1, AtFile DEF SupplyConstants
    <2>2. /\ new \in Pull /\ new.name = pull[p].name /\ new.idx = pull[p].idx /\ new.had = pull[p].had
          /\ new.created = pull[p].created /\ new.step = "stream" /\ new.on = "part" /\ new.at = 0
      BY <2>1 DEF Pull, Steps, Trying
    <2>3. Supply!Set(p, new) /\ pulling' = pulling /\ part' = [part EXCEPT ![Supply!File(p)] = UpTo(0)]
      BY <1>3, Pieces DEF Supply!WholeFile
    <2> HIDE DEF new
    <2>4. new.step \in Trying /\ Placed(new)
      BY <1>1, <2>1, <2>2 DEF Trying, Placed
    <2>5. UpTo(0) \in {UpTo(n) : n \in 0..Size} \cup {None}
      BY <2>1
    <2> QED
      BY <1>1, <1>3, <2>2, <2>3, <2>4, <2>5, PartStep
  <1> QED
    BY <1>2, <1>3

LEMMA PieceFits ==
    ASSUME SupplyConstants, SupplyInv, NEW p \in Pulls, Supply!Piece(p)
    PROVE  SupplyInv'
  <1> DEFINE new == [pull[p] EXCEPT !.at = @ + 1]
  <1>1. /\ Supply!At(p, "stream") /\ pull[p].at < Size /\ Supply!Set(p, new)
        /\ pull[p].step \in Trying /\ ~Supply!At(p, "idle")
        /\ UNCHANGED <<pulling, dirs, registry, removal, crashes>>
    BY DEF Supply!Piece, Supply!At, Trying
  <1>2. /\ pull[p] \in Pull /\ Placed(pull[p]) /\ Size \in Nat /\ Supply!File(p) \in Supply!Files
        /\ part[Supply!File(p)] # None => Supply!ModelWanted(p) \in dirs
        /\ [part EXCEPT ![Supply!File(p)] = part[Supply!File(p)]] = part
    BY <1>1, AtFile DEF SupplyConstants
  <1>3. /\ pull[p].at \in Nat /\ pull[p].at + 1 \in 0..Size /\ pull[p].on \in {"part", "gone"}
        /\ pull[p].grows \in BOOLEAN
    BY <1>1, <1>2 DEF Pull
  <1>4. part[Supply!File(p)] = IF pull[p].on = "part" THEN UpTo(pull[p].at) ELSE None
    BY <1>1 DEF SupplyInv, Follows, Holds
  <1> DEFINE v == IF pull[p].on = "part" THEN UpTo(pull[p].at + 1) ELSE None
  <1>5. part' = [part EXCEPT ![Supply!File(p)] = v]
    <2>1. CASE pull[p].on = "part"
      <3>1. part' = [part EXCEPT ![Supply!File(p)] =
                       Supply!Written(part[Supply!File(p)], pull[p].at + 1, pull[p].grows)]
        BY <2>1 DEF Supply!Piece
      <3>2. Supply!Written(UpTo(pull[p].at), pull[p].at + 1, pull[p].grows) = UpTo(pull[p].at + 1)
        BY <1>3, Pieces
      <3> QED
        BY <1>4, <2>1, <3>1, <3>2
    <2>2. CASE pull[p].on # "part"
      BY <1>2, <1>4, <2>2 DEF Supply!Piece
    <2> QED
      BY <2>1, <2>2
  <1>6. dest' = dest
    BY <1>3 DEF Supply!Piece
  <1>7. /\ new \in Pull /\ new.name = pull[p].name /\ new.idx = pull[p].idx /\ new.had = pull[p].had
        /\ new.created = pull[p].created /\ new.step = "stream" /\ new.on = pull[p].on
        /\ new.at = pull[p].at + 1
    BY <1>1, <1>2, <1>3 DEF Pull, Supply!At
  <1>8. v \in {UpTo(n) : n \in 0..Size} \cup {None} /\ (v # None => Supply!ModelWanted(p) \in dirs)
    <2>1. UpTo(pull[p].at) # None
      BY <1>3, Pieces
    <2> QED
      BY <1>2, <1>3, <1>4, <2>1
  <1> HIDE DEF new
  <1>9. v = IF new.on = "part" THEN UpTo(new.at) ELSE None
    BY <1>7
  <1>10. new.step \in Trying /\ Placed(new)
    BY <1>1, <1>2, <1>7 DEF Trying, Placed
  <1> HIDE DEF v
  <1> QED
    BY <1>1, <1>5, <1>6, <1>7, <1>8, <1>9, <1>10, PartStep

-----------------------------------------------------------------------------
(* The end of a file and of a pull, and what is not of one request.        *)

LEMMA RenameFits ==
    ASSUME SupplyConstants, SupplyInv, NEW p \in Pulls, Supply!Rename(p)
    PROVE  SupplyInv'
  <1> DEFINE f == Supply!File(p)
             new == [pull[p] EXCEPT !.step = "file", !.idx = @ + 1, !.created = @ \cup {f}]
  <1>1. /\ Supply!At(p, "rename") /\ ~Supply!At(p, "idle") /\ pull[p].step \in Trying
        /\ pull[p].step \notin {"idle", "resolve"} /\ UNCHANGED <<dirs, registry, removal, crashes>>
    BY DEF Supply!Rename, Supply!At, Trying
  <1>2. CASE part[f] = None
    BY <1>1, <1>2, GivesUpFits DEF Supply!Rename
  <1>3. CASE part[f] # None
    <2>1. /\ dest' = [dest EXCEPT ![f] = part[f]] /\ part' = [part EXCEPT ![f] = None]
          /\ pulling' = pulling /\ Supply!Moved(f, "dest", Supply!One(p, new))
      BY <1>3 DEF Supply!Rename
    <2>2. Supply!Set(p, new)
      BY <1>1, <2>1, MovedIsSet DEF SupplyInv
    <2>3. /\ pull[p] \in Pull /\ f \in Supply!Files
          /\ f[1] = Supply!ModelWanted(p) /\ Supply!ModelWanted(p) \in dirs
      BY <1>1, <1>3, AtFile
    <2>4. part[f] = Supply!Whole
      BY <1>1, <1>3 DEF SupplyInv, Follows, Holds
    <2>5. pull[p].idx \in 1..Supply!Count /\ Supply!Count \in Nat
      BY <1>1, OwnModel DEF SupplyInv, SupplyConstants, Supply!Count
    <2>6. /\ new \in Pull /\ new.name = pull[p].name /\ new.idx = pull[p].idx + 1
          /\ new.had = pull[p].had /\ new.created = pull[p].created \cup {f} /\ new.step = "file"
      <3>1. pull[p].idx + 1 \in 0..(Supply!Count + 1) /\ pull[p].created \cup {f} \in SUBSET Supply!Files
        BY <2>3, <2>5 DEF Pull
      <3> QED
        BY <2>3, <3>1 DEF Pull, Steps
    <2> HIDE DEF new, f
    <2>7. Placed(new) /\ new.step # "idle"
      BY <2>5, <2>6 DEF Placed, Trying
    <2>8. PullsFit' /\ pull'[p] = new /\ \A q \in Pulls : q # p => pull'[q] = pull[q]
      BY <1>1, <2>1, <2>2, <2>6, <2>7, GoesOn DEF SupplyInv
    <2>9. FilesFit' /\ RecordsFit'
      BY <1>1, <2>1, <2>3, <2>4 DEF SupplyInv, FilesFit, RecordsFit
    <2>10. /\ part'[f] = None /\ \A g \in Supply!Files : g # f => part'[g] = part[g] /\ dest'[g] = dest[g]
      BY <2>1, <2>3 DEF SupplyInv, FilesFit
    <2>11. Supply!ModelWanted(p)' = Supply!ModelWanted(p)
      BY <2>6, <2>8 DEF Supply!ModelWanted
    <2>12. LeavesNothing(p)'
      <3>1. \A g \in Supply!Files \ pull[p].had : g[1] = Supply!ModelWanted(p) =>
               (part[g] # None => g = f) /\ (dest[g] # None => g \in pull[p].created)
        BY <1>1 DEF SupplyInv, Follows, LeavesNothing, f
      <3>2. \A g \in Supply!Files \ pull[p].had : g[1] = Supply!ModelWanted(p) =>
               part'[g] = None /\ (dest'[g] # None => g \in pull[p].created \cup {f})
        BY <2>10, <3>1
      <3> QED
        BY <2>6, <2>8, <2>11, <3>2 DEF LeavesNothing
    <2>13. OwnFiles(p)'
      BY <1>1, <2>3, <2>6, <2>8, <2>11 DEF SupplyInv, Follows, OwnFiles
    <2>14. Holds(p)'
      BY <2>6, <2>8 DEF Holds, Supply!At
    <2> QED
      BY <1>1, <2>3, <2>8, <2>9, <2>10, <2>12, <2>13, <2>14, StepFits DEF Follows
  <1> QED
    BY <1>2, <1>3

LEMMA CleanUpFits ==
    ASSUME SupplyConstants, SupplyInv, NEW p \in Pulls, Supply!CleanUp(p)
    PROVE  SupplyInv'
  <1> DEFINE m == Supply!ModelWanted(p)
  <1>1. /\ ~Supply!At(p, "idle") /\ Supply!Finish(p) /\ UNCHANGED <<part, registry, removal, crashes>>
    BY DEF Supply!CleanUp, Supply!At
  <1>2. PullsFit' /\ pull'[p] = Supply!NoPull /\ \A q \in Pulls : q # p => pull'[q] = pull[q]
    BY <1>1, Ends DEF SupplyInv
  <1>3. /\ dest' \in [Supply!Files -> {Supply!Whole, None}]
        /\ \A f \in Supply!Files : dest'[f] = dest[f] \/ (dest'[f] = None /\ f \in pull[p].created)
    BY DEF Supply!CleanUp, SupplyInv, FilesFit
  <1>4. \/ dirs' = dirs
        \/ dirs' = dirs \ {m} /\ \A i \in 1..Supply!Count : dest'[<<m, i>>] = None /\ part[<<m, i>>] = None
    BY DEF Supply!CleanUp
  <1>5. FilesFit'
    <2>1. \A f \in Supply!Files : f = <<f[1], f[2]>> /\ f[2] \in 1..Supply!Count
      BY DEF Supply!Files
    <2>2. ASSUME NEW f \in Supply!Files, part'[f] # None \/ dest'[f] # None PROVE f[1] \in dirs'
      <3>1. part[f] # None \/ dest[f] # None
        BY <1>1, <1>3, <2>2
      <3>2. f[1] \in dirs
        BY <3>1 DEF SupplyInv, FilesFit
      <3>3. CASE f[1] = m
        <4>1. ~\A i \in 1..Supply!Count : dest'[<<m, i>>] = None /\ part[<<m, i>>] = None
          BY <1>1, <2>1, <2>2, <3>3
        <4> QED
          BY <1>4, <3>2, <4>1
      <3>4. CASE f[1] # m
        BY <1>4, <3>2, <3>4
      <3> QED
        BY <3>3, <3>4
    <2>3. dirs' \subseteq Models
      BY <1>4 DEF SupplyInv, FilesFit
    <2> QED
      BY <1>1, <1>3, <2>2, <2>3 DEF SupplyInv, FilesFit
  <1>6. RecordsFit'
    BY <1>1 DEF SupplyInv, RecordsFit
  <1>7. \A f \in Supply!Files : f[1] # m => part'[f] = part[f] /\ dest'[f] = dest[f]
    BY <1>1, <1>3 DEF SupplyInv, Follows, OwnFiles
  <1>8. Follows(p)'
    BY <1>2 DEF Follows, Holds, LeavesNothing, OwnFiles, Supply!At, Supply!NoPull
  <1> QED
    BY <1>1, <1>2, <1>5, <1>6, <1>7, <1>8, StepFits

LEMMA LoadFits ==
    ASSUME SupplyConstants, SupplyInv, NEW p \in Pulls, Supply!Load(p)
    PROVE  SupplyInv'
  <1> DEFINE read == {m \in registry : dest[<<m, 1>>] # None}
             new == [pull[p] EXCEPT !.step = "save", !.read = read]
  <1>1. /\ Supply!At(p, "load") /\ ~Supply!At(p, "idle") /\ Supply!Set(p, new)
        /\ UNCHANGED <<pulling, dirs, part, dest, registry, removal, crashes>>
    BY DEF Supply!Load, Supply!At
  <1>2. pull[p] \in Pull /\ Placed(pull[p]) /\ read \in SUBSET Models
    BY DEF SupplyInv, PullsFit, RecordsFit
  <1> HIDE DEF read
  <1>3. /\ new \in Pull /\ new.name = pull[p].name /\ new.idx = pull[p].idx /\ new.had = pull[p].had
        /\ new.created = pull[p].created /\ new.step = "save"
    BY <1>2 DEF Pull, Steps
  <1> HIDE DEF new
  <1>4. Placed(new)
    BY <1>1, <1>2, <1>3 DEF Placed, Supply!At, Trying
  <1>5. pull'[p] = new
    BY <1>1 DEF Supply!Set, SupplyInv, PullsFit
  <1>6. Holds(p)'
    BY <1>3, <1>5 DEF Holds, Supply!At
  <1>7. LeavesNothing(p)'
    BY <1>1, <1>3, <1>5 DEF SupplyInv, Follows, LeavesNothing, Supply!At, Trying,
       Supply!ModelWanted
  <1>8. OwnFiles(p)'
    BY <1>1, <1>3, <1>5 DEF SupplyInv, Follows, OwnFiles, Supply!ModelWanted
  <1> QED
    BY <1>1, <1>3, <1>4, <1>6, <1>7, <1>8, QuietStep DEF Follows

LEMMA SaveFits ==
    ASSUME SupplyConstants, SupplyInv, NEW p \in Pulls, Supply!Save(p)
    PROVE  SupplyInv'
  <1>1. ~Supply!At(p, "idle") /\ Supply!Finish(p) /\ UNCHANGED <<dirs, part, dest, removal, crashes>>
    BY DEF Supply!Save, Supply!At
  <1>2. PullsFit' /\ pull'[p] = Supply!NoPull /\ \A q \in Pulls : q # p => pull'[q] = pull[q]
    BY <1>1, Ends DEF SupplyInv
  <1>3. FilesFit'
    BY <1>1 DEF SupplyInv, FilesFit
  <1>4. pull[p] \in Pull /\ Supply!ModelWanted(p) \in Models
    BY <1>1, OwnModel DEF SupplyInv, PullsFit
  <1>5. RecordsFit'
    BY <1>1, <1>4 DEF Supply!Save, SupplyInv, RecordsFit, Pull
  <1>6. Follows(p)'
    BY <1>2 DEF Follows, Holds, LeavesNothing, OwnFiles, Supply!At, Supply!NoPull
  <1> QED
    BY <1>1, <1>2, <1>3, <1>5, <1>6, StepFits

LEMMA RemoveFolderFits ==
    ASSUME SupplyConstants, SupplyInv, Supply!RemoveFolder
    PROVE  SupplyInv'
  <1>1. PICK m \in registry :
          /\ removal' = [removal EXCEPT !.step = "load", !.model = m]
          /\ dirs' = dirs \ {m}
          /\ part' = [f \in Supply!Files |-> IF f[1] = m THEN None ELSE part[f]]
          /\ dest' = [f \in Supply!Files |-> IF f[1] = m THEN None ELSE dest[f]]
          /\ pull' = [p \in Pulls |-> IF Supply!At(p, "stream") /\ Supply!ModelWanted(p) = m
                                      THEN [pull[p] EXCEPT !.on = "gone"] ELSE pull[p]]
    BY DEF Supply!RemoveFolder
  <1>2. UNCHANGED <<pulling, registry, crashes>>
    BY DEF Supply!RemoveFolder
  <1>3. FilesFit'
    BY <1>1 DEF SupplyInv, FilesFit
  <1>4. RecordsFit'
    BY <1>1, <1>2 DEF SupplyInv, RecordsFit
  <1>5. ASSUME NEW p \in Pulls
        PROVE  /\ pull'[p] \in Pull
               /\ pull'[p].name = pull[p].name /\ pull'[p].step = pull[p].step
               /\ pull'[p].idx = pull[p].idx /\ pull'[p].at = pull[p].at
               /\ pull'[p].had = pull[p].had /\ pull'[p].created = pull[p].created
               /\ pull[p].step = "stream" /\ Supply!ModelWanted(p) = m => pull'[p].on = "gone"
               /\ pull[p].step # "stream" \/ Supply!ModelWanted(p) # m => pull'[p] = pull[p]
    <2>1. pull[p] \in Pull
      BY DEF SupplyInv, PullsFit
    <2> QED
      BY <1>1, <2>1 DEF Pull, Supply!At
  <1>6. PullsFit'
    <2>1. pull' \in [Pulls -> Pull]
      BY <1>1, <1>5
    <2>2. ASSUME NEW p \in Pulls
          PROVE  Supply!At(p, "idle")' = Supply!At(p, "idle") /\ Placed(pull[p])' = Placed(pull[p])
      BY <1>5 DEF Supply!At, Placed
    <2>3. ASSUME NEW p \in Pulls, Supply!At(p, "idle") PROVE pull'[p] = Supply!NoPull
      BY <1>1, <2>3 DEF SupplyInv, PullsFit, Supply!At
    <2> QED
      BY <1>2, <1>5, <2>1, <2>2, <2>3 DEF SupplyInv, PullsFit
  <1>7. ASSUME NEW p \in Pulls PROVE Follows(p)'
    <2>1. Supply!ModelWanted(p)' = Supply!ModelWanted(p) /\ Supply!File(p)' = Supply!File(p)
      BY <1>5 DEF Supply!ModelWanted, Supply!File
    <2>2. pull[p].step \in Trying =>
             Supply!File(p) \in Supply!Files /\ Supply!File(p)[1] = Supply!ModelWanted(p)
      BY AtFile
    <2>3. \A f \in Supply!Files : /\ part'[f] # None => part'[f] = part[f] /\ f[1] # m
                          /\ part'[f] \in {None, part[f]} /\ dest'[f] \in {None, dest[f]}
                          /\ (f[1] = m => part'[f] = None) /\ (f[1] # m => part'[f] = part[f])
      BY <1>1
    <2>4. OwnFiles(p)'
      BY <1>5, <2>1 DEF SupplyInv, Follows, OwnFiles, Supply!At
    <2>5. LeavesNothing(p)'
      <3>1. LeavesNothing(p)
        BY DEF SupplyInv, Follows
      <3>2. \A f \in Supply!Files :
               (part'[f] # None => part[f] # None) /\ (dest'[f] # None => dest[f] # None)
        BY <2>3
      <3> QED
        BY <1>5, <2>1, <3>1, <3>2 DEF LeavesNothing
    <2>6. Holds(p)'
      <3>1. CASE pull[p].step \in {"sent", "stream", "rename"}
        <4>1. Supply!File(p) \in Supply!Files /\ Supply!File(p)[1] = Supply!ModelWanted(p) /\ Holds(p)
          BY <2>2, <3>1 DEF SupplyInv, Follows, Trying
        <4>2. CASE Supply!ModelWanted(p) = m
          BY <1>5, <2>1, <2>3, <4>1, <4>2 DEF Holds, Supply!At
        <4>3. CASE Supply!ModelWanted(p) # m
          <5>1. pull'[p] = pull[p] /\ part'[Supply!File(p)] = part[Supply!File(p)]
            BY <1>5, <2>3, <4>1, <4>3
          <5> QED
            BY <2>1, <4>1, <5>1 DEF Holds, Supply!At
        <4> QED
          BY <4>2, <4>3
      <3>2. CASE pull[p].step \notin {"sent", "stream", "rename"}
        BY <1>5, <3>2 DEF Holds, Supply!At
      <3> QED
        BY <3>1, <3>2
    <2> QED
      BY <2>4, <2>5, <2>6 DEF Follows
  <1> QED
    BY <1>3, <1>4, <1>6, <1>7 DEF SupplyInv

LEMMA RemovalFits ==
    ASSUME SupplyConstants, SupplyInv, Supply!LoadToRemove \/ Supply!SaveRemoved
    PROVE  SupplyInv'
  <1>1. UNCHANGED <<pulling, pull, dirs, part, dest, crashes>>
    BY DEF Supply!LoadToRemove, Supply!SaveRemoved
  <1>2. PullsFit' /\ FilesFit'
    BY <1>1 DEF SupplyInv, PullsFit, FilesFit, Supply!At
  <1>3. RecordsFit'
    <2>1. CASE Supply!LoadToRemove
      BY <2>1 DEF Supply!LoadToRemove, SupplyInv, RecordsFit
    <2>2. CASE Supply!SaveRemoved
      BY <2>2 DEF Supply!SaveRemoved, SupplyInv, RecordsFit, Supply!NoRemoval
    <2> QED
      BY <2>1, <2>2
  <1>4. \A p \in Pulls : Follows(p)'
    BY <1>1 DEF SupplyInv, Follows, Holds, LeavesNothing, OwnFiles, Supply!At, Supply!File,
       Supply!ModelWanted
  <1> QED
    BY <1>2, <1>3, <1>4 DEF SupplyInv

LEMMA RestartFits ==
    ASSUME SupplyConstants, SupplyInv, Supply!Restart
    PROVE  SupplyInv'
  <1>1. /\ crashes < MaxCrashes /\ crashes' = crashes + 1 /\ pulling' = {} /\ removal' = Supply!NoRemoval
        /\ pull' = [p \in Pulls |-> Supply!NoPull] /\ UNCHANGED <<dirs, part, dest, registry>>
    BY DEF Supply!Restart
  <1>2. Supply!NoPull \in Pull /\ Supply!NoPull.step = "idle" /\ Placed(Supply!NoPull)
    BY NoPullFits
  <1>3. PullsFit'
    BY <1>1, <1>2 DEF PullsFit, Supply!At
  <1>4. FilesFit'
    BY <1>1 DEF SupplyInv, FilesFit
  <1>5. RecordsFit'
    BY <1>1 DEF SupplyInv, RecordsFit, Supply!NoRemoval, SupplyConstants
  <1>6. \A p \in Pulls : Follows(p)'
    BY <1>1, <1>2 DEF Follows, Holds, LeavesNothing, OwnFiles, Supply!At
  <1> QED
    BY <1>3, <1>4, <1>5, <1>6 DEF SupplyInv

\* Only its own steps change a pull that is not streaming.
LEMMA Untouched ==
    ASSUME SupplyInv, NEW p \in Pulls, NEW q \in Pulls, p # q, ~Supply!At(p, "stream"),
           Supply!Begin(q) \/ Supply!Abort(q) \/ Supply!PullStep(q)
    PROVE  pull'[p] = pull[p]
  <1>1. pull \in [Pulls -> Pull]
    BY DEF SupplyInv, PullsFit
  <1>2. ASSUME NEW new, Supply!Set(q, new) PROVE pull'[p] = pull[p]
    BY <1>1, <1>2 DEF Supply!Set
  <1>3. ASSUME NEW f, NEW where, NEW new, Supply!Moved(f, where, Supply!One(q, new))
        PROVE  pull'[p] = pull[p]
    BY <1>3 DEF Supply!Moved, Supply!One
  <1>4. ASSUME NEW step, Supply!Go(q, step) PROVE pull'[p] = pull[p]
    BY <1>2, <1>4 DEF Supply!Go
  <1>5. ASSUME Supply!Finish(q) PROVE pull'[p] = pull[p]
    BY <1>2, <1>5 DEF Supply!Finish
  <1>6. Supply!Begin(q) \/ Supply!Abort(q) => pull'[p] = pull[p]
    BY <1>2 DEF Supply!Begin, Supply!Abort
  <1>7. Supply!Resolve(q) \/ Supply!NextFile(q) => pull'[p] = pull[p]
    BY <1>2, <1>4, <1>5 DEF Supply!Resolve, Supply!NextFile
  <1>8. Supply!Ask(q) \/ Supply!NoFile(q) \/ Supply!NotSatisfiable(q) \/ Supply!Partial(q)
           => pull'[p] = pull[p]
    BY <1>2, <1>3, <1>4, <1>5 DEF Supply!Ask, Supply!NoFile, Supply!NotSatisfiable,
       Supply!Partial
  <1>9. Supply!OtherPart(q) \/ Supply!WholeFile(q) \/ Supply!Piece(q) => pull'[p] = pull[p]
    BY <1>2, <1>3, <1>5 DEF Supply!OtherPart, Supply!WholeFile, Supply!Piece
  <1>10. Supply!Stop(q) \/ Supply!StreamEnd(q) => pull'[p] = pull[p]
    BY <1>3, <1>4 DEF Supply!Stop, Supply!StreamEnd
  <1>11. Supply!Retry(q) \/ Supply!GiveUp(q) \/ Supply!Rename(q) => pull'[p] = pull[p]
    BY <1>2, <1>3, <1>5 DEF Supply!Retry, Supply!GiveUp, Supply!Rename
  <1>12. Supply!CleanUp(q) \/ Supply!Load(q) \/ Supply!Save(q) => pull'[p] = pull[p]
    BY <1>2, <1>5 DEF Supply!CleanUp, Supply!Load, Supply!Save
  <1> QED
    BY <1>6, <1>7, <1>8, <1>9, <1>10, <1>11, <1>12 DEF Supply!PullStep

\* A pull that was stopped ends by cleaning up, if the process does not end.
LEMMA StoppedCleansUp ==
    ASSUME SupplyInv, [Supply!Next]_(Supply!vars), NEW p \in Pulls, Supply!At(p, "aborted"),
           pull'[p].step = "idle", crashes' = crashes
    PROVE  Supply!CleanUp(p)
  <1>1. pull[p].step = "aborted" /\ pull[p].step # "idle" /\ ~Supply!At(p, "stream")
    BY DEF Supply!At
  <1>2. ASSUME NEW q \in Pulls, q # p, Supply!Begin(q) \/ Supply!Abort(q) \/ Supply!PullStep(q)
        PROVE  FALSE
    BY <1>1, <1>2, Untouched
  <1>3. ~Supply!Abort(p)
    <2>1. Supply!Abort(p) => pull'[p].step = pull[p].step
      BY DEF Supply!Abort, Supply!Set, SupplyInv, PullsFit, Pull
    <2> QED
      BY <1>1, <2>1
  <1>4. ~Supply!Begin(p)
    BY <1>1 DEF Supply!Begin, Supply!At
  <1>5. Supply!PullStep(p) => Supply!CleanUp(p)
    BY <1>1 DEF Supply!PullStep, Supply!Resolve, Supply!NextFile, Supply!Ask,
       Supply!NoFile, Supply!NotSatisfiable, Supply!Partial, Supply!OtherPart,
       Supply!WholeFile, Supply!Piece, Supply!Stop, Supply!StreamEnd, Supply!Retry,
       Supply!GiveUp, Supply!Rename, Supply!Load, Supply!Save, Supply!At
  <1>6. ~Supply!RemoveFolder
    BY <1>1 DEF Supply!RemoveFolder
  <1>7. ~Supply!LoadToRemove /\ ~Supply!SaveRemoved
    BY <1>1 DEF Supply!LoadToRemove, Supply!SaveRemoved
  <1>8. ~Supply!Restart
    BY DEF Supply!Restart, SupplyInv, RecordsFit
  <1>9. ~UNCHANGED Supply!vars
    BY <1>1 DEF Supply!vars
  <1> QED
    BY <1>2, <1>3, <1>4, <1>5, <1>6, <1>7, <1>8, <1>9 DEF Supply!Next

LEMMA SupplyBegins ==
    ASSUME SupplyConstants, Supply!Init
    PROVE  SupplyInv
  <1>1. Supply!NoPull \in Pull /\ Supply!NoPull.step = "idle" /\ Placed(Supply!NoPull)
    BY NoPullFits
  <1>2. PullsFit
    BY <1>1 DEF Supply!Init, PullsFit, Supply!At
  <1>3. FilesFit /\ RecordsFit
    BY DEF Supply!Init, FilesFit, RecordsFit, Supply!NoRemoval, SupplyConstants
  <1>4. \A p \in Pulls : Follows(p)
    BY <1>1 DEF Supply!Init, Follows, Holds, LeavesNothing, OwnFiles, Supply!At
  <1> QED
    BY <1>2, <1>3, <1>4 DEF SupplyInv

LEMMA SupplyStays ==
    ASSUME SupplyConstants, SupplyInv, [Supply!Next]_(Supply!vars)
    PROVE  SupplyInv'
  <1>1. ASSUME NEW p \in Pulls, Supply!PullStep(p) PROVE SupplyInv'
    BY <1>1, ResolveFits, NextFileFits, AskFits, NoFileFits, NotSatisfiableFits,
       PartialFits, OtherPartFits, WholeFileFits, PieceFits, StopFits, StreamEndFits,
       RetryFits, GiveUpFits, RenameFits, CleanUpFits, LoadFits, SaveFits DEF
       Supply!PullStep
  <1>2. ASSUME UNCHANGED Supply!vars PROVE SupplyInv'
    BY <1>2 DEF Supply!vars, SupplyInv, PullsFit, FilesFit, RecordsFit, Follows, Holds,
       LeavesNothing, OwnFiles, Supply!At, Supply!File, Supply!ModelWanted
  <1> QED
    BY <1>1, <1>2, BeginFits, AbortFits, RemoveFolderFits, RemovalFits, RestartFits DEF
       Supply!Next

LEMMA SupplyRun ==
    ASSUME SupplyConstants
    PROVE  SpecAll => []SupplyInv /\ [][Supply!Next]_(Supply!vars)
  <1>1. InitAll => SupplyInv
    BY SupplyBegins DEF InitAll
  <1>2. [NextAll]_allVars => [Supply!Next]_(Supply!vars)
    BY DEF NextAll, allVars, supplyVars, Supply!vars
  <1>3. SupplyInv /\ [NextAll]_allVars => SupplyInv'
    BY <1>2, SupplyStays
  <1> QED
    BY <1>1, <1>2, <1>3, PTL DEF SpecAll

\* "Only a complete file is renamed" (downloader.rs): a finished file has every
\* piece once and in order, after dropped connections, mistaken ranges, stops,
\* restarts and removals.
THEOREM WholeFiles ==
    ASSUME SupplyConstants
    PROVE  SpecAll => []FilesAreWhole
  <1>1. SupplyInv => FilesAreWhole
    BY DEF SupplyInv, FilesFit, FilesAreWhole, Supply!FilesAreWhole
  <1> QED
    BY <1>1, SupplyRun, PTL

\* Models, requests and their files keep their types.
THEOREM SupplyTypes ==
    ASSUME SupplyConstants
    PROVE  SpecAll => []Supply!TypeOK
  <1>1. SupplyInv => Supply!TypeOK
    BY DEF SupplyInv, PullsFit, FilesFit, RecordsFit, Supply!TypeOK, Supply!At, Supply!NoPull
  <1> QED
    BY <1>1, SupplyRun, PTL

\* "A download the user stopped leaves nothing behind" (fetcher/mod.rs): what was
\* not in the folder when the pull began is not there when it has ended, for
\* plans without helpers.
THEOREM NothingLeft ==
    ASSUME SupplyConstants, Helpers = 0
    PROVE  SpecAll => StoppedLeavesNothing
  <1>1. ASSUME SupplyInv, SupplyInv', [Supply!Next]_(Supply!vars), NEW p \in Pulls,
               Supply!At(p, "aborted"), pull'[p].step = "idle", crashes' = crashes,
               NEW f \in Supply!Files \ pull[p].had, f[1] = Supply!ModelWanted(p)
        PROVE  part'[f] = None /\ dest'[f] = None
    <2>1. Supply!CleanUp(p) /\ part' = part
      BY <1>1, StoppedCleansUp DEF Supply!CleanUp
    <2>2. pull[p].step \notin {"idle", "resolve"} /\ pull[p].step \in Trying
      BY <1>1 DEF Supply!At, Trying
    <2>3. part[f] = None /\ (dest[f] # None => f \in pull[p].created)
      BY <1>1, <2>2 DEF SupplyInv, Follows, LeavesNothing, Supply!At
    <2>4. pull[p].idx <= Listed
      BY <1>1 DEF SupplyInv, PullsFit, Placed, Supply!At
    <2>5. dest'[f] = IF f \in pull[p].created THEN None ELSE dest[f]
      BY <2>1, <2>4 DEF Supply!CleanUp
    <2> QED
      BY <2>1, <2>3, <2>5
  <1>2. SupplyInv /\ SupplyInv' /\ [Supply!Next]_(Supply!vars) =>
          [\A p \in Pulls : Supply!At(p, "aborted") /\ pull'[p].step = "idle" /\ crashes' = crashes =>
             \A f \in Supply!Files \ pull[p].had : f[1] = Supply!ModelWanted(p) =>
                part'[f] = None /\ dest'[f] = None]_(Supply!vars)
    BY <1>1
  <1> QED
    BY <1>2, SupplyRun, PTL DEF StoppedLeavesNothing, Supply!StoppedLeavesNothing

-----------------------------------------------------------------------------
(* Placements. The sum of a list of sizes, element by element.             *)

LEMMA LeastSize ==
    ASSUME NEW n \in Nat, NEW S, S \subseteq 0..n, S # {}
    PROVE  Placing!Min(S) \in S /\ \A y \in S : Placing!Min(S) <= y
  BY LeastOf DEF Fit!Min, Placing!Min

LEMMA GreatestSize ==
    ASSUME NEW n \in Nat, NEW S, S \subseteq 0..n, S # {}
    PROVE  Placing!Max(S) \in S /\ \A y \in S : Placing!Max(S) >= y
  BY GreatestOf DEF Fit!Max, Placing!Max

Sizes(n) == [1..n -> Nat]

LEMMA TotalIs ==
    ASSUME NEW n \in Nat, NEW s \in Sizes(n)
    PROVE  \E h \in [0..n -> Nat] : /\ Placing!Total(s) = h[n] /\ h[0] = 0
                                    /\ \A i \in 1..n : h[i] = h[i - 1] + s[i]
  <1> DEFINE Goes(h) == h = [i \in 0..Len(s) |-> IF i = 0 THEN 0 ELSE h[i - 1] + s[i]]
             upTo == CHOOSE h : Goes(h)
             Sum(h, k) == /\ h \in [0..k -> Nat] /\ h[0] = 0
                          /\ \A i \in 1..k : h[i] = h[i - 1] + s[i]
             Q == {k \in Nat : k <= n => \E h : Sum(h, k)}
  <1>1. Placing!Total(s) = upTo[Len(s)]
    BY DEF Placing!Total
  <1>2. s \in Seq(Nat) /\ Len(s) = n
    BY DEF Sizes
  <1>3. 0 \in Q
    <2>1. Sum([i \in 0..0 |-> 0], 0)
      OBVIOUS
    <2> QED
      BY <2>1
  <1>4. ASSUME NEW k \in Nat, k \in Q PROVE k + 1 \in Q
    <2> HIDE DEF Sum
    <2> SUFFICES ASSUME k + 1 <= n PROVE \E h : Sum(h, k + 1)
      OBVIOUS
    <2>0. k <= n
      OBVIOUS
    <2>1. PICK h : Sum(h, k)
      BY <1>4, <2>0
    <2> USE DEF Sum
    <2> DEFINE g == [i \in 0..(k + 1) |-> IF i = k + 1 THEN h[k] + s[k + 1] ELSE h[i]]
    <2>2. h[k] \in Nat /\ s[k + 1] \in Nat
      BY <2>1 DEF Sizes
    <2>3. g \in [0..(k + 1) -> Nat]
      BY <2>1, <2>2
    <2>4. \A i \in 1..(k + 1) : g[i] = g[i - 1] + s[i]
      BY <2>1
    <2>5. g[0] = 0
      BY <2>1
    <2> HIDE DEF g
    <2> QED
      BY <2>3, <2>4, <2>5
  <1> HIDE DEF Q
  <1>5. n \in Q
    BY <1>3, <1>4, SetInduction
  <1>6. PICK h : Sum(h, n)
    BY <1>5 DEF Q
  <1>7. h = [i \in 0..Len(s) |-> IF i = 0 THEN 0 ELSE h[i - 1] + s[i]]
    BY <1>2, <1>6
  <1>8. Goes(upTo)
    BY <1>7
  <1> HIDE DEF upTo
  <1>9. upTo \in [0..n -> Nat]
    <2> DEFINE R == {k \in Nat : k <= n => upTo[k] \in Nat}
    <2>1. 0 \in R
      BY <1>2, <1>8
    <2>2. ASSUME NEW k \in Nat, k \in R PROVE k + 1 \in R
      <3> SUFFICES ASSUME k + 1 <= n PROVE upTo[k + 1] \in Nat
        OBVIOUS
      <3>1. k + 1 \in 0..n /\ k + 1 # 0 /\ (k + 1) - 1 = k /\ k + 1 \in 1..n
        OBVIOUS
      <3>2. upTo[k + 1] = upTo[k] + s[k + 1]
        BY <1>2, <1>8, <3>1
      <3>3. upTo[k] \in Nat /\ s[k + 1] \in Nat
        BY <2>2, <3>1 DEF Sizes
      <3> QED
        BY <3>2, <3>3
    <2> HIDE DEF R
    <2>3. \A k \in Nat : k \in R
      BY <2>1, <2>2, SetInduction
    <2>4. \A k \in 0..n : upTo[k] \in Nat
      BY <2>3 DEF R
    <2> DEFINE body == [i \in 0..Len(s) |-> IF i = 0 THEN 0 ELSE upTo[i - 1] + s[i]]
    <2>5. upTo = body /\ DOMAIN body = 0..n /\ body = [i \in 0..n |-> body[i]]
      BY <1>2, <1>8
    <2> HIDE DEF body
    <2>6. upTo = [i \in 0..n |-> upTo[i]]
      BY <2>5
    <2> QED
      BY <2>4, <2>6
  <1>10. upTo[0] = 0 /\ \A i \in 1..n : upTo[i] = upTo[i - 1] + s[i]
    BY <1>2, <1>8
  <1> QED
    BY <1>1, <1>2, <1>9, <1>10

LEMMA TotalOfNothing ==
    ASSUME NEW n \in Nat, NEW s \in Sizes(n), \A i \in 1..n : s[i] = 0
    PROVE  Placing!Total(s) = 0
  <1>1. PICK h \in [0..n -> Nat] : /\ Placing!Total(s) = h[n] /\ h[0] = 0
                                    /\ \A i \in 1..n : h[i] = h[i - 1] + s[i]
    BY TotalIs
  <1> DEFINE Q == {k \in Nat : k <= n => h[k] = 0}
  <1>2. 0 \in Q
    BY <1>1
  <1>3. ASSUME NEW k \in Nat, k \in Q PROVE k + 1 \in Q
    <2> SUFFICES ASSUME k + 1 <= n PROVE h[k + 1] = 0
      OBVIOUS
    <2>1. k + 1 \in 1..n /\ (k + 1) - 1 = k /\ h[k] = 0
      BY <1>3
    <2>2. h[k + 1] = h[k] + s[k + 1]
      BY <1>1, <2>1
    <2>3. s[k + 1] = 0
      BY <2>1
    <2> QED
      BY <2>1, <2>2, <2>3
  <1> HIDE DEF Q
  <1>4. n \in Q
    BY <1>2, <1>3, SetInduction
  <1> QED
    BY <1>1, <1>4 DEF Q

LEMMA TotalGrows ==
    ASSUME NEW n \in Nat, NEW s \in Sizes(n), NEW t \in Sizes(n), \A i \in 1..n : s[i] <= t[i]
    PROVE  Placing!Total(s) <= Placing!Total(t)
  <1>1. PICK h \in [0..n -> Nat] : /\ Placing!Total(s) = h[n] /\ h[0] = 0
                                    /\ \A i \in 1..n : h[i] = h[i - 1] + s[i]
    BY TotalIs
  <1>2. PICK g \in [0..n -> Nat] : /\ Placing!Total(t) = g[n] /\ g[0] = 0
                                    /\ \A i \in 1..n : g[i] = g[i - 1] + t[i]
    BY TotalIs
  <1> DEFINE Q == {k \in Nat : k <= n => h[k] <= g[k]}
  <1>3. 0 \in Q
    BY <1>1, <1>2
  <1>4. ASSUME NEW k \in Nat, k \in Q PROVE k + 1 \in Q
    <2> SUFFICES ASSUME k + 1 <= n PROVE h[k + 1] <= g[k + 1]
      OBVIOUS
    <2>1. k \in 0..n /\ k + 1 \in 1..n /\ (k + 1) - 1 = k
      OBVIOUS
    <2>2. h[k] \in Nat /\ g[k] \in Nat /\ s[k + 1] \in Nat /\ t[k + 1] \in Nat
      BY <2>1 DEF Sizes
    <2>3. h[k] <= g[k] /\ s[k + 1] <= t[k + 1]
      BY <1>4, <2>1
    <2>4. h[k + 1] = h[k] + s[k + 1] /\ g[k + 1] = g[k] + t[k + 1]
      BY <1>1, <1>2, <2>1
    <2> QED
      BY <2>2, <2>3, <2>4
  <1> HIDE DEF Q
  <1>5. n \in Q
    BY <1>3, <1>4, SetInduction
  <1> QED
    BY <1>1, <1>2, <1>5 DEF Q

LEMMA TotalIsNat ==
    ASSUME NEW n \in Nat, NEW s \in Sizes(n)
    PROVE  Placing!Total(s) \in Nat
  BY TotalIs

\* Contexts: the binary search of largest_fitting_context.
KvTypes == DOMAIN KvSize
ModelSizes ==
    /\ Model.blocks \in Seq([weights : Nat, experts : Nat, kv : Nat])
    /\ Model.native \in Nat /\ Model.input \in Nat /\ Model.output \in Nat \ {0}
    /\ Model.tied \in Nat /\ Model.logits \in Nat
    /\ KvSize \in [KvTypes -> Nat] /\ {"f16", "q8", "q4"} \subseteq KvTypes

LEMMA ProductGrows ==
    ASSUME NEW a \in Nat, NEW b \in Nat, NEW c \in Nat, b <= c
    PROVE  a * b \in Nat /\ a * b <= a * c
  <1> DEFINE Q == {k \in Nat : a * b \in Nat /\ a * b <= a * (b + k)}
  <1>1. 0 \in Q
    OBVIOUS
  <1>2. ASSUME NEW k \in Nat, k \in Q PROVE k + 1 \in Q
    <2>1. a * (b + (k + 1)) = a * (b + k) + a /\ a * (b + k) \in Nat
      OBVIOUS
    <2>2. a * b \in Nat /\ a * b <= a * (b + k)
      BY <1>2
    <2> HIDE DEF Q
    <2>3. a * b <= a * (b + (k + 1))
      BY <2>1, <2>2
    <2> QED
      BY <2>2, <2>3 DEF Q
  <1> HIDE DEF Q
  <1>3. c - b \in Q
    BY <1>1, <1>2, SetInduction
  <1> QED
    BY <1>3 DEF Q

LEMMA BlockIs ==
    ASSUME ModelSizes
    PROVE  /\ Placing!Blocks(Model) \in Nat
           /\ \A l \in 1..Placing!Blocks(Model) : /\ Model.blocks[l].weights \in Nat
                                         /\ Model.blocks[l].experts \in Nat
                                         /\ Model.blocks[l].kv \in Nat
  <1>1. Placing!Blocks(Model) \in Nat
    BY DEF ModelSizes, Placing!Blocks
  <1>2. ASSUME NEW l \in 1..Placing!Blocks(Model)
        PROVE  Model.blocks[l] \in [weights : Nat, experts : Nat, kv : Nat]
    BY <1>2, ElementOfSeq DEF ModelSizes, Placing!Blocks
  <1> QED
    BY <1>1, <1>2

LEMMA KvSizes ==
    ASSUME ModelSizes, NEW ctx \in Nat, NEW kv \in KvTypes
    PROVE  /\ Placing!Blocks(Model) \in Nat
           /\ \A l \in 1..Placing!Blocks(Model) : Placing!KvLayer(Model, l, ctx, kv) \in Nat
           /\ Placing!KvCache(Model, ctx, kv) \in Nat
  <1>1. Placing!Blocks(Model) \in Nat
    BY DEF ModelSizes, Placing!Blocks
  <1>2. ASSUME NEW l \in 1..Placing!Blocks(Model) PROVE Placing!KvLayer(Model, l, ctx, kv) \in Nat
    <2>1. Model.blocks[l].kv \in Nat /\ KvSize[kv] \in Nat
      BY <1>2, BlockIs DEF ModelSizes
    <2>2. Model.blocks[l].kv * KvSize[kv] \in Nat
      BY <2>1, ProductGrows
    <2> QED
      BY <2>2, ProductGrows DEF Placing!KvLayer
  <1>3. [l \in 1..Placing!Blocks(Model) |-> Placing!KvLayer(Model, l, ctx, kv)] \in Sizes(Placing!Blocks(Model))
    BY <1>2 DEF Sizes
  <1> QED
    BY <1>1, <1>2, <1>3, TotalIsNat DEF Placing!KvCache

LEMMA KvGrows ==
    ASSUME ModelSizes, NEW c \in Nat, NEW d \in Nat, c <= d, NEW kv \in KvTypes
    PROVE  Placing!KvCache(Model, c, kv) <= Placing!KvCache(Model, d, kv)
  <1>1. ASSUME NEW l \in 1..Placing!Blocks(Model)
        PROVE  Placing!KvLayer(Model, l, c, kv) <= Placing!KvLayer(Model, l, d, kv)
    <2>1. Model.blocks[l].kv \in Nat /\ KvSize[kv] \in Nat
      BY <1>1, BlockIs DEF ModelSizes
    <2>2. Model.blocks[l].kv * KvSize[kv] \in Nat
      BY <2>1, ProductGrows
    <2> QED
      BY <2>2, ProductGrows DEF Placing!KvLayer
  <1> DEFINE S == [l \in 1..Placing!Blocks(Model) |-> Placing!KvLayer(Model, l, c, kv)]
             T == [l \in 1..Placing!Blocks(Model) |-> Placing!KvLayer(Model, l, d, kv)]
  <1>2. Placing!Blocks(Model) \in Nat /\ S \in Sizes(Placing!Blocks(Model))
        /\ T \in Sizes(Placing!Blocks(Model))
    BY KvSizes DEF Sizes
  <1>3. \A l \in 1..Placing!Blocks(Model) : S[l] <= T[l]
    BY <1>1
  <1> HIDE DEF S, T
  <1>4. Placing!Total(S) <= Placing!Total(T)
    BY <1>2, <1>3, TotalGrows
  <1> QED
    BY <1>4 DEF Placing!KvCache, S, T

\* The least and the greatest value of a search between lo and hi, for what fits
\* up to some value and not beyond.
Largest(fits, lo, hi) == CHOOSE c \in lo..hi : /\ c = lo \/ c \in fits
                                               /\ \A d \in (c + 1)..hi : d \notin fits

LEMMA LargestIs ==
    ASSUME NEW fits, NEW lo \in Nat, NEW hi \in Nat, lo <= hi
    PROVE  /\ Largest(fits, lo, hi) \in lo..hi
           /\ Largest(fits, lo, hi) = lo \/ Largest(fits, lo, hi) \in fits
           /\ \A d \in (Largest(fits, lo, hi) + 1)..hi : d \notin fits
  <1> DEFINE S == {c \in lo..hi : c = lo \/ c \in fits}
  <1>1. S \subseteq 0..hi /\ lo \in S
    OBVIOUS
  <1>2. Placing!Max(S) \in S /\ \A y \in S : Placing!Max(S) >= y
    <2> HIDE DEF S
    <2> QED
      BY <1>1, GreatestSize
  <1>3. ASSUME NEW d \in (Placing!Max(S) + 1)..hi PROVE d \notin fits
    <2>1. d \in lo..hi /\ ~(Placing!Max(S) >= d)
      BY <1>2
    <2> QED
      BY <1>2, <2>1
  <1> QED
    BY <1>2, <1>3 DEF Largest

LEMMA LargestAt ==
    ASSUME NEW fits, NEW lo \in Nat, NEW hi \in Nat, lo <= hi, NEW c \in lo..hi,
           c = lo \/ c \in fits, \A d \in (c + 1)..hi : d \notin fits
    PROVE  Largest(fits, lo, hi) = c
  <1> DEFINE e == Largest(fits, lo, hi)
  <1>1. /\ e \in lo..hi /\ (e = lo \/ e \in fits)
        /\ \A d \in (e + 1)..hi : d \notin fits
    BY LargestIs
  <1> HIDE DEF e
  <1>2. ~(e < c)
    <2> SUFFICES ASSUME e < c PROVE FALSE
      OBVIOUS
    <2>1. c \in (e + 1)..hi /\ c # lo
      BY <1>1
    <2> QED
      BY <1>1, <2>1
  <1>3. ~(c < e)
    <2> SUFFICES ASSUME c < e PROVE FALSE
      OBVIOUS
    <2>1. e \in (c + 1)..hi /\ e # lo
      BY <1>1
    <2> QED
      BY <1>1, <2>1
  <1>4. e = c
    BY <1>1, <1>2, <1>3
  <1> QED
    BY <1>4 DEF e

\* Of the contexts up to the most of a try, those that fit.
Tries(B) == [kv : KvTypes, most : Nat, least : Nat, buffer : B]
Fitting(free, fixed, try) ==
    {c \in 0..try.most : fixed + Placing!KvCache(Model, c, try.kv) <= Placing!Usable(free, try.buffer)}

\* "KV grows with context, so fits is monotonic and a binary search is exact"
\* (largest_fitting_context): it finds the largest context that fits, or none.
THEOREM SearchIsExact ==
    ASSUME ModelSizes, NEW free \in Int, NEW fixed \in Int, NEW try \in Tries(Int)
    PROVE  Placing!LargestFitting(Model, free, fixed, try) = Largest(Fitting(free, fixed, try), 0, try.most)
  <1> DEFINE most == try.most
             fits == Fitting(free, fixed, try)
             fit(ctx) == fixed + Placing!KvCache(Model, ctx, try.kv) <= Placing!Usable(free, try.buffer)
             Mid(lo, hi) == (lo + hi + 1) \div 2
             D == (0..most) \X (0..most)
             Goes(f) == f = [in \in D |->
                               LET mid == (in[1] + in[2] + 1) \div 2
                               IN  IF in[1] >= in[2] THEN in[1]
                                   ELSE IF fit(mid) THEN f[<<mid, in[2]>>]
                                   ELSE f[<<in[1], mid - 1>>]]
             search == CHOOSE f : Goes(f)
             h == [in \in D |-> IF in[1] >= in[2] THEN in[1] ELSE Largest(fits, in[1], in[2])]
  <1>1. Placing!LargestFitting(Model, free, fixed, try)
          = IF fit(most) THEN most ELSE search[<<0, most>>]
    BY DEF Placing!LargestFitting
  <1>2. most \in Nat /\ try.kv \in KvTypes /\ Placing!Usable(free, try.buffer) \in Int
    BY DEF Tries, Placing!Usable, Placing!Most
  <1>3. \A c \in 0..most : fit(c) <=> c \in fits
    BY DEF Fitting
  <1>4. ASSUME NEW c \in 0..most, NEW d \in 0..most, c <= d, d \in fits
        PROVE  c \in fits
    <2>1. Placing!KvCache(Model, c, try.kv) <= Placing!KvCache(Model, d, try.kv)
      BY <1>2, <1>4, KvGrows
    <2>2. Placing!KvCache(Model, c, try.kv) \in Nat /\ Placing!KvCache(Model, d, try.kv) \in Nat
      BY <1>2, KvSizes
    <2>3. fit(d)
      BY <1>4 DEF Fitting
    <2>4. fit(c)
      BY <1>2, <2>1, <2>2, <2>3
    <2> QED
      BY <2>4 DEF Fitting
  <1>5. ASSUME NEW lo \in 0..most, NEW hi \in 0..most, lo < hi
        PROVE  /\ Mid(lo, hi) \in (lo + 1)..hi /\ Mid(lo, hi) - 1 \in lo..hi
               /\ Mid(lo, hi) \in 0..most /\ Mid(lo, hi) - 1 \in 0..most
    BY <1>2, <1>5
  <1> HIDE DEF most, fits, fit, Mid
  <1>6. ASSUME NEW lo \in 0..most, NEW hi \in 0..most, lo < hi
        PROVE  Largest(fits, lo, hi) = IF fit(Mid(lo, hi)) THEN h[<<Mid(lo, hi), hi>>]
                                       ELSE h[<<lo, Mid(lo, hi) - 1>>]
    <2> DEFINE m == Mid(lo, hi)
    <2>1. /\ m \in (lo + 1)..hi /\ m - 1 \in lo..hi /\ m \in 0..most /\ m - 1 \in 0..most
          /\ m \in Nat /\ lo \in Nat /\ hi \in Nat
      BY <1>2, <1>5, <1>6
    <2> HIDE DEF m
    <2>2. CASE fit(m)
      <3>1. m \in fits
        BY <1>3, <2>1, <2>2
      <3>2. h[<<m, hi>>] = Largest(fits, m, hi)
        <4>1. CASE m = hi
          <5>1. Largest(fits, m, hi) = m
            BY <2>1, <4>1, LargestIs
          <5> QED
            BY <2>1, <4>1, <5>1
        <4>2. CASE m # hi
          BY <2>1, <4>2
        <4> QED
          BY <4>1, <4>2
      <3> DEFINE c == Largest(fits, m, hi)
      <3>3. /\ c \in m..hi /\ (c = m \/ c \in fits)
            /\ \A d \in (c + 1)..hi : d \notin fits
        BY <2>1, LargestIs
      <3> HIDE DEF c
      <3>4. c \in lo..hi /\ c \in fits
        BY <2>1, <3>1, <3>3
      <3>5. Largest(fits, lo, hi) = c
        BY <1>6, <2>1, <3>3, <3>4, LargestAt
      <3> QED
        BY <2>2, <3>2, <3>5 DEF c, m
    <2>3. CASE ~fit(m)
      <3>1. \A d \in m..hi : d \notin fits
        BY <1>2, <1>3, <1>4, <1>6, <2>1, <2>3
      <3>2. h[<<lo, m - 1>>] = Largest(fits, lo, m - 1)
        <4>1. CASE m - 1 = lo
          <5>1. Largest(fits, lo, m - 1) = lo
            BY <2>1, <4>1, LargestIs
          <5> QED
            BY <2>1, <4>1, <5>1
        <4>2. CASE m - 1 # lo
          BY <2>1, <4>2
        <4> QED
          BY <4>1, <4>2
      <3> DEFINE c == Largest(fits, lo, m - 1)
      <3>3. /\ c \in lo..(m - 1) /\ (c = lo \/ c \in fits)
            /\ \A d \in (c + 1)..(m - 1) : d \notin fits
        BY <2>1, LargestIs
      <3> HIDE DEF c
      <3>4. c \in lo..hi /\ \A d \in (c + 1)..hi : d \notin fits
        BY <2>1, <3>1, <3>3
      <3>5. Largest(fits, lo, hi) = c
        BY <1>6, <2>1, <3>3, <3>4, LargestAt
      <3> QED
        BY <2>3, <3>2, <3>5 DEF c, m
    <2> QED
      BY <2>2, <2>3 DEF m
  <1>7. \A lo \in 0..most, hi \in 0..most :
           h[<<lo, hi>>] = IF lo >= hi THEN lo
                           ELSE IF fit(Mid(lo, hi)) THEN h[<<Mid(lo, hi), hi>>]
                           ELSE h[<<lo, Mid(lo, hi) - 1>>]
    <2> TAKE lo \in 0..most, hi \in 0..most
    <2>1. CASE lo >= hi
      BY <2>1
    <2>2. CASE ~(lo >= hi)
      <3>1. lo < hi /\ h[<<lo, hi>>] = Largest(fits, lo, hi)
        BY <1>2, <2>2
      <3> HIDE DEF h
      <3> QED
        BY <1>6, <2>2, <3>1
    <2> QED
      BY <2>1, <2>2
  <1>8. Goes(h)
    <2>1. \A in \in D : in = <<in[1], in[2]>> /\ in[1] \in 0..most /\ in[2] \in 0..most
      OBVIOUS
    <2>2. DOMAIN h = D /\ h = [in \in D |-> h[in]]
      OBVIOUS
    <2> HIDE DEF h, D
    <2>3. \A in \in D : h[in] = IF in[1] >= in[2] THEN in[1]
                                ELSE IF fit(Mid(in[1], in[2])) THEN h[<<Mid(in[1], in[2]), in[2]>>]
                                ELSE h[<<in[1], Mid(in[1], in[2]) - 1>>]
      BY <1>7, <2>1
    <2> QED
      BY <2>2, <2>3 DEF Mid
  <1>9. Goes(search)
    BY <1>8
  <1> HIDE DEF search
  <1>10. \A lo \in 0..most, hi \in 0..most :
           search[<<lo, hi>>] = IF lo >= hi THEN lo
                                ELSE IF fit(Mid(lo, hi)) THEN search[<<Mid(lo, hi), hi>>]
                                ELSE search[<<lo, Mid(lo, hi) - 1>>]
    BY <1>9 DEF Mid
  <1> HIDE DEF h, Goes
  <1> DEFINE Q == {n \in Nat : \A lo \in 0..most, hi \in 0..most :
                                  hi - lo <= n => search[<<lo, hi>>] = h[<<lo, hi>>]}
  <1>11. 0 \in Q
    <2> SUFFICES ASSUME NEW lo \in 0..most, NEW hi \in 0..most, hi - lo <= 0
                 PROVE  search[<<lo, hi>>] = h[<<lo, hi>>]
      OBVIOUS
    <2>1. lo >= hi
      BY <1>2
    <2> QED
      BY <1>7, <1>10, <2>1
  <1>12. ASSUME NEW n \in Nat, n \in Q PROVE n + 1 \in Q
    <2> SUFFICES ASSUME NEW lo \in 0..most, NEW hi \in 0..most, hi - lo <= n + 1
                 PROVE  search[<<lo, hi>>] = h[<<lo, hi>>]
      OBVIOUS
    <2>1. CASE lo >= hi
      BY <1>7, <1>10, <2>1
    <2>2. CASE lo < hi
      <3> DEFINE m == Mid(lo, hi)
      <3>1. m \in (lo + 1)..hi /\ m - 1 \in lo..hi /\ m \in 0..most /\ m - 1 \in 0..most
        BY <1>5, <2>2
      <3>2. ~(lo >= hi) /\ lo \in Nat /\ hi \in Nat
        BY <1>2, <2>2
      <3> HIDE DEF m
      <3>3. hi - m <= n /\ (m - 1) - lo <= n
        BY <3>1, <3>2
      <3>4. search[<<m, hi>>] = h[<<m, hi>>] /\ search[<<lo, m - 1>>] = h[<<lo, m - 1>>]
        BY <1>12, <3>1, <3>3
      <3> QED
        BY <1>7, <1>10, <3>2, <3>4 DEF m
    <2> QED
      BY <1>2, <2>1, <2>2
  <1> HIDE DEF Q
  <1>13. most \in Q
    BY <1>2, <1>11, <1>12, SetInduction
  <1>14. search[<<0, most>>] = h[<<0, most>>]
    BY <1>2, <1>13 DEF Q
  <1>15. h[<<0, most>>] = Largest(fits, 0, most)
    <2>1. CASE most = 0
      <3>1. Largest(fits, 0, most) = 0
        BY <2>1, LargestIs
      <3> QED
        BY <2>1, <3>1 DEF h
    <2>2. CASE most # 0
      BY <1>2, <2>2 DEF h
    <2> QED
      BY <2>1, <2>2
  <1>16. CASE fit(most)
    <2>1. most \in fits /\ \A d \in (most + 1)..most : d \notin fits
      BY <1>2, <1>3, <1>16
    <2>2. Largest(fits, 0, most) = most
      BY <1>2, <2>1, LargestAt
    <2> QED
      BY <1>1, <1>16, <2>2 DEF fits, most
  <1>17. CASE ~fit(most)
    BY <1>1, <1>14, <1>15, <1>17 DEF fits, most
  <1> QED
    BY <1>16, <1>17

\* What a context is resolved to: the KV type of a try and one of its buffers.
ContextChoices(B) == [ctx : Nat, kv : KvTypes, buffer : B, fits : BOOLEAN]

LEMMA FirstFittingIs ==
    ASSUME ModelSizes, NEW free \in Int, NEW fixed \in Int, NEW B, B \subseteq Int,
           NEW tries \in Seq(Tries(B)), NEW otherwise \in ContextChoices(B)
    PROVE  Placing!FirstFitting(Model, free, fixed, tries, otherwise) \in ContextChoices(B)
  <1> DEFINE found(try) == Placing!LargestFitting(Model, free, fixed, try)
             I == {i \in 1..Len(tries) : found(tries[i]) >= tries[i].least}
             first == IF I # {} THEN Placing!Min(I) ELSE 0
  <1>1. Placing!FirstFitting(Model, free, fixed, tries, otherwise)
          = IF first = 0 THEN otherwise
            ELSE [ctx |-> found(tries[first]), kv |-> tries[first].kv,
                  buffer |-> tries[first].buffer, fits |-> TRUE]
    BY DEF Placing!FirstFitting, Placing!SelectInSeq
  <1>2. ASSUME NEW i \in 1..Len(tries)
        PROVE  found(tries[i]) \in Nat /\ tries[i] \in Tries(B)
    <2>0. tries[i] \in Tries(B)
      BY ElementOfSeq
    <2>1. tries[i] \in Tries(B) /\ tries[i] \in Tries(Int) /\ tries[i].most \in Nat
      BY <2>0 DEF Tries
    <2>2. found(tries[i]) = Largest(Fitting(free, fixed, tries[i]), 0, tries[i].most)
      BY <2>1, SearchIsExact
    <2>3. found(tries[i]) \in 0..tries[i].most
      BY <2>1, <2>2, LargestIs
    <2> QED
      BY <2>1, <2>3
  <1>3. first = 0 \/ first \in 1..Len(tries)
    <2>1. Len(tries) \in Nat /\ I \subseteq 0..Len(tries) /\ I \subseteq 1..Len(tries)
      OBVIOUS
    <2> HIDE DEF I
    <2>2. I # {} => Placing!Min(I) \in I
      BY <2>1, LeastSize
    <2> QED
      BY <2>1, <2>2
  <1> HIDE DEF found, first
  <1> QED
    BY <1>1, <1>2, <1>3 DEF ContextChoices, Tries

LEMMA FlattenIs ==
    ASSUME NEW S, NEW ss \in Seq(Seq(S))
    PROVE  Placing!FlattenSeq(ss) \in Seq(S)
  <1> DEFINE n == Len(ss)
             Goes(h) == h = [i \in 1..Len(ss) |-> IF i = 1 THEN ss[i] ELSE h[i - 1] \o ss[i]]
             flatten == CHOOSE h : Goes(h)
             Joins(h, k) == /\ h \in [1..k -> Seq(S)] /\ (k # 0 => h[1] = ss[1])
                            /\ \A i \in 2..k : h[i] = h[i - 1] \o ss[i]
             Q == {k \in Nat : k <= n => \E h : Joins(h, k)}
  <1>1. Placing!FlattenSeq(ss) = IF n = 0 THEN ss ELSE flatten[n]
    BY DEF Placing!FlattenSeq
  <1>2. n \in Nat /\ \A i \in 1..n : ss[i] \in Seq(S)
    BY ElementOfSeq
  <1> HIDE DEF n
  <1>3. 0 \in Q
    <2>1. Joins([i \in 1..0 |-> <<>>], 0)
      OBVIOUS
    <2> QED
      BY <2>1
  <1>4. ASSUME NEW k \in Nat, k \in Q PROVE k + 1 \in Q
    <2> HIDE DEF Joins
    <2> SUFFICES ASSUME k + 1 <= n PROVE \E h : Joins(h, k + 1)
      BY <1>2
    <2>0. k <= n
      BY <1>2
    <2>1. PICK h : Joins(h, k)
      BY <1>4, <2>0
    <2> USE DEF Joins
    <2> DEFINE g == [i \in 1..(k + 1) |-> IF i <= k THEN h[i]
                                          ELSE IF k = 0 THEN ss[1] ELSE h[k] \o ss[k + 1]]
    <2>2. ss[k + 1] \in Seq(S) /\ (k # 0 => h[k] \in Seq(S)) /\ ss[1] \in Seq(S)
      BY <1>2, <2>1
    <2>3. g \in [1..(k + 1) -> Seq(S)]
      <3>1. k # 0 => h[k] \o ss[k + 1] \in Seq(S)
        BY <2>2, ConcatProperties
      <3> QED
        BY <2>1, <2>2, <3>1
    <2>4. ASSUME NEW i \in 2..(k + 1) PROVE g[i] = g[i - 1] \o ss[i]
      <3>1. CASE i = k + 1
        <4>1. i - 1 = k /\ k # 0 /\ k \in 1..(k + 1) /\ k <= k /\ ~(k + 1 <= k)
              /\ k + 1 \in 1..(k + 1)
          BY <3>1
        <4>2. g[k] = h[k] /\ g[k + 1] = h[k] \o ss[k + 1]
          BY <4>1
        <4> QED
          BY <3>1, <4>1, <4>2
      <3>2. CASE i # k + 1
        <4>1. i \in 2..k /\ i - 1 \in 1..k /\ i <= k /\ i - 1 <= k
          BY <3>2
        <4>2. g[i] = h[i] /\ g[i - 1] = h[i - 1]
          BY <4>1
        <4> QED
          BY <2>1, <4>1, <4>2
      <3> QED
        BY <3>1, <3>2
    <2>5. g[1] = ss[1]
      BY <2>1
    <2> HIDE DEF g
    <2> QED
      BY <2>3, <2>4, <2>5
  <1> HIDE DEF Q
  <1>5. n \in Q
    BY <1>2, <1>3, <1>4, SetInduction
  <1> HIDE DEF Joins
  <1>6. PICK h : Joins(h, n)
    BY <1>5, <1>2 DEF Q
  <1> USE DEF Joins
  <1>7. CASE n = 0
    BY <1>1, <1>2, <1>7, EmptySeq DEF n
  <1>8. CASE n # 0
    <2>1. Goes(h)
      <3>1. h = [i \in 1..n |-> h[i]] /\ \A i \in 1..n : i # 1 => i \in 2..n
        BY <1>2, <1>6
      <3>2. \A i \in 1..n : h[i] = IF i = 1 THEN ss[i] ELSE h[i - 1] \o ss[i]
        BY <1>6, <1>8, <3>1
      <3> QED
        BY <3>1, <3>2 DEF n
    <2>2. Goes(flatten)
      BY <2>1
    <2> HIDE DEF flatten
    <2> DEFINE R == {k \in Nat : k + 1 <= n => flatten[k + 1] \in Seq(S)}
    <2>3. 0 \in R
      BY <1>2, <1>8, <2>2 DEF n
    <2>4. ASSUME NEW k \in Nat, k \in R PROVE k + 1 \in R
      <3> SUFFICES ASSUME (k + 1) + 1 <= n PROVE flatten[(k + 1) + 1] \in Seq(S)
        OBVIOUS
      <3>1. /\ (k + 1) + 1 \in 1..n /\ (k + 1) + 1 # 1 /\ ((k + 1) + 1) - 1 = k + 1
            /\ k + 1 <= n
        BY <1>2
      <3>2. flatten[(k + 1) + 1] = flatten[k + 1] \o ss[(k + 1) + 1]
        BY <2>2, <3>1 DEF n
      <3>3. flatten[k + 1] \in Seq(S) /\ ss[(k + 1) + 1] \in Seq(S)
        BY <1>2, <2>4, <3>1
      <3> QED
        BY <3>2, <3>3
    <2> HIDE DEF R
    <2>5. \A k \in Nat : k \in R
      BY <2>3, <2>4, SetInduction
    <2>6. n - 1 \in Nat /\ (n - 1) + 1 = n
      BY <1>2, <1>8
    <2>7. flatten[n] \in Seq(S)
      BY <2>5, <2>6 DEF R
    <2> QED
      BY <1>1, <1>8, <2>7
  <1> QED
    BY <1>7, <1>8

ContextSizes ==
    /\ ContextMin \in Nat /\ ContextFloor \in Nat
    /\ SplitContext \in Nat /\ ContextTarget \in Nat

\* What requests may ask for.
Asked ==
    [context : {"auto", "max", "custom"}, tokens : Nat, kv : {"auto"} \cup KvTypes,
     buffer : Nat \cup {None}, ngl : Int \cup {None}, moe : Nat \cup {None},
     kqv : BOOLEAN \cup {None}]

LEMMA AutoTriesAre ==
    ASSUME ModelSizes, ContextSizes, NEW B, NEW buffers \in Seq(B), buffers # <<>>, NEW s \in Asked
    PROVE  Placing!AutoTries(Model, buffers, s) \in Seq(Tries(B))
  <1> DEFINE target == Placing!Least(Model.native, ContextTarget)
             floor == Placing!Least(Model.native, ContextFloor)
             least == Placing!Least(Model.native, ContextMin)
             Rungs == [kv : KvTypes, most : Nat, least : Nat]
             step(kv, most, few) == [kv |-> kv, most |-> most, least |-> few]
             with(try, buffer) ==
                [kv |-> try.kv, most |-> try.most, least |-> try.least, buffer |-> buffer]
             ladder == IF s.kv = "auto"
                       THEN <<step("f16", target, target), step("q8", target, floor),
                              step("q4", floor, floor)>>
                       ELSE <<step(s.kv, target, floor)>>
             short == step(Placing!Last(ladder).kv, floor, least)
             atFloor(buffer) == [i \in DOMAIN ladder |->
                                    with(step(ladder[i].kv, floor, floor), buffer)]
             A == [i \in DOMAIN ladder |-> with(ladder[i], Head(buffers))]
             M == [i \in DOMAIN Tail(buffers) |-> atFloor(Tail(buffers)[i])]
             C == [i \in DOMAIN buffers |-> with(short, buffers[i])]
  <1>1. Placing!AutoTries(Model, buffers, s) = A \o Placing!FlattenSeq(M) \o C
    BY DEF Placing!AutoTries
  <1>2. target \in Nat /\ floor \in Nat /\ least \in Nat
    BY DEF Placing!Least, ModelSizes, ContextSizes
  <1> HIDE DEF target, floor, least
  <1>3. ladder \in Seq(Rungs) /\ ladder # <<>>
    <2>1. CASE s.kv = "auto"
      <3>1. {step("f16", target, target), step("q8", target, floor), step("q4", floor, floor)} \subseteq Rungs
        BY <1>2 DEF ModelSizes
      <3> HIDE DEF step, Rungs
      <3> QED
        BY <2>1, <3>1
    <2>2. CASE s.kv # "auto"
      <3>1. s.kv \in KvTypes
        BY <2>2 DEF Asked
      <3>2. step(s.kv, target, floor) \in Rungs
        BY <1>2, <3>1
      <3> HIDE DEF step, Rungs
      <3> QED
        BY <2>2, <3>2
    <2> QED
      BY <2>1, <2>2
  <1> HIDE DEF ladder
  <1>4. /\ Len(ladder) \in Nat \ {0} /\ DOMAIN ladder = 1..Len(ladder)
        /\ \A i \in DOMAIN ladder : ladder[i] \in Rungs
    <2> HIDE DEF Rungs
    <2> QED
      BY <1>3, ElementOfSeq, EmptySeq
  <1>5. Placing!Last(ladder) \in Rungs
    BY <1>4 DEF Placing!Last
  <1>6. short \in Rungs
    BY <1>2, <1>5
  <1>7. /\ Len(buffers) \in Nat \ {0} /\ DOMAIN buffers = 1..Len(buffers)
        /\ \A i \in DOMAIN buffers : buffers[i] \in B
        /\ Head(buffers) \in B
        /\ Tail(buffers) \in Seq(B)
    BY ElementOfSeq, EmptySeq, HeadTailProperties
  <1>8. ASSUME NEW try \in Rungs, NEW buffer \in B PROVE with(try, buffer) \in Tries(B)
    BY DEF Tries
  <1>9. A \in Seq(Tries(B))
    <2> HIDE DEF with
    <2>1. \A i \in 1..Len(ladder) : A[i] \in Tries(B)
      BY <1>4, <1>7, <1>8
    <2> QED
      BY <1>4, <2>1, IsASeq
  <1>10. C \in Seq(Tries(B))
    <2> HIDE DEF with, short
    <2>1. \A i \in 1..Len(buffers) : C[i] \in Tries(B)
      BY <1>6, <1>7, <1>8
    <2> QED
      BY <1>7, <2>1, IsASeq
  <1>11. ASSUME NEW buffer \in B PROVE atFloor(buffer) \in Seq(Tries(B))
    <2>1. \A i \in 1..Len(ladder) : step(ladder[i].kv, floor, floor) \in Rungs
      BY <1>2, <1>4
    <2> HIDE DEF with, step
    <2>2. \A i \in 1..Len(ladder) : with(step(ladder[i].kv, floor, floor), buffer) \in Tries(B)
      BY <1>8, <2>1
    <2> QED
      BY <1>4, <2>2, IsASeq
  <1>12. M \in Seq(Seq(Tries(B)))
    <2> DEFINE t == Tail(buffers)
    <2> HIDE DEF atFloor
    <2>1. Len(t) \in Nat /\ DOMAIN t = 1..Len(t) /\ \A i \in 1..Len(t) : t[i] \in B
      BY <1>7, ElementOfSeq
    <2> HIDE DEF t
    <2>2. [i \in DOMAIN t |-> atFloor(t[i])] \in Seq(Seq(Tries(B)))
      BY <1>11, <2>1, IsASeq
    <2> QED
      BY <2>2 DEF t
  <1> HIDE DEF A, M, C
  <1>13. Placing!FlattenSeq(M) \in Seq(Tries(B))
    BY <1>12, FlattenIs
  <1> QED
    BY <1>1, <1>9, <1>10, <1>13, ConcatProperties

LEMMA ExactTriesAre ==
    ASSUME ModelSizes, NEW B, NEW buffers \in Seq(B), NEW ctx \in Nat, NEW s \in Asked
    PROVE  Placing!ExactTries(ctx, buffers, s) \in Seq(Tries(B))
  <1> DEFINE kvs == IF s.kv = "auto" THEN <<"f16", "q8">> ELSE <<s.kv>>
             try(k, i) == [kv |-> kvs[k], most |-> ctx, least |-> ctx, buffer |-> buffers[i]]
             M == [k \in DOMAIN kvs |-> [i \in DOMAIN buffers |-> try(k, i)]]
  <1>1. Placing!ExactTries(ctx, buffers, s) = Placing!FlattenSeq(M)
    BY DEF Placing!ExactTries
  <1>2. kvs \in Seq(KvTypes)
    <2>1. CASE s.kv = "auto"
      BY <2>1 DEF ModelSizes
    <2>2. CASE s.kv # "auto"
      <3>1. s.kv \in KvTypes
        BY <2>2 DEF Asked
      <3> QED
        BY <2>2, <3>1
    <2> QED
      BY <2>1, <2>2
  <1> HIDE DEF kvs
  <1>3. /\ Len(kvs) \in Nat /\ DOMAIN kvs = 1..Len(kvs) /\ \A k \in 1..Len(kvs) : kvs[k] \in KvTypes
        /\ Len(buffers) \in Nat /\ DOMAIN buffers = 1..Len(buffers)
        /\ \A i \in 1..Len(buffers) : buffers[i] \in B
    BY <1>2, ElementOfSeq
  <1>4. \A k \in 1..Len(kvs), i \in 1..Len(buffers) : try(k, i) \in Tries(B)
    BY <1>3 DEF Tries
  <1> HIDE DEF try
  <1>5. \A k \in 1..Len(kvs) : [i \in DOMAIN buffers |-> try(k, i)] \in Seq(Tries(B))
    BY <1>3, <1>4, IsASeq
  <1>6. M \in Seq(Seq(Tries(B)))
    BY <1>3, <1>5, IsASeq
  <1> HIDE DEF M
  <1> QED
    BY <1>1, <1>6, FlattenIs

LEMMA ResolvedIs ==
    ASSUME ModelSizes, ContextSizes, NEW free \in Int, NEW fixed \in Int, NEW B, B \subseteq Int,
           NEW buffers \in Seq(B), buffers # <<>>, NEW s \in Asked
    PROVE  Placing!ResolveContext(Model, free, fixed, buffers, s) \in ContextChoices(B)
  <1> DEFINE auto == s.context = "auto"
             exact == IF s.context = "max" THEN Model.native ELSE Placing!Least(s.tokens, Model.native)
             tries == IF auto THEN Placing!AutoTries(Model, buffers, s) ELSE Placing!ExactTries(exact, buffers, s)
             otherwise == [ctx |-> IF auto THEN Placing!Least(Model.native, SplitContext) ELSE exact,
                           kv |-> IF s.kv = "auto" THEN "q8" ELSE s.kv,
                           buffer |-> Head(buffers), fits |-> FALSE]
  <1>1. Placing!ResolveContext(Model, free, fixed, buffers, s)
          = Placing!FirstFitting(Model, free, fixed, tries, otherwise)
    BY DEF Placing!ResolveContext
  <1>2. exact \in Nat /\ Placing!Least(Model.native, SplitContext) \in Nat
    BY DEF Placing!Least, ModelSizes, ContextSizes, Asked
  <1> HIDE DEF exact
  <1>3. tries \in Seq(Tries(B))
    BY <1>2, AutoTriesAre, ExactTriesAre
  <1>4. Head(buffers) \in B
    BY HeadTailProperties
  <1>5. (IF s.kv = "auto" THEN "q8" ELSE s.kv) \in KvTypes
    BY DEF ModelSizes, Asked
  <1>6. otherwise \in ContextChoices(B)
    BY <1>2, <1>4, <1>5 DEF ContextChoices
  <1> HIDE DEF tries, otherwise
  <1> QED
    BY <1>1, <1>3, <1>6, FirstFittingIs

\* What a placement takes on the GPU besides the logits buffer.
OnGpu(ngl, moe, kqv, ctx, kv) == Placing!Place(Model, ngl, moe, kqv, ctx, kv, 0, FALSE).vram

\* Nothing without layers there, else more than the logits buffer.
PlaceFits(ngl, moe, kqv, ctx, kv, logits, unified) ==
    LET place == Placing!Place(Model, ngl, moe, kqv, ctx, kv, logits, unified)
        base == OnGpu(ngl, moe, kqv, ctx, kv)
    IN  /\ base \in Nat /\ place.weights \in Nat
        /\ ngl = 0 => base = 0 /\ place.vram = 0
        /\ ngl # 0 => base > 0 /\ place.vram = base + logits
        /\ place.ram \in Int

LEMMA PlaceIs ==
    ASSUME ModelSizes, NEW ngl \in Int, NEW moe \in Nat, NEW kqv \in BOOLEAN,
           NEW ctx \in Nat, NEW kv \in KvTypes, NEW logits \in Nat, NEW unified \in BOOLEAN
    PROVE  PlaceFits(ngl, moe, kqv, ctx, kv, logits, unified)
  <1> DEFINE n == Placing!Blocks(Model)
             gpu == [l \in 1..n |-> l > n - Placing!GpuBlocks(Model, ngl)]
             W == [l \in DOMAIN gpu |-> IF ~gpu[l] THEN 0
                      ELSE Model.blocks[l].weights + IF l > moe THEN Model.blocks[l].experts ELSE 0]
             K == [l \in DOMAIN gpu |-> IF gpu[l] /\ kqv THEN Placing!KvLayer(Model, l, ctx, kv) ELSE 0]
  <1>1. /\ Placing!Place(Model, ngl, moe, kqv, ctx, kv, logits, unified)
             = Placing!PlaceOf(Model, ngl, Placing!Total(W), Placing!Total(K), Placing!KvCache(Model, ctx, kv), logits, unified)
        /\ Placing!Place(Model, ngl, moe, kqv, ctx, kv, 0, FALSE)
             = Placing!PlaceOf(Model, ngl, Placing!Total(W), Placing!Total(K), Placing!KvCache(Model, ctx, kv), 0, FALSE)
    BY DEF Placing!Place
  <1>2. n \in Nat /\ \A l \in 1..n : /\ Model.blocks[l].weights \in Nat
                                     /\ Model.blocks[l].experts \in Nat
                                     /\ Placing!KvLayer(Model, l, ctx, kv) \in Nat
    BY BlockIs, KvSizes
  <1>3. Placing!KvCache(Model, ctx, kv) \in Nat
    BY KvSizes
  <1>4. Placing!BlockBytes(Model) \in Int
    <2>1. [l \in 1..n |-> Model.blocks[l].weights] \in Sizes(n)
          /\ [l \in 1..n |-> Model.blocks[l].experts] \in Sizes(n)
      BY <1>2 DEF Sizes
    <2>2. Placing!Total([l \in 1..n |-> Model.blocks[l].weights]) \in Nat
          /\ Placing!Total([l \in 1..n |-> Model.blocks[l].experts]) \in Nat
      BY <1>2, <2>1, TotalIsNat
    <2> QED
      BY <2>2 DEF Placing!BlockBytes, Placing!Experts
  <1>5. DOMAIN gpu = 1..n /\ \A l \in 1..n : gpu[l] \in BOOLEAN
    OBVIOUS
  <1>6. ASSUME ngl = 0, NEW l \in 1..n PROVE ~gpu[l]
    <2>1. Placing!GpuBlocks(Model, ngl) = 0
      BY <1>6 DEF Placing!GpuBlocks
    <2>2. ~(l > n - 0)
      BY <1>2
    <2> QED
      BY <2>1, <2>2
  <1> HIDE DEF gpu, n
  <1>7. W \in Sizes(n) /\ K \in Sizes(n)
    <2>1. \A l \in 1..n : W[l] \in Nat /\ K[l] \in Nat
      BY <1>2, <1>5
    <2> QED
      BY <1>5, <2>1 DEF Sizes
  <1>8. ngl = 0 => \A l \in 1..n : W[l] = 0 /\ K[l] = 0
    BY <1>5, <1>6
  <1> HIDE DEF W, K
  <1>9. /\ Placing!Total(W) \in Nat /\ Placing!Total(K) \in Nat
        /\ ngl = 0 => Placing!Total(W) = 0 /\ Placing!Total(K) = 0
    BY <1>2, <1>7, <1>8, TotalIsNat, TotalOfNothing
  <1>10. Model.output \in Nat \ {0} /\ Model.tied \in Nat /\ Model.input \in Nat
         /\ Model.logits \in Nat
    BY DEF ModelSizes
  <1> DEFINE w == Placing!Total(W)
             k == Placing!Total(K)
             c == Placing!KvCache(Model, ctx, kv)
             b == Placing!BlockBytes(Model)
             o == Model.output
             t == Model.tied
             base == OnGpu(ngl, moe, kqv, ctx, kv)
             place == Placing!Place(Model, ngl, moe, kqv, ctx, kv, logits, unified)
             weights == place.weights
             vram == place.vram
             ram == place.ram
  <1>11. /\ weights = (IF ngl # 0 THEN o + t ELSE 0) + w
         /\ vram = weights + k + (IF ngl # 0 THEN logits ELSE 0)
         /\ base = ((IF ngl # 0 THEN o + t ELSE 0) + w) + k + (IF ngl # 0 THEN 0 ELSE 0)
         /\ ram = Model.input + b - w + c - k
                + (IF ngl = 0 THEN o + Model.logits ELSE 0)
                + (IF unified THEN vram ELSE 0)
    <2>1. /\ place = Placing!PlaceOf(Model, ngl, w, k, c, logits, unified)
          /\ base = Placing!PlaceOf(Model, ngl, w, k, c, 0, FALSE).vram
      BY <1>1 DEF OnGpu
    <2> HIDE DEF w, k, c, place, base
    <2>2. base = ((IF ngl # 0 THEN o + t ELSE 0) + w) + k + (IF ngl # 0 THEN 0 ELSE 0)
      BY <2>1 DEF Placing!PlaceOf
    <2>3. weights = (IF ngl # 0 THEN o + t ELSE 0) + w
      BY <2>1 DEF Placing!PlaceOf
    <2>4. vram = ((IF ngl # 0 THEN o + t ELSE 0) + w) + k + (IF ngl # 0 THEN logits ELSE 0)
      BY <2>1 DEF Placing!PlaceOf
    <2>5. ram = Model.input + b - w + c - k
                + (IF ngl = 0 THEN o + Model.logits ELSE 0)
                + (IF unified THEN vram ELSE 0)
      BY <2>1 DEF Placing!PlaceOf
    <2> QED
      BY <2>2, <2>3, <2>4, <2>5
  <1>12. /\ w \in Nat /\ k \in Nat /\ c \in Nat /\ b \in Int /\ o \in Nat \ {0} /\ t \in Nat
         /\ ngl = 0 => w = 0 /\ k = 0
    BY <1>3, <1>4, <1>9, <1>10
  <1> SUFFICES /\ base \in Nat /\ weights \in Nat
               /\ ngl = 0 => base = 0 /\ vram = 0
               /\ ngl # 0 => base > 0 /\ vram = base + logits
               /\ ram \in Int
    BY DEF PlaceFits
  <1> HIDE DEF w, k, c, b, o, t, base, weights, vram, ram
  <1>13. CASE ngl = 0
    BY <1>10, <1>11, <1>12, <1>13
  <1>14. CASE ngl # 0
    BY <1>10, <1>11, <1>12, <1>14
  <1> QED
    BY <1>13, <1>14

\* The placements: what a feasible one takes on the GPU is what was estimated
\* for it, and that may be limited.
Tiers == {"none", "gpu", "moe", "hybrid", "cpu", "disk"}
Plans == [tier : Tiers, ngl : Int, moe : Nat, kqv : BOOLEAN, vram : Nat, disk : Nat,
          ctx : Nat, kv : KvTypes]
Estimated(p, logits) ==
    p.vram = OnGpu(p.ngl, p.moe, p.kqv, p.ctx, p.kv) + (IF p.ngl # 0 THEN logits ELSE 0)
PlansFor(logits) == {p \in Plans : Placing!Feasible(p) => Estimated(p, logits)}
PlansWithin(logits, usable) == {p \in PlansFor(logits) : Placing!Feasible(p) => p.vram <= usable}
Spots == [ctx : Nat, kv : KvTypes, logits : Nat, usable : Nat, gpu : BOOLEAN, ram : Int,
          unified : BOOLEAN]

LEMMA NoPlacementIs ==
    ASSUME NEW ctx \in Nat, NEW kv \in KvTypes, NEW logits, NEW usable
    PROVE  Placing!NoPlacement(ctx, kv) \in PlansWithin(logits, usable)
  <1>1. Placing!NoPlacement(ctx, kv) \in Plans
    BY DEF Placing!NoPlacement, Plans, Tiers
  <1>2. Placing!NoPlacement(ctx, kv).tier = "none"
    BY DEF Placing!NoPlacement
  <1> QED
    BY <1>1, <1>2 DEF PlansWithin, PlansFor, Placing!Feasible

LEMMA CandidateIs ==
    ASSUME ModelSizes, NEW spot \in Spots, NEW tier \in Tiers, NEW ngl \in Int, NEW moe \in Nat,
           NEW kqv \in BOOLEAN, NEW free \in BOOLEAN, NEW streams \in BOOLEAN
    PROVE  /\ Placing!Candidate(Model, spot, tier, ngl, moe, kqv, free, streams) \in PlansFor(spot.logits)
           /\ ~free \/ ngl = 0 => Placing!Candidate(Model, spot, tier, ngl, moe, kqv, free, streams)
                                    \in PlansWithin(spot.logits, spot.usable)
  <1> DEFINE place == Placing!Place(Model, ngl, moe, kqv, spot.ctx, spot.kv, spot.logits, spot.unified)
             base == OnGpu(ngl, moe, kqv, spot.ctx, spot.kv)
             excess == Placing!Most(place.ram - spot.ram, 0)
             p == Placing!Candidate(Model, spot, tier, ngl, moe, kqv, free, streams)
             q == [tier |-> IF tier = "cpu" /\ excess > 0 THEN "disk" ELSE tier,
                   ngl |-> ngl, moe |-> moe, kqv |-> kqv,
                   vram |-> place.vram, disk |-> excess, ctx |-> spot.ctx, kv |-> spot.kv]
  <1>1. p = IF (~free /\ place.vram > spot.usable) \/ (excess > 0 /\ ~streams)
            THEN Placing!NoPlacement(spot.ctx, spot.kv) ELSE q
    BY DEF Placing!Candidate, Placing!PlaceAt, Placing!Measured
  <1>2. /\ spot.ctx \in Nat /\ spot.kv \in KvTypes /\ spot.logits \in Nat /\ spot.usable \in Nat
        /\ spot.ram \in Int /\ spot.unified \in BOOLEAN
    BY DEF Spots
  <1>3. /\ base \in Nat
        /\ ngl = 0 => base = 0 /\ place.vram = 0
        /\ ngl # 0 => base > 0 /\ place.vram = base + spot.logits
        /\ place.ram \in Int
    <2>1. PlaceFits(ngl, moe, kqv, spot.ctx, spot.kv, spot.logits, spot.unified)
      BY <1>2, PlaceIs
    <2> QED
      BY <2>1 DEF PlaceFits
  <1>4. excess \in Nat /\ place.vram \in Nat
        /\ place.vram = base + (IF ngl # 0 THEN spot.logits ELSE 0)
    BY <1>2, <1>3 DEF Placing!Most
  <1>5. CASE (~free /\ place.vram > spot.usable) \/ (excess > 0 /\ ~streams)
    <2>1. p = Placing!NoPlacement(spot.ctx, spot.kv)
      BY <1>1, <1>5
    <2> QED
      BY <1>2, <2>1, NoPlacementIs DEF PlansWithin
  <1>6. CASE ~((~free /\ place.vram > spot.usable) \/ (excess > 0 /\ ~streams))
    <2>1. p = q
      BY <1>1, <1>6
    <2> HIDE DEF place, excess
    <2>2. q \in Plans
      BY <1>2, <1>4 DEF Plans, Tiers
    <2>3. Estimated(q, spot.logits)
      BY <1>4 DEF Estimated
    <2>4. ~free \/ ngl = 0 => q.vram <= spot.usable
      BY <1>2, <1>3, <1>6
    <2> HIDE DEF q
    <2> QED
      BY <2>1, <2>2, <2>3, <2>4 DEF PlansFor, PlansWithin
  <1> QED
    BY <1>5, <1>6

LEMMA CandidateLimited ==
    ASSUME ModelSizes, NEW spot \in Spots, NEW tier \in Tiers, NEW ngl \in Int, NEW moe \in Nat,
           NEW kqv \in BOOLEAN, NEW free \in BOOLEAN, NEW streams \in BOOLEAN, ~free \/ ngl = 0
    PROVE  Placing!Candidate(Model, spot, tier, ngl, moe, kqv, free, streams) \in PlansWithin(spot.logits, spot.usable)
  BY CandidateIs

LEMMA UsersIs ==
    ASSUME ModelSizes, NEW spot \in Spots, NEW s \in Asked
    PROVE  Placing!Users(Model, spot, s) \in PlansFor(spot.logits)
  <1> DEFINE ngl == IF s.ngl # None THEN s.ngl ELSE IF spot.gpu THEN -1 ELSE 0
             moe == IF s.moe # None THEN s.moe ELSE 0
             kqv == IF s.kqv # None THEN s.kqv ELSE TRUE
  <1>1. ngl \in Int /\ moe \in Nat /\ kqv \in BOOLEAN
    <2>1. ngl \in Int
      BY DEF Asked
    <2>2. moe \in Nat
      BY DEF Asked
    <2>3. s.kqv # None => s.kqv \in BOOLEAN
      BY DEF Asked
    <2>4. kqv \in BOOLEAN
      BY <2>3, Zenon
    <2> QED
      BY <2>1, <2>2, <2>4
  <1>2. Placing!Users(Model, spot, s)
          = Placing!Candidate(Model, spot, Placing!UsersTier(Model, ngl, moe, kqv), ngl, moe, kqv, TRUE, TRUE)
    BY DEF Placing!Users, Placing!UsersPlan
  <1> HIDE DEF ngl, moe, kqv
  <1>3. Placing!UsersTier(Model, ngl, moe, kqv) \in Tiers
    BY DEF Placing!UsersTier, Tiers
  <1> QED
    BY <1>1, <1>2, <1>3, CandidateIs

LEMMA CandidatesAre ==
    ASSUME ModelSizes, NEW spot \in Spots, NEW gpu \in BOOLEAN, NEW auto \in BOOLEAN
    PROVE  Placing!Candidates(Model, spot, gpu, auto) \in Seq(PlansWithin(spot.logits, spot.usable))
  <1> DEFINE P == PlansWithin(spot.logits, spot.usable)
             moe == Placing!Experts(Model) > 0
             few == Placing!FewestExperts(Model, spot)
             most == Placing!MostBlocks(Model, spot)
             A == Placing!Candidate(Model, spot, "gpu", -1, 0, TRUE, FALSE, moe)
             B == Placing!Candidate(Model, spot, "moe", -1, few, TRUE, FALSE, TRUE)
             C == Placing!Candidate(Model, spot, "hybrid", most + 1, 0, TRUE, FALSE, moe)
             D == Placing!Candidate(Model, spot, "hybrid", -1, 0, FALSE, FALSE, FALSE)
             E == Placing!Candidate(Model, spot, "cpu", 0, 0, TRUE, TRUE, moe)
  <1>1. Placing!Blocks(Model) \in Nat
    BY BlockIs
  <1>2. few \in Nat
    <2> DEFINE over(n) == Placing!Over(Model, spot, -1, n, TRUE)
               S == {n \in 0..Placing!Blocks(Model) : ~over(n)} \cup {Placing!Blocks(Model)}
    <2>2. few = Placing!Min(S)
      BY DEF Placing!FewestExperts
    <2> HIDE DEF over
    <2>1. S \subseteq 0..Placing!Blocks(Model) /\ S # {}
      BY <1>1
    <2> HIDE DEF S
    <2>3. few \in S
      BY <1>1, <2>1, <2>2, LeastSize
    <2>4. \A n \in S : n \in Nat
      BY <1>1, <2>1
    <2> HIDE DEF few
    <2> QED
      BY <2>3, <2>4
  <1>3. most \in Nat
    <2> DEFINE over(b) == Placing!Over(Model, spot, b + 1, 0, TRUE)
               S == {b \in 1..(Placing!Blocks(Model) - 1) : ~over(b)} \cup {1}
    <2>2. most = Placing!Max(S)
      BY DEF Placing!MostBlocks
    <2> HIDE DEF over
    <2>1. S \subseteq 0..(Placing!Blocks(Model) + 1) /\ S # {}
      BY <1>1
    <2> HIDE DEF S
    <2>3. most \in S
      <3>1. Placing!Blocks(Model) + 1 \in Nat
        BY <1>1
      <3> QED
        BY <2>1, <2>2, <3>1, GreatestSize
    <2>4. \A n \in S : n \in Nat
      BY <1>1, <2>1
    <2> HIDE DEF most
    <2> QED
      BY <2>3, <2>4
  <1>4. moe \in BOOLEAN
    OBVIOUS
  <1> HIDE DEF few, most, moe
  <1>5. A \in P /\ B \in P /\ C \in P /\ D \in P /\ E \in P
    <2>1. {"gpu", "moe", "hybrid", "cpu"} \subseteq Tiers
      BY DEF Tiers
    <2>2. -1 \in Int /\ 0 \in Int /\ 0 \in Nat /\ most + 1 \in Int
      BY <1>3
    <2>3. A \in P
      BY <1>4, <2>1, <2>2, CandidateLimited
    <2>4. B \in P
      BY <1>2, <1>4, <2>1, <2>2, CandidateLimited
    <2>5. C \in P
      BY <1>4, <2>1, <2>2, CandidateLimited
    <2>6. D \in P
      BY <1>4, <2>1, <2>2, CandidateLimited
    <2>7. E \in P
      BY <1>4, <2>1, <2>2, CandidateLimited
    <2> QED
      BY <2>3, <2>4, <2>5, <2>6, <2>7
  <1> HIDE DEF P
  <1>7. Placing!Candidates(Model, spot, gpu, auto)
          = (IF gpu THEN <<A>> ELSE <<>>)
            \o (IF gpu /\ moe THEN <<B>> ELSE <<>>)
            \o (IF gpu /\ Placing!Blocks(Model) > 1 THEN <<C>> ELSE <<>>)
            \o (IF gpu /\ ~auto THEN <<D>> ELSE <<>>)
            \o <<E>>
    BY DEF Placing!Candidates, moe, few, most
  <1> HIDE DEF A, B, C, D, E
  <1> DEFINE a == IF gpu THEN <<A>> ELSE <<>>
             b == IF gpu /\ moe THEN <<B>> ELSE <<>>
             c == IF gpu /\ Placing!Blocks(Model) > 1 THEN <<C>> ELSE <<>>
             d == IF gpu /\ ~auto THEN <<D>> ELSE <<>>
             e == <<E>>
  <1>8. a \in Seq(P) /\ b \in Seq(P) /\ c \in Seq(P) /\ d \in Seq(P) /\ e \in Seq(P)
    BY <1>5, EmptySeq
  <1> HIDE DEF a, b, c, d, e
  <1>9. a \o b \in Seq(P)
    BY <1>8, ConcatProperties
  <1>10. a \o b \o c \in Seq(P)
    BY <1>8, <1>9, ConcatProperties
  <1>11. a \o b \o c \o d \in Seq(P)
    BY <1>8, <1>10, ConcatProperties
  <1>12. a \o b \o c \o d \o e \in Seq(P)
    BY <1>8, <1>11, ConcatProperties
  <1> QED
    BY <1>7, <1>12 DEF P, a, b, c, d, e

LEMMA ChosenIs ==
    ASSUME NEW P, NEW candidates \in Seq(P), NEW moe, NEW none \in P
    PROVE  Placing!Chosen(candidates, moe, none) \in P
  <1> DEFINE I == {i \in 1..Len(candidates) : Placing!Feasible(candidates[i]) /\ candidates[i].disk = 0}
             J == {i \in 1..Len(candidates) : Placing!Feasible(candidates[i])}
             a == IF I # {} THEN Placing!Min(I) ELSE 0
             b == IF J # {} THEN Placing!Min(J) ELSE 0
  <1>1. Placing!Chosen(candidates, moe, none)
          = CASE a # 0 -> candidates[a]
              [] a = 0 /\ moe /\ b # 0 -> candidates[b]
              [] OTHER -> none
    BY DEF Placing!Chosen, Placing!SelectInSeq
  <1>2. a = 0 \/ a \in 1..Len(candidates)
    <2>1. Len(candidates) \in Nat /\ I \subseteq 0..Len(candidates)
          /\ I \subseteq 1..Len(candidates)
      OBVIOUS
    <2> HIDE DEF I
    <2> QED
      BY <2>1, LeastSize
  <1>3. b = 0 \/ b \in 1..Len(candidates)
    <2>1. Len(candidates) \in Nat /\ J \subseteq 0..Len(candidates)
          /\ J \subseteq 1..Len(candidates)
      OBVIOUS
    <2> HIDE DEF J
    <2> QED
      BY <2>1, LeastSize
  <1> HIDE DEF a, b
  <1>4. \A i \in 1..Len(candidates) : candidates[i] \in P
    BY ElementOfSeq
  <1> QED
    BY <1>1, <1>2, <1>3, <1>4

\* The machine a plan is for, what was measured of the model, and the bytes the
\* placement may take once that was measured.
Machines == {hw \in [gpu : BOOLEAN, vram : Nat, ram : Nat, unified : BOOLEAN, reserve : Nat] :
                ~hw.gpu => hw.vram = 0}
Measures == [pool : Int \cup {None}, correction : Int \cup {None}]
Buffers == RuleBuffers \in Seq(Nat) /\ RuleBuffers # <<>>
Limited(s, m) == Placing!Automatic(s) /\ m.pool # None
Limit(hw, m) == Placing!Usable(hw.vram, m.pool + hw.reserve)

LEMMA LogitsAre ==
    ASSUME ModelSizes, None \notin Int, NEW m \in Measures
    PROVE  Placing!Logits(Model, m) \in Nat
  <1>1. (IF m.correction = None THEN 0 ELSE m.correction) \in Int
    BY DEF Measures
  <1> QED
    BY <1>1 DEF Placing!Logits, Placing!Most, ModelSizes

LEMMA SizesAre ==
    ASSUME ModelSizes
    PROVE  Placing!BlockBytes(Model) \in Nat /\ Placing!Experts(Model) \in Nat
           /\ Placing!FullGpu(Model) \in Nat
  <1> DEFINE n == Placing!Blocks(Model)
  <1>1. n \in Nat /\ [l \in 1..n |-> Model.blocks[l].weights] \in Sizes(n)
        /\ [l \in 1..n |-> Model.blocks[l].experts] \in Sizes(n)
    BY BlockIs DEF Sizes
  <1>2. Placing!Total([l \in 1..n |-> Model.blocks[l].weights]) \in Nat
        /\ Placing!Experts(Model) \in Nat
    BY <1>1, TotalIsNat DEF Placing!Experts
  <1>3. Placing!BlockBytes(Model) \in Nat
    BY <1>2 DEF Placing!BlockBytes
  <1> QED
    BY <1>2, <1>3 DEF Placing!FullGpu, ModelSizes

\* The buffers of a machine with a GPU.
BuffersFor(s, hw, m) == IF Limited(s, m) THEN {m.pool + hw.reserve} ELSE Int

LEMMA BuffersAre ==
    ASSUME Buffers, None \notin Int, NEW hw \in Machines, NEW m \in Measures, NEW s \in Asked
    PROVE  /\ Placing!BufferOptions(s, m.pool, hw.reserve) \in Seq(BuffersFor(s, hw, m))
           /\ Placing!BufferOptions(s, m.pool, hw.reserve) # <<>>
           /\ BuffersFor(s, hw, m) \subseteq Int
  <1>1. hw.reserve \in Nat
    BY DEF Machines
  <1>2. m.pool # None => m.pool + hw.reserve \in Int
    BY <1>1 DEF Measures
  <1>3. CASE s.buffer # None
    <2>1. s.buffer \in Int
      BY <1>3 DEF Asked
    <2>2. BuffersFor(s, hw, m) = Int /\ Placing!BufferOptions(s, m.pool, hw.reserve) = <<s.buffer>>
      BY <1>3 DEF BuffersFor, Limited, Placing!Automatic, Placing!BufferOptions
    <2> QED
      BY <2>1, <2>2
  <1>4. CASE s.buffer = None /\ m.pool # None
    <2>1. Placing!BufferOptions(s, m.pool, hw.reserve) = <<m.pool + hw.reserve>>
      BY <1>4 DEF Placing!BufferOptions
    <2>2. m.pool + hw.reserve \in BuffersFor(s, hw, m) /\ BuffersFor(s, hw, m) \subseteq Int
      BY <1>2, <1>4 DEF BuffersFor
    <2> QED
      BY <2>1, <2>2
  <1>5. CASE s.buffer = None /\ m.pool = None
    <2>1. BuffersFor(s, hw, m) = Int /\ Placing!BufferOptions(s, m.pool, hw.reserve) = RuleBuffers
      BY <1>5 DEF BuffersFor, Limited, Placing!BufferOptions
    <2> QED
      BY <2>1 DEF Buffers
  <1> QED
    BY <1>3, <1>4, <1>5

LEMMA ContextIs ==
    ASSUME ModelSizes, ContextSizes, Buffers, None \notin Int,
           NEW hw \in Machines, NEW m \in Measures, NEW s \in Asked, NEW gpu \in BOOLEAN
    PROVE  Placing!ContextFor(Model, hw, s, m, gpu)
             \in ContextChoices(IF gpu THEN BuffersFor(s, hw, m) ELSE {0})
  <1>1. hw.vram \in Nat /\ hw.ram \in Nat
    BY DEF Machines
  <1>2. /\ Placing!Logits(Model, m) \in Nat /\ Placing!BlockBytes(Model) \in Nat
           /\ Placing!Experts(Model) \in Nat
        /\ Placing!FullGpu(Model) \in Nat /\ Model.input \in Nat /\ Model.output \in Nat
           /\ Model.logits \in Nat
    BY LogitsAre, SizesAre DEF ModelSizes
  <1>3. CASE gpu
    <2> DEFINE free == IF hw.unified THEN Placing!Least(hw.vram, Placing!Most(hw.ram - Model.input, 0)) ELSE hw.vram
               fixed == Placing!FullGpu(Model) - Placing!Experts(Model) + Placing!Logits(Model, m)
               buffers == Placing!BufferOptions(s, m.pool, hw.reserve)
    <2>1. free \in Int /\ fixed \in Int
      BY <1>1, <1>2 DEF Placing!Least, Placing!Most
    <2>2. Placing!ContextFor(Model, hw, s, m, gpu) = Placing!ResolveContext(Model, free, fixed, buffers, s)
      BY <1>3 DEF Placing!ContextFor
    <2> DEFINE B == BuffersFor(s, hw, m)
    <2>3. buffers \in Seq(B) /\ buffers # <<>> /\ B \subseteq Int
      BY BuffersAre
    <2> HIDE DEF free, fixed, buffers, B
    <2>4. Placing!ResolveContext(Model, free, fixed, buffers, s) \in ContextChoices(B)
      BY <2>1, <2>3, ResolvedIs
    <2> QED
      BY <1>3, <2>2, <2>4 DEF B
  <1>4. CASE ~gpu
    <2> DEFINE fixed == Model.input + Model.output + Placing!BlockBytes(Model) + Model.logits
    <2>1. fixed \in Int
      BY <1>2
    <2>2. Placing!ContextFor(Model, hw, s, m, gpu) = Placing!ResolveContext(Model, hw.ram, fixed, <<0>>, s)
      BY <1>4 DEF Placing!ContextFor
    <2> HIDE DEF fixed
    <2>3. <<0>> \in Seq({0}) /\ <<0>> # <<>> /\ {0} \subseteq Int
      OBVIOUS
    <2>4. hw.ram \in Int
      BY <1>1
    <2> QED
      BY <1>4, <2>1, <2>2, <2>3, <2>4, ResolvedIs
  <1> QED
    BY <1>3, <1>4

\* A placement fits what was measured.
PlanFits(p, hw, s, m) ==
    /\ p \in PlansFor(Placing!Logits(Model, m))
    /\ Limited(s, m) => p \in PlansWithin(Placing!Logits(Model, m), Limit(hw, m))

PlannerConstants == ModelSizes /\ ContextSizes /\ Buffers /\ None \notin Int

LEMMA PlanAtIs ==
    ASSUME PlannerConstants, NEW hw \in Machines, NEW m \in Measures, NEW s \in Asked,
           NEW gpu \in BOOLEAN, gpu => hw.gpu, Placing!Automatic(s) /\ hw.gpu => gpu,
           NEW splitAtFloor \in BOOLEAN,
           NEW choice \in ContextChoices(IF gpu THEN BuffersFor(s, hw, m) ELSE {0})
    PROVE  PlanFits(Placing!PlanAt(Model, hw, s, m, gpu, choice, splitAtFloor), hw, s, m)
  <1> USE DEF PlannerConstants
  <1> DEFINE floor == Placing!Least(Model.native, ContextFloor)
             ctx == IF s.context = "auto" /\ choice.ctx > floor
                       /\ (~gpu \/ (splitAtFloor /\ ~choice.fits))
                    THEN floor ELSE choice.ctx
             spot == [ctx |-> ctx, kv |-> choice.kv, logits |-> Placing!Logits(Model, m),
                    usable |-> Placing!Usable(hw.vram, IF gpu THEN choice.buffer ELSE 0),
                    gpu |-> hw.gpu, ram |-> hw.ram, unified |-> hw.unified /\ hw.gpu]
             auto == s.context = "auto"
             none == Placing!NoPlacement(ctx, choice.kv)
             chosen == Placing!Chosen(Placing!Candidates(Model, spot, gpu, auto), Placing!Experts(Model) > 0, none)
  <1>1. Placing!PlanAt(Model, hw, s, m, gpu, choice, splitAtFloor)
          = IF s.ngl # None \/ s.moe # None \/ s.kqv # None THEN Placing!Users(Model, spot, s) ELSE chosen
    BY DEF Placing!PlanAt
  <1>2. /\ choice.ctx \in Nat /\ choice.kv \in KvTypes
        /\ choice.buffer \in (IF gpu THEN BuffersFor(s, hw, m) ELSE {0})
    BY DEF ContextChoices
  <1>3. hw.gpu \in BOOLEAN /\ hw.vram \in Nat /\ hw.ram \in Nat /\ (~hw.gpu => hw.vram = 0)
        /\ hw.unified \in BOOLEAN /\ hw.reserve \in Nat
    BY DEF Machines
  <1>4. ctx \in Nat
    BY <1>2 DEF Placing!Least, ModelSizes, ContextSizes
  <1> HIDE DEF ctx
  <1>5. spot.usable \in Nat
    <2>1. gpu => choice.buffer \in Int
      BY <1>2, BuffersAre
    <2> QED
      BY <1>3, <2>1 DEF Placing!Usable, Placing!Most
  <1>6. spot.unified \in BOOLEAN
    BY Zenon
  <1>7. Placing!Logits(Model, m) \in Nat
    BY LogitsAre
  <1>8. spot \in Spots
    <2>1. spot.usable \in Nat /\ spot.unified \in BOOLEAN
      BY <1>5, <1>6
    <2> DEFINE usable == Placing!Usable(hw.vram, IF gpu THEN choice.buffer ELSE 0)
               one == hw.unified /\ hw.gpu
    <2>2. usable \in Nat /\ one \in BOOLEAN
      BY <2>1
    <2> HIDE DEF usable, one
    <2> QED
      BY <1>2, <1>3, <1>4, <1>7, <2>2 DEF Spots, usable, one
  <1>9. Limited(s, m) => spot.usable <= Limit(hw, m)
    <2>1. CASE gpu
      <3>1. Limited(s, m) => choice.buffer = m.pool + hw.reserve
        BY <1>2, <2>1 DEF BuffersFor
      <3>2. Limited(s, m) => spot.usable = Limit(hw, m)
        BY <2>1, <3>1 DEF Limit
      <3> QED
        BY <1>5, <3>2
    <2>2. CASE ~gpu
      <3>1. Limited(s, m) => hw.vram = 0 /\ m.pool \in Int
        BY <1>3, <2>2 DEF Limited, Measures
      <3> QED
        BY <1>3, <2>2, <3>1 DEF Limit, Placing!Usable, Placing!Most
    <2> QED
      BY <2>1, <2>2
  <1>10. spot.logits = Placing!Logits(Model, m)
    OBVIOUS
  <1>11. none \in PlansWithin(spot.logits, spot.usable)
    BY <1>2, <1>4, NoPlacementIs
  <1> HIDE DEF spot, none
  <1>12. CASE s.ngl # None \/ s.moe # None \/ s.kqv # None
    <2>1. Placing!Users(Model, spot, s) \in PlansFor(spot.logits)
      BY <1>8, UsersIs
    <2>2. ~Limited(s, m)
      BY <1>12 DEF Limited, Placing!Automatic
    <2> QED
      BY <1>1, <1>10, <1>12, <2>1, <2>2 DEF PlanFits
  <1>13. CASE ~(s.ngl # None \/ s.moe # None \/ s.kqv # None)
    <2>1. auto \in BOOLEAN
      OBVIOUS
    <2> HIDE DEF auto
    <2>2. Placing!Candidates(Model, spot, gpu, auto) \in Seq(PlansWithin(spot.logits, spot.usable))
      BY <1>8, <2>1, CandidatesAre
    <2>3. chosen \in PlansWithin(spot.logits, spot.usable)
      BY <1>11, <2>2, ChosenIs
    <2> HIDE DEF chosen
    <2>4. Limited(s, m) => Limit(hw, m) \in Int
      BY <1>3 DEF Limit, Limited, Measures, Placing!Usable, Placing!Most
    <2>5. chosen \in PlansFor(spot.logits)
      BY <2>3 DEF PlansWithin
    <2>6. Limited(s, m) => chosen \in PlansWithin(spot.logits, Limit(hw, m))
      BY <1>5, <1>9, <2>3, <2>4 DEF PlansWithin, PlansFor, Plans
    <2> QED
      BY <1>1, <1>10, <1>13, <2>5, <2>6 DEF PlanFits
  <1> QED
    BY <1>12, <1>13

\* What the planner returns: a feasible placement is as large on the GPU as its
\* estimate, and one that is left to the planner keeps, of a model that was
\* measured, the buffer and the reserve free.
LEMMA CreatePlanIs ==
    ASSUME PlannerConstants, NEW hw \in Machines, NEW m \in Measures, NEW s \in Asked
    PROVE  PlanFits(Placing!CreatePlan(Model, hw, s, m), hw, s, m)
  <1> DEFINE gpu == hw.gpu /\ s.ngl # 0
             choice == Placing!ContextFor(Model, hw, s, m, gpu)
             one == Placing!PlanOf(Model, hw, s, m, FALSE)
             two == Placing!PlanOf(Model, hw, s, m, TRUE)
  <1>1. gpu \in BOOLEAN
    OBVIOUS
  <1>2. gpu => hw.gpu
    OBVIOUS
  <1>3. Placing!Automatic(s) /\ hw.gpu => gpu
    BY DEF Placing!Automatic, PlannerConstants
  <1>4. /\ one = Placing!PlanAt(Model, hw, s, m, gpu, choice, FALSE)
        /\ two = Placing!PlanAt(Model, hw, s, m, gpu, choice, TRUE)
    BY DEF Placing!PlanOf
  <1> HIDE DEF gpu
  <1>5. choice \in ContextChoices(IF gpu THEN BuffersFor(s, hw, m) ELSE {0})
    BY <1>1, ContextIs DEF PlannerConstants
  <1> HIDE DEF choice, one, two
  <1>6. PlanFits(one, hw, s, m)
    BY <1>1, <1>2, <1>3, <1>4, <1>5, PlanAtIs
  <1>7. PlanFits(two, hw, s, m)
    BY <1>1, <1>2, <1>3, <1>4, <1>5, PlanAtIs
  <1> QED
    BY <1>6, <1>7 DEF Placing!CreatePlan, Placing!Roomier, one, two

-----------------------------------------------------------------------------
(* Loads. A placement is planned with what was measured, which only grows    *)
(* and covers every recorded miss; without a miss or a change of the machine *)
(* it covers what the model takes beyond its estimate.                      *)

LoadSteps == {"planned", "loading", "retrying", "settle"}
Stages == {"first", "better", "safe"}
Loading == [at : LoadSteps, settings : Asked, hw : 0..Vram, seen : 0..Vram, fresh : BOOLEAN,
            stage : Stages, plan : Plans]
Residents == [taken : Nat, grown : BOOLEAN]
Uses == [free : Nat, planned : Nat]
Miss == [vram : Nat, free : Nat]

PlanConstants ==
    /\ PlannerConstants
    /\ Settings \subseteq Asked
    /\ Vram \in Nat /\ Ram \in Nat /\ Unified \in BOOLEAN /\ Reserve \in Nat \ {0}
    /\ DryGaps \subseteq Int /\ ExtraGaps \subseteq Int
    /\ IdleBytes \in Nat /\ Growth \in Nat /\ AppSizes \subseteq Nat /\ MaxChanges \in Nat
    /\ None \notin Loading /\ None \notin Residents /\ None \notin Uses

\* What the machine has beside the models' memory, and the logits buffer as it
\* is estimated and as it really is.
Room == Vram - apps - idle
LogitsFor(dry) == Placing!Most(Model.logits + (IF dry = None THEN 0 ELSE dry), 0)
EstimatedLogits == LogitsFor(correction)
RealLogits == Placing!Most(Model.logits + real.dry, 0)
Steady == changes = 0 /\ missed = {} /\ (correction = None \/ correction >= 0)

PlaceTypes ==
    /\ apps \in AppSizes /\ idle \in {0, IdleBytes} /\ changes \in 0..MaxChanges
    /\ real \in [dry : DryGaps, extra : ExtraGaps]
    /\ pool \in Int \cup {None} /\ correction \in {None, real.dry}
    /\ load \in Loading \cup {None}
    /\ resident \in Residents \cup {None} /\ use \in Uses \cup {None}
    /\ missed \subseteq Miss
    /\ load # None => ((resident # None) <=> (load.at = "settle"))
    /\ use # None => resident # None /\ pool # None
    /\ apps + idle + Placing!Taken <= Vram

\* The placement on its way is as large as it was estimated.
PlanHolds ==
    load # None /\ load.at # "settle" => Placing!Feasible(load.plan)
        /\ Estimated(load.plan, EstimatedLogits)

MissesHold ==
    /\ \A miss \in missed : miss.vram > 0 /\ pool # None /\ pool >= miss.free - miss.vram
    /\ load # None /\ load.at = "retrying" => missed # {}

MachineHolds ==
    changes = 0 /\ load # None =>
        /\ load.hw = Room
        /\ load.at \in {"loading", "retrying", "settle"} => load.seen = Room

GapHolds ==
    Steady /\ pool # None => pool >= RealLogits - EstimatedLogits + real.extra

LimitHolds ==
    load # None /\ ~load.fresh =>
        /\ pool # None
        /\ Placing!Automatic(load.settings) /\ load.at \in {"planned", "loading"}
           => load.plan.vram <= Placing!Usable(load.hw, pool + Reserve)
        /\ Placing!Automatic(load.settings) /\ load.at = "settle" /\ use # None /\ Steady
           => resident.taken + Reserve <= Room

PlaceInv ==
    /\ PlaceTypes /\ PlanHolds /\ MissesHold /\ MachineHolds /\ GapHolds /\ LimitHolds

LEMMA RoomIs ==
    ASSUME PlanConstants, PlaceTypes
    PROVE  /\ Vram \in Nat /\ Placing!Taken \in Nat /\ Room \in 0..Vram
           /\ Placing!FreeVram = Room - Placing!Taken /\ Placing!FreeVram \in 0..Vram
           /\ apps \in Nat /\ idle \in Nat
           /\ EstimatedLogits \in Nat /\ RealLogits \in Nat
  <1>1. apps \in Nat /\ idle \in Nat /\ Vram \in Nat
    BY DEF PlanConstants, PlaceTypes
  <1>2. Placing!Taken \in Nat
    BY DEF PlaceTypes, Residents, Placing!Taken
  <1>3. apps + idle + Placing!Taken <= Vram
    BY DEF PlaceTypes
  <1>4. Model.logits \in Nat /\ real.dry \in Int /\ (correction = None \/ correction \in Int)
    BY DEF PlaceTypes, PlanConstants, PlannerConstants, ModelSizes
  <1>5. EstimatedLogits \in Nat /\ RealLogits \in Nat
    BY <1>4 DEF EstimatedLogits, LogitsFor, RealLogits, Placing!Most
  <1> QED
    BY <1>1, <1>2, <1>3, <1>5 DEF Room, Placing!FreeVram, Placing!Most

\* A plan made in this module.
LEMMA PlanForIs ==
    ASSUME PlanConstants, NEW free \in 0..Vram, NEW s \in Asked,
           NEW gap \in Int \cup {None}, NEW dry \in Int \cup {None}
    PROVE  /\ Placing!PlanFor(free, s, gap, dry) \in Plans
           /\ Placing!Feasible(Placing!PlanFor(free, s, gap, dry)) =>
                 /\ Estimated(Placing!PlanFor(free, s, gap, dry), LogitsFor(dry))
                 /\ Placing!Automatic(s) /\ gap # None
                    => Placing!PlanFor(free, s, gap, dry).vram <= Placing!Usable(free, gap + Reserve)
  <1> DEFINE hw == [gpu |-> Vram > 0, vram |-> free, ram |-> Ram, unified |-> Unified, reserve |-> Reserve]
             m == [pool |-> gap, correction |-> dry]
             p == Placing!PlanFor(free, s, gap, dry)
  <1>1. p = Placing!CreatePlan(Model, hw, s, m)
    BY DEF Placing!PlanFor
  <1>2. hw \in Machines
    <2> DEFINE gpu == Vram > 0
    <2>1. gpu \in BOOLEAN /\ (~gpu => free = 0) /\ free \in Nat /\ Ram \in Nat
          /\ Unified \in BOOLEAN
          /\ Reserve \in Nat
      BY DEF PlanConstants
    <2> HIDE DEF gpu
    <2>2. [gpu |-> gpu, vram |-> free, ram |-> Ram, unified |-> Unified, reserve |-> Reserve] \in Machines
      BY <2>1 DEF Machines
    <2> QED
      BY <2>2 DEF gpu
  <1>3. m \in Measures
    BY DEF Measures
  <1>4. hw.vram = free /\ hw.reserve = Reserve /\ m.pool = gap /\ m.correction = dry
    OBVIOUS
  <1> HIDE DEF hw, m
  <1>5. PlanFits(p, hw, s, m)
    BY <1>1, <1>2, <1>3, CreatePlanIs DEF PlanConstants
  <1>6. Placing!Logits(Model, m) = LogitsFor(dry) /\ Limit(hw, m) = Placing!Usable(free, gap + Reserve)
    BY <1>4 DEF Placing!Logits, LogitsFor, Limit
  <1>7. Limited(s, m) <=> Placing!Automatic(s) /\ gap # None
    BY <1>4 DEF Limited
  <1> HIDE DEF p
  <1> QED
    BY <1>5, <1>6, <1>7 DEF PlanFits, PlansFor, PlansWithin, p

\* What the loaded layers need.
LEMMA BytesAre ==
    ASSUME PlanConstants, PlaceTypes, load # None, NEW ngl \in Int
    PROVE  /\ Placing!Bytes(ngl).vram \in Nat /\ Placing!Takes(ngl) \in Nat
           /\ Placing!Bytes(ngl).vram = OnGpu(ngl, load.plan.moe, load.plan.kqv, load.plan.ctx, load.plan.kv)
                                + (IF ngl # 0 THEN RealLogits ELSE 0)
  <1> DEFINE p == load.plan
  <1>1. p \in Plans
    BY DEF PlaceTypes, Loading
  <1>2. p.moe \in Nat /\ p.kqv \in BOOLEAN /\ p.ctx \in Nat /\ p.kv \in KvTypes
    BY <1>1 DEF Plans
  <1>3. RealLogits \in Nat /\ Unified \in BOOLEAN /\ ModelSizes
    BY RoomIs DEF PlanConstants, PlannerConstants
  <1>4. Placing!Bytes(ngl) = Placing!Place(Model, ngl, p.moe, p.kqv, p.ctx, p.kv, RealLogits, Unified)
    BY DEF Placing!Bytes, RealLogits
  <1> HIDE DEF p
  <1>5. PlaceFits(ngl, p.moe, p.kqv, p.ctx, p.kv, RealLogits, Unified)
    BY <1>2, <1>3, PlaceIs
  <1>6. /\ Placing!Bytes(ngl).vram \in Nat
        /\ Placing!Bytes(ngl).vram = OnGpu(ngl, p.moe, p.kqv, p.ctx, p.kv) + (IF ngl # 0 THEN RealLogits ELSE 0)
    BY <1>3, <1>4, <1>5 DEF PlaceFits
  <1>7. real.extra \in Int
    BY DEF PlaceTypes, PlanConstants
  <1>8. Placing!Takes(ngl) \in Nat
    BY <1>6, <1>7 DEF Placing!Takes, Placing!Most
  <1> QED
    BY <1>6, <1>8 DEF p

LEMMA LayersAre ==
    ASSUME PlanConstants, PlaceTypes, load # None
    PROVE  Placing!LoadedLayers \in Int /\ (load.plan.ngl = 0 => ~Placing!FellBack)
  <1>1. load.plan.ngl \in Int
    BY DEF PlaceTypes, Loading, Plans
  <1>2. load.plan.ngl = 0 => Placing!WeightsFit(load.plan.ngl)
    BY DEF Placing!WeightsFit
  <1> QED
    BY <1>1, <1>2 DEF Placing!LoadedLayers, Placing!FellBack

\* A placement on the GPU takes some of it.
LEMMA PlannedTakes ==
    ASSUME PlanConstants, PlaceTypes, PlanHolds, load # None, load.at # "settle"
    PROVE  /\ load.plan.vram \in Nat /\ load.plan.ngl \in Int
           /\ load.plan.vram = OnGpu(load.plan.ngl, load.plan.moe, load.plan.kqv, load.plan.ctx,
                                     load.plan.kv)
                               + (IF load.plan.ngl # 0 THEN EstimatedLogits ELSE 0)
           /\ load.plan.ngl # 0 => load.plan.vram > 0
           /\ OnGpu(load.plan.ngl, load.plan.moe, load.plan.kqv, load.plan.ctx, load.plan.kv) \in Nat
  <1> DEFINE p == load.plan
             base == OnGpu(p.ngl, p.moe, p.kqv, p.ctx, p.kv)
  <1>1. p \in Plans
    BY DEF PlaceTypes, Loading
  <1>2. p.ngl \in Int /\ p.moe \in Nat /\ p.kqv \in BOOLEAN /\ p.ctx \in Nat /\ p.kv \in KvTypes
        /\ p.vram \in Nat
    BY <1>1 DEF Plans
  <1>3. EstimatedLogits \in Nat /\ Unified \in BOOLEAN /\ ModelSizes
    BY RoomIs DEF PlanConstants, PlannerConstants
  <1>4. p.vram = base + (IF p.ngl # 0 THEN EstimatedLogits ELSE 0)
    BY DEF PlanHolds, Estimated
  <1> HIDE DEF p
  <1>5. PlaceFits(p.ngl, p.moe, p.kqv, p.ctx, p.kv, EstimatedLogits, Unified)
    BY <1>2, <1>3, PlaceIs
  <1>6. base \in Nat /\ (p.ngl # 0 => base > 0)
    BY <1>5 DEF PlaceFits
  <1> HIDE DEF base
  <1>7. p.ngl # 0 => p.vram > 0
    BY <1>3, <1>4, <1>6
  <1> QED
    BY <1>2, <1>4, <1>6, <1>7 DEF p, base

LEMMA RecordIs ==
    ASSUME pool \in Int \cup {None}, NEW gap \in Int
    PROVE  /\ Placing!Record(gap) \in Int /\ Placing!Record(gap) >= gap
           /\ pool # None => Placing!Record(gap) >= pool
  BY DEF Placing!Record

\* A placement that keeps what a miss showed is smaller than what missed.
LEMMA PlannedBelow ==
    ASSUME PlanConstants, NEW free \in 0..Vram, NEW s \in Asked, NEW gap \in Int,
           NEW dry \in Int \cup {None}, NEW miss \in Miss, Placing!Automatic(s),
           miss.vram > 0, gap >= miss.free - miss.vram, free <= miss.free,
           Placing!Feasible(Placing!PlanFor(free, s, gap, dry))
    PROVE  Placing!PlanFor(free, s, gap, dry).vram < miss.vram
  <1> DEFINE p == Placing!PlanFor(free, s, gap, dry)
  <1>1. gap # None
    BY DEF PlanConstants, PlannerConstants
  <1>2. p \in Plans /\ p.vram <= Placing!Usable(free, gap + Reserve)
    BY <1>1, PlanForIs
  <1>3. p.vram \in Nat
    BY <1>2 DEF Plans
  <1>4. miss.vram \in Nat /\ miss.free \in Nat /\ Vram \in Nat /\ Reserve \in Nat \ {0}
    BY DEF Miss, PlanConstants
  <1> HIDE DEF p
  <1>5. p.vram < miss.vram
    BY <1>2, <1>3, <1>4 DEF Placing!Usable, Placing!Most
  <1> QED
    BY <1>5 DEF p

\* What holds of a placement that was just made with what is known by then.
LEMMA NewPlan ==
    ASSUME PlanConstants, NEW free \in 0..Vram, NEW s \in Asked, NEW gap \in Int \cup {None},
           NEW dry \in Int \cup {None}, Placing!Feasible(Placing!PlanFor(free, s, gap, dry)),
           NEW misses, misses \subseteq Miss,
           \A miss \in misses : miss.vram > 0 /\ gap # None /\ gap >= miss.free - miss.vram
    PROVE  /\ Placing!PlanFor(free, s, gap, dry) \in Plans
           /\ Estimated(Placing!PlanFor(free, s, gap, dry), LogitsFor(dry))
           /\ Placing!Automatic(s) /\ gap # None
                => Placing!PlanFor(free, s, gap, dry).vram <= Placing!Usable(free, gap + Reserve)
           /\ Placing!Automatic(s) => \A miss \in misses : free <= miss.free
                                  => Placing!PlanFor(free, s, gap, dry).vram < miss.vram
  <1>1. ASSUME Placing!Automatic(s), NEW miss \in misses, free <= miss.free
        PROVE  Placing!PlanFor(free, s, gap, dry).vram < miss.vram
    <2>1. gap \in Int /\ miss \in Miss /\ miss.vram > 0 /\ gap >= miss.free - miss.vram
      BY <1>1
    <2> QED
      BY <1>1, <2>1, PlannedBelow
  <1> QED
    BY <1>1, PlanForIs

LEMMA AlreadyLoadedKeeps ==
    ASSUME PlanConstants, PlaceInv, Placing!AlreadyLoaded
    PROVE  PlaceInv'
  <1> USE DEF PlaceInv
  <1>1. /\ load = None /\ use # None /\ resident # None
        /\ pool' = Placing!Record(use.free - Placing!FreeVram - use.planned)
        /\ apps' = apps /\ idle' = idle /\ changes' = changes /\ real' = real
        /\ correction' = correction /\ load' = load /\ resident' = resident /\ use' = use
        /\ missed' = missed
    BY DEF Placing!AlreadyLoaded, Placing!machineVars
  <1>2. pool \in Int
    BY <1>1 DEF PlaceTypes
  <1>3. use.free - Placing!FreeVram - use.planned \in Int
    BY <1>1, RoomIs DEF PlaceTypes, Uses
  <1>4. pool' \in Int /\ pool' >= pool /\ pool # None /\ pool' # None
    BY <1>1, <1>2, <1>3, RecordIs DEF PlaceTypes, PlanConstants, PlannerConstants
  <1>5. PlaceTypes'
    BY <1>1, <1>4 DEF PlaceTypes, Placing!Taken
  <1>6. PlanHolds' /\ MachineHolds' /\ LimitHolds'
    BY <1>1 DEF PlanHolds, MachineHolds, LimitHolds
  <1>7. MissesHold'
    <2>1. \A miss \in missed : miss.free \in Nat /\ miss.vram \in Nat
      BY DEF PlaceTypes, Miss
    <2> QED
      BY <1>1, <1>2, <1>4, <2>1 DEF MissesHold
  <1>8. GapHolds'
    <2>1. Steady' <=> Steady
      BY <1>1 DEF Steady
    <2>2. RealLogits' = RealLogits /\ EstimatedLogits' = EstimatedLogits /\ real' = real
      BY <1>1 DEF RealLogits, EstimatedLogits
    <2>3. RealLogits \in Nat /\ EstimatedLogits \in Nat /\ real.extra \in Int
      BY RoomIs DEF PlaceTypes, PlanConstants
    <2> QED
      BY <1>2, <1>4, <2>1, <2>2, <2>3 DEF GapHolds
  <1> QED
    BY <1>5, <1>6, <1>7, <1>8

LEMMA RequestKeeps ==
    ASSUME PlanConstants, PlaceInv, NEW s \in Settings, Placing!Request(s)
    PROVE  PlaceInv'
           /\ (load' # None /\ Placing!Automatic(load'.settings)
               => load'.at = "planned"
                  /\ \A miss \in missed' : load'.hw <= miss.free => load'.plan.vram < miss.vram)
  <1> USE DEF PlaceInv
  <1> DEFINE free == Placing!Most(Vram - apps - idle', 0)
             plan == Placing!PlanFor(free, s, pool, correction')
  <1>1. /\ load = None /\ resident = None /\ Placing!DryRun(s)
        /\ apps' = apps /\ changes' = changes /\ real' = real
        /\ idle' \in {idle, 0}
        /\ load' = IF Placing!Feasible(plan)
                   THEN [at |-> "planned", settings |-> s, hw |-> free, seen |-> free,
                         fresh |-> pool = None, stage |-> "first", plan |-> plan]
                   ELSE None
        /\ pool' = pool /\ resident' = resident /\ use' = use /\ missed' = missed
    BY DEF Placing!Request, Placing!machineVars
  <1>2. s \in Asked
    BY DEF PlanConstants
  <1>3. correction' \in {None, real.dry} /\ (correction' # correction => correction = None)
    BY <1>1 DEF Placing!DryRun, PlaceTypes
  <1>4. correction' \in Int \cup {None} /\ pool \in Int \cup {None} /\ None \notin Int
        /\ real.dry \in Int
    BY <1>3 DEF PlaceTypes, PlanConstants, PlannerConstants
  <1>5. /\ free = Room' /\ free \in 0..Vram /\ idle' \in {0, IdleBytes} /\ Placing!Taken' = 0
        /\ apps' + idle' + Placing!Taken' <= Vram
    <2>1. apps \in Nat /\ idle \in Nat /\ Vram \in Nat /\ apps + idle + Placing!Taken <= Vram
          /\ idle \in {0, IdleBytes} /\ Placing!Taken = 0
      BY <1>1, RoomIs DEF PlaceTypes, Placing!Taken
    <2>2. Placing!Taken' = 0
      BY <1>1 DEF Placing!Taken
    <2>3. idle' \in Nat /\ idle' <= idle /\ idle' \in {0, IdleBytes} /\ apps' = apps
      BY <1>1, <2>1
    <2>4. Vram - apps - idle' \in 0..Vram /\ apps' + idle' + 0 <= Vram
      <3>1. apps \in Nat /\ idle \in Nat /\ Vram \in Nat /\ idle' \in Nat /\ idle' <= idle
            /\ apps' = apps
        BY <2>1, <2>3
      <3>2. apps + idle <= Vram
        BY <2>1, <3>1
      <3>3. ASSUME NEW a \in Nat, NEW i \in Nat, NEW j \in Nat, j <= i, a + i <= Vram
            PROVE  Vram - a - j \in 0..Vram /\ a + j + 0 <= Vram
        BY <3>1, <3>3
      <3> QED
        BY <3>1, <3>2, <3>3
    <2>5. free = Vram - apps - idle'
      BY <2>4 DEF Placing!Most
    <2> QED
      BY <2>2, <2>3, <2>4, <2>5 DEF Room
  <1>6. missed \subseteq Miss
        /\ \A miss \in missed : miss.vram > 0 /\ pool # None /\ pool >= miss.free - miss.vram
    BY DEF PlaceTypes, MissesHold
  <1> DEFINE next == [at |-> "planned", settings |-> s, hw |-> free, seen |-> free,
                      fresh |-> pool = None, stage |-> "first", plan |-> plan]
  <1> HIDE DEF free
  <1>7. Placing!Feasible(plan) =>
           /\ plan \in Plans /\ Estimated(plan, LogitsFor(correction'))
           /\ Placing!Automatic(s) /\ pool # None => plan.vram <= Placing!Usable(free, pool + Reserve)
           /\ Placing!Automatic(s) => \A miss \in missed : free <= miss.free
              => plan.vram < miss.vram
    BY <1>2, <1>4, <1>5, <1>6, NewPlan
  <1> HIDE DEF plan
  <1>8. next.at = "planned" /\ next.settings = s /\ next.hw = free /\ next.plan = plan
        /\ (next.fresh <=> pool = None)
    OBVIOUS
  <1>9. Placing!Feasible(plan) => next \in Loading
    <2> DEFINE fresh == pool = None
    <2>1. fresh \in BOOLEAN
      OBVIOUS
    <2> HIDE DEF fresh
    <2>2. Placing!Feasible(plan) => [at |-> "planned", settings |-> s, hw |-> free, seen |-> free,
                            fresh |-> fresh, stage |-> "first", plan |-> plan] \in Loading
      BY <1>2, <1>5, <1>7, <2>1 DEF Loading, LoadSteps, Stages
    <2> QED
      BY <2>2 DEF fresh
  <1>10. load' # None => Placing!Feasible(plan) /\ load' = next
    BY <1>1
  <1>11. load' \in Loading \cup {None}
    BY <1>1, <1>9
  <1> HIDE DEF next
  <1>12. use = None
    BY <1>1 DEF PlaceTypes
  <1>13. PlaceTypes'
    <2>1. apps' \in AppSizes /\ changes' \in 0..MaxChanges
          /\ real' \in [dry : DryGaps, extra : ExtraGaps]
          /\ pool' \in Int \cup {None} /\ correction' \in {None, real'.dry}
             /\ missed' \subseteq Miss
      BY <1>1, <1>3 DEF PlaceTypes
    <2>2. load' # None => ((resident' # None) <=> (load'.at = "settle"))
      BY <1>1, <1>8, <1>10
    <2> QED
      BY <1>1, <1>5, <1>11, <1>12, <2>1, <2>2 DEF PlaceTypes
  <1>14. PlanHolds'
    BY <1>7, <1>8, <1>10 DEF PlanHolds, EstimatedLogits
  <1>15. MissesHold'
    BY <1>1, <1>6, <1>8, <1>10 DEF MissesHold
  <1>16. MachineHolds'
    BY <1>5, <1>8, <1>10 DEF MachineHolds
  <1>17. GapHolds'
    <2> SUFFICES ASSUME Steady', pool # None
                 PROVE  pool >= RealLogits' - EstimatedLogits' + real.extra
      BY <1>1 DEF GapHolds
    <2>1. Model.logits \in Nat /\ real.extra \in Int /\ real.dry \in Int /\ pool \in Int
      BY <1>4 DEF PlaceTypes, PlanConstants, PlannerConstants, ModelSizes
    <2>2. RealLogits' = RealLogits /\ EstimatedLogits' = LogitsFor(correction')
      BY <1>1 DEF RealLogits, EstimatedLogits
    <2>3. Steady
      BY <1>1, <1>3 DEF Steady
    <2>4. pool >= RealLogits - LogitsFor(correction) + real.extra
      BY <2>3 DEF GapHolds, EstimatedLogits
    <2>5. CASE correction' = correction
      BY <1>1, <2>2, <2>4, <2>5
    <2>6. CASE correction' # correction
      <3>1. correction = None /\ correction' = real.dry /\ real.dry # None
        BY <1>3, <1>4, <2>6
      <3>2. real.dry >= 0
        BY <3>1 DEF Steady
      <3>3. /\ LogitsFor(correction) = Model.logits
            /\ LogitsFor(correction') = Model.logits + real.dry
            /\ RealLogits = Model.logits + real.dry
        BY <2>1, <3>1, <3>2 DEF LogitsFor, RealLogits, Placing!Most
      <3> QED
        BY <1>1, <2>1, <2>2, <2>4, <3>2, <3>3
    <2> QED
      BY <2>5, <2>6
  <1>18. LimitHolds'
    BY <1>1, <1>7, <1>8, <1>10 DEF LimitHolds
  <1>19. load' # None /\ Placing!Automatic(load'.settings)
           => load'.at = "planned"
              /\ \A miss \in missed' : load'.hw <= miss.free => load'.plan.vram < miss.vram
    BY <1>1, <1>7, <1>8, <1>10
  <1> QED
    BY <1>13, <1>14, <1>15, <1>16, <1>17, <1>18, <1>19

LEMMA BeginLoadKeeps ==
    ASSUME PlanConstants, PlaceInv, Placing!BeginLoad
    PROVE  PlaceInv' /\ load # None /\ load' # None /\ load'.plan = load.plan
  <1> USE DEF PlaceInv
  <1>1. /\ load # None /\ load.at = "planned"
        /\ load' = [load EXCEPT !.at = "loading", !.seen = Placing!FreeVram]
        /\ apps' = apps /\ idle' = idle /\ changes' = changes /\ real' = real
        /\ pool' = pool /\ correction' = correction /\ resident' = resident /\ use' = use
        /\ missed' = missed
    BY DEF Placing!BeginLoad, Placing!machineVars, Placing!At
  <1>2. load \in Loading
    BY <1>1 DEF PlaceTypes
  <1>3. resident = None /\ use = None /\ Placing!Taken = 0 /\ Placing!FreeVram = Room
        /\ Placing!FreeVram \in 0..Vram
    <2>1. resident = None /\ use = None
      BY <1>1 DEF PlaceTypes
    <2>2. Placing!Taken = 0
      BY <2>1 DEF Placing!Taken
    <2> QED
      BY <2>1, <2>2, RoomIs
  <1>4. /\ load' \in Loading /\ load'.at = "loading" /\ load'.seen = Room
        /\ load'.hw = load.hw /\ load'.settings = load.settings /\ load'.fresh = load.fresh
        /\ load'.plan = load.plan
    BY <1>1, <1>2, <1>3 DEF Loading, LoadSteps
  <1>5. load' # None
    BY <1>4 DEF PlanConstants
  <1>6. PlaceTypes'
    BY <1>1, <1>3, <1>4 DEF PlaceTypes, Placing!Taken
  <1>7. PlanHolds'
    BY <1>1, <1>4 DEF PlanHolds, EstimatedLogits
  <1>8. MissesHold'
    BY <1>1, <1>4 DEF MissesHold
  <1>9. MachineHolds'
    BY <1>1, <1>4 DEF MachineHolds, Room
  <1>10. GapHolds'
    BY <1>1 DEF GapHolds, Steady, RealLogits, EstimatedLogits
  <1>11. LimitHolds'
    BY <1>1, <1>4 DEF LimitHolds
  <1> QED
    BY <1>1, <1>4, <1>5, <1>6, <1>7, <1>8, <1>9, <1>10, <1>11

LEMMA SucceedKeeps ==
    ASSUME PlanConstants, PlaceInv, Placing!Succeed
    PROVE  PlaceInv' /\ load' # None /\ load'.at = "settle"
  <1> USE DEF PlaceInv
  <1> DEFINE taken == Placing!Takes(Placing!LoadedLayers)
             delta == Placing!Took(taken)
             measured == ~Placing!FellBack /\ load.plan.ngl # 0 /\ delta > 0
             p == load.plan
  <1>1. /\ load # None /\ load.at \in {"loading", "retrying"}
           /\ Placing!Takes(Placing!LoadedLayers) <= Placing!FreeVram
        /\ resident' = [taken |-> taken, grown |-> FALSE]
        /\ use' = IF measured THEN [free |-> load.seen, planned |-> load.plan.vram] ELSE None
        /\ IF Placing!FellBack THEN Placing!Missed
           ELSE /\ pool' = IF measured THEN Placing!Record(delta - load.plan.vram) ELSE pool
                /\ missed' = missed
        /\ load' = [load EXCEPT !.at = "settle", !.plan.ngl = Placing!LoadedLayers,
                                !.plan.tier = IF Placing!FellBack /\ Placing!LoadedLayers = 0
                                              THEN "cpu" ELSE @]
        /\ apps' = apps /\ idle' = idle /\ changes' = changes /\ real' = real
        /\ correction' = correction
    BY DEF Placing!Succeed, Placing!machineVars, Placing!At, Placing!Loads
  <1>2. load \in Loading /\ load.at # "settle" /\ load.plan \in Plans
    BY <1>1 DEF PlaceTypes, Loading
  <1>3. resident = None /\ use = None /\ Placing!Taken = 0 /\ Placing!FreeVram = Room
        /\ Room \in 0..Vram /\ Vram \in Nat
    <2>1. resident = None /\ use = None
      BY <1>1, <1>2 DEF PlaceTypes
    <2>2. Placing!Taken = 0
      BY <2>1 DEF Placing!Taken
    <2> QED
      BY <2>1, <2>2, RoomIs
  <1>4. /\ p.vram \in Nat /\ p.ngl \in Int
        /\ p.vram = OnGpu(p.ngl, p.moe, p.kqv, p.ctx, p.kv)
                    + (IF p.ngl # 0 THEN EstimatedLogits ELSE 0)
        /\ p.ngl # 0 => p.vram > 0
        /\ OnGpu(p.ngl, p.moe, p.kqv, p.ctx, p.kv) \in Nat
    BY <1>1, <1>2, PlannedTakes
  <1>5. Placing!LoadedLayers \in Int /\ (p.ngl = 0 => ~Placing!FellBack) /\ taken \in Nat
    BY <1>1, LayersAre, BytesAre
  <1>6. load.seen \in Nat /\ delta \in Nat
    <2>1. load.seen \in Nat
      BY <1>2, <1>3 DEF Loading
    <2> QED
      BY <1>3, <1>5, <2>1 DEF Placing!Took, Placing!Most
  <1>7. pool \in Int \cup {None} /\ None \notin Int
    BY DEF PlaceTypes, PlanConstants, PlannerConstants
  <1>8. load' \in Loading /\ load'.at = "settle" /\ load'.hw = load.hw /\ load'.seen = load.seen
        /\ load'.settings = load.settings /\ load'.fresh = load.fresh
    <2> DEFINE tier == IF Placing!FellBack /\ Placing!LoadedLayers = 0 THEN "cpu" ELSE load.plan.tier
               q == [load.plan EXCEPT !.ngl = Placing!LoadedLayers, !.tier = tier]
    <2>1. tier \in Tiers
      BY <1>2 DEF Plans, Tiers
    <2>2. load' = [load EXCEPT !.at = "settle", !.plan = q]
      BY <1>1, <1>2 DEF Loading, Plans
    <2> HIDE DEF tier
    <2>3. q \in Plans
      BY <1>2, <1>5, <2>1 DEF Plans
    <2> HIDE DEF q
    <2> QED
      BY <1>2, <2>2, <2>3 DEF Loading, LoadSteps
  <1>9. load' # None
    BY <1>8 DEF PlanConstants
  <1>10. resident' \in Residents /\ resident' # None /\ resident'.taken = taken
         /\ Placing!Taken' = taken
    <2>1. resident' \in Residents /\ resident'.taken = taken
      BY <1>1, <1>5 DEF Residents
    <2>2. resident' # None
      BY <2>1 DEF PlanConstants
    <2> QED
      BY <2>1, <2>2 DEF Placing!Taken
  <1>11. use' \in Uses \cup {None} /\ (use' # None => measured)
    BY <1>1, <1>4, <1>6 DEF Uses
  <1>12. CASE Placing!FellBack
    <2>1. p.ngl # 0 /\ p.vram > 0
      BY <1>4, <1>5, <1>12
    <2>2. /\ pool' = Placing!Record(load.seen - p.vram)
          /\ missed' = missed \cup {[vram |-> p.vram, free |-> load.seen]}
      BY <1>1, <1>12 DEF Placing!Missed
    <2>3. load.seen - p.vram \in Int
      BY <1>4, <1>6
    <2>4. pool' \in Int /\ pool' # None /\ pool' >= load.seen - p.vram
          /\ (pool # None => pool' >= pool)
      BY <1>7, <2>2, <2>3, RecordIs
    <2>5. use' = None
      BY <1>11, <1>12
    <2>6. missed' \subseteq Miss /\ missed' # {}
      <3>1. [vram |-> p.vram, free |-> load.seen] \in Miss
        BY <1>4, <1>6 DEF Miss
      <3>2. missed \subseteq Miss
        BY DEF PlaceTypes
      <3> HIDE DEF p
      <3> QED
        BY <2>2, <3>1, <3>2
    <2>7. PlaceTypes'
      <3>1. apps + idle + taken <= Vram
        BY <1>1, <1>3, <1>5, RoomIs DEF Room
      <3> QED
        BY <1>1, <1>8, <1>10, <2>4, <2>5, <2>6, <3>1 DEF PlaceTypes
    <2>8. MissesHold'
      <3>1. ASSUME NEW miss \in missed'
            PROVE  miss.vram > 0 /\ pool' # None /\ pool' >= miss.free - miss.vram
        <4>1. CASE miss \in missed
          <5>1. miss.vram > 0 /\ pool # None /\ pool >= miss.free - miss.vram
                /\ miss.free \in Nat /\ miss.vram \in Nat
            BY <4>1 DEF MissesHold, PlaceTypes, Miss
          <5> QED
            BY <1>7, <2>4, <5>1
        <4>2. CASE miss = [vram |-> p.vram, free |-> load.seen]
          BY <2>1, <2>4, <4>2
        <4> QED
          BY <2>2, <3>1, <4>1, <4>2
      <3> QED
        BY <1>8, <3>1 DEF MissesHold
    <2>9. ~Steady'
      BY <2>6 DEF Steady
    <2>10. PlanHolds' /\ GapHolds'
      BY <1>8, <2>9 DEF PlanHolds, GapHolds
    <2>11. MachineHolds'
      BY <1>1, <1>8 DEF MachineHolds, Room
    <2>12. LimitHolds'
      BY <1>8, <2>4, <2>9 DEF LimitHolds
    <2> QED
      BY <1>8, <1>9, <2>7, <2>8, <2>10, <2>11, <2>12
  <1>13. CASE ~Placing!FellBack
    <2>1. /\ pool' = IF measured THEN Placing!Record(delta - p.vram) ELSE pool
          /\ missed' = missed
          /\ Placing!LoadedLayers = p.ngl
      BY <1>1, <1>13 DEF Placing!FellBack
    <2>2. delta - p.vram \in Int
      BY <1>4, <1>6
    <2>3. /\ pool' \in Int \cup {None} /\ (pool # None => pool' # None /\ pool' >= pool)
          /\ measured => pool' \in Int /\ pool' # None /\ pool' >= delta - p.vram
      BY <1>7, <2>1, <2>2, RecordIs
    <2> DEFINE gap == RealLogits - EstimatedLogits + real.extra
    <2>4. RealLogits \in Nat /\ EstimatedLogits \in Nat /\ real.extra \in Int
      BY RoomIs DEF PlaceTypes, PlanConstants
    <2>5. p.ngl # 0 /\ taken > 0 => taken = p.vram + gap
      <3>1. Placing!Bytes(p.ngl).vram = OnGpu(p.ngl, p.moe, p.kqv, p.ctx, p.kv)
                                + (IF p.ngl # 0 THEN RealLogits ELSE 0)
        BY <1>1, <1>4, BytesAre
      <3>2. p.ngl # 0 => taken = Placing!Most(Placing!Bytes(p.ngl).vram + real.extra, 0)
        BY <2>1 DEF Placing!Takes
      <3> QED
        BY <1>4, <2>4, <3>1, <3>2 DEF Placing!Most
    <2>6. Steady' => load.seen = Room /\ load.hw = Room /\ delta = taken
          /\ load.at = "loading" /\ Steady
      <3> SUFFICES ASSUME Steady'
                   PROVE  load.seen = Room /\ load.hw = Room /\ delta = taken
                          /\ load.at = "loading" /\ Steady
        OBVIOUS
      <3>1. Steady
        BY <1>1, <2>1 DEF Steady
      <3>2. load.seen = Room /\ load.hw = Room
        BY <1>1, <3>1 DEF MachineHolds, Steady
      <3>3. load.at = "loading"
        BY <1>1, <3>1 DEF MissesHold, Steady
      <3>4. delta = taken
        BY <1>3, <1>5, <3>2 DEF Placing!Took, Placing!Most
      <3> QED
        BY <3>1, <3>2, <3>3, <3>4
    <2>7. Steady' /\ measured => pool' >= gap
      <3> SUFFICES ASSUME Steady', measured PROVE pool' >= gap
        OBVIOUS
      <3>1. taken = p.vram + gap /\ delta = taken
        BY <2>5, <2>6
      <3> QED
        BY <1>4, <2>3, <2>4, <3>1
    <2>8. GapHolds'
      <3>1. RealLogits' = RealLogits /\ EstimatedLogits' = EstimatedLogits /\ real' = real
        BY <1>1 DEF RealLogits, EstimatedLogits
      <3>2. CASE measured
        BY <2>7, <3>1, <3>2 DEF GapHolds
      <3>3. CASE ~measured
        BY <2>1, <2>6, <3>1, <3>3 DEF GapHolds
      <3> QED
        BY <3>2, <3>3
    <2>9. PlaceTypes'
      <3>1. apps + idle + taken <= Vram
        BY <1>1, <1>3, <1>5, RoomIs DEF Room
      <3>2. use' # None => pool' # None
        BY <1>11, <2>3
      <3>3. missed' \subseteq Miss
        BY <2>1 DEF PlaceTypes
      <3> QED
        BY <1>1, <1>8, <1>10, <1>11, <2>3, <3>1, <3>2, <3>3 DEF PlaceTypes
    <2>10. MissesHold'
      <3>1. \A miss \in missed : miss.free \in Nat /\ miss.vram \in Nat
        BY DEF PlaceTypes, Miss
      <3> QED
        BY <1>7, <1>8, <2>1, <2>3, <3>1 DEF MissesHold
    <2>11. PlanHolds'
      BY <1>8 DEF PlanHolds
    <2>12. MachineHolds'
      BY <1>1, <1>8 DEF MachineHolds, Room
    <2>13. LimitHolds'
      <3> SUFFICES ASSUME ~load.fresh
                   PROVE  /\ pool' # None
                          /\ Placing!Automatic(load.settings) /\ use' # None /\ Steady'
                             => taken + Reserve <= Room
        BY <1>1, <1>8, <1>10 DEF LimitHolds, Room
      <3>1. pool # None /\ pool' # None
        BY <1>1, <2>3 DEF LimitHolds
      <3> SUFFICES ASSUME Placing!Automatic(load.settings), use' # None, Steady'
                   PROVE  taken + Reserve <= Room
        BY <3>1
      <3>2. measured /\ load.at = "loading" /\ load.hw = Room /\ delta = taken /\ Steady
        BY <1>11, <2>6
      <3>3. p.vram <= Placing!Usable(Room, pool + Reserve)
        BY <1>1, <3>2 DEF LimitHolds
      <3>4. pool >= gap /\ pool \in Int
        BY <1>7, <3>1, <3>2 DEF GapHolds
      <3>5. p.vram > 0 /\ p.vram \in Nat /\ taken = p.vram + gap
        BY <1>4, <2>5, <3>2
      <3>6. Reserve \in Nat
        BY DEF PlanConstants
      <3>7. p.vram <= Room - (pool + Reserve)
        BY <1>3, <3>3, <3>4, <3>5, <3>6 DEF Placing!Usable, Placing!Most
      <3>8. gap \in Int
        BY <2>4
      <3> HIDE DEF gap, p, taken
      <3> QED
        BY <1>3, <3>4, <3>5, <3>6, <3>7, <3>8
    <2> QED
      BY <1>8, <1>9, <2>8, <2>9, <2>10, <2>11, <2>12, <2>13
  <1> QED
    BY <1>12, <1>13

LEMMA FailKeeps ==
    ASSUME PlanConstants, PlaceInv, Placing!Fail
    PROVE  PlaceInv'
           /\ (load' # None /\ Placing!Automatic(load'.settings)
               => load'.at = "retrying"
                  /\ \A miss \in missed' : Placing!FreeVram <= miss.free
                     => load'.plan.vram < miss.vram)
  <1> USE DEF PlaceInv
  <1> DEFINE p == load.plan
             next == Placing!PlanFor(Placing!FreeVram, load.settings, pool', correction)
             given == p.ngl = 0 \/ load.settings.ngl # None \/ load.settings.moe # None
  <1>1. /\ load # None /\ load.at = "loading"
        /\ IF given THEN load' = None /\ UNCHANGED <<pool, missed>>
           ELSE /\ Placing!Missed
                /\ load' = IF Placing!Feasible(next) /\ Placing!Differs(next, load.plan)
                           THEN [load EXCEPT !.at = "retrying", !.plan = next]
                           ELSE None
        /\ apps' = apps /\ idle' = idle /\ changes' = changes /\ real' = real
        /\ correction' = correction /\ resident' = resident /\ use' = use
    BY DEF Placing!Fail, Placing!machineVars, Placing!At
  <1>2. load \in Loading /\ load.settings \in Asked /\ load.hw \in Nat /\ load.seen \in Nat
    <2>1. load \in Loading
      BY <1>1 DEF PlaceTypes
    <2> QED
      BY <2>1, RoomIs DEF Loading
  <1>3. resident = None /\ use = None /\ Placing!Taken = 0 /\ Placing!FreeVram = Room
        /\ Placing!FreeVram \in 0..Vram
    <2>1. resident = None /\ use = None
      BY <1>1 DEF PlaceTypes
    <2>2. Placing!Taken = 0
      BY <2>1 DEF Placing!Taken
    <2> QED
      BY <2>1, <2>2, RoomIs
  <1>4. p.vram \in Nat /\ (p.ngl # 0 => p.vram > 0)
    BY <1>1, PlannedTakes
  <1>5. pool \in Int \cup {None} /\ None \notin Int /\ missed \subseteq Miss
    BY DEF PlaceTypes, PlanConstants, PlannerConstants
  <1>6. CASE given
    <2>1. load' = None /\ pool' = pool /\ missed' = missed
      BY <1>1, <1>6
    <2>2. PlaceTypes'
      BY <1>1, <1>3, <2>1 DEF PlaceTypes, Placing!Taken
    <2>3. PlanHolds' /\ MissesHold' /\ MachineHolds' /\ LimitHolds'
      BY <2>1 DEF PlanHolds, MissesHold, MachineHolds, LimitHolds
    <2>4. GapHolds'
      BY <1>1, <2>1 DEF GapHolds, Steady, RealLogits, EstimatedLogits
    <2> QED
      BY <2>1, <2>2, <2>3, <2>4
  <1>7. CASE ~given
    <2>1. /\ pool' = Placing!Record(load.seen - p.vram)
          /\ missed' = missed \cup {[vram |-> p.vram, free |-> load.seen]}
          /\ load' = IF Placing!Feasible(next) /\ Placing!Differs(next, load.plan)
                     THEN [load EXCEPT !.at = "retrying", !.plan = next]
                     ELSE None
      BY <1>1, <1>7 DEF Placing!Missed
    <2>2. p.vram > 0 /\ load.seen - p.vram \in Int
      BY <1>2, <1>4, <1>7
    <2>3. pool' \in Int /\ pool' # None /\ pool' >= load.seen - p.vram
          /\ (pool # None => pool' >= pool)
      BY <1>5, <2>1, <2>2, RecordIs
    <2>4. missed' \subseteq Miss /\ missed' # {}
      <3>1. [vram |-> p.vram, free |-> load.seen] \in Miss
        BY <1>2, <1>4 DEF Miss
      <3> HIDE DEF p
      <3> QED
        BY <1>5, <2>1, <3>1
    <2>5. ASSUME NEW miss \in missed'
          PROVE  miss.vram > 0 /\ pool' # None /\ pool' >= miss.free - miss.vram
      <3>1. CASE miss \in missed
        <4>1. miss.vram > 0 /\ pool # None /\ pool >= miss.free - miss.vram
              /\ miss.free \in Nat /\ miss.vram \in Nat
          BY <3>1 DEF MissesHold, PlaceTypes, Miss
        <4> QED
          BY <1>5, <2>3, <4>1
      <3>2. CASE miss = [vram |-> p.vram, free |-> load.seen]
        BY <2>2, <2>3, <3>2
      <3> QED
        BY <2>1, <2>5, <3>1, <3>2
    <2>6. correction \in Int \cup {None}
      BY DEF PlaceTypes, PlanConstants
    <2>7. Placing!Feasible(next) =>
             /\ next \in Plans /\ Estimated(next, LogitsFor(correction))
             /\ Placing!Automatic(load.settings) =>
                   \A miss \in missed' : Placing!FreeVram <= miss.free => next.vram < miss.vram
      BY <1>2, <1>3, <2>3, <2>4, <2>5, <2>6, NewPlan
    <2> HIDE DEF next
    <2>8. load' # None =>
             /\ Placing!Feasible(next) /\ load' \in Loading /\ load'.at = "retrying"
                /\ load'.plan = next
             /\ load'.settings = load.settings /\ load'.fresh = load.fresh /\ load'.hw = load.hw
             /\ load'.seen = load.seen
      BY <1>2, <2>1, <2>7 DEF Loading, LoadSteps
    <2>9. PlaceTypes'
      BY <1>1, <1>3, <2>3, <2>4, <2>8 DEF PlaceTypes, Placing!Taken
    <2>10. PlanHolds'
      BY <1>1, <2>7, <2>8 DEF PlanHolds, EstimatedLogits
    <2>11. MissesHold'
      BY <2>4, <2>5 DEF MissesHold
    <2>12. MachineHolds'
      BY <1>1, <2>8 DEF MachineHolds, Room
    <2>13. GapHolds'
      BY <2>4 DEF GapHolds, Steady
    <2>14. LimitHolds'
      BY <2>3, <2>8 DEF LimitHolds
    <2> QED
      BY <2>7, <2>8, <2>9, <2>10, <2>11, <2>12, <2>13, <2>14
  <1> QED
    BY <1>6, <1>7

LEMMA FailAgainKeeps ==
    ASSUME PlanConstants, PlaceInv, Placing!FailAgain
    PROVE  PlaceInv' /\ load' = None
  <1> USE DEF PlaceInv
  <1>1. /\ load # None /\ load.at = "retrying" /\ load' = None
        /\ apps' = apps /\ idle' = idle /\ changes' = changes /\ real' = real
        /\ pool' = pool /\ correction' = correction /\ resident' = resident /\ use' = use
        /\ missed' = missed
    BY DEF Placing!FailAgain, Placing!machineVars, Placing!At
  <1>2. PlaceTypes'
    BY <1>1 DEF PlaceTypes, Placing!Taken
  <1>3. PlanHolds' /\ MissesHold' /\ MachineHolds' /\ LimitHolds'
    BY <1>1 DEF PlanHolds, MissesHold, MachineHolds, LimitHolds
  <1>4. GapHolds'
    BY <1>1 DEF GapHolds, Steady, RealLogits, EstimatedLogits
  <1> QED
    BY <1>1, <1>2, <1>3, <1>4

LEMMA SettleKeeps ==
    ASSUME PlanConstants, PlaceInv, Placing!Settle
    PROVE  /\ PlaceInv'
           /\ load' # None /\ Placing!Automatic(load'.settings)
              => load'.at = "planned"
                 /\ \A miss \in missed' : load'.hw <= miss.free => load'.plan.vram < miss.vram
           /\ load' = None /\ Placing!Automatic(load.settings) /\ ~load.fresh /\ use # None
              /\ Steady
              => Placing!FreeVram >= Reserve
  <1> USE DEF PlaceInv
  <1> DEFINE next == Placing!PlanFor(load.hw, load.settings, pool, correction)
             stage == IF load.stage = "first" THEN "better" ELSE "safe"
  <1>1. /\ load # None /\ load.at = "settle"
        /\ IF Placing!Replaces(next)
           THEN /\ load' = [load EXCEPT !.at = "planned", !.plan = next, !.stage = stage]
                /\ resident' = None /\ use' = None
           ELSE load' = None /\ resident' = resident /\ use' = use
        /\ apps' = apps /\ idle' = idle /\ changes' = changes /\ real' = real
        /\ pool' = pool /\ correction' = correction /\ missed' = missed
    BY DEF Placing!Settle, Placing!machineVars, Placing!At
  <1>2. load \in Loading /\ load.settings \in Asked /\ load.hw \in 0..Vram
    <2>1. load \in Loading
      BY <1>1 DEF PlaceTypes
    <2> QED
      BY <2>1 DEF Loading
  <1>3. GapHolds'
    BY <1>1 DEF GapHolds, Steady, RealLogits, EstimatedLogits
  <1>4. CASE Placing!Replaces(next)
    <2>1. Placing!Feasible(next)
      BY <1>4 DEF Placing!Replaces
    <2>2. /\ pool \in Int \cup {None} /\ correction \in Int \cup {None} /\ missed \subseteq Miss
          /\ \A miss \in missed : miss.vram > 0 /\ pool # None /\ pool >= miss.free - miss.vram
      BY DEF PlaceTypes, PlanConstants, MissesHold
    <2>3. /\ next \in Plans /\ Estimated(next, LogitsFor(correction))
          /\ Placing!Automatic(load.settings) /\ pool # None
             => next.vram <= Placing!Usable(load.hw, pool + Reserve)
          /\ Placing!Automatic(load.settings) =>
                \A miss \in missed : load.hw <= miss.free => next.vram < miss.vram
      BY <1>2, <2>1, <2>2, NewPlan
    <2> HIDE DEF next
    <2>4. stage \in Stages
      BY DEF Stages
    <2> HIDE DEF stage
    <2>5. load' = [load EXCEPT !.at = "planned", !.plan = next, !.stage = stage]
          /\ resident' = None /\ use' = None
      BY <1>1, <1>4
    <2>6. /\ load' \in Loading /\ load'.at = "planned" /\ load'.plan = next
          /\ load'.settings = load.settings /\ load'.fresh = load.fresh /\ load'.hw = load.hw
      BY <1>2, <2>3, <2>4, <2>5 DEF Loading, LoadSteps
    <2>7. load' # None
      BY <2>6 DEF PlanConstants
    <2>8. PlaceTypes'
      <3>1. apps + idle + 0 <= Vram /\ Placing!Taken' = 0
        BY <2>5, RoomIs DEF Room, Placing!Taken
      <3> QED
        BY <1>1, <2>5, <2>6, <3>1 DEF PlaceTypes
    <2>9. PlanHolds'
      BY <1>1, <2>1, <2>3, <2>6 DEF PlanHolds, EstimatedLogits
    <2>10. MissesHold'
      BY <1>1, <2>6 DEF MissesHold
    <2>11. MachineHolds'
      BY <1>1, <2>6 DEF MachineHolds, Room
    <2>12. LimitHolds'
      BY <1>1, <2>3, <2>6 DEF LimitHolds
    <2> QED
      BY <1>1, <1>3, <2>3, <2>6, <2>7, <2>8, <2>9, <2>10, <2>11, <2>12
  <1>5. CASE ~Placing!Replaces(next)
    <2>1. load' = None /\ resident' = resident /\ use' = use
      BY <1>1, <1>5
    <2>2. PlaceTypes'
      BY <1>1, <2>1 DEF PlaceTypes, Placing!Taken
    <2>3. PlanHolds' /\ MissesHold' /\ MachineHolds' /\ LimitHolds'
      BY <1>1, <2>1 DEF PlanHolds, MissesHold, MachineHolds, LimitHolds
    <2>4. Placing!Automatic(load.settings) /\ ~load.fresh /\ use # None /\ Steady
          => Placing!FreeVram >= Reserve
      <3> SUFFICES ASSUME Placing!Automatic(load.settings), ~load.fresh, use # None, Steady
                   PROVE  Placing!FreeVram >= Reserve
        OBVIOUS
      <3>1. resident.taken + Reserve <= Room
        BY <1>1 DEF LimitHolds
      <3>2. resident # None /\ Placing!Taken = resident.taken
        BY <1>1 DEF PlaceTypes, Placing!Taken
      <3>3. Placing!FreeVram = Room - Placing!Taken /\ Placing!Taken \in Nat /\ Room \in Int
            /\ Reserve \in Nat
        BY RoomIs DEF PlanConstants
      <3> QED
        BY <3>1, <3>2, <3>3
    <2> QED
      BY <1>3, <2>1, <2>2, <2>3, <2>4
  <1> QED
    BY <1>4, <1>5

LEMMA RestKeeps ==
    ASSUME PlanConstants, PlaceInv,
           Placing!Unload \/ Placing!Grow \/ (\E n \in AppSizes : Placing!Apps(n)) \/ UNCHANGED Placing!vars
    PROVE  PlaceInv' /\ (load' = load \/ load' = None)
  <1> USE DEF PlaceInv
  <1>1. /\ load' = load /\ idle' = idle /\ real' = real /\ pool' = pool /\ correction' = correction
        /\ missed' = missed
    BY DEF Placing!Unload, Placing!Grow, Placing!Apps, Placing!vars, Placing!machineVars
  <1>2. CASE Placing!Unload
    <2>1. load = None /\ apps' = apps /\ changes' = changes /\ resident' = None /\ use' = None
      BY <1>2 DEF Placing!Unload, Placing!machineVars
    <2>2. PlaceTypes'
      <3>1. apps + idle + 0 <= Vram /\ Placing!Taken' = 0
        BY <2>1, RoomIs DEF Room, Placing!Taken
      <3> QED
        BY <1>1, <2>1, <3>1 DEF PlaceTypes
    <2>3. PlanHolds' /\ MissesHold' /\ MachineHolds' /\ LimitHolds'
      BY <1>1, <2>1 DEF PlanHolds, MissesHold, MachineHolds, LimitHolds
    <2>4. GapHolds'
      BY <1>1, <2>1 DEF GapHolds, Steady, RealLogits, EstimatedLogits
    <2> QED
      BY <1>1, <2>2, <2>3, <2>4
  <1>3. CASE Placing!Grow
    <2>1. /\ load = None /\ apps' = apps /\ changes' = changes /\ use' = use /\ resident # None
          /\ resident' = [taken |-> resident.taken + Growth, grown |-> TRUE]
             /\ Placing!FreeVram >= Growth
      BY <1>3 DEF Placing!Grow, Placing!machineVars
    <2>2. resident.taken \in Nat /\ Growth \in Nat /\ Placing!Taken = resident.taken
      BY <2>1 DEF PlaceTypes, Residents, PlanConstants, Placing!Taken
    <2>3. resident' \in Residents /\ resident'.taken = resident.taken + Growth
      BY <2>1, <2>2 DEF Residents
    <2>4. resident' # None /\ Placing!Taken' = resident.taken + Growth
      BY <2>3 DEF PlanConstants, Placing!Taken
    <2>5. apps + idle + (resident.taken + Growth) <= Vram
      BY <2>1, <2>2, RoomIs DEF Room
    <2>6. PlaceTypes'
      BY <1>1, <2>1, <2>3, <2>4, <2>5 DEF PlaceTypes
    <2>7. PlanHolds' /\ MissesHold' /\ MachineHolds' /\ LimitHolds'
      BY <1>1, <2>1 DEF PlanHolds, MissesHold, MachineHolds, LimitHolds
    <2>8. GapHolds'
      BY <1>1, <2>1 DEF GapHolds, Steady, RealLogits, EstimatedLogits
    <2> QED
      BY <1>1, <2>6, <2>7, <2>8
  <1>4. ASSUME NEW n \in AppSizes, Placing!Apps(n)
        PROVE  PlaceInv'
    <2>1. /\ changes < MaxChanges /\ changes' = changes + 1 /\ apps' = n
             /\ n <= apps + Placing!FreeVram
          /\ resident' = resident /\ use' = use
      BY <1>4 DEF Placing!Apps
    <2>2. changes \in Nat /\ n \in Nat /\ Placing!Taken' = Placing!Taken
      BY <2>1 DEF PlaceTypes, PlanConstants, Placing!Taken
    <2>3. changes' # 0 /\ changes' \in 0..MaxChanges
      BY <2>1, <2>2 DEF PlanConstants
    <2>4. apps' + idle + Placing!Taken <= Vram
      BY <2>1, <2>2, RoomIs DEF Room
    <2>5. PlaceTypes'
      BY <1>1, <2>1, <2>2, <2>3, <2>4 DEF PlaceTypes
    <2>6. ~Steady'
      BY <2>3 DEF Steady
    <2>7. PlanHolds' /\ MissesHold'
      BY <1>1 DEF PlanHolds, MissesHold, EstimatedLogits
    <2>8. MachineHolds' /\ GapHolds'
      BY <2>3, <2>6 DEF MachineHolds, GapHolds
    <2>9. LimitHolds'
      BY <1>1, <2>1, <2>6 DEF LimitHolds
    <2> QED
      BY <2>5, <2>7, <2>8, <2>9
  <1>5. CASE UNCHANGED Placing!vars
    <2>1. apps' = apps /\ changes' = changes /\ use' = use /\ resident' = resident
      BY <1>5 DEF Placing!vars
    <2>2. PlaceTypes'
      BY <1>1, <2>1 DEF PlaceTypes, Placing!Taken
    <2>3. PlanHolds' /\ MissesHold' /\ MachineHolds'
      BY <1>1, <2>1 DEF PlanHolds, MissesHold, MachineHolds, Room, EstimatedLogits
    <2>4. GapHolds' /\ LimitHolds'
      BY <1>1, <2>1 DEF GapHolds, LimitHolds, Steady, RealLogits, EstimatedLogits, Room
    <2> QED
      BY <1>1, <2>2, <2>3, <2>4
  <1> QED
    BY <1>1, <1>2, <1>3, <1>4, <1>5

LEMMA PlacingBegins ==
    ASSUME PlanConstants, Placing!Init
    PROVE  PlaceInv
  <1>1. /\ apps \in AppSizes /\ idle \in {0, IdleBytes} /\ changes = 0 /\ apps + idle <= Vram
        /\ real \in [dry : DryGaps, extra : ExtraGaps] /\ pool = None /\ correction = None
        /\ load = None /\ resident = None /\ use = None /\ missed = {}
    BY DEF Placing!Init
  <1>2. PlaceTypes
    <2>1. Placing!Taken = 0 /\ apps \in Nat /\ idle \in Nat
      BY <1>1 DEF Placing!Taken, PlanConstants
    <2>2. 0 \in 0..MaxChanges
      BY DEF PlanConstants
    <2>3. apps + idle + 0 <= Vram
      BY <1>1, <2>1
    <2> QED
      BY <1>1, <2>1, <2>2, <2>3 DEF PlaceTypes
  <1> QED
    BY <1>1, <1>2 DEF PlaceInv, PlanHolds, MissesHold, MachineHolds, GapHolds, LimitHolds

\* What a step may do: keep the invariant, place below every miss, and come to
\* rest with the reserve left.
LEMMA PlacingSteps ==
    ASSUME PlanConstants, PlaceInv, [Placing!Next]_(Placing!vars)
    PROVE  /\ PlaceInv'
           /\ load' # None /\ load'.plan # (IF load = None THEN None ELSE load.plan)
              /\ load'.at \in {"planned", "retrying"} /\ Placing!Automatic(load'.settings)
              => LET free == IF load'.at = "planned" THEN load'.hw ELSE Placing!FreeVram
                 IN  \A miss \in missed' : free <= miss.free => load'.plan.vram < miss.vram
           /\ Placing!At("settle") /\ load' = None /\ Placing!Automatic(load.settings)
              /\ ~load.fresh
              /\ use # None /\ changes = 0 /\ missed = {} /\ (correction = None \/ correction >= 0)
              => Placing!FreeVram >= Reserve
  <1> DEFINE Learned ==
                load' # None /\ load'.plan # (IF load = None THEN None ELSE load.plan)
                /\ load'.at \in {"planned", "retrying"} /\ Placing!Automatic(load'.settings)
                => LET free == IF load'.at = "planned" THEN load'.hw ELSE Placing!FreeVram
                   IN  \A miss \in missed' : free <= miss.free => load'.plan.vram < miss.vram
             Left ==
                Placing!At("settle") /\ load' = None /\ Placing!Automatic(load.settings)
                    /\ ~load.fresh
                /\ use # None /\ changes = 0 /\ missed = {}
                   /\ (correction = None \/ correction >= 0)
                => Placing!FreeVram >= Reserve
  <1>1. ASSUME NEW s \in Settings, Placing!Request(s) PROVE PlaceInv' /\ Learned /\ Left
    <2>1. ~Placing!At("settle")
      BY <1>1 DEF Placing!Request, Placing!At
    <2> QED
      BY <1>1, <2>1, RequestKeeps
  <1>2. CASE Placing!BeginLoad
    <2>1. ~Placing!At("settle")
      BY <1>2 DEF Placing!BeginLoad, Placing!At
    <2> QED
      BY <1>2, <2>1, BeginLoadKeeps
  <1>3. CASE Placing!Succeed
    <2>1. ~Placing!At("settle")
      BY <1>3 DEF Placing!Succeed, Placing!At
    <2> QED
      BY <1>3, <2>1, SucceedKeeps
  <1>4. CASE Placing!Fail
    <2>1. ~Placing!At("settle")
      BY <1>4 DEF Placing!Fail, Placing!At
    <2> QED
      BY <1>4, <2>1, FailKeeps
  <1>5. CASE Placing!FailAgain
    <2>1. ~Placing!At("settle")
      BY <1>5 DEF Placing!FailAgain, Placing!At
    <2> QED
      BY <1>5, <2>1, FailAgainKeeps
  <1>6. CASE Placing!Settle
    BY <1>6, SettleKeeps DEF Steady
  <1>7. CASE Placing!AlreadyLoaded
    <2>1. load = None /\ load' = load
      BY <1>7 DEF Placing!AlreadyLoaded
    <2> QED
      BY <1>7, <2>1, AlreadyLoadedKeeps DEF Placing!At
  <1>8. CASE Placing!Unload \/ Placing!Grow \/ (\E n \in AppSizes : Placing!Apps(n)) \/ UNCHANGED Placing!vars
    <2>1. Placing!At("settle") => load' # None
      BY <1>8 DEF Placing!Unload, Placing!Grow, Placing!Apps, Placing!At, Placing!vars,
         Placing!machineVars
    <2> QED
      BY <1>8, <2>1, RestKeeps
  <1> QED
    BY <1>1, <1>2, <1>3, <1>4, <1>5, <1>6, <1>7, <1>8 DEF Placing!Next

LEMMA PlacingTypes ==
    ASSUME PlanConstants, PlaceInv
    PROVE  Placing!TypeOK
  <1>1. PlaceTypes
    BY DEF PlaceInv
  <1>2. correction \in DryGaps \cup {None}
    BY <1>1 DEF PlaceTypes
  <1>3. load # None => load.at \in LoadSteps /\ load.stage \in Stages
    BY <1>1 DEF PlaceTypes, Loading
  <1> QED
    BY <1>1, <1>2, <1>3 DEF Placing!TypeOK, PlaceTypes, LoadSteps, Stages

LEMMA PlacingRun ==
    ASSUME PlanConstants
    PROVE  SpecAll => []PlaceInv /\ [][Placing!Next]_(Placing!vars)
  <1>1. InitAll => PlaceInv
    BY PlacingBegins DEF InitAll
  <1>2. [NextAll]_allVars => [Placing!Next]_(Placing!vars)
    BY DEF NextAll, allVars, placingVars, Placing!vars
  <1>3. PlaceInv /\ [NextAll]_allVars => PlaceInv'
    BY <1>2, PlacingSteps
  <1> QED
    BY <1>1, <1>2, <1>3, PTL DEF SpecAll

\* What is planned, measured and resident keeps its type, and what other programs
\* and the models take stays within the memory of the GPU.
THEOREM PlacementTypes ==
    ASSUME PlanConstants
    PROVE  SpecAll => []Placing!TypeOK
  <1>1. PlaceInv => Placing!TypeOK
    BY PlacingTypes
  <1> QED
    BY <1>1, PlacingRun, PTL

\* "It needed at least all the VRAM that was free, so the next plan for this model
\* and settings leaves room for that and does not fail again" (host.rs): in no more
\* memory than at a recorded miss, an automatic plan takes less than what missed.
THEOREM Misses ==
    ASSUME PlanConstants
    PROVE  SpecAll => MissesAreLearned
  <1>1. PlaceInv /\ [Placing!Next]_(Placing!vars) =>
          [load' # None /\ load'.plan # (IF load = None THEN None ELSE load.plan)
           /\ load'.at \in {"planned", "retrying"} /\ Placing!Automatic(load'.settings)
           => LET free == IF load'.at = "planned" THEN load'.hw ELSE Placing!FreeVram
              IN  \A miss \in missed' : free <= miss.free
                  => load'.plan.vram < miss.vram]_(Placing!vars)
    BY PlacingSteps
  <1> QED
    BY <1>1, PlacingRun, PTL DEF MissesAreLearned, Placing!MissesAreLearned

\* The reserve of the desktop (DEVICE_RESERVE_MIN_GB, margin.rs): a measured model
\* loaded with automatic settings leaves it free, when nothing else changed and no
\* load missed.
THEOREM Reserves ==
    ASSUME PlanConstants
    PROVE  SpecAll => ReserveIsLeft
  <1>1. PlaceInv /\ [Placing!Next]_(Placing!vars) =>
          [Placing!At("settle") /\ load' = None /\ Placing!Automatic(load.settings) /\ ~load.fresh
           /\ use # None /\ changes = 0 /\ missed = {} /\ (correction = None \/ correction >= 0)
           => Placing!FreeVram >= Reserve]_(Placing!vars)
    BY PlacingSteps
  <1> QED
    BY <1>1, PlacingRun, PTL DEF ReserveIsLeft, Placing!ReserveIsLeft

-----------------------------------------------------------------------------
(* The event log of a chat beside the others.                              *)

Chat == INSTANCE EventStoreProofs

\* What the theorems assume of the constants of the event log.
LogConstants == Chat!EventConstants

\* The operators on sequences are the same in both instances.
LEMMA SameRead ==
    /\ \A s : Events!FlattenSeq(s) = Chat!FlattenSeq(s)
    /\ Events!Read = Chat!Read
  <1>1. \A s : Events!FlattenSeq(s) = Chat!FlattenSeq(s)
    BY Zenon DEF Events!FlattenSeq, Chat!FlattenSeq
  <1> QED
    BY <1>1 DEF Events!Read, Chat!Read

LEMMA SameLog ==
    /\ \A events : Events!Distinct(events) = Chat!Distinct(events)
    /\ Events!Log = Chat!Log
  <1>1. \A events : Events!Distinct(events) = Chat!Distinct(events)
    BY Zenon DEF Events!Distinct, Chat!Distinct
  <1> QED
    BY <1>1, SameRead DEF Events!Log, Chat!Log

\* A step of the event log is a step of the module the proofs are about.
LEMMA EventsStep ==
    ASSUME Events!Next
    PROVE  Chat!Next
  <1> USE DEF Events!files, Events!NoFile, Events!Idle, Events!NoRead, Events!Stamp,
              Chat!files, Chat!NoFile, Chat!Idle, Chat!NoRead, Chat!Stamp
  <1>0. Events!Loaded = Chat!Loaded
    BY SameRead DEF Events!Loaded, Chat!Loaded, Events!NextSeq, Chat!NextSeq, Events!Last, Chat!Last
  <1>w. ASSUME NEW k PROVE Events!MayWrite(k) <=> Chat!MayWrite(k)
    BY <1>0 DEF Events!MayWrite, Chat!MayWrite
  <1>f. ASSUME NEW st PROVE Events!Fresh(st) = Chat!Fresh(st)
    BY Zenon DEF Events!Fresh, Chat!Fresh, Events!Unfixed, Chat!Unfixed
  <1>n. ASSUME NEW st, NEW n PROVE Events!NewEvents(st, n) = Chat!NewEvents(st, n)
    BY Zenon DEF Events!NewEvents, Chat!NewEvents
  <1>g. ASSUME NEW f, NEW new PROVE Events!Written(f, new) = Chat!Written(f, new)
    BY Zenon DEF Events!Written, Chat!Written
  <1>e. ASSUME NEW b, NEW c, NEW new PROVE Events!Extended(b, c, new) = Chat!Extended(b, c, new)
    BY Zenon DEF Events!Extended, Chat!Extended
  <1>1. Events!ReadShared => Chat!ReadShared
    BY SameRead DEF Events!ReadShared, Chat!ReadShared, Events!HotIsCurrent, Chat!HotIsCurrent
  <1>2. Events!EvictHot => Chat!EvictHot
    BY DEF Events!EvictHot, Chat!EvictHot
  <1>3. ASSUME NEW k \in 1..MaxBatch, Events!AppendEvents(k) PROVE Chat!AppendEvents(k)
    BY <1>3, <1>0, <1>w, <1>f, <1>n, <1>g, <1>e DEF Events!AppendEvents, Chat!AppendEvents
  <1>4. ASSUME NEW k \in 1..MaxBatch, Events!AppendFails(k) PROVE Chat!AppendFails(k)
    BY <1>4, <1>0, <1>w, <1>f, <1>n, <1>g DEF Events!AppendFails, Chat!AppendFails
  <1>5. ASSUME NEW k \in 1..MaxBatch, Events!BeginRotate(k) PROVE Chat!BeginRotate(k)
    BY <1>5, <1>0 DEF Events!BeginRotate, Chat!BeginRotate
  <1>6. Events!CopySegment => Chat!CopySegment
    BY DEF Events!CopySegment, Chat!CopySegment, Events!Last, Chat!Last, Events!Front, Chat!Front
  <1>7. Events!RemoveOpen => Chat!RemoveOpen
    BY DEF Events!RemoveOpen, Chat!RemoveOpen
  <1>8. Events!RotateFails => Chat!RotateFails
    BY DEF Events!RotateFails, Chat!RotateFails
  <1>9. Events!Sync => Chat!Sync
    BY SameLog DEF Events!Sync, Chat!Sync
  <1>10. Events!DeleteChat => Chat!DeleteChat
    BY DEF Events!DeleteChat, Chat!DeleteChat
  <1>11. Events!Kill => Chat!Kill
    BY DEF Events!Kill, Chat!Kill
  <1>12. Events!PowerCut => Chat!PowerCut
    BY DEF Events!PowerCut, Chat!PowerCut
  <1> QED
    BY <1>1, <1>2, <1>3, <1>4, <1>5, <1>6, <1>7, <1>8, <1>9, <1>10, <1>11, <1>12
       DEF Events!Next, Chat!Next

LEMMA EventsRun == SpecAll => Chat!Spec
  <1>1. InitAll => Chat!Init
    BY DEF InitAll, Events!Init, Events!NoFile, Events!Idle, Events!NoRead,
           Chat!Init, Chat!NoFile, Chat!Idle, Chat!NoRead
  <1>2. [NextAll]_allVars => [Chat!Next]_(Chat!vars)
    <2>1. UNCHANGED eventVars => UNCHANGED Chat!vars
      BY DEF eventVars, Chat!vars, Chat!files
    <2> QED
      BY <2>1, EventsStep DEF NextAll, allVars
  <1> QED
    BY <1>1, <1>2, PTL DEF SpecAll, Chat!Spec

\* "Parsed logs of hot chats with the files they were read from": a parsed log
\* that read_shared hands out is what a read gives (store.rs).
THEOREM HotLogs ==
    ASSUME LogConstants
    PROVE  SpecAll => []HotLogIsTheLog
  <1>1. Chat!Spec => []Chat!HotLogIsTheLog
    BY Chat!HotLogsAreLogs DEF LogConstants
  <1>2. Chat!HotLogIsTheLog => HotLogIsTheLog
    BY SameRead DEF HotLogIsTheLog, Events!HotLogIsTheLog, Chat!HotLogIsTheLog,
       Events!HotIsCurrent, Chat!HotIsCurrent, Events!Stamp, Chat!Stamp, Events!Idle, Chat!Idle
  <1> QED
    BY <1>1, <1>2, EventsRun, PTL

\* "Position in the chat's log, from 1": along the log seqs grow, and the one
\* kept for the next event is above them (store.rs).
THEOREM Seqs ==
    ASSUME LogConstants
    PROVE  SpecAll => []SeqsGrow
  <1>1. Chat!Spec => []Chat!SeqsGrow
    BY Chat!SeqsAlwaysGrow DEF LogConstants
  <1>2. Chat!SeqsGrow => SeqsGrow
    BY SameRead, SameLog DEF SeqsGrow, Events!SeqsGrow, Chat!SeqsGrow
  <1> QED
    BY <1>1, <1>2, EventsRun, PTL

\* The files are an append-only log of the chat: no event whose append returned
\* is missing or out of order, and none that a sync covered is lost (trait
\* EventStore, store.rs).
THEOREM Promise ==
    ASSUME LogConstants
    PROVE  SpecAll => KeepsThePromise
  <1>1. Chat!Spec => Chat!KeepsThePromise
    BY Chat!FilesKeepThePromise DEF LogConstants
  <1>2. Events!IdsOf(Events!Log) = Chat!IdsOf(Chat!Log)
    BY SameLog DEF Events!IdsOf, Chat!IdsOf
  <1>3. Chat!PromisedLog!Init => Events!PromisedLog!Init
    BY <1>2 DEF Events!PromisedLog!Init, Chat!PromisedLog!Init
  <1>4. [Chat!PromisedLog!Next]_(Chat!PromisedLog!logVars)
           => [Events!PromisedLog!Next]_(Events!PromisedLog!logVars)
    <2>1. (Events!IdsOf(Events!Log))' = (Chat!IdsOf(Chat!Log))'
      <3>1. (Events!Read)' = (Chat!Read)'
        BY SameRead DEF Events!Read, Chat!Read
      <3>2. (Events!Log)' = (Chat!Log)'
        BY <3>1, SameLog DEF Events!Log, Chat!Log
      <3> QED
        BY <3>2 DEF Events!IdsOf, Chat!IdsOf
    <2>2. ASSUME Chat!PromisedLog!Next PROVE Events!PromisedLog!Next
      <3>1. ASSUME NEW k \in 1..MaxBatch, Chat!PromisedLog!AppendAll(k)
            PROVE  Events!PromisedLog!AppendAll(k)
        BY <3>1, <1>2, <2>1 DEF Chat!PromisedLog!AppendAll, Events!PromisedLog!AppendAll,
           Chat!PromisedLog!New, Events!PromisedLog!New
      <3>2. ASSUME NEW k \in 1..MaxBatch, Chat!PromisedLog!AppendFails(k)
            PROVE  Events!PromisedLog!AppendFails(k)
        BY <3>2, <1>2, <2>1 DEF Chat!PromisedLog!AppendFails, Events!PromisedLog!AppendFails,
           Chat!PromisedLog!New, Events!PromisedLog!New
      <3>3. Chat!PromisedLog!Sync => Events!PromisedLog!Sync
        BY <1>2, <2>1 DEF Chat!PromisedLog!Sync, Events!PromisedLog!Sync
      <3>4. Chat!PromisedLog!Crash => Events!PromisedLog!Crash
        BY <1>2, <2>1 DEF Chat!PromisedLog!Crash, Events!PromisedLog!Crash
      <3>5. Chat!PromisedLog!Delete => Events!PromisedLog!Delete
        BY <1>2, <2>1 DEF Chat!PromisedLog!Delete, Events!PromisedLog!Delete
      <3> QED
        BY <2>2, <3>1, <3>2, <3>3, <3>4, <3>5 DEF Chat!PromisedLog!Next, Events!PromisedLog!Next
    <2>3. UNCHANGED Chat!PromisedLog!logVars => UNCHANGED Events!PromisedLog!logVars
      BY <1>2, <2>1 DEF Chat!PromisedLog!logVars, Events!PromisedLog!logVars
    <2> QED
      BY <2>2, <2>3
  <1>5. Chat!KeepsThePromise => KeepsThePromise
    BY <1>3, <1>4, PTL DEF KeepsThePromise, Events!KeepsThePromise, Chat!KeepsThePromise,
       Events!PromisedLog!Spec, Chat!PromisedLog!Spec
  <1> QED
    BY <1>1, <1>5, EventsRun, PTL

\* The event log of the composition has the types of the one the proofs are about.
LEMMA EventsTyped ==
    ASSUME Chat!TypeOK
    PROVE  Events!TypeOK
  <1>1. Chat!EventOf = Events!EventOf /\ Chat!MostBytes = Events!MostBytes
    BY DEF Chat!EventOf, Events!EventOf, Chat!MostBytes, Events!MostBytes
  <1> QED
    BY <1>1 DEF Chat!TypeOK, Events!TypeOK

LEMMA GrantsRun == SpecAll => Spec
  <1>1. InitAll => Init
    BY DEF InitAll
  <1>2. [NextAll]_allVars => [Next]_vars
    BY DEF NextAll, allVars
  <1> QED
    BY <1>1, <1>2, PTL DEF SpecAll, Spec

\* Every part keeps its types, for any values of the constants the parts allow.
THEOREM AllTypes ==
    ASSUME LogConstants, SupplyConstants, PlanConstants, FitConstants
    PROVE  SpecAll => []TypesOK
  <1>1. SpecAll => []Events!TypeOK
    <2>1. Chat!Spec => []Chat!TypeOK
      BY Chat!TypeCorrect DEF LogConstants
    <2>2. Chat!TypeOK => Events!TypeOK
      BY EventsTyped
    <2> QED
      BY <2>1, <2>2, EventsRun, PTL
  <1>2. SpecAll => []TypeOK
    BY GrantsRun, TypeCorrect, PTL
  <1>3. Events!TypeOK /\ Supply!TypeOK /\ Placing!TypeOK /\ TypeOK /\ Fit!TypeOK => TypesOK
    BY DEF TypesOK
  <1>4. SpecAll => []Supply!TypeOK
    BY SupplyTypes
  <1>5. SpecAll => []Placing!TypeOK
    BY PlacementTypes
  <1>6. SpecAll => []Fit!TypeOK
    BY ConversationTypes
  <1> QED
    BY <1>1, <1>2, <1>3, <1>4, <1>5, <1>6, PTL
=============================================================================
