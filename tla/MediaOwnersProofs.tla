------------------------- MODULE MediaOwnersProofs -------------------------
(* What holds of MediaOwners for any number of requests, models and jobs.   *)
(* Three facts about who holds what come first; a lemma then says what any  *)
(* step may do to the models that are loaded, and the properties follow     *)
(* from it.                                                                 *)
EXTENDS MediaOwners, TLAPS

-----------------------------------------------------------------------------
(* Where a request may be.                                                 *)

Chats   == {"chat", "chat checking", "peak speech", "peak onnx"}
OnCpu   == {"cpu waiting", "cpu loading", "cpu running"}
Away    == {"idle", "retaining"}

\* A request has a job, and is where its job takes it.
JobsFit ==
    \A r \in Requests : pc[r] # "idle" =>
        /\ job[r] # None
        /\ job[r].owner = "chat" <=> pc[r] \in Chats
        /\ pc[r] = "switching" => job[r].task = "tts"
        /\ pc[r] \in OnCpu => job[r].owner = "onnx" /\ job[r].task = "tts"

\* An owner's mutex is held by the request that loads or runs there, and by no
\* other.
MutexesFit ==
    /\ \A r \in Requests : pc[r] \in Holding => mutex[job[r].owner] = r
    /\ \A o \in Owners : mutex[o] # None =>
          pc[mutex[o]] \in Holding /\ job[mutex[o]].owner = o

Control == TypeOK /\ JobsFit /\ MutexesFit

LEMMA JobFields ==
    ASSUME Control, NEW r \in Requests, pc[r] # "idle"
    PROVE  /\ job[r] \in Jobs
           /\ job[r].owner \in Owners \cup {"chat"}
           /\ pc[r] \notin Chats => job[r].owner \in Owners
           /\ job[r].task \in Tasks
           /\ job[r].owner = "speech" => job[r].task = "tts"
           /\ Mine(r) \in Residents
           /\ Mine(r).model = job[r].model /\ Mine(r).task = job[r].task /\ Mine(r).lease = r
           /\ Mine(r) # None
  <1>1. job[r] \in Jobs
    BY DEF Control, TypeOK, JobsFit
  <1>2. job[r] \in JobSet
    BY <1>1, OwnersAssumption
  <1>3. /\ job[r].owner \in Owners \cup {"chat"} /\ job[r].task \in Tasks
        /\ job[r].model \in Models
    BY <1>2 DEF JobSet
  <1>4. Mine(r) \in Residents /\ Mine(r) # None
    BY <1>3, OwnersAssumption DEF Mine, Residents
  <1>5. pc[r] \notin Chats => job[r].owner # "chat"
    BY DEF Control, JobsFit
  <1> QED
    BY <1>1, <1>3, <1>4, <1>5, OwnersAssumption DEF Mine

-----------------------------------------------------------------------------
(* Types, jobs and mutexes.                                                *)

\* A request moves on and keeps its job; its mutex stays with it, or with
\* nobody.
LEMMA MovesOn ==
    ASSUME Control, NEW r \in Requests, NEW l \in States,
           pc[r] # "idle", l # "idle", Goto(r, l), UNCHANGED <<mutex, job>>,
           l \in Holding <=> pc[r] \in Holding,
           l \in Chats <=> pc[r] \in Chats,
           l = "switching" => job[r].task = "tts",
           l \in OnCpu => job[r].owner = "onnx" /\ job[r].task = "tts",
           transition' \in Requests \cup {None},
           active' \in [Owners -> Residents \cup {None}], parked' \subseteq Residents
    PROVE  Control'
  <1>1. pc' = [pc EXCEPT ![r] = l] /\ pc \in [Requests -> States]
    BY DEF Goto, Control, TypeOK
  <1>2. TypeOK'
    BY <1>1 DEF Control, TypeOK
  <1>3. JobsFit'
    BY <1>1 DEF Control, JobsFit
  <1>4. MutexesFit'
    BY <1>1 DEF Control, MutexesFit, TypeOK
  <1> QED
    BY <1>2, <1>3, <1>4 DEF Control

\* A request takes its owner's mutex.
LEMMA Takes ==
    ASSUME Control, NEW r \in Requests, NEW l \in {"waiting", "running"},
           pc[r] = "queued", mutex[job[r].owner] = None,
           mutex' = [mutex EXCEPT ![job[r].owner] = r],
           Goto(r, l), UNCHANGED <<job, transition>>,
           active' \in [Owners -> Residents \cup {None}], parked' \subseteq Residents
    PROVE  Control'
  <1> DEFINE o == job[r].owner
  <1>1. pc' = [pc EXCEPT ![r] = l] /\ pc \in [Requests -> States]
    BY DEF Goto, Control, TypeOK
  <1>2. o \in Owners /\ mutex \in [Owners -> Requests \cup {None}]
    BY JobFields DEF Control, TypeOK, Chats
  <1>3. mutex' = [mutex EXCEPT ![o] = r]
    OBVIOUS
  <1>4. l \in States /\ l \in Holding /\ l \notin Chats /\ l \notin OnCpu /\ l # "switching"
    BY DEF States, Holding, Chats, OnCpu
  <1>5. TypeOK'
    BY <1>1, <1>2, <1>3, <1>4 DEF Control, TypeOK
  <1>6. JobsFit'
    BY <1>1, <1>4 DEF Control, JobsFit, Chats
  <1>7. MutexesFit'
    <2>1. ASSUME NEW s \in Requests, pc'[s] \in Holding
          PROVE  mutex'[job'[s].owner] = s
      <3>1. CASE s = r
        BY <1>2, <1>3, <3>1
      <3>2. CASE s # r
        <4>1. pc[s] \in Holding /\ mutex[job[s].owner] = s
          BY <1>1, <2>1, <3>2 DEF Control, MutexesFit
        <4>2. job[s].owner # o
          BY <4>1, OwnersAssumption
        <4> QED
          BY <1>2, <1>3, <4>1, <4>2
      <3> QED
        BY <3>1, <3>2
    <2>2. ASSUME NEW p \in Owners, mutex'[p] # None
          PROVE  pc'[mutex'[p]] \in Holding /\ job'[mutex'[p]].owner = p
      <3>1. CASE p = o
        BY <1>1, <1>2, <1>3, <1>4, <3>1
      <3>2. CASE p # o
        <4>1. mutex'[p] = mutex[p] /\ mutex[p] # r
          BY <1>2, <1>3, <2>2, <3>2 DEF Control, MutexesFit
        <4> QED
          BY <1>1, <1>2, <2>2, <4>1 DEF Control, MutexesFit, TypeOK
      <3> QED
        BY <3>1, <3>2
    <2> QED
      BY <2>1, <2>2 DEF MutexesFit
  <1> QED
    BY <1>5, <1>6, <1>7 DEF Control

\* A request that had the mutex of its owner gives it back and is over.
LEMMA GivesBack ==
    ASSUME Control, NEW r \in Requests, NEW timer \in BOOLEAN,
           pc[r] \in Holding, Release(r), End(r, timer),
           transition' \in Requests \cup {None},
           active' \in [Owners -> Residents \cup {None}], parked' \subseteq Residents
    PROVE  Control'
  <1> DEFINE o == job[r].owner
             l == IF timer THEN "retaining" ELSE "idle"
  <1>1. pc' = [pc EXCEPT ![r] = l] /\ pc \in [Requests -> States]
    BY DEF Goto, End, Control, TypeOK
  <1>2. o \in Owners /\ mutex \in [Owners -> Requests \cup {None}] /\ job[r] \in Jobs
    BY JobFields DEF Control, TypeOK, Chats, Holding
  <1>3. mutex' = [mutex EXCEPT ![o] = None] /\ mutex[o] = r
    BY DEF Release, Control, MutexesFit
  <1>4. l \in States /\ l \notin Holding /\ l \notin Chats /\ l \notin OnCpu /\ l # "switching"
    BY DEF States, Holding, Chats, OnCpu
  <1>5. /\ job' \in [Requests -> Jobs \cup {None}]
        /\ l # "idle" => job' = job
        /\ \A s \in Requests \ {r} : job'[s] = job[s]
    BY DEF End, Control, TypeOK
  <1>6. TypeOK'
    BY <1>1, <1>2, <1>3, <1>4, <1>5 DEF Control, TypeOK
  <1>7. JobsFit'
    BY <1>1, <1>4, <1>5 DEF Control, JobsFit, Chats, Holding
  <1>8. MutexesFit'
    <2>1. ASSUME NEW s \in Requests, pc'[s] \in Holding
          PROVE  mutex'[job'[s].owner] = s
      <3>1. s # r
        BY <1>1, <1>4, <2>1
      <3>2. pc[s] \in Holding /\ mutex[job[s].owner] = s /\ job'[s] = job[s]
        BY <1>1, <1>5, <2>1, <3>1 DEF Control, MutexesFit
      <3> QED
        BY <1>2, <1>3, <3>1, <3>2
    <2>2. ASSUME NEW p \in Owners, mutex'[p] # None
          PROVE  pc'[mutex'[p]] \in Holding /\ job'[mutex'[p]].owner = p
      <3>1. p # o /\ mutex'[p] = mutex[p]
        BY <1>2, <1>3, <2>2
      <3>2. mutex[p] # r
        BY <2>2, <3>1 DEF Control, MutexesFit
      <3> QED
        BY <1>1, <1>2, <1>5, <2>2, <3>1, <3>2 DEF Control, MutexesFit, TypeOK
    <2> QED
      BY <2>1, <2>2 DEF MutexesFit
  <1> QED
    BY <1>6, <1>7, <1>8 DEF Control

\* A request that has no mutex is over.
LEMMA Leaves ==
    ASSUME Control, NEW r \in Requests,
           pc[r] \notin Holding, pc[r] # "idle", End(r, FALSE), UNCHANGED mutex,
           transition' \in Requests \cup {None},
           active' \in [Owners -> Residents \cup {None}], parked' \subseteq Residents
    PROVE  Control'
  <1>1. /\ pc' = [pc EXCEPT ![r] = "idle"] /\ pc \in [Requests -> States]
        /\ job' = [job EXCEPT ![r] = None] /\ job \in [Requests -> Jobs \cup {None}]
    BY DEF Goto, End, Control, TypeOK
  <1>2. TypeOK'
    BY <1>1 DEF Control, TypeOK, States
  <1>3. JobsFit'
    BY <1>1 DEF Control, JobsFit
  <1>4. MutexesFit'
    <2>1. \A s \in Requests : pc'[s] \in Holding => s # r
      BY <1>1 DEF Holding
    <2>2. \A p \in Owners : mutex[p] # r
      BY OwnersAssumption DEF Control, MutexesFit
    <2> QED
      BY <1>1, <2>1, <2>2 DEF Control, MutexesFit, TypeOK
  <1> QED
    BY <1>2, <1>3, <1>4 DEF Control

LEMMA ArriveControl ==
    ASSUME Control, NEW r \in Requests, Arrive(r)
    PROVE  Control'
  <1> DEFINE At(j) == CASE j.owner = "chat" -> "chat"
                        [] j.task = "tts"   -> "switching"
                        [] OTHER            -> "queued"
  <1>1. PICK j \in Jobs : job' = [job EXCEPT ![r] = j] /\ pc' = [pc EXCEPT ![r] = At(j)]
    BY Zenon DEF Arrive, Goto
  <1> DEFINE l == At(j)
  <1>2. /\ l \in {"chat", "switching", "queued"}
        /\ l = "chat" <=> j.owner = "chat"
        /\ l = "switching" => j.task = "tts"
    BY OwnersAssumption
  <1>3. /\ pc' = [pc EXCEPT ![r] = l] /\ pc \in [Requests -> States] /\ pc[r] = "idle"
        /\ job' = [job EXCEPT ![r] = j] /\ job \in [Requests -> Jobs \cup {None}] /\ j # None
        /\ UNCHANGED <<transition, mutex, active, parked>>
    BY <1>1, OwnersAssumption DEF Goto, Arrive, Control, TypeOK
  <1> HIDE DEF l, At
  <1>4. TypeOK'
    BY <1>2, <1>3 DEF Control, TypeOK, States
  <1>5. JobsFit'
    BY <1>2, <1>3 DEF Control, JobsFit, Chats, OnCpu
  <1>6. MutexesFit'
    <2>1. \A s \in Requests : pc'[s] \in Holding => s # r
      BY <1>2, <1>3 DEF Holding
    <2>2. \A p \in Owners : mutex[p] # r
      <3>1. pc[r] \notin Holding
        BY <1>3 DEF Holding
      <3> QED
        BY <3>1, OwnersAssumption DEF Control, MutexesFit
    <2> QED
      BY <1>3, <2>1, <2>2 DEF Control, MutexesFit, TypeOK
  <1> QED
    BY <1>4, <1>5, <1>6 DEF Control

-----------------------------------------------------------------------------
(* What a step does to the models.                                         *)

\* Models go, but none whose owner another request holds.
Frees(r) ==
    /\ \A o \in Owners : active'[o] \in {active[o], None}
    /\ \A o \in Owners : mutex[o] \notin {None, r} => active'[o] = active[o]
    /\ parked' \subseteq parked

LoadedTypes ==
    active' \in [Owners -> Residents \cup {None}] /\ parked' \subseteq Residents

LEMMA NothingFreed ==
    ASSUME Control, NEW r \in Requests, UNCHANGED <<active, parked>>
    PROVE  Frees(r) /\ LoadedTypes
  BY DEF Frees, LoadedTypes, Control, TypeOK

LEMMA OneFreed ==
    ASSUME Control, NEW r \in Requests, NEW o \in Owners, mutex[o] \in {None, r},
           SetActive(o, None) \/ UNCHANGED active, parked' \subseteq parked
    PROVE  Frees(r) /\ LoadedTypes
  BY DEF SetActive, Frees, LoadedTypes, Control, TypeOK

LEMMA IdleFreed ==
    ASSUME Control, NEW r \in Requests, NEW o,
           active' = [p \in Owners |-> IF p \in Idle(o) THEN None ELSE active[p]],
           parked' \subseteq parked
    PROVE  /\ Frees(r) /\ LoadedTypes
           /\ o \in Owners => active'[o] = active[o]
  BY DEF Idle, Frees, LoadedTypes, Control, TypeOK

\* What Select keeps: what was there, and for the ONNX owner nothing of the
\* request's own task.
LEMMA SelectKeeps ==
    ASSUME Control, NEW j \in JobSet, NEW o \in Owners
    PROVE  LET kept == Select(o, j).parked
           IN  /\ kept \subseteq parked \cup ({active["onnx"]} \ {None})
               /\ kept \subseteq Residents
               /\ o # "onnx" => kept = parked
               /\ o = "onnx" => \A p \in kept : p.task # j.task
  <1>1. parked \subseteq Residents /\ active["onnx"] \in Residents \cup {None}
    BY DEF Control, TypeOK, Owners
  <1> QED
    BY <1>1 DEF Select

-----------------------------------------------------------------------------
(* Every step keeps the types, jobs and mutexes.                           *)

Unlocked(r) == SwitchBackend(r) \/ Leave(r) \/ Expire(r)

LEMMA UnlockedControl ==
    ASSUME Control, NEW r \in Requests, Unlocked(r)
    PROVE  Control'
  <1>1. CASE SwitchBackend(r)
    <2>1. Frees(r) /\ LoadedTypes
      <3>1. CASE UnloadOnnxSpeech
        BY <3>1, OneFreed DEF UnloadOnnxSpeech, Owners
      <3>2. CASE UnloadGgufSpeech
        BY <3>2, OneFreed DEF UnloadGgufSpeech, Owners
      <3> QED
        BY <1>1, <3>1, <3>2 DEF SwitchBackend
    <2>2. /\ pc[r] = "switching" /\ Goto(r, "queued") /\ "queued" \in States
          /\ UNCHANGED <<transition, mutex, job>>
      BY <1>1 DEF SwitchBackend, States
    <2> QED
      BY <2>1, <2>2, MovesOn DEF Holding, Chats, OnCpu, LoadedTypes, Control, TypeOK
  <1>2. CASE Leave(r)
    <2>1. pc[r] = "queued" /\ End(r, FALSE) /\ UNCHANGED <<transition, mutex, parked>>
      BY <1>2 DEF Leave
    <2>2. job[r].owner \in Owners
      BY <2>1, JobFields DEF Chats
    <2>3. LoadedTypes
      BY <1>2, <2>1, <2>2, OneFreed DEF Leave
    <2> QED
      BY <2>1, <2>3, Leaves DEF Holding, LoadedTypes, Control, TypeOK
  <1>3. CASE Expire(r)
    <2>1. pc[r] = "retaining" /\ End(r, FALSE) /\ UNCHANGED <<transition, mutex>>
      BY <1>3 DEF Expire
    <2>2. job[r].owner \in Owners
      BY <2>1, JobFields DEF Chats
    <2>3. parked' \subseteq parked
      BY <1>3 DEF Expire
    <2>4. LoadedTypes
      BY <1>3, <2>2, <2>3, OneFreed DEF Expire
    <2> QED
      BY <2>1, <2>4, Leaves DEF Holding, LoadedTypes, Control, TypeOK
  <1> QED
    BY <1>1, <1>2, <1>3 DEF Unlocked

Locks(r) == LockResident(r) \/ LockToLoad(r)

LEMMA LocksControl ==
    ASSUME Control, NEW r \in Requests, Locks(r)
    PROVE  Control'
  <1> DEFINE o == job[r].owner
  <1>1. /\ pc[r] = "queued" /\ mutex[o] = None /\ mutex' = [mutex EXCEPT ![o] = r]
        /\ UNCHANGED <<transition, job>>
        /\ parked' = Select(o, job[r]).parked
    BY DEF Locks, LockResident, LockToLoad
  <1>2. o \in Owners /\ job[r] \in JobSet /\ Mine(r) \in Residents
    BY <1>1, JobFields, OwnersAssumption DEF Chats
  <1>3. parked' \subseteq Residents
    BY <1>1, <1>2, SelectKeeps
  <1>4. active' \in [Owners -> Residents \cup {None}]
    BY <1>2 DEF Locks, LockResident, LockToLoad, SetActive, Control, TypeOK
  <1>5. PICK l \in {"waiting", "running"} : Goto(r, l)
    BY DEF Locks, LockResident, LockToLoad
  <1> HIDE DEF o
  <1> QED
    BY <1>1, <1>3, <1>4, <1>5, Takes DEF o

\* A step of a request that has its owner's mutex and keeps it.
Inside(r) ==
    \/ TakeTransition(r) \/ LoadShort(r) \/ OnnxLoadError(r) \/ Publish(r)
    \/ RunShort(r) \/ CpuRetry(r) \/ CpuLoaded(r)

\* What it does to the models: only a publication brings one.
LEMMA InsideFrees ==
    ASSUME Control, NEW r \in Requests, Inside(r)
    PROVE  /\ pc[r] \in Holding /\ job[r].owner \in Owners /\ mutex[job[r].owner] = r
           /\ LoadedTypes
           /\ Frees(r) \/ Publish(r)
  <1>1. pc[r] \in Holding
    BY DEF Inside, TakeTransition, LoadShort, OnnxLoadError, Publish, LoadStates, RunShort,
           CpuRetry, CpuLoaded, Holding
  <1> DEFINE o == job[r].owner
  <1>2. o \in Owners /\ mutex[o] = r /\ Mine(r) \in Residents
    BY <1>1, JobFields DEF Control, MutexesFit, Holding, Chats
  <1>3. CASE TakeTransition(r)
    <2>1. SetActive(o, None) /\ parked' \subseteq parked
      BY <1>3 DEF TakeTransition
    <2> QED
      BY <1>1, <1>2, <2>1, OneFreed
  <1>4. CASE LoadShort(r) \/ RunShort(r)
    <2>1. FreeOthers(o)
      BY <1>4 DEF LoadShort, RunShort
    <2> QED
      BY <1>1, <1>2, <2>1, IdleFreed DEF FreeOthers
  <1>5. CASE OnnxLoadError(r)
    <2>1. /\ active' = [p \in Owners |-> IF p \in Idle("onnx") THEN None ELSE active[p]]
          /\ parked' = {}
      BY <1>5 DEF OnnxLoadError
    <2> QED
      BY <1>1, <1>2, <2>1, IdleFreed
  <1>6. CASE Publish(r)
    <2>1. active' = [active EXCEPT ![o] = Mine(r)] /\ parked' = parked
      BY <1>6 DEF Publish, SetActive
    <2> QED
      BY <1>1, <1>2, <1>6, <2>1 DEF LoadedTypes, Control, TypeOK
  <1>7. CASE CpuRetry(r)
    <2>1. SetActive(o, None) /\ parked' \subseteq parked
      BY <1>7 DEF CpuRetry
    <2> QED
      BY <1>1, <1>2, <2>1, OneFreed
  <1>8. CASE CpuLoaded(r)
    <2>1. UNCHANGED <<active, parked>>
      BY <1>8 DEF CpuLoaded
    <2> QED
      BY <1>1, <1>2, <2>1, NothingFreed
  <1> QED
    BY <1>3, <1>4, <1>5, <1>6, <1>7, <1>8 DEF Inside

LEMMA InsideControl ==
    ASSUME Control, NEW r \in Requests, Inside(r)
    PROVE  Control'
  <1>1. pc[r] \in Holding /\ pc[r] # "idle" /\ pc[r] \notin Chats /\ LoadedTypes
    BY InsideFrees DEF Holding, Chats
  <1>2. UNCHANGED <<mutex, job>> /\ transition' \in Requests \cup {None}
    BY DEF Inside, TakeTransition, LoadShort, OnnxLoadError, Publish, RunShort, CpuRetry,
           CpuLoaded, Control, TypeOK
  <1>3. PICK l \in Holding : Goto(r, l) /\ (l \in OnCpu => job[r].owner = "onnx" /\ job[r].task = "tts")
    <2>1. CASE TakeTransition(r)
      BY <2>1 DEF TakeTransition, Holding, OnCpu, Control, JobsFit
    <2>2. CASE LoadShort(r) \/ OnnxLoadError(r) \/ Publish(r) \/ CpuRetry(r)
      BY <2>2 DEF LoadShort, OnnxLoadError, Publish, CpuRetry, Holding, OnCpu
    <2>3. CASE CpuLoaded(r)
      BY <2>3 DEF CpuLoaded, Holding, OnCpu, Control, JobsFit
    <2>4. CASE RunShort(r)
      <3>1. Goto(r, "running")
        BY <2>4 DEF RunShort, Goto, Control, TypeOK
      <3> QED
        BY <3>1 DEF Holding, OnCpu
    <2> QED
      BY <2>1, <2>2, <2>3, <2>4 DEF Inside
  <1>4. l \in States /\ l \notin Chats /\ l # "switching" /\ l # "idle"
    BY DEF Holding, States, Chats
  <1> QED
    BY <1>1, <1>2, <1>3, <1>4, MovesOn DEF LoadedTypes

\* A step that gives the owner's mutex back.
Ends(r) == FailLoad(r) \/ Finish(r) \/ FinishError(r) \/ CpuFinish(r)

\* It frees the model, or leaves it; only a run on the CPU publishes it here.
LEMMA EndsFrees ==
    ASSUME Control, NEW r \in Requests, Ends(r)
    PROVE  /\ pc[r] \in Holding /\ job[r].owner \in Owners /\ mutex[job[r].owner] = r
           /\ LoadedTypes /\ parked' = parked
           /\ Frees(r) \/ SetActive(job[r].owner, Mine(r))
           /\ Release(r)
           /\ \E timer \in BOOLEAN : End(r, timer)
           /\ transition' \in Requests \cup {None}
  <1>1. pc[r] \in Holding
    BY DEF Ends, FailLoad, LoadStates, Finish, FinishError, CpuFinish, Holding
  <1> DEFINE o == job[r].owner
  <1>2. o \in Owners /\ mutex[o] = r /\ Mine(r) \in Residents
    BY <1>1, JobFields DEF Control, MutexesFit, Holding, Chats
  <1>3. /\ Release(r) /\ \E timer \in BOOLEAN : End(r, timer)
        /\ transition' \in Requests \cup {None} /\ parked' = parked
    BY DEF Ends, FailLoad, Finish, FinishError, CpuFinish, Minutes, Control, TypeOK
  <1>4. SetActive(o, None) \/ UNCHANGED active \/ SetActive(o, Mine(r))
    <2>1. CASE FailLoad(r)
      BY <2>1 DEF FailLoad
    <2>2. CASE Finish(r) \/ FinishError(r)
      BY <2>2 DEF Finish, FinishError
    <2>3. CASE CpuFinish(r)
      <3>1. o = "onnx"
        BY <2>3 DEF CpuFinish, Control, JobsFit, OnCpu
      <3> QED
        BY <2>3, <3>1 DEF CpuFinish
    <2> QED
      BY <2>1, <2>2, <2>3 DEF Ends
  <1>5. CASE SetActive(o, Mine(r))
    BY <1>1, <1>2, <1>3, <1>5 DEF SetActive, LoadedTypes, Control, TypeOK
  <1>6. CASE SetActive(o, None) \/ UNCHANGED active
    BY <1>1, <1>2, <1>3, <1>6, OneFreed
  <1> QED
    BY <1>4, <1>5, <1>6

LEMMA EndsControl ==
    ASSUME Control, NEW r \in Requests, Ends(r)
    PROVE  Control'
  BY EndsFrees, GivesBack DEF LoadedTypes

\* A step of the chat.
Chat(r) ==
    \/ ChatTake(r) \/ ChatLoad(r) \/ ChatReady(r) \/ ChatPeak(r)
    \/ PeakSpeech(r) \/ PeakOnnx(r)

LEMMA ChatFrees ==
    ASSUME Control, NEW r \in Requests, Chat(r)
    PROVE  Frees(r) /\ LoadedTypes
  <1>1. CASE FreeOthers("chat")
    BY <1>1, IdleFreed DEF FreeOthers
  <1>2. CASE UNCHANGED <<active, parked>>
    BY <1>2, NothingFreed
  <1> QED
    BY <1>1, <1>2 DEF Chat, ChatTake, ChatLoad, ChatReady, ChatPeak, PeakSpeech, PeakOnnx

LEMMA ChatControl ==
    ASSUME Control, NEW r \in Requests, Chat(r)
    PROVE  Control'
  <1>1. pc[r] \in Chats /\ pc[r] # "idle" /\ pc[r] \notin Holding /\ LoadedTypes
    BY ChatFrees DEF Chats, Holding, Chat, ChatTake, ChatLoad, ChatReady, ChatPeak,
                     PeakSpeech, PeakOnnx
  <1>2. UNCHANGED mutex /\ transition' \in Requests \cup {None}
    BY DEF Chat, ChatTake, ChatLoad, ChatReady, ChatPeak, PeakSpeech, PeakOnnx, ChatEnd,
           Control, TypeOK
  <1>3. End(r, FALSE) \/ (\E l \in Chats : Goto(r, l) /\ UNCHANGED job)
    BY DEF Chat, ChatTake, ChatLoad, ChatReady, ChatPeak, PeakSpeech, PeakOnnx, ChatEnd, Chats
  <1>4. CASE End(r, FALSE)
    BY <1>1, <1>2, <1>4, Leaves DEF LoadedTypes
  <1>5. ASSUME NEW l \in Chats, Goto(r, l), UNCHANGED job
        PROVE  Control'
    <2>1. /\ l \in States /\ l # "idle" /\ l \notin Holding /\ l \notin OnCpu
          /\ l # "switching"
      BY DEF Chats, States, Holding, OnCpu
    <2> QED
      BY <1>1, <1>2, <1>5, <2>1, MovesOn DEF LoadedTypes
  <1> QED
    BY <1>3, <1>4, <1>5

\* Every step is one of these.
LEMMA Steps ==
    ASSUME Next
    PROVE  \E r \in Requests : Arrive(r) \/ Unlocked(r) \/ Locks(r) \/ Inside(r) \/ Ends(r) \/ Chat(r)
  BY DEF Next, Progress, Unlocked, Locks, Inside, Ends, Chat

LEMMA ControlStep == Control /\ [Next]_vars => Control'
  <1> SUFFICES ASSUME Control, [Next]_vars
               PROVE  Control'
    OBVIOUS
  <1>1. CASE Next
    BY <1>1, Steps, ArriveControl, UnlockedControl, LocksControl, InsideControl, EndsControl,
       ChatControl
  <1>2. CASE UNCHANGED vars
    BY <1>2 DEF vars, Control, TypeOK, JobsFit, MutexesFit
  <1> QED
    BY <1>1, <1>2

LEMMA ControlHolds == Spec => []Control
  <1>1. Init => Control
    BY DEF Init, Control, TypeOK, States, JobsFit, MutexesFit, Holding
  <1> QED
    BY <1>1, ControlStep, PTL DEF Spec

\* The transition, the mutexes, the models of every owner and the requests have
\* their types.
THEOREM TypeCorrect == Spec => []TypeOK
  <1>1. Control => TypeOK
    BY DEF Control
  <1> QED
    BY <1>1, ControlHolds, PTL

-----------------------------------------------------------------------------
(* Who waits for whom.                                                     *)

\* The transition is that of a request which loads, and which waits for nobody.
TransitionFits ==
    /\ \A r \in Requests : pc[r] \notin {"peak speech", "peak onnx"}
    /\ transition # None =>
          pc[transition] \in LoadStates \cup {"cpu loading", "chat checking"}

LEMMA TransitionFitsStep ==
    ~GpuMeasured /\ TypeOK /\ TransitionFits /\ [Next]_vars => TransitionFits'
  <1> USE OwnersAssumption DEF TypeOK, TransitionFits, LoadStates, Goto
  <1> SUFFICES ASSUME ~GpuMeasured, TypeOK, TransitionFits, [Next]_vars
               PROVE  TransitionFits'
    OBVIOUS
  <1>1. CASE UNCHANGED vars
    BY <1>1 DEF vars
  <1>2. ASSUME NEW r \in Requests, Arrive(r) \/ SwitchBackend(r) \/ Leave(r) \/ Expire(r)
        PROVE  TransitionFits'
    <2>1. CASE Arrive(r)
      BY <2>1 DEF Arrive
    <2>2. CASE SwitchBackend(r)
      BY <2>2 DEF SwitchBackend
    <2>3. CASE Leave(r)
      BY <2>3 DEF Leave, End
    <2>4. CASE Expire(r)
      BY <2>4 DEF Expire, End
    <2> QED
      BY <1>2, <2>1, <2>2, <2>3, <2>4
  <1>3. ASSUME NEW r \in Requests, LockResident(r) \/ LockToLoad(r) \/ TakeTransition(r)
        PROVE  TransitionFits'
    <2>1. CASE LockResident(r)
      BY <2>1 DEF LockResident
    <2>2. CASE LockToLoad(r)
      BY <2>2 DEF LockToLoad
    <2>3. CASE TakeTransition(r)
      BY <2>3 DEF TakeTransition
    <2> QED
      BY <1>3, <2>1, <2>2, <2>3
  <1>4. ASSUME NEW r \in Requests,
               LoadShort(r) \/ OnnxLoadError(r) \/ Publish(r) \/ FailLoad(r) \/ CpuLoaded(r)
        PROVE  TransitionFits'
    <2>1. CASE LoadShort(r)
      BY <2>1 DEF LoadShort
    <2>2. CASE OnnxLoadError(r)
      BY <2>2 DEF OnnxLoadError
    <2>3. CASE Publish(r) \/ CpuLoaded(r)
      BY <2>3 DEF Publish, CpuLoaded
    <2>4. CASE FailLoad(r)
      BY <2>4 DEF FailLoad, End
    <2> QED
      BY <1>4, <2>1, <2>2, <2>3, <2>4
  <1>5. ASSUME NEW r \in Requests,
               RunShort(r) \/ Finish(r) \/ FinishError(r) \/ CpuRetry(r) \/ CpuFinish(r)
        PROVE  TransitionFits'
    <2>1. CASE RunShort(r)
      BY <2>1 DEF RunShort
    <2>2. CASE CpuRetry(r)
      BY <2>2 DEF CpuRetry
    <2>3. CASE Finish(r) \/ CpuFinish(r)
      BY <2>3 DEF Finish, CpuFinish, End
    <2>4. CASE FinishError(r)
      BY <2>4 DEF FinishError, End
    <2> QED
      BY <1>5, <2>1, <2>2, <2>3, <2>4
  <1>6. ASSUME NEW r \in Requests,
               \/ ChatTake(r) \/ ChatLoad(r) \/ ChatReady(r) \/ ChatPeak(r)
               \/ PeakSpeech(r) \/ PeakOnnx(r)
        PROVE  TransitionFits'
    BY <1>6 DEF ChatTake, ChatLoad, ChatReady, ChatPeak, PeakSpeech, PeakOnnx, ChatEnd, End
  <1> QED
    BY <1>1, <1>2, <1>3, <1>4, <1>5, <1>6 DEF Next, Progress

\* On a machine that does not measure the chat's GPU use, no requests wait for
\* each other and no lock is left behind, for any number of requests
\* (speech_host.rs, onnx_host.rs, embedding_host.rs, ensure_loaded in host.rs).
THEOREM EveryWaitIsShort ==
    ASSUME ~GpuMeasured
    PROVE  Spec => []WaitsEnd
  <1>1. Init => TransitionFits
    BY DEF Init, TransitionFits
  <1>2. Control /\ TransitionFits /\ [Next]_vars => TransitionFits'
    BY TransitionFitsStep DEF Control
  <1>3. Control /\ TransitionFits => WaitsEnd
    <2> SUFFICES ASSUME Control, TransitionFits, NEW r \in Requests, NEW s \in Requests,
                        WaitsFor(r, s)
                 PROVE  /\ pc[s] \in Holding \cup {"chat checking"}
                        /\ \A q, p \in Requests : WaitsFor(s, q) => ~WaitsFor(q, p)
      BY DEF WaitsEnd
    <2>1. ASSUME NEW q \in Requests, transition = q
          PROVE  pc[q] \in LoadStates \cup {"cpu loading", "chat checking"}
      BY <2>1, OwnersAssumption DEF TransitionFits
    <2>2. ASSUME NEW o, o \in Owners, mutex[o] = s
          PROVE  pc[s] \in Holding
      BY <2>2, OwnersAssumption DEF Control, MutexesFit
    <2>3. pc[r] \in {"queued", "retaining"} => job[r].owner \in Owners
      BY JobFields DEF Chats
    <2>4. transition = s \/ \E o \in Owners : mutex[o] = s
      BY <2>3 DEF WaitsFor, Owners
    <2>5. pc[s] \in Holding \cup {"chat checking"}
      BY <2>1, <2>2, <2>4 DEF Holding, LoadStates
    <2>6. ASSUME NEW q \in Requests, WaitsFor(s, q)
          PROVE  transition = q
      BY <2>5, <2>6 DEF WaitsFor, Holding
    <2>7. ASSUME NEW q \in Requests, NEW p \in Requests, transition = q
          PROVE  ~WaitsFor(q, p)
      BY <2>1, <2>7 DEF WaitsFor, LoadStates
    <2> QED
      BY <2>5, <2>6, <2>7
  <1> QED
    BY <1>1, <1>2, <1>3, ControlHolds, PTL DEF Spec

-----------------------------------------------------------------------------
(* The models that are loaded.                                             *)

IsSpeech(r) == pc[r] \notin Away /\ job[r].task = "tts"

\* One speech request at a time, for both backends together.
OneSpeechRequest == \A r, s \in Requests : IsSpeech(r) /\ IsSpeech(s) => r = s

NoOnnxSpeech == \A m \in parked \cup {active["onnx"]} : m = None \/ m.task # "tts"

\* A speech request that has switched finds the other backend without a model.
Switched ==
    \A r \in Requests : pc[r] \in Holding \cup {"queued"} /\ job[r].task = "tts" =>
        /\ job[r].owner = "speech" => NoOnnxSpeech
        /\ job[r].owner = "onnx" => active["speech"] = None

\* A request in the ONNX owner has no model of its own task beside it.
ParkedAreOthers ==
    \A r \in Requests : pc[r] \in Holding /\ job[r].owner = "onnx" =>
        \A p \in parked : p.task # job[r].task

\* The inductive invariant: the properties, and what they rest on.
Loaded == /\ OneSpeechRequest /\ Switched /\ ParkedAreOthers
          /\ InUseNeverFreed /\ OneSpeechBackend /\ OneModelPerTask

\* What the steps of one request leave to the others.
LEMMA Alone ==
    ASSUME Control, NEW r \in Requests,
           Arrive(r) \/ Unlocked(r) \/ Locks(r) \/ Inside(r) \/ Ends(r) \/ Chat(r)
    PROVE  /\ \A s \in Requests \ {r} : pc'[s] = pc[s] /\ job'[s] = job[s]
           /\ pc'[r] \notin Away /\ ~Arrive(r) => pc[r] \notin Away /\ job'[r] = job[r]
  <1>1. pc \in [Requests -> States] /\ job \in [Requests -> Jobs \cup {None}]
    BY DEF Control, TypeOK
  <1>2. CASE Arrive(r)
    BY <1>1, <1>2 DEF Arrive, Goto
  <1>3. CASE Unlocked(r)
    BY <1>1, <1>3 DEF Unlocked, SwitchBackend, Leave, Expire, Goto, End, Away
  <1>4. CASE Locks(r)
    BY <1>1, <1>4 DEF Locks, LockResident, LockToLoad, Goto, Away
  <1>5. CASE Inside(r)
    BY <1>1, <1>5 DEF Inside, TakeTransition, LoadShort, OnnxLoadError, Publish, LoadStates,
                      RunShort, CpuRetry, CpuLoaded, Goto, Away
  <1>6. CASE Ends(r)
    BY <1>1, <1>6, EndsFrees DEF End, Goto, Away
  <1>7. CASE Chat(r)
    BY <1>1, <1>7 DEF Chat, ChatTake, ChatLoad, ChatReady, ChatPeak, PeakSpeech, PeakOnnx,
                      ChatEnd, End, Goto, Away
  <1> QED
    BY <1>2, <1>3, <1>4, <1>5, <1>6, <1>7

\* The permit of speech_busy is what keeps a second speech request out.
LEMMA SpeechRequests ==
    ASSUME Control, Control', OneSpeechRequest, NEW r \in Requests,
           Arrive(r) \/ Unlocked(r) \/ Locks(r) \/ Inside(r) \/ Ends(r) \/ Chat(r)
    PROVE  OneSpeechRequest'
  <1>1. CASE ~Arrive(r)
    BY <1>1, Alone DEF OneSpeechRequest, IsSpeech
  <1>2. CASE Arrive(r)
    <2>1. PICK j \in Jobs : Admitted(j) /\ job' = [job EXCEPT ![r] = j]
      BY <1>2 DEF Arrive
    <2>2. job'[r] = j /\ (\A s \in Requests \ {r} : pc'[s] = pc[s] /\ job'[s] = job[s])
      BY <1>2, <2>1, Alone DEF Control, TypeOK
    <2>3. \A s \in Requests : IsSpeech(s) => job[s].owner \in Owners
      BY JobFields, OwnersAssumption DEF IsSpeech, Away, Owners
    <2>4. j.task = "tts" => \A s \in Requests : ~IsSpeech(s)
      BY <2>1, <2>3 DEF Admitted, Busy, IsSpeech, Away
    <2> QED
      BY <2>2, <2>4 DEF OneSpeechRequest, IsSpeech
  <1> QED
    BY <1>1, <1>2

\* The resident model of a request that runs.
LEMMA Runner ==
    ASSUME Control, Loaded, NEW s \in Requests, pc[s] = "running"
    PROVE  /\ job[s].owner \in Owners /\ mutex[job[s].owner] = s /\ s # None
           /\ active[job[s].owner] = Mine(s)
  <1>1. job[s].owner \in Owners
    BY JobFields DEF Chats
  <1> QED
    BY <1>1, OwnersAssumption DEF Loaded, InUseNeverFreed

\* A step that frees models, and lets nobody further, keeps all of it.
LEMMA FreesKeeps ==
    ASSUME Control, Loaded, NEW r \in Requests, Frees(r),
           \A s \in Requests \ {r} : pc'[s] = pc[s] /\ job'[s] = job[s],
           pc'[r] \in Holding => pc[r] \in Holding /\ job'[r] = job[r],
           pc'[r] = "queued" => job'[r].task # "tts",
           pc'[r] = "running" => /\ pc[r] = "running" /\ mutex'[job[r].owner] = r
                                 /\ active'[job[r].owner] = active[job[r].owner],
           \A s \in Requests \ {r} : pc[s] = "running" =>
               mutex'[job[s].owner] = mutex[job[s].owner]
    PROVE  /\ Switched' /\ ParkedAreOthers' /\ InUseNeverFreed'
           /\ OneSpeechBackend' /\ OneModelPerTask'
  <1>1. /\ active'["onnx"] \in {active["onnx"], None}
        /\ active'["speech"] \in {active["speech"], None}
        /\ parked' \subseteq parked
    BY DEF Frees, Owners
  <1>2. Switched'
    BY <1>1 DEF Loaded, Switched, NoOnnxSpeech
  <1>3. ParkedAreOthers'
    BY <1>1 DEF Loaded, ParkedAreOthers
  <1>4. OneSpeechBackend' /\ OneModelPerTask'
    BY <1>1 DEF Loaded, OneSpeechBackend, OneModelPerTask
  <1>5. InUseNeverFreed'
    <2> SUFFICES ASSUME NEW s \in Requests, pc'[s] = "running"
                 PROVE  mutex'[job'[s].owner] = s /\ active'[job'[s].owner] = Mine(s)'
      BY DEF InUseNeverFreed
    <2>1. pc[s] = "running" /\ job'[s] = job[s] /\ mutex'[job[s].owner] = s
      BY DEF Loaded, InUseNeverFreed, Holding
    <2>2. job[s].owner \in Owners /\ Mine(s)' = Mine(s)
      BY <2>1, JobFields DEF Chats, Mine
    <2>3. mutex[job[s].owner] = s /\ active[job[s].owner] = Mine(s)
      BY <2>1 DEF Loaded, InUseNeverFreed
    <2>4. active'[job[s].owner] = active[job[s].owner]
      BY <2>1, <2>2, <2>3, OwnersAssumption DEF Frees
    <2> QED
      BY <2>1, <2>2, <2>3, <2>4
  <1> QED
    BY <1>2, <1>3, <1>4, <1>5

\* A request that has its owner's mutex publishes its model.
LEMMA PublishKeeps ==
    ASSUME Control, Loaded, NEW r \in Requests, pc[r] \in Holding,
           active' = [active EXCEPT ![job[r].owner] = Mine(r)], parked' = parked,
           \A s \in Requests \ {r} : pc'[s] = pc[s] /\ job'[s] = job[s],
           pc'[r] \in Holding => pc'[r] = "running" /\ job'[r] = job[r]
                                 /\ mutex'[job[r].owner] = r,
           pc'[r] # "queued",
           \A s \in Requests \ {r} : pc[s] = "running" =>
               mutex'[job[s].owner] = mutex[job[s].owner]
    PROVE  /\ Switched' /\ ParkedAreOthers' /\ InUseNeverFreed'
           /\ OneSpeechBackend' /\ OneModelPerTask'
  <1> DEFINE o == job[r].owner
  <1>1. /\ o \in Owners /\ mutex[o] = r /\ Mine(r) \in Residents /\ Mine(r).task = job[r].task
        /\ Mine(r) # None /\ (o = "speech" => job[r].task = "tts")
        /\ pc[r] \notin Away /\ active \in [Owners -> Residents \cup {None}]
    BY JobFields DEF Control, MutexesFit, TypeOK, Holding, Chats, Away
  <1>2. /\ active'[o] = Mine(r) /\ \A p \in Owners \ {o} : active'[p] = active[p]
        /\ "onnx" \in Owners /\ "speech" \in Owners
    BY <1>1 DEF Owners
  <1>3. \A s \in Requests : s # r /\ pc[s] \in Holding \cup {"queued"} => ~(job[s].task = "tts" /\ job[r].task = "tts")
    BY <1>1 DEF Loaded, OneSpeechRequest, IsSpeech, Holding, Away
  <1>4. /\ job[r].task = "tts" /\ o = "speech" => NoOnnxSpeech
        /\ job[r].task = "tts" /\ o = "onnx" => active["speech"] = None
    BY DEF Loaded, Switched
  <1>5. Switched'
    <2> SUFFICES ASSUME NEW s \in Requests, pc'[s] \in Holding \cup {"queued"}, job'[s].task = "tts"
                 PROVE  /\ job'[s].owner = "speech" => NoOnnxSpeech'
                        /\ job'[s].owner = "onnx" => active'["speech"] = None
      BY DEF Switched
    <2>1. CASE s = r
      <3>1. job'[r] = job[r]
        BY <2>1
      <3> QED
        BY <1>1, <1>2, <1>4, <2>1, <3>1 DEF NoOnnxSpeech
    <2>2. CASE s # r
      <3>1. pc[s] \in Holding \cup {"queued"} /\ job'[s] = job[s] /\ job[r].task # "tts"
        BY <1>3, <2>2
      <3>2. /\ job[s].owner = "speech" => NoOnnxSpeech
            /\ job[s].owner = "onnx" => active["speech"] = None
        BY <3>1 DEF Loaded, Switched
      <3> QED
        BY <1>1, <1>2, <3>1, <3>2 DEF NoOnnxSpeech
    <2> QED
      BY <2>1, <2>2
  <1>6. ParkedAreOthers'
    BY DEF Loaded, ParkedAreOthers
  <1>7. OneSpeechBackend'
    BY <1>1, <1>2, <1>4 DEF Loaded, OneSpeechBackend, NoOnnxSpeech
  <1>8. OneModelPerTask'
    BY <1>1, <1>2 DEF Loaded, OneModelPerTask, ParkedAreOthers
  <1>9. InUseNeverFreed'
    <2> SUFFICES ASSUME NEW s \in Requests, pc'[s] = "running"
                 PROVE  mutex'[job'[s].owner] = s /\ active'[job'[s].owner] = Mine(s)'
      BY DEF InUseNeverFreed
    <2>1. CASE s = r
      BY <1>2, <2>1 DEF Mine, Holding
    <2>2. CASE s # r
      <3>1. pc[s] = "running" /\ job'[s] = job[s]
        BY <2>2
      <3>2. mutex[job[s].owner] = s /\ active[job[s].owner] = Mine(s) /\ job[s].owner \in Owners
        BY <3>1, JobFields DEF Loaded, InUseNeverFreed, Chats
      <3> QED
        BY <1>1, <1>2, <2>2, <3>1, <3>2 DEF Mine
    <2> QED
      BY <2>1, <2>2
  <1> QED
    BY <1>5, <1>6, <1>7, <1>8, <1>9

\* A request that locks its owner takes its model, or makes room for it.
LEMMA LocksKeeps ==
    ASSUME Control, Loaded, NEW r \in Requests, Locks(r)
    PROVE  /\ Switched' /\ ParkedAreOthers' /\ InUseNeverFreed'
           /\ OneSpeechBackend' /\ OneModelPerTask'
  <1> DEFINE o == job[r].owner
  <1>1. /\ pc[r] = "queued" /\ mutex[o] = None /\ mutex' = [mutex EXCEPT ![o] = r]
        /\ job' = job /\ parked' = Select(o, job[r]).parked
        /\ pc' = [pc EXCEPT ![r] = "running"] \/ pc' = [pc EXCEPT ![r] = "waiting"]
    BY DEF Locks, LockResident, LockToLoad, Goto
  <1>2. /\ o \in Owners /\ job[r] \in JobSet /\ Mine(r) # None /\ Mine(r).task = job[r].task
        /\ (o = "speech" => job[r].task = "tts") /\ pc[r] \notin Away
    BY <1>1, JobFields, OwnersAssumption DEF Chats, Away
  <1>3. /\ parked' \subseteq parked \cup ({active["onnx"]} \ {None})
        /\ o # "onnx" => parked' = parked
        /\ o = "onnx" => \A p \in parked' : p.task # job[r].task
    BY <1>1, <1>2, SelectKeeps
  <1>4. /\ active'[o] \in {Mine(r), None, active[o]}
        /\ o = "onnx" => active'[o] \in {Mine(r), None}
        /\ pc'[r] = "running" => active'[o] = Mine(r)
        /\ \A p \in Owners \ {o} : active'[p] = active[p]
    <2>1. active \in [Owners -> Residents \cup {None}] /\ pc \in [Requests -> States]
      BY DEF Control, TypeOK
    <2>2. CASE LockResident(r)
      BY <1>2, <2>1, <2>2 DEF LockResident, SetActive
    <2>3. CASE LockToLoad(r)
      BY <1>2, <2>1, <2>3 DEF LockToLoad, SetActive, Goto
    <2> QED
      BY <2>2, <2>3 DEF Locks
  <1>5. \A s \in Requests : s # r /\ pc[s] \in Holding \cup {"queued"} =>
            ~(job[s].task = "tts" /\ job[r].task = "tts")
    BY <1>2 DEF Loaded, OneSpeechRequest, IsSpeech, Holding, Away
  <1>6. /\ job[r].task = "tts" /\ o = "speech" => NoOnnxSpeech
        /\ job[r].task = "tts" /\ o = "onnx" => active["speech"] = None
    BY <1>1 DEF Loaded, Switched
  <1>7. /\ pc'[r] \in {"running", "waiting"} /\ "onnx" \in Owners /\ "speech" \in Owners
        /\ \A s \in Requests \ {r} : pc'[s] = pc[s]
    BY <1>1 DEF Owners, Control, TypeOK
  <1> HIDE DEF o
  <1>8. Switched'
    <2> SUFFICES ASSUME NEW s \in Requests, pc'[s] \in Holding \cup {"queued"}, job[s].task = "tts"
                 PROVE  /\ job[s].owner = "speech" => NoOnnxSpeech'
                        /\ job[s].owner = "onnx" => active'["speech"] = None
      BY <1>1 DEF Switched
    <2>1. CASE s = r
      <3>1. CASE o = "speech"
        <4>1. NoOnnxSpeech
          BY <1>6, <2>1, <3>1
        <4> QED
          BY <1>3, <1>4, <1>7, <2>1, <3>1, <4>1 DEF NoOnnxSpeech, o
      <3>2. CASE o # "speech"
        BY <1>4, <1>6, <1>7, <2>1, <3>2 DEF o
      <3> QED
        BY <3>1, <3>2
    <2>2. CASE s # r
      <3>1. pc[s] \in Holding \cup {"queued"} /\ job[r].task # "tts" /\ o # "speech"
        BY <1>2, <1>5, <1>7, <2>2
      <3>2. /\ job[s].owner = "speech" => NoOnnxSpeech
            /\ job[s].owner = "onnx" => active["speech"] = None
        BY <3>1 DEF Loaded, Switched
      <3>3. active'["speech"] = active["speech"]
        BY <1>4, <1>7, <3>1
      <3>4. active'["onnx"] \in {Mine(r), None, active["onnx"]}
        BY <1>4, <1>7
      <3>5. NoOnnxSpeech => NoOnnxSpeech'
        BY <1>2, <1>3, <3>1, <3>4 DEF NoOnnxSpeech
      <3> QED
        BY <3>2, <3>3, <3>5
    <2> QED
      BY <2>1, <2>2
  <1>9. ParkedAreOthers'
    <2> SUFFICES ASSUME NEW s \in Requests, pc'[s] \in Holding, job[s].owner = "onnx"
                 PROVE  \A p \in parked' : p.task # job[s].task
      BY <1>1 DEF ParkedAreOthers
    <2>1. CASE s = r
      BY <1>3, <2>1 DEF o
    <2>2. CASE s # r
      <3>1. pc[s] \in Holding /\ mutex["onnx"] = s
        BY <1>7, <2>2 DEF Control, MutexesFit
      <3>2. o # "onnx"
        BY <1>1, <3>1, OwnersAssumption DEF o
      <3> QED
        BY <1>3, <3>1, <3>2 DEF Loaded, ParkedAreOthers
    <2> QED
      BY <2>1, <2>2
  <1>10. OneModelPerTask'
    <2>1. CASE o = "onnx"
      BY <1>2, <1>3, <1>4, <2>1 DEF Loaded, OneModelPerTask
    <2>2. CASE o # "onnx"
      BY <1>3, <1>4, <1>7, <2>2 DEF Loaded, OneModelPerTask
    <2> QED
      BY <2>1, <2>2
  <1>11. OneSpeechBackend'
    <2>1. CASE o = "speech"
      <3>1. NoOnnxSpeech
        BY <1>2, <1>6, <2>1
      <3> QED
        BY <1>3, <1>4, <1>7, <2>1, <3>1 DEF OneSpeechBackend, NoOnnxSpeech
    <2>2. CASE o # "speech"
      <3>1. active'["speech"] = active["speech"]
        BY <1>4, <1>7, <2>2
      <3>2. CASE o = "onnx"
        BY <1>2, <1>3, <1>4, <1>6, <3>1, <3>2 DEF Loaded, OneSpeechBackend
      <3>3. CASE o # "onnx"
        BY <1>3, <1>4, <1>7, <3>1, <3>3 DEF Loaded, OneSpeechBackend
      <3> QED
        BY <3>2, <3>3
    <2> QED
      BY <2>1, <2>2
  <1>12. InUseNeverFreed'
    <2> SUFFICES ASSUME NEW s \in Requests, pc'[s] = "running"
                 PROVE  mutex'[job[s].owner] = s /\ active'[job[s].owner] = Mine(s)
      BY <1>1 DEF InUseNeverFreed, Mine
    <2>0. mutex \in [Owners -> Requests \cup {None}]
      BY DEF Control, TypeOK
    <2>1. CASE s = r
      BY <1>1, <1>2, <1>4, <2>0, <2>1 DEF o
    <2>2. CASE s # r
      <3>1. /\ mutex[job[s].owner] = s /\ active[job[s].owner] = Mine(s) /\ s # None
            /\ job[s].owner \in Owners
        BY <1>7, <2>2, Runner
      <3>2. job[s].owner # o
        BY <1>1, <3>1 DEF o
      <3> QED
        BY <1>1, <1>4, <2>0, <3>1, <3>2
    <2> QED
      BY <2>1, <2>2
  <1> QED
    BY <1>8, <1>9, <1>10, <1>11, <1>12

\* A speech request frees the other backend.
LEMMA SwitchKeeps ==
    ASSUME Control, Loaded, NEW r \in Requests, SwitchBackend(r)
    PROVE  /\ Switched' /\ ParkedAreOthers' /\ InUseNeverFreed'
           /\ OneSpeechBackend' /\ OneModelPerTask'
  <1>1. /\ pc[r] = "switching" /\ pc' = [pc EXCEPT ![r] = "queued"] /\ pc \in [Requests -> States]
        /\ UNCHANGED <<transition, mutex, job>> /\ job[r].task = "tts" /\ pc[r] \notin Away
        /\ active \in [Owners -> Residents \cup {None}]
        /\ "onnx" \in Owners /\ "speech" \in Owners
    BY DEF SwitchBackend, Goto, Control, TypeOK, JobsFit, Away, Owners
  <1>2. CASE job[r].owner = "speech"
    <2>1. UnloadOnnxSpeech
      BY <1>2 DEF SwitchBackend
    <2>2. /\ NoOnnxSpeech' /\ active'["speech"] = active["speech"] /\ parked' \subseteq parked
          /\ active'["onnx"] \in {active["onnx"], None} /\ mutex["onnx"] = None
      BY <1>1, <2>1 DEF UnloadOnnxSpeech, SetActive, NoOnnxSpeech
    <2>3. \A p \in Owners : p = "onnx" \/ active'[p] = active[p]
      BY <1>1, <2>1 DEF UnloadOnnxSpeech, SetActive
    <2>4. Switched'
      BY <1>1, <1>2, <2>2 DEF Loaded, Switched
    <2>5. ParkedAreOthers'
      BY <1>1, <2>2 DEF Loaded, ParkedAreOthers, Holding
    <2>6. OneSpeechBackend' /\ OneModelPerTask'
      BY <2>2 DEF Loaded, OneSpeechBackend, OneModelPerTask
    <2>7. InUseNeverFreed'
      <3> SUFFICES ASSUME NEW s \in Requests, pc'[s] = "running"
                   PROVE  mutex[job[s].owner] = s /\ active'[job[s].owner] = Mine(s)
        BY <1>1 DEF InUseNeverFreed, Mine
      <3>1. pc[s] = "running"
        BY <1>1
      <3> QED
        BY <2>2, <2>3, <3>1, Runner
    <2> QED
      BY <2>4, <2>5, <2>6, <2>7
  <1>3. CASE job[r].owner # "speech"
    <2>1. UnloadGgufSpeech
      BY <1>3 DEF SwitchBackend
    <2>2. /\ active' = [active EXCEPT !["speech"] = None] /\ parked' = parked
          /\ mutex["speech"] = None
      BY <2>1 DEF UnloadGgufSpeech, SetActive
    <2>3. active'["speech"] = None /\ \A p \in Owners \ {"speech"} : active'[p] = active[p]
      BY <1>1, <2>2
    <2>4. Switched'
      BY <1>1, <1>3, <2>2, <2>3 DEF Loaded, Switched, NoOnnxSpeech
    <2>5. ParkedAreOthers'
      BY <1>1, <2>2 DEF Loaded, ParkedAreOthers, Holding
    <2>6. OneSpeechBackend' /\ OneModelPerTask'
      BY <1>1, <2>2, <2>3 DEF Loaded, OneSpeechBackend, OneModelPerTask
    <2>7. InUseNeverFreed'
      <3> SUFFICES ASSUME NEW s \in Requests, pc'[s] = "running"
                   PROVE  mutex[job[s].owner] = s /\ active'[job[s].owner] = Mine(s)
        BY <1>1 DEF InUseNeverFreed, Mine
      <3>1. pc[s] = "running"
        BY <1>1
      <3> QED
        BY <2>2, <2>3, <3>1, Runner
    <2> QED
      BY <2>4, <2>5, <2>6, <2>7
  <1> QED
    BY <1>2, <1>3

LEMMA LoadedStep == Control /\ Control' /\ Loaded /\ [Next]_vars => Loaded'
  <1> SUFFICES ASSUME Control, Control', Loaded, [Next]_vars
               PROVE  Loaded'
    OBVIOUS
  <1> DEFINE Kept == /\ Switched' /\ ParkedAreOthers' /\ InUseNeverFreed'
                     /\ OneSpeechBackend' /\ OneModelPerTask'
  <1>1. ASSUME NEW r \in Requests, Arrive(r)
        PROVE  Kept
    <2>1. UNCHANGED <<mutex, active, parked>>
      BY <1>1 DEF Arrive
    <2>2. \A s \in Requests \ {r} : pc'[s] = pc[s] /\ job'[s] = job[s]
      BY <1>1, Alone
    <2>3. pc'[r] \notin Holding /\ (pc'[r] = "queued" => job'[r].task # "tts")
      <3>1. PICK j \in Jobs :
              /\ job'[r] = j
              /\ pc'[r] = CASE j.owner = "chat" -> "chat"
                            [] j.task = "tts"   -> "switching"
                            [] OTHER            -> "queued"
        BY <1>1 DEF Arrive, Goto, Control, TypeOK
      <3> QED
        BY <3>1, OwnersAssumption DEF Holding
    <2> QED
      BY <2>1, <2>2, <2>3, NothingFreed, FreesKeeps DEF Holding
  <1>2. ASSUME NEW r \in Requests, Unlocked(r)
        PROVE  Kept
    <2>1. CASE SwitchBackend(r)
      BY <2>1, SwitchKeeps
    <2>2. CASE Leave(r) \/ Expire(r)
      <3>1. \A s \in Requests \ {r} : pc'[s] = pc[s] /\ job'[s] = job[s]
        BY <1>2, Alone
      <3>2. pc'[r] = "idle" /\ UNCHANGED mutex
        BY <2>2 DEF Leave, Expire, End, Goto, Control, TypeOK
      <3>3. pc[r] # "idle" /\ pc[r] \notin Chats
        BY <2>2 DEF Leave, Expire, Chats
      <3>4. /\ SetActive(job[r].owner, None) \/ UNCHANGED active
            /\ parked' \subseteq parked /\ mutex[job[r].owner] = None
        BY <2>2 DEF Leave, Expire
      <3>5. Frees(r)
        BY <3>3, <3>4, JobFields, OneFreed
      <3> QED
        BY <3>1, <3>2, <3>5, FreesKeeps DEF Holding
    <2> QED
      BY <1>2, <2>1, <2>2 DEF Unlocked
  <1>3. ASSUME NEW r \in Requests, Locks(r)
        PROVE  Kept
    BY <1>3, LocksKeeps
  <1>4. ASSUME NEW r \in Requests, Inside(r)
        PROVE  Kept
    <2>1. /\ pc[r] \in Holding /\ mutex[job[r].owner] = r
          /\ Frees(r) \/ Publish(r)
      BY <1>4, InsideFrees
    <2>2. \A s \in Requests \ {r} : pc'[s] = pc[s] /\ job'[s] = job[s]
      BY <1>4, Alone
    <2>3. UNCHANGED <<mutex, job>>
      BY <1>4 DEF Inside, TakeTransition, LoadShort, OnnxLoadError, Publish, RunShort, CpuRetry,
                  CpuLoaded
    <2>4. CASE Publish(r)
      <3>1. /\ active' = [active EXCEPT ![job[r].owner] = Mine(r)] /\ parked' = parked
            /\ pc'[r] = "running"
        BY <2>4 DEF Publish, SetActive, Goto, Control, TypeOK
      <3> QED
        BY <2>1, <2>2, <2>3, <3>1, PublishKeeps
    <2>5. CASE RunShort(r)
      <3>1. /\ pc[r] = "running" /\ pc'[r] = "running" /\ FreeOthers(job[r].owner)
        BY <2>5 DEF RunShort
      <3>2. active'[job[r].owner] = active[job[r].owner] /\ Frees(r)
        BY <3>1, Runner, IdleFreed DEF FreeOthers
      <3> QED
        BY <2>1, <2>2, <2>3, <3>1, <3>2, FreesKeeps
    <2>6. CASE ~Publish(r) /\ ~RunShort(r)
      <3>1. pc'[r] # "running" /\ pc'[r] # "queued"
        BY <1>4, <2>6 DEF Inside, TakeTransition, LoadShort, OnnxLoadError, CpuRetry, CpuLoaded,
                          Goto, Control, TypeOK
      <3> QED
        BY <2>1, <2>2, <2>3, <2>6, <3>1, FreesKeeps
    <2> QED
      BY <2>4, <2>5, <2>6
  <1>5. ASSUME NEW r \in Requests, Ends(r)
        PROVE  Kept
    <2>1. /\ pc[r] \in Holding /\ mutex[job[r].owner] = r /\ job[r].owner \in Owners
          /\ Frees(r) \/ SetActive(job[r].owner, Mine(r))
          /\ parked' = parked /\ Release(r)
      BY <1>5, EndsFrees
    <2>2. \A s \in Requests \ {r} : pc'[s] = pc[s] /\ job'[s] = job[s]
      BY <1>5, Alone
    <2>3. pc'[r] \in Away
      <3>1. PICK timer \in BOOLEAN : End(r, timer)
        BY <1>5, EndsFrees
      <3> QED
        BY <3>1 DEF End, Goto, Away, Control, TypeOK
    <2>4. \A s \in Requests \ {r} : pc[s] = "running" => mutex'[job[s].owner] = mutex[job[s].owner]
      BY <2>1, Runner DEF Release, Control, TypeOK
    <2>5. pc'[r] \notin Holding /\ pc'[r] # "queued" /\ pc'[r] # "running"
      BY <2>3 DEF Holding, Away
    <2>6. CASE Frees(r)
      BY <2>2, <2>4, <2>5, <2>6, FreesKeeps
    <2>7. CASE SetActive(job[r].owner, Mine(r))
      BY <2>1, <2>2, <2>4, <2>5, <2>7, PublishKeeps DEF SetActive
    <2> QED
      BY <2>1, <2>6, <2>7
  <1>6. ASSUME NEW r \in Requests, Chat(r)
        PROVE  Kept
    <2>1. Frees(r) /\ UNCHANGED mutex
      BY <1>6, ChatFrees DEF Chat, ChatTake, ChatLoad, ChatReady, ChatPeak, PeakSpeech, PeakOnnx
    <2>2. \A s \in Requests \ {r} : pc'[s] = pc[s] /\ job'[s] = job[s]
      BY <1>6, Alone
    <2>3. pc'[r] \in {"idle", "chat checking", "peak speech", "peak onnx"}
      BY <1>6 DEF Chat, ChatTake, ChatLoad, ChatReady, ChatPeak, PeakSpeech, PeakOnnx, ChatEnd,
                  End, Goto, Control, TypeOK
    <2>4. pc'[r] \notin Holding /\ pc'[r] # "queued" /\ pc'[r] # "running"
      BY <2>3 DEF Holding
    <2> QED
      BY <2>1, <2>2, <2>4, FreesKeeps
  <1> HIDE DEF Kept
  <1>7. CASE Next
    <2>1. PICK r \in Requests :
             Arrive(r) \/ Unlocked(r) \/ Locks(r) \/ Inside(r) \/ Ends(r) \/ Chat(r)
      BY <1>7, Steps
    <2>2. Kept
      BY <1>1, <1>2, <1>3, <1>4, <1>5, <1>6, <2>1
    <2>3. OneSpeechRequest'
      BY <2>1, SpeechRequests DEF Loaded
    <2> QED
      BY <2>2, <2>3 DEF Kept, Loaded
  <1>8. CASE UNCHANGED vars
    BY <1>8 DEF vars, Loaded, OneSpeechRequest, IsSpeech, Switched, NoOnnxSpeech, ParkedAreOthers,
                InUseNeverFreed, Mine, OneSpeechBackend, OneModelPerTask
  <1> QED
    BY <1>7, <1>8

LEMMA LoadedHolds == Spec => []Loaded
  <1>1. Init => Loaded
    BY DEF Init, Loaded, OneSpeechRequest, IsSpeech, Away, Switched, ParkedAreOthers, Holding,
           InUseNeverFreed, OneSpeechBackend, OneModelPerTask, Owners
  <1> QED
    BY <1>1, LoadedStep, ControlHolds, PTL DEF Spec

-----------------------------------------------------------------------------
(* The properties.                                                         *)

\* "A model in use is never freed": the resident model of a request that runs
\* is its own, and its owner's mutex is its own, whatever memory the others
\* need and whatever their timers do.
THEOREM RunningModelsStay == Spec => []InUseNeverFreed
  <1>1. Loaded => InUseNeverFreed
    BY DEF Loaded
  <1> QED
    BY <1>1, LoadedHolds, PTL

\* GGUF and ONNX speech are never both loaded: a speech request frees the other
\* backend, and the next one waits until it is over.
THEOREM SpeechIsExclusive == Spec => []OneSpeechBackend
  <1>1. Loaded => OneSpeechBackend
    BY DEF Loaded
  <1> QED
    BY <1>1, LoadedHolds, PTL

\* The ONNX owner keeps one model per task, however models step aside and come
\* back.
THEOREM TasksHaveOneModel == Spec => []OneModelPerTask
  <1>1. Loaded => OneModelPerTask
    BY DEF Loaded
  <1> QED
    BY <1>1, LoadedHolds, PTL

\* While the timer of a model's last request runs, no other timer that ends
\* unloads that model, neither where it is resident nor where it stepped aside.
THEOREM OldTimersDoNothing == Spec => OldTimerIsHarmless
  <1> DEFINE Harmless ==
        \A r, u \in Requests :
          /\ r # u /\ pc[r] = "retaining" /\ pc'[r] = "idle" /\ pc[u] = "retaining"
          => /\ \A o \in Owners : Last(active[o], u) => active'[o] = active[o]
             /\ \A m \in parked : Last(m, u) => m \in parked'
  <1>1. Control /\ [Next]_vars => [Harmless]_vars
    <2> SUFFICES ASSUME Control, Next, NEW r \in Requests, NEW u \in Requests,
                        r # u, pc[r] = "retaining", pc'[r] = "idle", pc[u] = "retaining"
                 PROVE  /\ \A o \in Owners : Last(active[o], u) => active'[o] = active[o]
                        /\ \A m \in parked : Last(m, u) => m \in parked'
      OBVIOUS
    <2>1. PICK s \in Requests :
             Arrive(s) \/ Unlocked(s) \/ Locks(s) \/ Inside(s) \/ Ends(s) \/ Chat(s)
      BY Steps
    <2>2. s = r
      BY <2>1, Alone
    <2>3. ~Arrive(r) /\ ~Locks(r) /\ ~Chat(r)
      BY DEF Arrive, Locks, LockResident, LockToLoad, Chat, ChatTake, ChatLoad, ChatReady,
             ChatPeak, PeakSpeech, PeakOnnx
    <2>4. ~Inside(r) /\ ~Ends(r)
      BY InsideFrees, EndsFrees DEF Holding
    <2>5. Expire(r)
      BY <2>1, <2>2, <2>3, <2>4 DEF Unlocked, SwitchBackend, Leave
    <2>6. /\ Last(active[job[r].owner], r) \/ UNCHANGED active
          /\ SetActive(job[r].owner, None) \/ UNCHANGED active
          /\ \A p \in parked : ~Last(p, r) => p \in parked'
      BY <2>5 DEF Expire
    <2>7. \A m : ~(Last(m, r) /\ Last(m, u))
      BY DEF Last
    <2> QED
      BY <2>6, <2>7 DEF SetActive, Control, TypeOK
  <1> QED
    BY <1>1, ControlHolds, PTL DEF Spec, OldTimerIsHarmless
=============================================================================
