---------------------------- MODULE MediaOwners ----------------------------
(***************************************************************************)
(* The models beside the chat model: GGUF speech (speech_host.rs), GGUF     *)
(* embedding (embedding_host.rs) and the ONNX tasks (onnx_host.rs).  Each   *)
(* has an owner whose mutex is held through load and inference; all loads,  *)
(* the chat's included, take the one transition lock; whoever is short of   *)
(* memory frees the idle models of the other owners (media_room.rs).        *)
(*                                                                         *)
(* Abstracted: memory.  Whether a plan, a load or a budget check finds      *)
(* enough of it is a choice of the environment.  What the chat does with    *)
(* the transition is reduced to how long it holds it and which owners it    *)
(* asks (EngineHost models the rest).                                       *)
(***************************************************************************)
EXTENDS Naturals

CONSTANTS
    Requests,    \* request slots
    Models,      \* model packages, each with its load settings
    Jobs,        \* what a request may ask for
    GpuMeasured, \* TRUE: the chat's GPU use is measured (gpu_use is Some)
    None

Owners == {"speech", "onnx", "embedding"}
Tasks  == {"tts", "stt", "embed"}
JobSet == [owner : Owners \cup {"chat"}, model : Models, task : Tasks,
           keep : {"retain", "now", "minutes"}]
Residents == [model : Models, task : Tasks, lease : Requests]

ASSUME OwnersAssumption ==
    /\ Jobs \subseteq JobSet
    /\ \A j \in Jobs : /\ j.owner = "speech" => j.task = "tts"
                       /\ j.owner = "embedding" => j.task = "embed"
                       /\ j.owner = "chat" => j.task # "tts"
    /\ GpuMeasured \in BOOLEAN
    /\ None \notin Requests \cup Residents \cup Jobs

VARIABLES
    transition, \* model_transition: the request that loads, or None
    mutex,      \* each owner's lock: its holder, or None
    active,     \* each owner's resident model; its lease is its last request
    parked,     \* ONNX models of other tasks, kept loaded
    pc, job     \* each request: where it is, what it asks for

vars == <<transition, mutex, active, parked, pc, job>>

Init ==
    /\ transition = None
    /\ mutex = [o \in Owners |-> None]
    /\ active = [o \in Owners |-> None]
    /\ parked = {}
    /\ pc = [r \in Requests |-> "idle"]
    /\ job = [r \in Requests |-> None]

Goto(r, l) == pc' = [pc EXCEPT ![r] = l]
Release(r) == mutex' = [mutex EXCEPT ![job[r].owner] = None]
SetActive(o, m) == active' = [active EXCEPT ![o] = m]

\* The request is over; its timer runs on when it asked for minutes.
End(r, timer) ==
    /\ Goto(r, IF timer THEN "retaining" ELSE "idle")
    /\ job' = IF timer THEN job ELSE [job EXCEPT ![r] = None]

Minutes(r) == job[r].keep = "minutes"
IsFor(m, j) == m # None /\ m.model = j.model /\ m.task = j.task
Mine(r) == [model |-> job[r].model, task |-> job[r].task, lease |-> r]

-----------------------------------------------------------------------------
(* media_room: the idle models of the others.  try_lock skips an owner     *)
(* whose mutex is held.                                                    *)

Idle(o) == {p \in Owners \ {o} : mutex[p] = None}
Freeable(o) == {p \in Idle(o) : active[p] # None \/ (p = "onnx" /\ parked # {})}

\* Faulty: frees whatever is loaded.
FreeAll(o) ==
    /\ active' = [p \in Owners |-> IF p = o THEN active[p] ELSE None]
    /\ parked' = IF o # "onnx" THEN {} ELSE parked

FreeOthers(o) ==
    /\ active' = [p \in Owners |-> IF p \in Idle(o) THEN None ELSE active[p]]
    /\ parked' = IF "onnx" \in Idle(o) THEN {} ELSE parked

-----------------------------------------------------------------------------
(* A request reaches its owner.                                            *)

\* Faulty: the lease goes back when the caller leaves.
BusyUntilQueued(task, owner) ==
    \E r \in Requests : /\ pc[r] = "switching"
                        /\ job[r].task = task /\ job[r].owner \in owner

\* The permit is held until the native worker is done.
Busy(task, owner) ==
    \E r \in Requests : /\ pc[r] \notin {"idle", "retaining"}
                        /\ job[r].task = task /\ job[r].owner \in owner

\* speech_busy and embedding_busy: one request at a time, for both speech
\* backends together and for the GGUF embedding owner.
Admitted(j) ==
    /\ j.task = "tts" => ~Busy("tts", Owners)
    /\ j.owner = "embedding" => ~Busy("embed", {"embedding"})

Arrive(r) ==
    /\ pc[r] = "idle"
    /\ \E j \in Jobs : /\ Admitted(j)
                       /\ job' = [job EXCEPT ![r] = j]
                       /\ Goto(r, CASE j.owner = "chat" -> "chat"
                                    [] j.task = "tts"   -> "switching"
                                    [] OTHER            -> "queued")
    /\ UNCHANGED <<transition, mutex, active, parked>>

\* unload_tts: the ONNX speech model goes, the other tasks' models stay.
UnloadOnnxSpeech ==
    /\ mutex["onnx"] = None
    /\ parked' = {p \in parked : p.task # "tts"}
    /\ IF active["onnx"] # None /\ active["onnx"].task = "tts"
       THEN SetActive("onnx", None)
       ELSE UNCHANGED active

UnloadGgufSpeech ==
    /\ mutex["speech"] = None
    /\ SetActive("speech", None)
    /\ UNCHANGED parked

\* A speech request releases the other backend's model first.
SwitchBackend(r) ==
    /\ pc[r] = "switching"
    /\ IF job[r].owner = "speech" THEN UnloadOnnxSpeech ELSE UnloadGgufSpeech
    /\ Goto(r, "queued")
    /\ UNCHANGED <<transition, mutex, job>>

\* The client has left, or the package changed while the request waited.  The
\* embedding owner treats this like any error and drops its model.
Leave(r) ==
    /\ pc[r] = "queued"
    /\ mutex[job[r].owner] = None
    /\ IF job[r].owner = "embedding" THEN SetActive("embedding", None)
                                     ELSE UNCHANGED active
    /\ End(r, FALSE)
    /\ UNCHANGED <<transition, mutex, parked>>

\* Faulty: the model that steps aside replaces nothing.
SelectKeepingAll(o, j) ==
    LET a == active[o]
        aside == o = "onnx" /\ a # None /\ ~IsFor(a, j) /\ a.task # j.task
        back == {p \in parked : IsFor(p, j)}
    IN  [resident |-> IF IsFor(a, j) THEN a
                      ELSE IF back # {} THEN CHOOSE p \in back : TRUE ELSE None,
         parked |-> (parked \cup (IF aside THEN {a} ELSE {})) \ back]

\* What the request finds: the resident model, or a parked ONNX model that
\* comes back.  The ONNX model of another task steps aside and stays loaded,
\* one per task; another model of this task is freed.
Select(o, j) ==
    LET a == active[o]
        aside == o = "onnx" /\ a # None /\ ~IsFor(a, j) /\ a.task # j.task
        kept == IF aside THEN {p \in parked : p.task # a.task} \cup {a} ELSE parked
        back == {p \in kept : o = "onnx" /\ IsFor(p, j)}
    IN  [resident |-> IF IsFor(a, j) THEN a
                      ELSE IF back # {} THEN CHOOSE p \in back : TRUE ELSE None,
         parked |-> IF o = "onnx" THEN {p \in kept : p.task # j.task} ELSE kept]

\* The model is there: the request becomes its last one and runs.
LockResident(r) ==
    LET o == job[r].owner
        found == Select(o, job[r])
    IN  /\ pc[r] = "queued"
        /\ mutex[o] = None
        /\ found.resident # None
        /\ mutex' = [mutex EXCEPT ![o] = r]
        /\ SetActive(o, Mine(r))
        /\ parked' = found.parked
        /\ Goto(r, "running")
        /\ UNCHANGED <<transition, job>>

\* It is not, or it is an ONNX model on the CPU that now fits the GPU: it goes
\* (the embedding owner keeps it until it has the transition).
LockToLoad(r) ==
    LET o == job[r].owner
        found == Select(o, job[r])
    IN  /\ pc[r] = "queued"
        /\ mutex[o] = None
        /\ found.resident = None \/ o = "onnx"
        /\ mutex' = [mutex EXCEPT ![o] = r]
        /\ IF o = "embedding" THEN UNCHANGED active ELSE SetActive(o, None)
        /\ parked' = found.parked
        /\ Goto(r, "waiting")
        /\ UNCHANGED <<transition, job>>

-----------------------------------------------------------------------------
(* Loading, under the owner's mutex and the transition.                    *)

TakeTransition(r) ==
    /\ pc[r] \in {"waiting", "cpu waiting"}
    /\ transition = None
    /\ transition' = r
    /\ SetActive(job[r].owner, None)
    /\ Goto(r, IF pc[r] = "waiting" THEN "loading" ELSE "cpu loading")
    /\ UNCHANGED <<mutex, parked, job>>

\* Too little memory, and others' idle models to free: one more attempt.
LoadShort(r) ==
    /\ pc[r] = "loading"
    /\ Freeable(job[r].owner) # {}
    /\ FreeOthers(job[r].owner)
    /\ Goto(r, "retrying")
    /\ UNCHANGED <<transition, mutex, job>>

\* The ONNX session itself fails: the parked models go too, then once more.
OnnxLoadError(r) ==
    /\ pc[r] \in {"loading", "retrying"}
    /\ job[r].owner = "onnx"
    /\ parked # {} \/ Freeable("onnx") # {}
    /\ active' = [p \in Owners |-> IF p \in Idle("onnx") THEN None ELSE active[p]]
    /\ parked' = {}
    /\ Goto(r, "reloading")
    /\ UNCHANGED <<transition, mutex, job>>

LoadStates == {"loading", "retrying", "reloading"}

Publish(r) ==
    /\ pc[r] \in LoadStates
    /\ transition' = None
    /\ SetActive(job[r].owner, Mine(r))
    /\ Goto(r, "running")
    /\ UNCHANGED <<mutex, parked, job>>

FailLoad(r) ==
    /\ pc[r] \in LoadStates \cup {"cpu loading"}
    /\ transition' = None
    /\ Release(r)
    /\ End(r, FALSE)
    /\ UNCHANGED <<active, parked>>

-----------------------------------------------------------------------------
(* Inference, under the owner's mutex alone.                               *)

\* Speech checks its memory before it runs and between its parts.
RunShort(r) ==
    /\ pc[r] = "running"
    /\ job[r].task = "tts"
    /\ Freeable(job[r].owner) # {}
    /\ FreeOthers(job[r].owner)
    /\ UNCHANGED <<transition, mutex, pc, job>>

\* keep_alive 0 releases the model; so does an ONNX run that filled the GPU.
Finish(r) ==
    /\ pc[r] = "running"
    /\ \/ SetActive(job[r].owner, None) /\ (job[r].keep = "now" \/ job[r].owner = "onnx")
       \/ UNCHANGED active /\ job[r].keep # "now"
    /\ Release(r)
    /\ End(r, Minutes(r))
    /\ UNCHANGED <<transition, parked>>

\* A failed run releases the model; the ONNX owner arms the timer all the
\* same, unless its memory check failed before the run.
FinishError(r) ==
    /\ pc[r] = "running"
    /\ SetActive(job[r].owner, None)
    /\ Release(r)
    /\ \E timer \in {FALSE, Minutes(r) /\ job[r].owner = "onnx"} : End(r, timer)
    /\ UNCHANGED <<transition, parked>>

\* Faulty: a run that failed on the CPU is tried again too.
CpuRetryAgain(r) ==
    /\ pc[r] \in {"running", "cpu running"}
    /\ job[r].owner = "onnx" /\ job[r].task = "tts"
    /\ SetActive("onnx", None)
    /\ Goto(r, "cpu waiting")
    /\ UNCHANGED <<transition, mutex, parked, job>>

\* ONNX speech that failed on the GPU loads again on the CPU ...
CpuRetry(r) ==
    /\ pc[r] = "running"
    /\ job[r].owner = "onnx" /\ job[r].task = "tts"
    /\ SetActive("onnx", None)
    /\ Goto(r, "cpu waiting")
    /\ UNCHANGED <<transition, mutex, parked, job>>

\* ... and runs there before it is published.
CpuLoaded(r) ==
    /\ pc[r] = "cpu loading"
    /\ transition' = None
    /\ Goto(r, "cpu running")
    /\ UNCHANGED <<mutex, active, parked, job>>

CpuFinish(r) ==
    /\ pc[r] = "cpu running"
    /\ \/ job[r].keep # "now" /\ SetActive("onnx", Mine(r))
       \/ UNCHANGED active
    /\ Release(r)
    /\ End(r, Minutes(r))
    /\ UNCHANGED <<transition, parked>>

Last(m, r) == IsFor(m, job[r]) /\ m.lease = r

\* Faulty: forgets the models that stepped aside.
ExpireActiveOnly(r) ==
    LET o == job[r].owner
    IN  /\ pc[r] = "retaining"
        /\ mutex[o] = None
        /\ IF Last(active[o], r) THEN SetActive(o, None) ELSE UNCHANGED active
        /\ End(r, FALSE)
        /\ UNCHANGED <<transition, mutex, parked>>

\* Faulty: unloads by model, not by lease.
ExpireAnyLease(r) ==
    LET o == job[r].owner
    IN  /\ pc[r] = "retaining"
        /\ mutex[o] = None
        /\ IF IsFor(active[o], job[r]) THEN SetActive(o, None) ELSE UNCHANGED active
        /\ parked' = IF o = "onnx" THEN {p \in parked : ~IsFor(p, job[r])} ELSE parked
        /\ End(r, FALSE)
        /\ UNCHANGED <<transition, mutex>>

\* unload_if_current: the timer of the model's last request.
Expire(r) ==
    LET o == job[r].owner
    IN  /\ pc[r] = "retaining"
        /\ mutex[o] = None
        /\ IF Last(active[o], r) THEN SetActive(o, None) ELSE UNCHANGED active
        /\ parked' = IF o = "onnx" THEN {p \in parked : ~Last(p, r)} ELSE parked
        /\ End(r, FALSE)
        /\ UNCHANGED <<transition, mutex>>

-----------------------------------------------------------------------------
(* The chat: ensure_loaded.                                                *)

ChatTake(r) ==
    /\ pc[r] = "chat"
    /\ transition = None
    /\ transition' = r
    /\ Goto(r, "chat checking")
    /\ UNCHANGED <<mutex, active, parked, job>>

ChatEnd(r) == transition' = None /\ End(r, FALSE)

\* Another model is loaded, on what the idle models of the others give back.
ChatLoad(r) ==
    /\ pc[r] = "chat checking"
    /\ ChatEnd(r)
    /\ FreeOthers("chat") \/ UNCHANGED <<active, parked>>
    /\ UNCHANGED mutex

\* The model is there; learn_gpu_peak has nothing to compare.
ChatReady(r) ==
    /\ pc[r] = "chat checking"
    /\ ~GpuMeasured
    /\ ChatEnd(r)
    /\ UNCHANGED <<mutex, active, parked>>

\* Faulty: asks although nothing was measured.
ChatPeakAlways(r) ==
    /\ pc[r] = "chat checking"
    /\ Goto(r, "peak speech")
    /\ UNCHANGED <<transition, mutex, active, parked, job>>

\* The model is there; learn_gpu_peak asks the other owners, one by one, while
\* the transition is held.
ChatPeak(r) ==
    /\ pc[r] = "chat checking"
    /\ GpuMeasured
    /\ Goto(r, "peak speech")
    /\ UNCHANGED <<transition, mutex, active, parked, job>>

\* The embedding owner is asked with try_lock.
PeakSpeech(r) ==
    /\ pc[r] = "peak speech"
    /\ mutex["speech"] = None
    /\ IF \/ active["speech"] # None
          \/ mutex["embedding"] = None /\ active["embedding"] # None
       THEN ChatEnd(r)
       ELSE Goto(r, "peak onnx") /\ UNCHANGED <<transition, job>>
    /\ UNCHANGED <<mutex, active, parked>>

PeakOnnx(r) ==
    /\ pc[r] = "peak onnx"
    /\ mutex["onnx"] = None
    /\ ChatEnd(r)
    /\ UNCHANGED <<mutex, active, parked>>

Progress(r) ==
    \/ SwitchBackend(r) \/ LockResident(r) \/ LockToLoad(r) \/ TakeTransition(r)
    \/ LoadShort(r) \/ OnnxLoadError(r) \/ Publish(r) \/ FailLoad(r)
    \/ Finish(r) \/ FinishError(r) \/ CpuRetry(r) \/ CpuLoaded(r) \/ CpuFinish(r)
    \/ Expire(r)
    \/ ChatTake(r) \/ ChatLoad(r) \/ ChatReady(r) \/ ChatPeak(r)
    \/ PeakSpeech(r) \/ PeakOnnx(r)

Next == \E r \in Requests : Progress(r) \/ Arrive(r) \/ Leave(r) \/ RunShort(r)

Spec == Init /\ [][Next]_vars

\* Loads, inference and timers end, and a lock that is free again and again is
\* taken by each that waits for it: the transition is a FIFO mutex, an owner's
\* mutex has at most its admitted requests, timers and the chat waiting.
Fairness == \A r \in Requests : SF_vars(Progress(r))

FairSpec == Spec /\ Fairness

-----------------------------------------------------------------------------
(* Correctness.                                                            *)

States == {"idle", "switching", "queued", "waiting", "loading", "retrying",
           "reloading", "running", "cpu waiting", "cpu loading", "cpu running",
           "retaining", "chat", "chat checking", "peak speech", "peak onnx"}

\* Where a request has the mutex of its owner.
Holding == {"waiting", "loading", "retrying", "reloading", "running",
            "cpu waiting", "cpu loading", "cpu running"}

\* Every variable has its type.
TypeOK ==
    /\ transition \in Requests \cup {None}
    /\ mutex \in [Owners -> Requests \cup {None}]
    /\ active \in [Owners -> Residents \cup {None}]
    /\ parked \subseteq Residents
    /\ pc \in [Requests -> States]
    /\ job \in [Requests -> Jobs \cup {None}]

\* "A model in use is never freed" (media_room.rs), whoever else is short of
\* memory, expires or switches backend while it runs.
InUseNeverFreed ==
    \A r \in Requests : pc[r] = "running" =>
        mutex[job[r].owner] = r /\ active[job[r].owner] = Mine(r)

\* One speech backend at a time: GGUF and ONNX speech are never both loaded
\* (engine/runtime README, "Release only the previous TTS backend resident").
OneSpeechBackend ==
    active["speech"] # None =>
        \A m \in parked \cup {active["onnx"]} : m = None \/ m.task # "tts"

\* The ONNX owner keeps at most one model per task ("one per task",
\* onnx_host.rs), the resident one included.
OneModelPerTask ==
    \A m, n \in parked \cup ({active["onnx"]} \ {None}) : m.task = n.task => m = n

\* "an old timer cannot unload a newer request or replacement": while the
\* timer of a model's last request runs, no other timer unloads it.
OldTimerIsHarmless ==
    [][\A r, u \in Requests :
          /\ r # u /\ pc[r] = "retaining" /\ pc'[r] = "idle" /\ pc[u] = "retaining"
          => /\ \A o \in Owners : Last(active[o], u) => active'[o] = active[o]
             /\ \A m \in parked : Last(m, u) => m \in parked']_vars

\* keep_alive minutes: an ONNX model goes when the timer of its last request ends,
\* also when it stepped aside for another task meanwhile.
RetentionEnds ==
    \A r \in Requests, m \in Models, t \in Tasks :
        pc[r] = "retaining" /\ job[r].owner = "onnx" /\ IsFor(job[r], [model |-> m, task |-> t])
            ~> [model |-> m, task |-> t, lease |-> r] \notin parked \cup {active["onnx"]}

\* Every request ends: owners wait for the transition while they hold their
\* mutex, and whoever holds the transition waits for no owner.
EveryRequestEnds ==
    \A r \in Requests : pc[r] # "idle" ~> pc[r] \in {"idle", "retaining"}

\* Whom a request waits for: the holder of the transition, or of the mutex of an
\* owner.
WaitsFor(r, s) ==
    \/ pc[r] \in {"waiting", "cpu waiting", "chat"} /\ transition = s
    \/ pc[r] \in {"queued", "retaining"} /\ mutex[job[r].owner] = s
    \/ pc[r] = "switching" /\ mutex[IF job[r].owner = "speech" THEN "onnx" ELSE "speech"] = s
    \/ pc[r] = "peak speech" /\ mutex["speech"] = s
    \/ pc[r] = "peak onnx" /\ mutex["onnx"] = s

\* While the chat's GPU use is not measured, an owner's mutex always comes before
\* the transition, and both are given back on every path: whoever is waited for
\* is at work, and nobody waits for one who waits for one who waits.
WaitsEnd ==
    \A r, s \in Requests : WaitsFor(r, s) =>
        /\ pc[s] \in Holding \cup {"chat checking"}
        /\ \A q, p \in Requests : WaitsFor(s, q) => ~WaitsFor(q, p)

\* "Chat/STT generation is independent. Only load decisions/allocations share
\* EngineHost::model_transition" (engine/runtime README): the chat never waits
\* for an owner that waits for the chat.
NoLockCycle ==
    \A c, r \in Requests :
        /\ pc[c] = "peak speech" => ~(mutex["speech"] = r /\ pc[r] = "waiting")
        /\ pc[c] = "peak onnx" => ~(mutex["onnx"] = r /\ pc[r] \in {"waiting", "cpu waiting"})
=============================================================================
