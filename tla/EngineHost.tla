----------------------------- MODULE EngineHost -----------------------------
(***************************************************************************)
(* The owner of the chat model (engine/runtime/src/host.rs): which model   *)
(* is resident, what its llama.cpp context holds, whose conversation that  *)
(* is, and the chat memory written to disk (chat_memory.rs).               *)
(*                                                                         *)
(* A turn is one chat request: ensure_loaded under the transition lock,    *)
(* one or more generations under the session lock, the save of the chat's  *)
(* memory, and what keep_alive asks for.  The turns interleave at every    *)
(* await; a step that holds the session lock from its first to its last    *)
(* line is one action, and a generation, which other tasks can observe     *)
(* while it runs, is two.                                                  *)
(*                                                                         *)
(* Abstracted: a prompt or a token list is the chat it belongs to; a plan  *)
(* is the KV type it chose, the only part of it a memory key reads.        *)
(***************************************************************************)
EXTENDS Naturals

CONSTANTS
    Turns,        \* request slots: the turns in flight at once
    Keys,         \* load keys: model path + load-time settings (load_key)
    Chats,        \* chat ids that chat memory can save
    KvTypes,      \* KV cache types a plan can choose
    Jobs,         \* what a turn may ask for
    MaxSteps,     \* bound: generations of one turn (tool steps)
    SavesMayStop, \* TRUE: a save can stop between two of its file writes
    None          \* Rust's None, and an absent file

NoChat  == "no chat"    \* a request without a chat id
Nothing == "nothing"    \* an empty token list or media layout

JobSet == [key : Keys, chat : Chats \cup {NoChat}, media : BOOLEAN,
           saves : BOOLEAN, keep : {"retain", "now", "minutes"}]

Whose == Chats \cup {NoChat}

\* What a KV cache holds, and the model and KV type that computed it.
Kv == [kind : {"empty", "text", "media", "partial"}, chat : Whose,
       key : Keys \cup {None}, type : KvTypes \cup {None}]
MemoryKeys == [key : Keys, type : KvTypes \cup {None}]
Generations == [turn : Turns, key : MemoryKeys, memory : BOOLEAN]

ASSUME HostAssumption ==
    /\ Jobs \subseteq JobSet
    /\ MaxSteps \in Nat \ {0}
    /\ SavesMayStop \in BOOLEAN
    /\ None \notin Turns \cup Keys \cup Chats \cup KvTypes
    /\ None \notin Kv \cup MemoryKeys \cup Generations \cup Jobs
    /\ NoChat \notin Chats \cup {None}
    /\ Nothing \notin Chats \cup {NoChat}

VARIABLES
    transition,  \* model_transition: the turn that loads or unloads, or None
    attempt,     \* native loads the holder of the transition has published
    session,     \* active_session: the KV type of its context, or None
    fingerprint, \* active_fingerprint
    plan,        \* current_plan: the KV type it records, or None
    kv,          \* the KV cache of the context
    layout,      \* media_cache: the chat whose media layout describes the KV
    tokens,      \* last_prefilled_tokens: the chat whose text it lists
    owner,       \* memory_owner; NoChat is its None
    unsaved,     \* unsaved_chat; NoChat is its None
    gen,         \* the generation that holds the session lock, or None
    report,      \* last_context, last_timings: the turn they describe, or None
    memory,      \* the chat_memory.enabled setting
    disk,        \* the chat memory files
    pc, job, step, closing, \* each turn: where it is, what it asks for,
                            \* its generations so far, the report it sent
    later        \* the timers armed after each turn's own, all still running

loadVars  == <<transition, attempt, session, fingerprint, plan>>
kvVars    == <<kv, layout, tokens, owner>>
saveVars  == <<unsaved, disk>>
turnVars  == <<job, step, closing, later>>
vars == <<loadVars, kvVars, saveVars, gen, report, memory, pc, turnVars>>

EmptyKv == [kind |-> "empty", chat |-> NoChat, key |-> None, type |-> None]
NoFiles == [kv |-> None, tokens |-> Nothing, layout |-> Nothing, record |-> None]

Init ==
    /\ transition = None /\ attempt = 0
    /\ session = None /\ fingerprint = None /\ plan = None
    /\ kv = EmptyKv /\ layout = Nothing /\ tokens = Nothing
    /\ owner = NoChat /\ unsaved = NoChat
    /\ gen = None /\ report = None
    /\ memory \in BOOLEAN
    /\ disk = [c \in Chats |-> NoFiles]
    /\ pc = [t \in Turns |-> "idle"]
    /\ job = [t \in Turns |-> None]
    /\ step = [t \in Turns |-> 0]
    /\ closing = [t \in Turns |-> None]
    /\ later = [t \in Turns |-> {}]

Goto(t, l) == pc' = [pc EXCEPT ![t] = l]

\* Turn t is over; its slot can serve another request.
End(t) ==
    /\ Goto(t, "idle")
    /\ job' = [job EXCEPT ![t] = None]
    /\ step' = [step EXCEPT ![t] = 0]
    /\ closing' = [closing EXCEPT ![t] = None]

-----------------------------------------------------------------------------
(* Loading and unloading: the holder of the transition lock.               *)

SessionFree == gen = None

\* Faulty: does not wait for the session lock.
UnloadUnlocked ==
    /\ session' = None /\ fingerprint' = None /\ plan' = None
    /\ kv' = EmptyKv /\ layout' = Nothing /\ tokens' = Nothing
    /\ owner' = NoChat

\* Faulty: leaves current_plan behind.
UnloadWithoutPlan ==
    /\ SessionFree
    /\ session' = None /\ fingerprint' = None /\ UNCHANGED plan
    /\ kv' = EmptyKv /\ layout' = Nothing /\ tokens' = Nothing
    /\ owner' = NoChat

\* unload_model_inner: everything that describes the model goes under the
\* session lock; unsaved_chat is left as it is.
UnloadInner ==
    /\ SessionFree
    /\ session' = None /\ fingerprint' = None /\ plan' = None
    /\ kv' = EmptyKv /\ layout' = Nothing /\ tokens' = Nothing
    /\ owner' = NoChat

Resident(t) == session # None /\ fingerprint = job[t].key /\ plan # None

Arrive(t) ==
    /\ pc[t] = "idle"
    /\ \E j \in Jobs : job' = [job EXCEPT ![t] = j]
    /\ Goto(t, "arrived")
    /\ UNCHANGED <<loadVars, kvVars, saveVars, gen, report, memory, step, closing,
                   later>>

BeginEnsure(t) ==
    /\ pc[t] = "arrived"
    /\ transition = None
    /\ transition' = t
    /\ attempt' = 0
    /\ Goto(t, "checking")
    /\ UNCHANGED <<session, fingerprint, plan, kvVars, saveVars, gen, report,
                   memory, turnVars>>

\* ensure_loaded's fast path: the model and its plan are already there.
AlreadyLoaded(t) ==
    /\ pc[t] = "checking"
    /\ SessionFree
    /\ Resident(t)
    /\ transition' = None
    /\ Goto(t, "queued")
    /\ UNCHANGED <<attempt, session, fingerprint, plan, kvVars, saveVars, gen,
                   report, memory, turnVars>>

\* The old model goes before the new one is planned and loaded.
UnloadOld(t) ==
    /\ pc[t] = "checking"
    /\ ~Resident(t)
    /\ UnloadInner
    /\ Goto(t, "loading")
    /\ UNCHANGED <<transition, attempt, saveVars, gen, report, memory, turnVars>>

\* Faulty: an early return that keeps the transition.
FailLoadHolding(t) ==
    /\ pc[t] = "loading"
    /\ End(t)
    /\ UNCHANGED <<transition, attempt, session, fingerprint, plan, kvVars,
                   saveVars, gen, report, memory, later>>

\* The model file cannot be read, the plan is refused, or llama.cpp fails
\* (the retry with a smaller placement included): nothing is loaded.
FailLoad(t) ==
    /\ pc[t] = "loading"
    /\ transition' = None
    /\ End(t)
    /\ UNCHANGED <<attempt, session, fingerprint, plan, kvVars, saveVars, gen,
                   report, memory, later>>

\* load_model_inner's last part: the session is published under its lock.
\* current_plan is not set here.
PublishSession(t) ==
    /\ pc[t] = "loading"
    /\ SessionFree
    /\ \E type \in KvTypes : session' = type
    /\ fingerprint' = job[t].key
    /\ kv' = EmptyKv /\ layout' = Nothing /\ tokens' = Nothing
    /\ owner' = NoChat
    /\ attempt' = attempt + 1
    /\ Goto(t, "published")
    /\ UNCHANGED <<transition, plan, saveVars, gen, report, memory, turnVars>>

\* First load on this machine: the measured model is unloaded and loaded
\* again with a better placement, then at most once more with a safer one.
Reload(t) ==
    /\ pc[t] = "published"
    /\ attempt < 3
    /\ UnloadInner
    /\ Goto(t, "loading")
    /\ UNCHANGED <<transition, attempt, saveVars, gen, report, memory, turnVars>>

\* The last lines of ensure_loaded, without the session lock.
SetPlan(t) ==
    /\ pc[t] = "published"
    /\ plan' = session
    /\ transition' = None
    /\ Goto(t, "queued")
    /\ UNCHANGED <<attempt, session, fingerprint, kvVars, saveVars, gen, report,
                   memory, turnVars>>

\* The caller only wanted the model loaded, or its client left before the
\* generation was dispatched.
LeaveLoaded(t) ==
    /\ pc[t] = "queued"
    /\ step[t] = 0
    /\ End(t)
    /\ UNCHANGED <<loadVars, kvVars, saveVars, gen, report, memory, later>>

-----------------------------------------------------------------------------
(* Generations: dispatch_request, under the session lock.                  *)

RejectNoModel(t) ==
    /\ pc[t] = "queued"
    /\ SessionFree
    /\ session = None
    /\ Goto(t, "failed")
    /\ UNCHANGED <<loadVars, kvVars, saveVars, gen, report, memory, turnVars>>

\* "Model/configuration changed before execution; retry"
RejectChanged(t) ==
    /\ pc[t] = "queued"
    /\ SessionFree
    /\ session # None
    /\ fingerprint # job[t].key
    /\ tokens' = Nothing
    /\ report' = None
    /\ Goto(t, "failed")
    /\ UNCHANGED <<loadVars, kv, layout, owner, saveVars, gen, memory, turnVars>>

\* "Request cancelled before execution": the KV was not touched.
RejectCancelled(t) ==
    /\ pc[t] = "queued"
    /\ SessionFree
    /\ session # None
    /\ report' = None
    /\ Goto(t, "failed")
    /\ UNCHANGED <<loadVars, kvVars, saveVars, gen, memory, turnVars>>

\* Faulty: a key that does not name the model.
KeyWithoutModel == [key |-> CHOOSE k \in Keys : TRUE, type |-> plan]

\* blocking_memory_key: the fingerprint and the KV type current_plan records.
MemoryKey == [key |-> fingerprint, type |-> plan]

\* What chat_memory::restore can leave in the context for chat c: what was
\* there (no record, another key, or a context too small), an empty KV (the
\* file could not be read back), or the saved files.  llama.cpp refuses a KV
\* of another type; a KV of another model of the same shape it accepts.
Kept == [kv |-> kv, tokens |-> tokens, layout |-> layout]
Lost == [kv |-> EmptyKv, tokens |-> Nothing, layout |-> Nothing]
ReadBack(f) == [kv |-> f.kv,
                tokens |-> IF f.layout = Nothing THEN f.tokens ELSE Nothing,
                layout |-> f.layout]
Restored(c) ==
    LET f == disk[c]
        matches == f.record = MemoryKey
        readable == matches /\ f.kv # None /\ f.kv.type = session
    IN  {Kept} \cup {o \in {Lost} : matches}
               \cup {o \in {ReadBack(f)} : readable}

\* The context before the generation: restored when the chat is not its owner.
InContext(c) ==
    IF memory /\ owner # c /\ c # NoChat THEN Restored(c) ELSE {Kept}

\* stream_text forgets the media layout and, without a token list, empties
\* the KV; a media request starts from an empty token list.
StartGeneration(t) ==
    /\ pc[t] = "queued"
    /\ SessionFree
    /\ session # None
    /\ fingerprint = job[t].key
    /\ \E before \in InContext(job[t].chat) :
          IF job[t].media
          THEN /\ kv' = before.kv
               /\ layout' = before.layout
               /\ tokens' = Nothing
          ELSE /\ kv' = IF before.tokens = Nothing THEN EmptyKv ELSE before.kv
               /\ layout' = Nothing
               /\ tokens' = before.tokens
    /\ owner' = IF memory THEN job[t].chat ELSE owner
    /\ gen' = [turn |-> t, key |-> MemoryKey, memory |-> memory]
    /\ step' = [step EXCEPT ![t] = @ + 1]
    /\ Goto(t, "generating")
    /\ UNCHANGED <<loadVars, saveVars, report, memory, job, closing, later>>

\* The files of chat c after the first n writes of chat_memory::save: the KV
\* with its token list, the media layout (written or removed), the record.
Written(c, n, k, v, ts, lay) ==
    [kv     |-> IF n >= 1 THEN v ELSE disk[c].kv,
     tokens |-> IF n >= 1 THEN ts ELSE disk[c].tokens,
     layout |-> IF n >= 2 THEN lay ELSE disk[c].layout,
     record |-> IF n >= 3 THEN k ELSE disk[c].record]

\* save_chat_kv; a complete save ends with enforce_limits, which deletes the
\* files of some chats.
Save(c, k, v, ts, lay) ==
    \/ \E gone \in SUBSET Chats :
          disk' = [d \in Chats |-> IF d \in gone THEN NoFiles
                                   ELSE IF d = c THEN Written(c, 3, k, v, ts, lay)
                                   ELSE disk[d]]
    \/ /\ SavesMayStop
       /\ \E n \in 0..2 : disk' = [disk EXCEPT ![c] = Written(c, n, k, v, ts, lay)]

\* A reused prefix keeps the model that computed it.
Filled(t, kind, reused) ==
    [kind |-> kind, chat |-> job[t].chat,
     key  |-> IF reused THEN kv.key ELSE fingerprint,
     type |-> IF reused THEN kv.type ELSE session]

\* The end of every generation: who the context belongs to is remembered or
\* saved when it succeeded, forgotten when it did not.
EndGeneration(t, ok) ==
    /\ gen' = None
    /\ LET c == job[t].chat
           remembers == ok /\ gen.memory /\ c # NoChat
       IN  IF remembers /\ job[t].media
           THEN unsaved' = NoChat /\ Save(c, gen.key, kv', tokens', layout')
           ELSE /\ unsaved' = IF remembers THEN c ELSE NoChat
                /\ UNCHANGED disk
    /\ report' = IF ok THEN t ELSE None
    /\ Goto(t, IF ok THEN "answered" ELSE "failed")
    /\ UNCHANGED <<loadVars, owner, memory, turnVars>>

\* An answer, complete or stopped by its client: the list is what the KV holds
\* (a prompt stopped between two chunks keeps the part of it already cached).
TextAnswer(t) ==
    /\ pc[t] = "generating" /\ ~job[t].media
    /\ kv' = Filled(t, "text", tokens # Nothing)
    /\ tokens' = job[t].chat
    /\ UNCHANGED layout
    /\ EndGeneration(t, TRUE)

\* Stopped while the prompt was processed, on a memory that cannot drop its
\* tail: the KV is emptied, and the stop is no error.
TextStopped(t) ==
    /\ pc[t] = "generating" /\ ~job[t].media
    /\ kv' = EmptyKv /\ tokens' = Nothing
    /\ UNCHANGED layout
    /\ EndGeneration(t, TRUE)

\* ContextExceeded: refused before the KV was touched.
TooLarge(t) ==
    /\ pc[t] = "generating"
    /\ UNCHANGED <<kv, tokens, layout>>
    /\ EndGeneration(t, FALSE)

\* Faulty: the token list survives a failed generation.
TextErrorKeepsList(t) ==
    /\ pc[t] = "generating" /\ ~job[t].media
    /\ kv' = [EmptyKv EXCEPT !.kind = "partial", !.key = fingerprint, !.type = session]
    /\ UNCHANGED <<tokens, layout>>
    /\ EndGeneration(t, FALSE)

TextError(t) ==
    /\ pc[t] = "generating" /\ ~job[t].media
    /\ kv' = [EmptyKv EXCEPT !.kind = "partial", !.key = fingerprint, !.type = session]
    /\ tokens' = Nothing
    /\ UNCHANGED layout
    /\ EndGeneration(t, FALSE)

MediaAnswer(t) ==
    /\ pc[t] = "generating" /\ job[t].media
    /\ kv' = Filled(t, "media", layout # Nothing)
    /\ layout' = job[t].chat
    /\ UNCHANGED tokens
    /\ EndGeneration(t, TRUE)

\* An incomplete media turn is never reused.
MediaError(t) ==
    /\ pc[t] = "generating" /\ job[t].media
    /\ kv' = EmptyKv /\ layout' = Nothing
    /\ UNCHANGED tokens
    /\ EndGeneration(t, FALSE)

-----------------------------------------------------------------------------
(* The end of a turn: its last chunk, its chat memory, its keep_alive.     *)

\* The answer holds a tool call: the turn continues with its result.
NextStep(t) ==
    /\ pc[t] = "answered"
    /\ step[t] < MaxSteps
    /\ Goto(t, "queued")
    /\ UNCHANGED <<loadVars, kvVars, saveVars, gen, report, memory, turnVars>>

\* engine_report for the closing chunk.
CloseAnswer(t) ==
    /\ pc[t] = "answered"
    /\ closing' = [closing EXCEPT ![t] = report]
    /\ Goto(t, "closed")
    /\ UNCHANGED <<loadVars, kvVars, saveVars, gen, report, memory, job, step,
                   later>>

\* The turn's keep_alive: unload now, arm a timer, or keep the model.
Retain(t) ==
    \/ /\ job[t].keep = "now"
       /\ Goto(t, "leaving")
       /\ UNCHANGED turnVars
    \/ /\ job[t].keep = "minutes"
       /\ Goto(t, "retaining")
       /\ later' = [u \in Turns |-> IF pc[u] \in {"retaining", "expiring"}
                                    THEN later[u] \cup {t} ELSE later[u]]
       /\ UNCHANGED <<job, step, closing>>
    \/ /\ job[t].keep = "retain"
       /\ End(t)
       /\ UNCHANGED later

\* Faulty: trusts memory_owner alone.
SaveOwnersMemory(t) ==
    /\ SessionFree
    /\ LET c == job[t].chat
       IN  IF job[t].saves /\ c # NoChat /\ session # None /\ owner = c
           THEN /\ unsaved' = NoChat
                /\ IF memory THEN Save(c, MemoryKey, kv, tokens, layout)
                             ELSE UNCHANGED disk
           ELSE UNCHANGED saveVars

\* save_chat_memory: only the chat whose generation is still in the context.
SaveChatMemory(t) ==
    /\ SessionFree
    /\ LET c == job[t].chat
       IN  IF /\ job[t].saves /\ c # NoChat /\ session # None
              /\ unsaved = c /\ owner = c
           THEN /\ unsaved' = NoChat
                /\ IF memory THEN Save(c, MemoryKey, kv, tokens, layout)
                             ELSE UNCHANGED disk
           ELSE UNCHANGED saveVars

FinishTurn(t) ==
    /\ pc[t] = "closed"
    /\ SaveChatMemory(t)
    /\ Retain(t)
    /\ UNCHANGED <<loadVars, kvVars, gen, report, memory>>

\* A failed answer with keep_alive 0 unloads first; its TurnMemory saves
\* when it is dropped.
FailTurn(t) ==
    /\ pc[t] = "failed"
    /\ Goto(t, IF job[t].keep = "now" THEN "abandoning" ELSE "dropped")
    /\ UNCHANGED <<loadVars, kvVars, saveVars, gen, report, memory, turnVars>>

\* The client leaves before the last chunk: no keep_alive, but its TurnMemory
\* saves when it is dropped.
LeaveTurn(t) ==
    /\ pc[t] = "answered"
    /\ Goto(t, "dropped")
    /\ UNCHANGED <<loadVars, kvVars, saveVars, gen, report, memory, turnVars>>

DropTurn(t) ==
    /\ pc[t] = "dropped"
    /\ SaveChatMemory(t)
    /\ End(t)
    /\ UNCHANGED <<loadVars, kvVars, gen, report, memory, later>>

\* unload_model waits for the transition ...
BeginUnload(t) ==
    /\ pc[t] \in {"leaving", "abandoning", "retaining"}
    /\ transition = None
    /\ transition' = t
    /\ Goto(t, CASE pc[t] = "leaving"    -> "unloading"
                 [] pc[t] = "abandoning" -> "unloading failed"
                 [] OTHER                -> "expiring")
    /\ UNCHANGED <<attempt, session, fingerprint, plan, kvVars, saveVars, gen,
                   report, memory, turnVars>>

\* ... and then for the generation that runs.
FinishUnload(t) ==
    /\ pc[t] \in {"unloading", "unloading failed", "expiring"}
    /\ UnloadInner
    /\ transition' = None
    /\ later' = [u \in Turns |-> IF u = t THEN {} ELSE later[u] \ {t}]
    /\ IF pc[t] = "unloading failed"
       THEN Goto(t, "dropped") /\ UNCHANGED <<job, step, closing>>
       ELSE End(t)
    /\ UNCHANGED <<attempt, saveVars, gen, report, memory>>

-----------------------------------------------------------------------------
(* The user and the process.                                               *)

\* models.remove unloads the model whose files it deletes.
AskUnload(t) ==
    /\ pc[t] = "idle"
    /\ Goto(t, "leaving")
    /\ UNCHANGED <<loadVars, kvVars, saveVars, gen, report, memory, turnVars>>

SwitchMemory ==
    /\ memory' = ~memory
    /\ UNCHANGED <<loadVars, kvVars, saveVars, gen, report, pc, turnVars>>

DeleteMemory(c) ==
    /\ disk' = [disk EXCEPT ![c] = NoFiles]
    /\ UNCHANGED <<loadVars, kvVars, unsaved, gen, report, memory, pc, turnVars>>

\* The process ends and starts again: only the files stay.
Restart ==
    /\ transition' = None /\ attempt' = 0
    /\ session' = None /\ fingerprint' = None /\ plan' = None
    /\ kv' = EmptyKv /\ layout' = Nothing /\ tokens' = Nothing
    /\ owner' = NoChat /\ unsaved' = NoChat
    /\ gen' = None /\ report' = None
    /\ pc' = [t \in Turns |-> "idle"]
    /\ job' = [t \in Turns |-> None]
    /\ step' = [t \in Turns |-> 0]
    /\ closing' = [t \in Turns |-> None]
    /\ later' = [t \in Turns |-> {}]
    /\ UNCHANGED <<disk, memory>>

Load(t) == BeginEnsure(t) \/ AlreadyLoaded(t) \/ UnloadOld(t) \/ FailLoad(t)
           \/ PublishSession(t) \/ Reload(t) \/ SetPlan(t)
Generate(t) == \/ RejectNoModel(t) \/ RejectChanged(t) \/ RejectCancelled(t)
               \/ StartGeneration(t) \/ TextAnswer(t) \/ TextStopped(t)
               \/ TooLarge(t) \/ TextError(t) \/ MediaAnswer(t) \/ MediaError(t)
Finish(t) == \/ NextStep(t) \/ CloseAnswer(t) \/ FinishTurn(t) \/ FailTurn(t)
             \/ DropTurn(t) \/ BeginUnload(t) \/ FinishUnload(t)

Next == \/ \E t \in Turns : Load(t) \/ Generate(t) \/ Finish(t)
                            \/ Arrive(t) \/ LeaveLoaded(t) \/ LeaveTurn(t) \/ AskUnload(t)
        \/ SwitchMemory
        \/ \E c \in Chats : DeleteMemory(c)
        \/ Restart

Spec == Init /\ [][Next]_vars

\* Tokio's mutexes are FIFO, so a task that waits for the transition or the
\* session lock gets it; loads, generations and timers end.  Nothing is
\* assumed of clients, of the user or of restarts.
Fairness == \A t \in Turns : SF_vars(Load(t) \/ Generate(t) \/ Finish(t))
FairSpec == Spec /\ Fairness

-----------------------------------------------------------------------------
(* Correctness.                                                            *)

TurnStates == {"idle", "arrived", "checking", "loading", "published", "queued",
               "generating", "answered", "closed", "failed", "dropped",
               "leaving", "abandoning", "retaining", "unloading",
               "unloading failed", "expiring"}
Files == [kv : Kv \cup {None}, tokens : Whose \cup {Nothing},
          layout : Whose \cup {Nothing}, record : MemoryKeys \cup {None}]

\* Every variable has its type.
TypeOK ==
    /\ transition \in Turns \cup {None}
    /\ attempt \in 0..3
    /\ session \in KvTypes \cup {None}
    /\ fingerprint \in Keys \cup {None}
    /\ plan \in KvTypes \cup {None}
    /\ kv \in Kv
    /\ layout \in Whose \cup {Nothing} /\ tokens \in Whose \cup {Nothing}
    /\ owner \in Whose /\ unsaved \in Whose
    /\ gen \in Generations \cup {None}
    /\ report \in Turns \cup {None}
    /\ memory \in BOOLEAN
    /\ disk \in [Chats -> Files]
    /\ pc \in [Turns -> TurnStates]
    /\ job \in [Turns -> Jobs \cup {None}]
    /\ step \in [Turns -> 0..MaxSteps]
    /\ closing \in [Turns -> Turns \cup {None}]
    /\ later \in [Turns -> SUBSET Turns]

\* A generation runs on the model and load settings its request chose,
\* whatever was loaded, reloaded or unloaded while it waited for the session
\* lock (dispatch_request's expected_key, unload_model_inner's session lock).
RunsOnChosenModel ==
    \A t \in Turns : pc[t] = "generating" =>
        /\ session # None
        /\ fingerprint = job[t].key
        /\ gen # None /\ gen.turn = t

\* The plan the host reports, and that ensure_loaded's fast path returns, is
\* the one of the resident session (current_plan is set and cleared under
\* different locks than the session it describes).
PlanDescribesSession == plan # None => session # None /\ plan = session

\* The token list and the media layout the next request is matched against
\* describe what the KV cache really holds; prefix reuse relies on it.
ListDescribesKv ==
    /\ tokens # Nothing => kv.kind = "text" /\ kv.chat = tokens
    /\ layout # Nothing => kv.kind = "media" /\ kv.chat = layout

\* The KV cache was computed by the resident model: a saved KV never comes
\* back into another model's context (chat_memory.rs, "a different model or
\* context never restores them").
KvOfResidentModel == kv.kind # "empty" => kv.key = fingerprint

\* What is saved as a chat's memory is that chat's own KV, although the save
\* comes after the generation and other chats may have run in between.
MemoryIsOwnChat ==
    \A c \in Chats : disk[c].kv # None /\ disk[c].kv.kind \in {"text", "media"}
                        => disk[c].kv.chat = c

\* "What happened is reported in the closing engine.context object"
\* (chat_completions.md): no answer closes with the report of another one.
ReportIsOwn == \A t \in Turns : closing[t] # None => closing[t] = t

\* keep_alive: "Positive minutes retain after completion"
\* (chat_completions.md): a model is not unloaded by the timer of an earlier
\* answer while the minutes of a later one on the same model run.
LaterRetention(t) == \E u \in later[t] : job[u].key = fingerprint
RetentionHonoured ==
    [][\A t \in Turns : pc[t] = "expiring" /\ session # None /\ session' = None
                        /\ transition = t => ~LaterRetention(t)]_vars

\* Whom a turn may wait for: the holder of model_transition, or the generation
\* that holds the session lock.
Holding == {"checking", "loading", "published", "unloading", "unloading failed", "expiring"}
WaitsFor(t, u) ==
    \/ pc[t] \in {"arrived", "leaving", "abandoning", "retaining"} /\ transition = u
    \/ /\ pc[t] \in Holding \cup {"queued", "closed", "dropped"}
       /\ gen # None /\ gen.turn = u

\* The locks are taken in one order and given back on every path: whoever is
\* waited for is at work, and waits at most for a generation, which waits for
\* nobody. So no turns wait for each other, and no lock is left behind.
WaitsEnd ==
    \A t, u \in Turns : WaitsFor(t, u) =>
        /\ pc[u] \in Holding \cup {"generating"}
        /\ \A v \in Turns : WaitsFor(u, v) => pc[v] = "generating"

\* Every request that arrives ends: nobody waits forever for the transition
\* or the session lock, whoever else loads, fails, unloads or leaves.
EveryTurnEnds == \A t \in Turns : pc[t] = "arrived" ~> pc[t] = "idle"
=============================================================================
