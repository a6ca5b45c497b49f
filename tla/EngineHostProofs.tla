-------------------------- MODULE EngineHostProofs --------------------------
(* What holds of EngineHost for any number of turns, models and chats. *)
EXTENDS EngineHost, TLAPS

\* The turns between taking and giving back the transition lock are its holder;
\* whoever loads sees no session until it publishes its own.
TransitionInv ==
    /\ \A t \in Turns : pc[t] \in Holding => transition = t
    /\ \A t \in Turns : pc[t] = "loading" => session = None /\ plan = None
    /\ \A t \in Turns : pc[t] = "published" => session # None
    /\ (session = None => plan = None)
    /\ PlanDescribesSession

\* The variables the lock invariants read keep their types.
LockTypes ==
    /\ pc \in [Turns -> TurnStates]
    /\ transition \in Turns \cup {None}
    /\ session \in KvTypes \cup {None}
    /\ plan \in KvTypes \cup {None}
    /\ memory \in BOOLEAN

LEMMA LockTypesInit == Init => LockTypes
  BY DEF Init, LockTypes, TurnStates

LEMMA LockTypesStep == LockTypes /\ [Next]_vars => LockTypes'
  <1> USE DEF LockTypes, TurnStates
  <1> SUFFICES ASSUME LockTypes, [Next]_vars
               PROVE LockTypes'
    OBVIOUS
  <1>1. CASE UNCHANGED vars
    BY <1>1 DEF vars, loadVars
  <1>2. ASSUME NEW t \in Turns, Load(t)
        PROVE LockTypes'
    BY <1>2 DEF Load, BeginEnsure, AlreadyLoaded, UnloadOld, FailLoad,
        PublishSession, Reload, SetPlan, UnloadInner, Goto, End
  <1>3. ASSUME NEW t \in Turns, Generate(t)
        PROVE LockTypes'
    BY <1>3 DEF Generate, RejectNoModel, RejectChanged, RejectCancelled,
        StartGeneration, TextAnswer, TextStopped, TooLarge, TextError,
        MediaAnswer, MediaError, EndGeneration, Goto, loadVars
  <1>4. ASSUME NEW t \in Turns, Finish(t)
        PROVE LockTypes'
    BY <1>4 DEF Finish, NextStep, CloseAnswer, FinishTurn, FailTurn, DropTurn,
        BeginUnload, FinishUnload, Retain, UnloadInner, Goto, End, loadVars
  <1>5. ASSUME NEW t \in Turns, Arrive(t) \/ LeaveLoaded(t) \/ LeaveTurn(t) \/ AskUnload(t)
        PROVE LockTypes'
    BY <1>5 DEF Arrive, LeaveLoaded, LeaveTurn, AskUnload, Goto, End, loadVars
  <1>6. CASE SwitchMemory \/ Restart \/ \E c \in Chats : DeleteMemory(c)
    BY <1>6 DEF SwitchMemory, Restart, DeleteMemory, loadVars
  <1> QED
    BY <1>1, <1>2, <1>3, <1>4, <1>5, <1>6 DEF Next

LEMMA TransitionInvInit == Init => TransitionInv
  BY HostAssumption DEF Init, TransitionInv, PlanDescribesSession, Holding

\* Only a generation, the end of a turn and the user's actions leave the
\* session, the plan and the transition alone; the rest hold the transition.
LEMMA TransitionInvStep ==
    LockTypes /\ TransitionInv /\ [Next]_vars => TransitionInv'
  <1> USE HostAssumption DEF LockTypes, TransitionInv, PlanDescribesSession, Holding
  <1> SUFFICES ASSUME LockTypes, TransitionInv, [Next]_vars
               PROVE TransitionInv'
    OBVIOUS
  <1>1. CASE UNCHANGED vars
    BY <1>1 DEF vars, loadVars
  <1>2. ASSUME NEW t \in Turns, Load(t)
        PROVE TransitionInv'
    <2>1. CASE BeginEnsure(t)
      BY <2>1 DEF BeginEnsure, Goto
    <2>2. CASE AlreadyLoaded(t)
      BY <2>2 DEF AlreadyLoaded, Goto
    <2>3. CASE UnloadOld(t)
      BY <2>3 DEF UnloadOld, UnloadInner, Goto
    <2>4. CASE FailLoad(t)
      BY <2>4 DEF FailLoad, End, Goto
    <2>5. CASE PublishSession(t)
      BY <2>5 DEF PublishSession, Goto
    <2>6. CASE Reload(t)
      BY <2>6 DEF Reload, UnloadInner, Goto
    <2>7. CASE SetPlan(t)
      BY <2>7 DEF SetPlan, Goto
    <2> QED
      BY <1>2, <2>1, <2>2, <2>3, <2>4, <2>5, <2>6, <2>7 DEF Load
  <1>3. ASSUME NEW t \in Turns, Generate(t)
        PROVE TransitionInv'
    BY <1>3 DEF Generate, RejectNoModel, RejectChanged, RejectCancelled,
        StartGeneration, TextAnswer, TextStopped, TooLarge, TextError,
        MediaAnswer, MediaError, EndGeneration, Goto, loadVars
  <1>4. ASSUME NEW t \in Turns, Finish(t)
        PROVE TransitionInv'
    <2>1. CASE NextStep(t) \/ CloseAnswer(t) \/ FinishTurn(t) \/ FailTurn(t) \/ DropTurn(t)
      BY <2>1 DEF NextStep, CloseAnswer, FinishTurn, FailTurn, DropTurn, Retain,
          Goto, End, loadVars
    <2>2. CASE BeginUnload(t)
      BY <2>2 DEF BeginUnload, Goto
    <2>3. CASE FinishUnload(t)
      BY <2>3 DEF FinishUnload, UnloadInner, Goto, End
    <2> QED
      BY <1>4, <2>1, <2>2, <2>3 DEF Finish
  <1>5. ASSUME NEW t \in Turns, Arrive(t) \/ LeaveLoaded(t) \/ LeaveTurn(t) \/ AskUnload(t)
        PROVE TransitionInv'
    BY <1>5 DEF Arrive, LeaveLoaded, LeaveTurn, AskUnload, Goto, End, loadVars
  <1>6. CASE SwitchMemory \/ \E c \in Chats : DeleteMemory(c)
    BY <1>6 DEF SwitchMemory, DeleteMemory, loadVars
  <1>7. CASE Restart
    BY <1>7 DEF Restart
  <1> QED
    BY <1>1, <1>2, <1>3, <1>4, <1>5, <1>6, <1>7 DEF Next

LEMMA TransitionLock == Spec => [](LockTypes /\ TransitionInv)
  <1>1. Init => LockTypes /\ TransitionInv
    BY LockTypesInit, TransitionInvInit
  <1>2. LockTypes /\ TransitionInv /\ [Next]_vars => (LockTypes /\ TransitionInv)'
    BY LockTypesStep, TransitionInvStep
  <1> QED
    BY <1>1, <1>2, PTL DEF Spec

\* The plan the host reports is the resident session's, for any number of
\* turns that load, reload, fail and unload: load_model_inner publishes the
\* session and ensure_loaded the plan, under different locks.
THEOREM PlanIsOfSession == Spec => []PlanDescribesSession
  <1>1. LockTypes /\ TransitionInv => PlanDescribesSession
    BY DEF TransitionInv
  <1> QED
    BY <1>1, TransitionLock, PTL

-----------------------------------------------------------------------------
\* A turn past its arrival has its job, and what it waits for does not change
\* while it generates.
Working == TurnStates \ {"idle", "leaving", "unloading"}
GenInv ==
    /\ job \in [Turns -> Jobs \cup {None}]
    /\ \A t \in Turns : pc[t] \in Working => job[t] \in Jobs
    /\ RunsOnChosenModel

LEMMA GenInvInit == Init => GenInv
  BY HostAssumption DEF Init, GenInv, RunsOnChosenModel, Working

LEMMA GenInvStep == LockTypes /\ GenInv /\ [Next]_vars => GenInv'
  <1> USE HostAssumption DEF LockTypes, TurnStates, GenInv, RunsOnChosenModel, Working
  <1> SUFFICES ASSUME LockTypes, GenInv, [Next]_vars
               PROVE GenInv'
    OBVIOUS
  <1>1. CASE UNCHANGED vars
    BY <1>1 DEF vars, loadVars, turnVars
  <1>2. ASSUME NEW t \in Turns, Load(t)
        PROVE GenInv'
    <2>1. CASE BeginEnsure(t) \/ AlreadyLoaded(t) \/ SetPlan(t)
      BY <2>1 DEF BeginEnsure, AlreadyLoaded, SetPlan, Goto, turnVars
    <2>2. CASE UnloadOld(t) \/ Reload(t)
      BY <2>2 DEF UnloadOld, Reload, UnloadInner, SessionFree, Goto, turnVars
    <2>3. CASE FailLoad(t)
      BY <2>3 DEF FailLoad, End, Goto
    <2>4. CASE PublishSession(t)
      BY <2>4 DEF PublishSession, SessionFree, Goto, turnVars
    <2> QED
      BY <1>2, <2>1, <2>2, <2>3, <2>4 DEF Load
  <1>3. ASSUME NEW t \in Turns, Generate(t)
        PROVE GenInv'
    <2>1. CASE RejectNoModel(t) \/ RejectChanged(t) \/ RejectCancelled(t)
      BY <2>1 DEF RejectNoModel, RejectChanged, RejectCancelled, Goto, loadVars, turnVars
    <2>2. CASE StartGeneration(t)
      <3>1. gen' \in Generations
        <4>1. job[t] \in JobSet /\ memory \in BOOLEAN
          BY <2>2 DEF StartGeneration
        <4>2. MemoryKey \in MemoryKeys
          BY <4>1, <2>2 DEF StartGeneration, MemoryKey, MemoryKeys, JobSet
        <4> QED
          BY <4>1, <4>2, <2>2 DEF StartGeneration, Generations
      <3>2. gen' # None /\ gen'.turn = t
        BY <3>1, <2>2 DEF StartGeneration
      <3> QED
        BY <2>2, <3>2 DEF StartGeneration, SessionFree, Goto, loadVars
    <2>3. CASE \E ok \in BOOLEAN : pc[t] = "generating" /\ EndGeneration(t, ok)
      BY <2>3 DEF EndGeneration, Goto, loadVars, turnVars
    <2> QED
      BY <1>3, <2>1, <2>2, <2>3 DEF Generate, TextAnswer, TextStopped, TooLarge,
         TextError, MediaAnswer, MediaError
  <1>4. ASSUME NEW t \in Turns, Finish(t)
        PROVE GenInv'
    <2>1. CASE NextStep(t) \/ CloseAnswer(t) \/ FailTurn(t)
      BY <2>1 DEF NextStep, CloseAnswer, FailTurn, Goto, loadVars, turnVars
    <2>2. CASE FinishTurn(t) \/ DropTurn(t)
      BY <2>2 DEF FinishTurn, DropTurn, Retain, Goto, End, loadVars, turnVars
    <2>3. CASE BeginUnload(t)
      BY <2>3 DEF BeginUnload, Goto, turnVars
    <2>4. CASE FinishUnload(t)
      BY <2>4 DEF FinishUnload, UnloadInner, SessionFree, Goto, End
    <2> QED
      BY <1>4, <2>1, <2>2, <2>3, <2>4 DEF Finish
  <1>5. ASSUME NEW t \in Turns, Arrive(t) \/ LeaveLoaded(t) \/ LeaveTurn(t) \/ AskUnload(t)
        PROVE GenInv'
    <2>1. CASE Arrive(t)
      <3>1. PICK j \in Jobs : job' = [job EXCEPT ![t] = j]
        BY <2>1 DEF Arrive
      <3>2. job' \in [Turns -> Jobs \cup {None}] /\ job'[t] \in Jobs
        BY <3>1
      <3>3. \A u \in Turns \ {t} : job'[u] = job[u] /\ pc'[u] = pc[u]
        BY <3>1, <2>1 DEF Arrive, Goto
      <3>4. pc'[t] = "arrived" /\ UNCHANGED <<session, fingerprint, gen>>
        BY <2>1 DEF Arrive, Goto, loadVars
      <3> QED
        BY <3>2, <3>3, <3>4
    <2>2. CASE LeaveLoaded(t)
      BY <2>2 DEF LeaveLoaded, Goto, End, loadVars
    <2>3. CASE LeaveTurn(t) \/ AskUnload(t)
      BY <2>3 DEF LeaveTurn, AskUnload, Goto, loadVars, turnVars
    <2> QED
      BY <1>5, <2>1, <2>2, <2>3
  <1>6. CASE SwitchMemory \/ \E c \in Chats : DeleteMemory(c)
    BY <1>6 DEF SwitchMemory, DeleteMemory, loadVars, turnVars
  <1>7. CASE Restart
    BY <1>7 DEF Restart
  <1> QED
    BY <1>1, <1>2, <1>3, <1>4, <1>5, <1>6, <1>7 DEF Next

\* No generation ever runs on another model than its request chose, however
\* many turns load, unload and time out while it waits and while it runs.
THEOREM GenerationsRunOnChosenModel == Spec => []RunsOnChosenModel
  <1>1. Init => LockTypes /\ GenInv
    BY LockTypesInit, GenInvInit
  <1>2. LockTypes /\ GenInv /\ [Next]_vars => (LockTypes /\ GenInv)'
    BY LockTypesStep, GenInvStep
  <1>3. LockTypes /\ GenInv => RunsOnChosenModel
    BY DEF GenInv
  <1> QED
    BY <1>1, <1>2, <1>3, PTL DEF Spec

-----------------------------------------------------------------------------
\* The locks are those of turns at work.
LocksHeld ==
    /\ transition # None => pc[transition] \in Holding
    /\ gen # None => gen.turn \in Turns /\ pc[gen.turn] = "generating"

LEMMA LocksHeldStep == LockTypes /\ LocksHeld /\ [Next]_vars => LocksHeld'
  <1> USE HostAssumption DEF LockTypes, LocksHeld, Holding
  <1> SUFFICES ASSUME LockTypes, LocksHeld, [Next]_vars
               PROVE LocksHeld'
    OBVIOUS
  <1>1. CASE UNCHANGED vars
    BY <1>1 DEF vars, loadVars
  <1>2. ASSUME NEW t \in Turns, Load(t)
        PROVE LocksHeld'
    BY <1>2 DEF Load, BeginEnsure, AlreadyLoaded, UnloadOld, FailLoad,
        PublishSession, Reload, SetPlan, UnloadInner, Goto, End
  <1>3. ASSUME NEW t \in Turns, Generate(t)
        PROVE LocksHeld'
    <2>1. CASE RejectNoModel(t) \/ RejectChanged(t) \/ RejectCancelled(t)
      BY <2>1 DEF RejectNoModel, RejectChanged, RejectCancelled, Goto, loadVars
    <2>2. CASE StartGeneration(t)
      BY <2>2 DEF StartGeneration, Goto, loadVars
    <2>3. CASE \/ TextAnswer(t) \/ TextStopped(t) \/ TooLarge(t) \/ TextError(t)
               \/ MediaAnswer(t) \/ MediaError(t)
      BY <2>3 DEF TextAnswer, TextStopped, TooLarge, TextError, MediaAnswer, MediaError,
                  EndGeneration, Goto, loadVars
    <2> QED
      BY <1>3, <2>1, <2>2, <2>3 DEF Generate
  <1>4. ASSUME NEW t \in Turns, Finish(t)
        PROVE LocksHeld'
    <2>1. CASE NextStep(t) \/ CloseAnswer(t) \/ FailTurn(t)
      BY <2>1 DEF NextStep, CloseAnswer, FailTurn, Goto, loadVars
    <2>2. CASE FinishTurn(t)
      BY <2>2 DEF FinishTurn, Retain, Goto, End, loadVars
    <2>3. CASE DropTurn(t)
      BY <2>3 DEF DropTurn, Goto, End, loadVars
    <2>4. CASE BeginUnload(t)
      BY <2>4 DEF BeginUnload, Goto
    <2>5. CASE FinishUnload(t)
      BY <2>5 DEF FinishUnload, UnloadInner, Goto, End
    <2> QED
      BY <1>4, <2>1, <2>2, <2>3, <2>4, <2>5 DEF Finish
  <1>5. ASSUME NEW t \in Turns, Arrive(t) \/ LeaveLoaded(t) \/ LeaveTurn(t) \/ AskUnload(t)
        PROVE LocksHeld'
    BY <1>5 DEF Arrive, LeaveLoaded, LeaveTurn, AskUnload, Goto, End, loadVars
  <1>6. CASE SwitchMemory \/ Restart \/ \E c \in Chats : DeleteMemory(c)
    BY <1>6 DEF SwitchMemory, Restart, DeleteMemory, loadVars
  <1> QED
    BY <1>1, <1>2, <1>3, <1>4, <1>5, <1>6 DEF Next

\* No turns wait for each other and no lock is left behind, for any number of
\* turns (model_transition and the session mutex, host.rs).
THEOREM EveryWaitIsShort == Spec => []WaitsEnd
  <1>1. Init => LockTypes /\ LocksHeld
    BY LockTypesInit DEF Init, LocksHeld
  <1>2. LockTypes /\ LocksHeld /\ [Next]_vars => (LockTypes /\ LocksHeld)'
    BY LockTypesStep, LocksHeldStep
  <1>3. LockTypes /\ LocksHeld => WaitsEnd
    BY HostAssumption DEF LockTypes, LocksHeld, WaitsEnd, WaitsFor, Holding
  <1> QED
    BY <1>1, <1>2, <1>3, PTL DEF Spec

-----------------------------------------------------------------------------
\* A resident session has a fingerprint: its memory key names a model.
SessionHasKey == session = None <=> fingerprint = None

\* One load measures the model and reloads it at most twice.
AttemptBound ==
    /\ attempt \in 0..3
    /\ \A t \in Turns : pc[t] = "checking" => attempt = 0
    /\ \A t \in Turns : pc[t] = "loading" => attempt <= 2

\* A turn that waits for a generation has one left.
Before == {"idle", "arrived", "checking", "loading", "published"}
StepBound ==
    /\ step \in [Turns -> 0..MaxSteps]
    /\ \A t \in Turns : pc[t] \in Before => step[t] = 0
    /\ \A t \in Turns : pc[t] = "queued" => step[t] < MaxSteps

LEMMA SessionHasKeyStep ==
    LockTypes /\ GenInv /\ SessionHasKey /\ [Next]_vars => SessionHasKey'
  <1> USE HostAssumption DEF SessionHasKey, loadVars
  <1> SUFFICES ASSUME LockTypes, GenInv, SessionHasKey, [Next]_vars
               PROVE SessionHasKey'
    OBVIOUS
  <1>1. CASE UNCHANGED vars
    BY <1>1 DEF vars
  <1>2. ASSUME NEW t \in Turns, Load(t)
        PROVE SessionHasKey'
    <2>1. CASE PublishSession(t)
      <3>1. job[t] \in JobSet
        BY <2>1 DEF PublishSession, GenInv, Working, LockTypes, TurnStates
      <3> QED
        BY <2>1, <3>1 DEF PublishSession, JobSet
    <2> QED
      BY <1>2, <2>1 DEF Load, BeginEnsure, AlreadyLoaded, UnloadOld, FailLoad,
         Reload, SetPlan, UnloadInner
  <1>3. ASSUME NEW t \in Turns, Generate(t)
        PROVE SessionHasKey'
    BY <1>3 DEF Generate, RejectNoModel, RejectChanged, RejectCancelled,
       StartGeneration, TextAnswer, TextStopped, TooLarge, TextError,
       MediaAnswer, MediaError, EndGeneration
  <1>4. ASSUME NEW t \in Turns, Finish(t)
        PROVE SessionHasKey'
    BY <1>4 DEF Finish, NextStep, CloseAnswer, FinishTurn, FailTurn, DropTurn,
       BeginUnload, FinishUnload, UnloadInner
  <1>5. ASSUME NEW t \in Turns, Arrive(t) \/ LeaveLoaded(t) \/ LeaveTurn(t) \/ AskUnload(t)
        PROVE SessionHasKey'
    BY <1>5 DEF Arrive, LeaveLoaded, LeaveTurn, AskUnload
  <1>6. CASE SwitchMemory \/ Restart \/ \E c \in Chats : DeleteMemory(c)
    BY <1>6 DEF SwitchMemory, Restart, DeleteMemory
  <1> QED
    BY <1>1, <1>2, <1>3, <1>4, <1>5, <1>6 DEF Next

\* Only the holder of the transition counts attempts; every other step leaves
\* the counter, and whoever checks or loads, where they are.
LEMMA AttemptBoundStep ==
    LockTypes /\ TransitionInv /\ AttemptBound /\ [Next]_vars => AttemptBound'
  <1> DEFINE Aside == /\ attempt' = attempt
                      /\ \A u \in Turns : pc'[u] \in {"checking", "loading"}
                                             => pc'[u] = pc[u]
  <1> SUFFICES ASSUME LockTypes, TransitionInv, AttemptBound, [Next]_vars
               PROVE AttemptBound'
    OBVIOUS
  <1>1. Aside => AttemptBound'
    BY DEF AttemptBound
  <1>2. ASSUME NEW t \in Turns, Load(t)
        PROVE AttemptBound'
    <2>1. CASE BeginEnsure(t)
      <3>1. /\ attempt' = 0 /\ transition = None
            /\ pc' = [pc EXCEPT ![t] = "checking"]
        BY <2>1 DEF BeginEnsure, Goto
      <3>2. \A u \in Turns : pc'[u] # "loading"
        BY <3>1, HostAssumption DEF TransitionInv, Holding, LockTypes
      <3> QED
        BY <3>1, <3>2 DEF AttemptBound
    <2>2. CASE UnloadOld(t)
      <3>1. /\ pc[t] = "checking" /\ attempt' = attempt
            /\ pc' = [pc EXCEPT ![t] = "loading"]
        BY <2>2 DEF UnloadOld, Goto
      <3> QED
        BY <3>1 DEF AttemptBound, LockTypes
    <2>3. CASE PublishSession(t)
      <3>1. /\ pc[t] = "loading" /\ attempt' = attempt + 1 /\ transition = t
            /\ pc' = [pc EXCEPT ![t] = "published"]
        BY <2>3 DEF PublishSession, Goto, TransitionInv, Holding
      <3>2. \A u \in Turns : pc'[u] \notin {"checking", "loading"}
        BY <3>1 DEF TransitionInv, Holding, LockTypes
      <3> QED
        BY <3>1, <3>2 DEF AttemptBound
    <2>4. CASE Reload(t)
      <3>1. /\ attempt < 3 /\ attempt' = attempt
            /\ pc[t] = "published" /\ transition = t
            /\ pc' = [pc EXCEPT ![t] = "loading"]
        BY <2>4 DEF Reload, Goto, TransitionInv, Holding
      <3>2. \A u \in Turns : pc'[u] # "checking"
        BY <3>1 DEF TransitionInv, Holding, LockTypes
      <3> QED
        BY <3>1, <3>2 DEF AttemptBound
    <2>5. CASE AlreadyLoaded(t) \/ FailLoad(t) \/ SetPlan(t)
      <3>1. Aside
        BY <2>5 DEF AlreadyLoaded, FailLoad, SetPlan, End, Goto, LockTypes
      <3> QED
        BY <3>1, <1>1
    <2> QED
      BY <1>2, <2>1, <2>2, <2>3, <2>4, <2>5 DEF Load
  <1>3. ASSUME NEW t \in Turns, Generate(t)
        PROVE Aside
    BY <1>3 DEF Generate, RejectNoModel, RejectChanged, RejectCancelled,
       StartGeneration, TextAnswer, TextStopped, TooLarge, TextError,
       MediaAnswer, MediaError, EndGeneration, loadVars, Goto, LockTypes
  <1>4. ASSUME NEW t \in Turns, Finish(t)
        PROVE Aside
    BY <1>4 DEF Finish, NextStep, CloseAnswer, FinishTurn, FailTurn, DropTurn,
       BeginUnload, FinishUnload, Retain, End, loadVars, Goto, LockTypes
  <1>5. ASSUME NEW t \in Turns, Arrive(t) \/ LeaveLoaded(t) \/ LeaveTurn(t) \/ AskUnload(t)
        PROVE Aside
    BY <1>5 DEF Arrive, LeaveLoaded, LeaveTurn, AskUnload, End, loadVars, Goto, LockTypes
  <1>6. CASE SwitchMemory \/ (\E c \in Chats : DeleteMemory(c)) \/ UNCHANGED vars
    <2>1. Aside
      BY <1>6 DEF SwitchMemory, DeleteMemory, vars, loadVars
    <2> QED
      BY <2>1, <1>1
  <1>7. CASE Restart
    BY <1>7 DEF Restart, AttemptBound
  <1> QED
    BY <1>1, <1>2, <1>3, <1>4, <1>5, <1>6, <1>7 DEF Next

\* A generation is counted when it starts, and only a turn below the limit
\* goes back to wait for another; every other step counts nothing, or ends.
LEMMA StepBoundStep == LockTypes /\ StepBound /\ [Next]_vars => StepBound'
  <1> DEFINE Uncounted(t) ==
        /\ step' = step
        /\ \A u \in Turns \ {t} : pc'[u] = pc[u]
        /\ pc'[t] \in Before => pc[t] \in Before
        /\ pc'[t] = "queued" => pc[t] \in Before \cup {"queued"}
      Ended(t) == step' = [step EXCEPT ![t] = 0] /\ pc' = [pc EXCEPT ![t] = "idle"]
  <1> SUFFICES ASSUME LockTypes, StepBound, [Next]_vars
               PROVE StepBound'
    OBVIOUS
  <1>0. 0 \in 0..MaxSteps /\ 0 < MaxSteps
    BY HostAssumption
  <1>1. ASSUME NEW t \in Turns, Uncounted(t) PROVE StepBound'
    BY <1>0, <1>1 DEF StepBound, Before
  <1>2. ASSUME NEW t \in Turns, Ended(t) PROVE StepBound'
    BY <1>0, <1>2 DEF StepBound, LockTypes, Before
  <1>3. ASSUME NEW t \in Turns, Load(t)
        PROVE StepBound'
    <2>1. Uncounted(t) \/ Ended(t)
      BY <1>3 DEF Load, BeginEnsure, AlreadyLoaded, UnloadOld, FailLoad,
         PublishSession, Reload, SetPlan, End, Goto, turnVars, LockTypes, Before
    <2> QED
      BY <2>1, <1>1, <1>2
  <1>4. ASSUME NEW t \in Turns, Generate(t)
        PROVE StepBound'
    <2>1. CASE StartGeneration(t)
      <3>1. /\ pc[t] = "queued" /\ step' = [step EXCEPT ![t] = @ + 1]
            /\ pc' = [pc EXCEPT ![t] = "generating"]
        BY <2>1 DEF StartGeneration, Goto
      <3>2. step[t] + 1 \in 0..MaxSteps
        BY <3>1, HostAssumption DEF StepBound
      <3> QED
        BY <3>1, <3>2 DEF StepBound, LockTypes, Before
    <2>2. CASE ~StartGeneration(t)
      <3>1. Uncounted(t)
        BY <1>4, <2>2 DEF Generate, RejectNoModel, RejectChanged, RejectCancelled,
           TextAnswer, TextStopped, TooLarge, TextError, MediaAnswer, MediaError,
           EndGeneration, Goto, turnVars, LockTypes, Before
      <3> QED
        BY <3>1, <1>1
    <2> QED
      BY <2>1, <2>2
  <1>5. ASSUME NEW t \in Turns, Finish(t)
        PROVE StepBound'
    <2>1. CASE NextStep(t)
      <3>1. step[t] < MaxSteps /\ step' = step /\ pc' = [pc EXCEPT ![t] = "queued"]
        BY <2>1 DEF NextStep, Goto, turnVars
      <3> QED
        BY <3>1 DEF StepBound, LockTypes, Before
    <2>2. CASE \/ CloseAnswer(t) \/ FinishTurn(t) \/ FailTurn(t) \/ DropTurn(t)
               \/ BeginUnload(t) \/ FinishUnload(t)
      <3>1. Uncounted(t) \/ Ended(t)
        BY <2>2 DEF CloseAnswer, FinishTurn, FailTurn, DropTurn, BeginUnload,
           FinishUnload, Retain, End, Goto, turnVars, LockTypes, Before
      <3> QED
        BY <3>1, <1>1, <1>2
    <2> QED
      BY <1>5, <2>1, <2>2 DEF Finish
  <1>6. ASSUME NEW t \in Turns, Arrive(t) \/ LeaveLoaded(t) \/ LeaveTurn(t) \/ AskUnload(t)
        PROVE StepBound'
    <2>1. Uncounted(t) \/ Ended(t)
      BY <1>6 DEF Arrive, LeaveLoaded, LeaveTurn, AskUnload, End, Goto, turnVars, LockTypes,
         Before
    <2> QED
      BY <2>1, <1>1, <1>2
  <1>7. CASE SwitchMemory \/ (\E c \in Chats : DeleteMemory(c)) \/ UNCHANGED vars
    <2>1. step' = step /\ pc' = pc
      BY <1>7 DEF SwitchMemory, DeleteMemory, vars, turnVars
    <2> QED
      BY <2>1 DEF StepBound
  <1>8. CASE Restart
    BY <1>0, <1>8 DEF Restart, StepBound
  <1> QED
    BY <1>3, <1>4, <1>5, <1>6, <1>7, <1>8 DEF Next

-----------------------------------------------------------------------------
\* The types that need no bound.
ContextTypes ==
    /\ fingerprint \in Keys \cup {None}
    /\ kv \in Kv
    /\ layout \in Whose \cup {Nothing} /\ tokens \in Whose \cup {Nothing}
    /\ owner \in Whose /\ unsaved \in Whose
    /\ gen \in Generations \cup {None}
    /\ disk \in [Chats -> Files]
ReportTypes ==
    /\ report \in Turns \cup {None}
    /\ closing \in [Turns -> Turns \cup {None}]
    /\ later \in [Turns -> SUBSET Turns]

LEMMA EmptyTypes == /\ EmptyKv \in Kv /\ NoFiles \in Files
                    /\ NoChat \in Whose /\ Chats \subseteq Whose
  BY DEF EmptyKv, NoFiles, Kv, Files, Whose

\* The key of the resident model, whenever there is one.
LEMMA MemoryKeyType == ASSUME LockTypes, ContextTypes, SessionHasKey, session # None
                       PROVE MemoryKey \in MemoryKeys
  BY DEF LockTypes, ContextTypes, SessionHasKey, MemoryKey, MemoryKeys

\* A save, complete or not, leaves files of the right type.
LEMMA SaveType ==
    ASSUME disk \in [Chats -> Files], NEW c \in Chats, NEW k \in MemoryKeys,
           NEW v \in Kv, NEW ts \in Whose \cup {Nothing},
           NEW lay \in Whose \cup {Nothing}, Save(c, k, v, ts, lay)
    PROVE disk' \in [Chats -> Files]
  <1>1. disk[c] \in Files
    OBVIOUS
  <1>2. \A n \in {0, 1, 2, 3} : Written(c, n, k, v, ts, lay) \in Files
    BY <1>1 DEF Written, Files
  <1>3. CASE \E gone \in SUBSET Chats :
               disk' = [d \in Chats |-> IF d \in gone THEN NoFiles
                                        ELSE IF d = c THEN Written(c, 3, k, v, ts, lay)
                                        ELSE disk[d]]
    BY <1>2, <1>3, EmptyTypes
  <1>4. CASE \E n \in 0..2 : disk' = [disk EXCEPT ![c] = Written(c, n, k, v, ts, lay)]
    BY <1>2, <1>4
  <1> QED
    BY <1>3, <1>4 DEF Save

LEMMA ReportTypesStep ==
    LockTypes /\ ReportTypes /\ [Next]_vars => ReportTypes'
  <1> USE DEF ReportTypes, turnVars
  <1> SUFFICES ASSUME LockTypes, ReportTypes, [Next]_vars
               PROVE ReportTypes'
    OBVIOUS
  <1>1. CASE UNCHANGED vars
    BY <1>1 DEF vars
  <1>2. ASSUME NEW t \in Turns, Load(t)
        PROVE ReportTypes'
    BY <1>2 DEF Load, BeginEnsure, AlreadyLoaded, UnloadOld, FailLoad,
       PublishSession, Reload, SetPlan, End
  <1>3. ASSUME NEW t \in Turns, Generate(t)
        PROVE ReportTypes'
    BY <1>3 DEF Generate, RejectNoModel, RejectChanged, RejectCancelled,
       StartGeneration, TextAnswer, TextStopped, TooLarge, TextError,
       MediaAnswer, MediaError, EndGeneration
  <1>4. ASSUME NEW t \in Turns, Finish(t)
        PROVE ReportTypes'
    <2>1. CASE NextStep(t) \/ CloseAnswer(t) \/ FailTurn(t) \/ BeginUnload(t) \/ DropTurn(t)
      BY <2>1 DEF NextStep, CloseAnswer, FailTurn, BeginUnload, DropTurn, End
    <2>2. CASE FinishTurn(t)
      BY <2>2 DEF FinishTurn, Retain, End
    <2>3. CASE FinishUnload(t)
      BY <2>3 DEF FinishUnload, End
    <2> QED
      BY <1>4, <2>1, <2>2, <2>3 DEF Finish
  <1>5. ASSUME NEW t \in Turns, Arrive(t) \/ LeaveLoaded(t) \/ LeaveTurn(t) \/ AskUnload(t)
        PROVE ReportTypes'
    BY <1>5 DEF Arrive, LeaveLoaded, LeaveTurn, AskUnload, End
  <1>6. CASE SwitchMemory \/ \E c \in Chats : DeleteMemory(c)
    BY <1>6 DEF SwitchMemory, DeleteMemory
  <1>7. CASE Restart
    BY <1>7 DEF Restart
  <1> QED
    BY <1>1, <1>2, <1>3, <1>4, <1>5, <1>6, <1>7 DEF Next

LEMMA ContextTypesStep ==
    ASSUME LockTypes, GenInv, SessionHasKey, ContextTypes, [Next]_vars
    PROVE ContextTypes'
  <1> USE EmptyTypes DEF ContextTypes, loadVars, kvVars, saveVars
  <1>1. CASE UNCHANGED vars
    BY <1>1 DEF vars
  <1>2. ASSUME NEW t \in Turns, Load(t)
        PROVE ContextTypes'
    <2>1. CASE PublishSession(t)
      <3>1. job[t] \in JobSet
        BY <2>1, HostAssumption DEF PublishSession, GenInv, Working, TurnStates
      <3> QED
        BY <2>1, <3>1 DEF PublishSession, JobSet
    <2> QED
      BY <1>2, <2>1 DEF Load, BeginEnsure, AlreadyLoaded, UnloadOld, FailLoad,
         Reload, SetPlan, UnloadInner
  <1>3. ASSUME NEW t \in Turns, Generate(t)
        PROVE ContextTypes'
    <2>1. CASE RejectNoModel(t) \/ RejectChanged(t) \/ RejectCancelled(t)
      BY <2>1 DEF RejectNoModel, RejectChanged, RejectCancelled
    <2>2. CASE StartGeneration(t)
      <3>1. job[t].chat \in Chats \cup {NoChat}
        BY <2>2, HostAssumption DEF StartGeneration, GenInv, Working, TurnStates, JobSet
      <3>2. \A c \in Chats : disk[c] \in Files
        OBVIOUS
      <3>3. \A b \in InContext(job[t].chat) :
               /\ b.kv \in Kv /\ b.tokens \in Whose \cup {Nothing}
               /\ b.layout \in Whose \cup {Nothing}
        <4>1. Kept.kv \in Kv /\ Kept.tokens \in Whose \cup {Nothing}
              /\ Kept.layout \in Whose \cup {Nothing}
          BY DEF Kept
        <4>2. Lost.kv \in Kv /\ Lost.tokens \in Whose \cup {Nothing}
              /\ Lost.layout \in Whose \cup {Nothing}
          BY DEF Lost
        <4>3. \A f \in Files : f.kv # None =>
                 /\ ReadBack(f).kv \in Kv /\ ReadBack(f).tokens \in Whose \cup {Nothing}
                 /\ ReadBack(f).layout \in Whose \cup {Nothing}
          BY DEF ReadBack, Files
        <4> QED
          BY <3>1, <3>2, <4>1, <4>2, <4>3 DEF InContext, Restored
      <3>4. /\ kv' \in Kv /\ layout' \in Whose \cup {Nothing}
            /\ tokens' \in Whose \cup {Nothing}
        BY <2>2, <3>3 DEF StartGeneration
      <3>5. gen' \in Generations
        <4>1. MemoryKey \in MemoryKeys
          BY <2>2, MemoryKeyType DEF StartGeneration
        <4> QED
          BY <2>2, <4>1 DEF StartGeneration, Generations, LockTypes
      <3>6. owner' \in Whose
        BY <2>2, <3>1 DEF StartGeneration, Whose
      <3> QED
        BY <2>2, <3>4, <3>5, <3>6 DEF StartGeneration
    <2>3. ASSUME NEW ok \in BOOLEAN, pc[t] = "generating", EndGeneration(t, ok),
                 kv' \in Kv, layout' \in Whose \cup {Nothing},
                 tokens' \in Whose \cup {Nothing}
          PROVE ContextTypes'
      <3>1. job[t] \in JobSet /\ gen \in Generations
        BY <2>3, HostAssumption DEF GenInv, Working, TurnStates, RunsOnChosenModel
      <3>2. job[t].chat \in Chats \cup {NoChat} /\ gen.key \in MemoryKeys
        BY <3>1 DEF JobSet, Generations
      <3>3. unsaved' \in Whose
        BY <2>3, <3>2 DEF EndGeneration, Whose
      <3>4. disk' \in [Chats -> Files]
        <4>1. CASE UNCHANGED disk
          BY <4>1
        <4>2. CASE job[t].chat \in Chats
                   /\ Save(job[t].chat, gen.key, kv', tokens', layout')
          BY <2>3, <3>2, <4>2, SaveType
        <4> QED
          BY <2>3, <3>2, <4>1, <4>2 DEF EndGeneration
      <3> QED
        BY <2>3, <3>3, <3>4 DEF EndGeneration
    <2>4. pc[t] = "generating" =>
             fingerprint \in Keys /\ session \in KvTypes /\ job[t] \in JobSet
      BY HostAssumption DEF LockTypes, GenInv, RunsOnChosenModel, Working,
         TurnStates, SessionHasKey
    <2>5. pc[t] = "generating" => job[t].chat \in Whose
      BY <2>4 DEF JobSet, Whose
    <2>6. CASE TextAnswer(t) \/ MediaAnswer(t)
      <3>1. \A kind \in {"text", "media"}, reused \in BOOLEAN :
               Filled(t, kind, reused) \in Kv
        BY <2>4, <2>5, <2>6 DEF Filled, Kv, TextAnswer, MediaAnswer
      <3> QED
        BY <2>3, <2>5, <2>6, <3>1 DEF TextAnswer, MediaAnswer
    <2>7. CASE TextStopped(t) \/ TooLarge(t) \/ MediaError(t)
      BY <2>3, <2>7 DEF TextStopped, TooLarge, MediaError
    <2>8. CASE TextError(t)
      <3>1. [EmptyKv EXCEPT !.kind = "partial", !.key = fingerprint,
                            !.type = session] \in Kv
        BY <2>4, <2>8 DEF TextError, EmptyKv, Kv
      <3> QED
        BY <2>3, <2>8, <3>1 DEF TextError
    <2> QED
      BY <1>3, <2>1, <2>2, <2>6, <2>7, <2>8 DEF Generate
  <1>4. ASSUME NEW t \in Turns, Finish(t)
        PROVE ContextTypes'
    <2>1. CASE NextStep(t) \/ CloseAnswer(t) \/ FailTurn(t) \/ BeginUnload(t)
      BY <2>1 DEF NextStep, CloseAnswer, FailTurn, BeginUnload
    <2>2. ASSUME SaveChatMemory(t), job[t] \in JobSet
          PROVE unsaved' \in Whose /\ disk' \in [Chats -> Files]
      <3>1. CASE UNCHANGED saveVars
        BY <3>1
      <3>2. CASE session # None /\ job[t].chat # NoChat /\ unsaved' = NoChat
                 /\ Save(job[t].chat, MemoryKey, kv, tokens, layout)
        <4>1. job[t].chat \in Chats /\ MemoryKey \in MemoryKeys
          BY <2>2, <3>2, MemoryKeyType DEF JobSet
        <4> QED
          BY <3>2, <4>1, SaveType
      <3>3. CASE unsaved' = NoChat /\ UNCHANGED disk
        BY <3>3
      <3> QED
        BY <2>2, <3>1, <3>2, <3>3 DEF SaveChatMemory
    <2>3. CASE FinishTurn(t) \/ DropTurn(t)
      <3>1. job[t] \in JobSet
        BY <2>3, HostAssumption DEF FinishTurn, DropTurn, GenInv, Working, TurnStates
      <3> QED
        BY <2>2, <2>3, <3>1 DEF FinishTurn, DropTurn
    <2>4. CASE FinishUnload(t)
      BY <2>4 DEF FinishUnload, UnloadInner
    <2> QED
      BY <1>4, <2>1, <2>3, <2>4 DEF Finish
  <1>5. ASSUME NEW t \in Turns, Arrive(t) \/ LeaveLoaded(t) \/ LeaveTurn(t) \/ AskUnload(t)
        PROVE ContextTypes'
    BY <1>5 DEF Arrive, LeaveLoaded, LeaveTurn, AskUnload
  <1>6. CASE SwitchMemory \/ \E c \in Chats : DeleteMemory(c)
    BY <1>6 DEF SwitchMemory, DeleteMemory
  <1>7. CASE Restart
    BY <1>7 DEF Restart
  <1> QED
    BY <1>1, <1>2, <1>3, <1>4, <1>5, <1>6, <1>7 DEF Next

\* The inductive invariant: the types, the locks, and the bounds.
HostInv == /\ LockTypes /\ TransitionInv /\ GenInv
           /\ SessionHasKey /\ AttemptBound /\ StepBound
           /\ ContextTypes /\ ReportTypes

LEMMA HostInvInit == Init => HostInv
  <1> SUFFICES ASSUME Init PROVE HostInv
    OBVIOUS
  <1>1. LockTypes /\ TransitionInv /\ GenInv
    BY LockTypesInit, TransitionInvInit, GenInvInit
  <1>2. SessionHasKey
    BY DEF Init, SessionHasKey
  <1>3. AttemptBound
    BY DEF Init, AttemptBound
  <1>4. StepBound
    BY HostAssumption DEF Init, StepBound, Before
  <1>5. ContextTypes /\ ReportTypes
    BY EmptyTypes DEF Init, ContextTypes, ReportTypes
  <1> QED
    BY <1>1, <1>2, <1>3, <1>4, <1>5 DEF HostInv

LEMMA HostInvStep == HostInv /\ [Next]_vars => HostInv'
  BY LockTypesStep, TransitionInvStep, GenInvStep, SessionHasKeyStep,
     AttemptBoundStep, StepBoundStep, ContextTypesStep, ReportTypesStep
     DEF HostInv

\* Every variable keeps its type, for any number of turns, models and chats: no
\* load is tried more than three times, no turn generates more than it may, and
\* no save writes a record that names no model.
THEOREM TypeCorrect == Spec => []TypeOK
  <1>1. HostInv => TypeOK
    BY DEF HostInv, LockTypes, GenInv, AttemptBound, StepBound, ContextTypes,
       ReportTypes, TypeOK
  <1> QED
    BY <1>1, HostInvInit, HostInvStep, PTL DEF Spec

-----------------------------------------------------------------------------
\* Between generations, the chat that still has to be saved and owns the
\* context is the one whose conversation the KV cache holds.
UnsavedInv ==
    gen = None /\ unsaved # NoChat /\ owner = unsaved
    /\ kv.kind \in {"text", "media"} => kv.chat = unsaved

LEMMA MemoryStep ==
    ASSUME HostInv, UnsavedInv, MemoryIsOwnChat, [Next]_vars
    PROVE UnsavedInv' /\ MemoryIsOwnChat'
  <1> USE DEF loadVars, kvVars, saveVars
  <1>0. EmptyKv.kind = "empty" /\ NoFiles.kv = None
    BY DEF EmptyKv, NoFiles
  \* A save of the chat's own KV, complete or stopped half way.
  <1>1. ASSUME NEW c \in Chats, NEW k \in MemoryKeys, NEW v \in Kv,
               NEW ts, NEW lay, Save(c, k, v, ts, lay),
               v.kind \in {"text", "media"} => v.chat = c
        PROVE MemoryIsOwnChat'
    <2>1. \A n \in {0, 1, 2, 3} :
             LET w == Written(c, n, k, v, ts, lay)
             IN  w.kv # None /\ w.kv.kind \in {"text", "media"} => w.kv.chat = c
      BY <1>1 DEF Written, MemoryIsOwnChat
    <2>2. \A d \in Chats : disk'[d] = disk[d] \/ disk'[d].kv = None
             \/ (d = c /\ \E n \in {0, 1, 2, 3} : disk'[d] = Written(c, n, k, v, ts, lay))
      BY <1>0, <1>1 DEF Save, HostInv, ContextTypes
    <2> QED
      BY <2>1, <2>2 DEF MemoryIsOwnChat
  <1>2. UNCHANGED disk => MemoryIsOwnChat'
    BY DEF MemoryIsOwnChat
  <1>3. kv' = kv /\ owner' = owner /\ unsaved' \in {unsaved, NoChat} /\ gen' = gen
           => UnsavedInv'
    BY DEF UnsavedInv
  <1>4. kv' = EmptyKv \/ gen' # None => UnsavedInv'
    BY <1>0 DEF UnsavedInv
  <1>5. CASE UNCHANGED vars
    BY <1>2, <1>3, <1>5 DEF vars
  <1>6. ASSUME NEW t \in Turns, Load(t)
        PROVE UnsavedInv' /\ MemoryIsOwnChat'
    BY <1>2, <1>3, <1>4, <1>6 DEF Load, BeginEnsure, AlreadyLoaded, UnloadOld,
       FailLoad, PublishSession, Reload, SetPlan, UnloadInner
  <1>7. ASSUME NEW t \in Turns, Generate(t)
        PROVE UnsavedInv' /\ MemoryIsOwnChat'
    <2>1. CASE RejectNoModel(t) \/ RejectChanged(t) \/ RejectCancelled(t)
      BY <1>2, <1>3, <2>1 DEF RejectNoModel, RejectChanged, RejectCancelled
    <2>2. CASE StartGeneration(t)
      <3>1. gen' # None
        BY <2>2, HostInvStep, LockTypesStep, GenInvStep, HostAssumption
           DEF HostInv, GenInv, RunsOnChosenModel, StartGeneration, Goto,
               LockTypes, TurnStates
      <3> QED
        BY <1>2, <1>4, <2>2, <3>1 DEF StartGeneration
    <2>3. ASSUME NEW ok \in BOOLEAN, pc[t] = "generating", EndGeneration(t, ok),
                 ok /\ kv'.kind \in {"text", "media"} => kv'.chat = job[t].chat
          PROVE UnsavedInv' /\ MemoryIsOwnChat'
      <3>1. unsaved' = NoChat \/ (ok /\ unsaved' = job[t].chat)
        BY <2>3 DEF EndGeneration
      <3>2. UnsavedInv'
        BY <2>3, <3>1 DEF UnsavedInv
      <3>3. job[t] \in JobSet /\ gen.key \in MemoryKeys
        BY <2>3, HostAssumption DEF HostInv, GenInv, Working, TurnStates, LockTypes,
           RunsOnChosenModel, ContextTypes, Generations
      <3>4. CASE UNCHANGED disk
        BY <1>2, <3>2, <3>4
      <3>5. CASE ok /\ job[t].chat # NoChat
                 /\ Save(job[t].chat, gen.key, kv', tokens', layout')
        <4>1. job[t].chat \in Chats
          BY <3>3, <3>5 DEF JobSet
        <4>2. kv' \in Kv
          BY ContextTypesStep DEF HostInv, ContextTypes
        <4> QED
          BY <1>1, <2>3, <3>2, <3>3, <3>5, <4>1, <4>2
      <3> QED
        BY <2>3, <3>4, <3>5 DEF EndGeneration
    <2>4. CASE TextAnswer(t) \/ MediaAnswer(t)
      <3>1. \A kind, reused : Filled(t, kind, reused).chat = job[t].chat
        BY DEF Filled
      <3>2. /\ pc[t] = "generating" /\ EndGeneration(t, TRUE)
            /\ kv'.chat = job[t].chat
        BY <2>4, <3>1 DEF TextAnswer, MediaAnswer
      <3> QED
        BY <2>3, <3>2
    <2>5. CASE TextStopped(t) \/ TooLarge(t) \/ MediaError(t) \/ TextError(t)
      BY <1>0, <2>3, <2>5 DEF TextStopped, TooLarge, MediaError, TextError
    <2> QED
      BY <1>7, <2>1, <2>2, <2>4, <2>5 DEF Generate
  <1>8. ASSUME NEW t \in Turns, Finish(t)
        PROVE UnsavedInv' /\ MemoryIsOwnChat'
    <2>1. CASE NextStep(t) \/ CloseAnswer(t) \/ FailTurn(t) \/ BeginUnload(t)
      BY <1>2, <1>3, <2>1 DEF NextStep, CloseAnswer, FailTurn, BeginUnload
    <2>2. CASE FinishUnload(t)
      BY <1>2, <1>4, <2>2 DEF FinishUnload, UnloadInner
    <2>3. CASE FinishTurn(t) \/ DropTurn(t)
      <3>1. job[t] \in JobSet
        BY <2>3, HostAssumption DEF FinishTurn, DropTurn, HostInv, GenInv, LockTypes,
           Working, TurnStates
      <3>2. UnsavedInv'
        BY <1>3, <2>3 DEF FinishTurn, DropTurn, SaveChatMemory
      <3>3. CASE UNCHANGED disk
        BY <1>2, <3>2, <3>3
      <3>4. CASE /\ gen = None /\ session # None /\ job[t].chat # NoChat
                 /\ unsaved = job[t].chat /\ owner = job[t].chat
                 /\ Save(job[t].chat, MemoryKey, kv, tokens, layout)
        <4>1. job[t].chat \in Chats /\ kv \in Kv
          BY <3>1, <3>4 DEF JobSet, HostInv, ContextTypes
        <4>2. MemoryKey \in MemoryKeys
          BY <3>4, MemoryKeyType DEF HostInv
        <4>3. kv.kind \in {"text", "media"} => kv.chat = job[t].chat
          BY <3>4 DEF UnsavedInv
        <4> QED
          BY <1>1, <3>2, <3>4, <4>1, <4>2, <4>3
      <3> QED
        BY <2>3, <3>3, <3>4 DEF FinishTurn, DropTurn, SaveChatMemory, SessionFree
    <2> QED
      BY <1>8, <2>1, <2>2, <2>3 DEF Finish
  <1>9. ASSUME NEW t \in Turns, Arrive(t) \/ LeaveLoaded(t) \/ LeaveTurn(t) \/ AskUnload(t)
        PROVE UnsavedInv' /\ MemoryIsOwnChat'
    BY <1>2, <1>3, <1>9 DEF Arrive, LeaveLoaded, LeaveTurn, AskUnload
  <1>10. CASE SwitchMemory
    BY <1>2, <1>3, <1>10 DEF SwitchMemory
  <1>11. ASSUME NEW c \in Chats, DeleteMemory(c)
         PROVE UnsavedInv' /\ MemoryIsOwnChat'
    BY <1>0, <1>3, <1>11 DEF DeleteMemory, MemoryIsOwnChat, HostInv, ContextTypes
  <1>12. CASE Restart
    BY <1>2, <1>4, <1>12 DEF Restart
  <1> QED
    BY <1>5, <1>6, <1>7, <1>8, <1>9, <1>10, <1>11, <1>12 DEF Next

\* A chat's memory on disk never holds another chat's conversation, wherever a
\* save stops and whichever requests run between a chat's last generation and
\* its save.
THEOREM MemoryIsItsChats == Spec => []MemoryIsOwnChat
  <1>1. Init => UnsavedInv /\ MemoryIsOwnChat
    BY DEF Init, UnsavedInv, MemoryIsOwnChat, NoFiles
  <1>2. HostInv /\ UnsavedInv /\ MemoryIsOwnChat /\ [Next]_vars
           => (UnsavedInv /\ MemoryIsOwnChat)'
    BY MemoryStep
  <1> QED
    BY <1>1, <1>2, HostInvInit, HostInvStep, PTL DEF Spec

-----------------------------------------------------------------------------
(* The KV cache, and what is said of it.  A save that stops half way leaves  *)
(* files that contradict each other, so what follows is for saves that end.  *)

\* A chat's files are those of one save: the record names the model of the KV,
\* and the lists describe it.
FilesFit(f) ==
    f.kv # None =>
        /\ f.kv.kind # "empty" => f.kv.key = f.record.key
        /\ f.layout # Nothing => f.kv.kind = "media" /\ f.kv.chat = f.layout
        /\ f.layout = Nothing /\ f.tokens # Nothing => f.kv.kind = "text" /\ f.kv.chat = f.tokens

\* A generation starts from one list at most, and its memory key names the
\* resident model until it ends.
OneList ==
    \A t \in Turns : pc[t] = "generating" =>
        /\ gen.key.key = fingerprint
        /\ job[t].media => tokens = Nothing
        /\ ~job[t].media => layout = Nothing

KvInv ==
    /\ ListDescribesKv /\ KvOfResidentModel /\ OneList
    /\ \A c \in Chats : FilesFit(disk[c])

\* Whatever the step, the KV and its lists stay, or they are emptied.
LEMMA KvAside ==
    ASSUME HostInv, HostInv', KvInv,
           \/ UNCHANGED <<kv, tokens, layout, fingerprint>>
           \/ kv' = EmptyKv /\ tokens' = Nothing /\ layout' = Nothing
           \/ UNCHANGED <<kv, layout, fingerprint>> /\ tokens' = Nothing,
           \A t \in Turns : pc'[t] = "generating" => pc[t] = "generating" /\ job'[t] = job[t]
                                                     /\ gen' = gen /\ fingerprint' = fingerprint
    PROVE  ListDescribesKv' /\ KvOfResidentModel' /\ OneList'
  <1>1. EmptyKv.kind = "empty"
    BY DEF EmptyKv
  <1>2. ListDescribesKv' /\ KvOfResidentModel'
    BY <1>1 DEF KvInv, ListDescribesKv, KvOfResidentModel
  <1>3. OneList'
    BY DEF KvInv, OneList
  <1> QED
    BY <1>2, <1>3

\* A save of what the context holds.
LEMMA SaveFits ==
    ASSUME HostInv, KvInv, ~SavesMayStop, NEW c \in Chats, NEW k, NEW v, NEW ts, NEW lay,
           Save(c, k, v, ts, lay),
           v.kind # "empty" => v.key = k.key,
           lay # Nothing => v.kind = "media" /\ v.chat = lay,
           ts # Nothing => v.kind = "text" /\ v.chat = ts
    PROVE  \A d \in Chats : FilesFit(disk'[d])
  <1>1. PICK gone \in SUBSET Chats :
          disk' = [d \in Chats |-> IF d \in gone THEN NoFiles
                                   ELSE IF d = c THEN Written(c, 3, k, v, ts, lay)
                                   ELSE disk[d]]
    BY DEF Save
  <1>2. Written(c, 3, k, v, ts, lay) = [kv |-> v, tokens |-> ts, layout |-> lay, record |-> k]
    BY DEF Written
  <1>3. FilesFit(NoFiles)
    BY DEF FilesFit, NoFiles
  <1>4. FilesFit([kv |-> v, tokens |-> ts, layout |-> lay, record |-> k])
    BY DEF FilesFit
  <1> QED
    BY <1>1, <1>2, <1>3, <1>4 DEF KvInv

\* What a generation finds in the context, restored or not, is of the resident
\* model, and its lists describe it.
LEMMA RestoredFits ==
    ASSUME HostInv, KvInv, NEW c \in Whose, NEW b \in InContext(c)
    PROVE  /\ b.kv.kind # "empty" => b.kv.key = fingerprint
           /\ b.layout # Nothing => b.kv.kind = "media" /\ b.kv.chat = b.layout
           /\ b.tokens # Nothing => b.kv.kind = "text" /\ b.kv.chat = b.tokens
  <1>1. CASE b = Kept
    BY <1>1 DEF Kept, KvInv, ListDescribesKv, KvOfResidentModel
  <1>2. CASE b = Lost
    BY <1>2 DEF Lost, EmptyKv
  <1>3. CASE c \in Chats /\ b = ReadBack(disk[c]) /\ disk[c].record = MemoryKey /\ disk[c].kv # None
    <2>1. FilesFit(disk[c]) /\ disk[c].record.key = fingerprint
      BY <1>3 DEF KvInv, MemoryKey
    <2> QED
      BY <1>3, <2>1 DEF FilesFit, ReadBack
  <1> QED
    BY <1>1, <1>2, <1>3 DEF InContext, Restored, Whose

LEMMA KvStep ==
    ASSUME ~SavesMayStop, HostInv, HostInv', KvInv, [Next]_vars
    PROVE  KvInv'
  <1> USE DEF loadVars, kvVars, saveVars, turnVars
  <1>1. disk' = disk => \A c \in Chats : FilesFit(disk'[c])
    BY DEF KvInv
  <1>2. pc \in [Turns -> TurnStates] /\ job \in [Turns -> Jobs \cup {None}]
    BY DEF HostInv, LockTypes, GenInv
  <1>3. CASE UNCHANGED vars
    <2>1. ListDescribesKv' /\ KvOfResidentModel' /\ OneList'
      BY <1>3, KvAside DEF vars
    <2> QED
      BY <1>1, <1>3, <2>1 DEF vars, KvInv
  <1>4. ASSUME NEW t \in Turns, Load(t) \/ Arrive(t) \/ LeaveLoaded(t) \/ LeaveTurn(t) \/ AskUnload(t)
        PROVE  KvInv'
    <2>1. /\ disk' = disk /\ gen' = gen
          /\ \/ UNCHANGED <<kv, tokens, layout, fingerprint>>
             \/ kv' = EmptyKv /\ tokens' = Nothing /\ layout' = Nothing /\ gen = None
      BY <1>4 DEF Load, BeginEnsure, AlreadyLoaded, UnloadOld, FailLoad, PublishSession, Reload,
                  SetPlan, UnloadInner, SessionFree, Arrive, LeaveLoaded, LeaveTurn, AskUnload
    <2>2. \A u \in Turns : pc'[u] = "generating" => pc[u] = "generating" /\ job'[u] = job[u]
      BY <1>2, <1>4 DEF Load, BeginEnsure, AlreadyLoaded, UnloadOld, FailLoad, PublishSession,
                  Reload, SetPlan, Arrive, LeaveLoaded, LeaveTurn, AskUnload, End, Goto
    <2>3. \A u \in Turns : pc[u] = "generating" => gen # None
      BY DEF HostInv, GenInv, RunsOnChosenModel
    <2>4. ListDescribesKv' /\ KvOfResidentModel' /\ OneList'
      BY <2>1, <2>2, <2>3, KvAside
    <2> QED
      BY <1>1, <2>1, <2>4 DEF KvInv
  <1>5. ASSUME NEW t \in Turns, RejectNoModel(t) \/ RejectChanged(t) \/ RejectCancelled(t)
        PROVE  KvInv'
    <2>1. /\ disk' = disk /\ gen' = gen /\ UNCHANGED <<kv, layout, fingerprint, job>>
          /\ tokens' = tokens \/ tokens' = Nothing
      BY <1>5 DEF RejectNoModel, RejectChanged, RejectCancelled
    <2>2. \A u \in Turns : pc'[u] = "generating" => pc[u] = "generating"
      BY <1>2, <1>5 DEF RejectNoModel, RejectChanged, RejectCancelled, Goto
    <2>3. ListDescribesKv' /\ KvOfResidentModel' /\ OneList'
      BY <2>1, <2>2, KvAside
    <2> QED
      BY <1>1, <2>1, <2>3 DEF KvInv
  <1>6. ASSUME NEW t \in Turns, StartGeneration(t)
        PROVE  KvInv'
    <2>1. job[t] \in JobSet /\ job[t].chat \in Whose
      BY <1>2, <1>6, HostAssumption DEF StartGeneration, HostInv, GenInv, Working, TurnStates,
             JobSet, Whose
    <2>2. PICK b \in InContext(job[t].chat) :
            IF job[t].media
            THEN kv' = b.kv /\ layout' = b.layout /\ tokens' = Nothing
            ELSE /\ kv' = IF b.tokens = Nothing THEN EmptyKv ELSE b.kv
                 /\ layout' = Nothing /\ tokens' = b.tokens
      BY <1>6 DEF StartGeneration
    <2>3. /\ b.kv.kind # "empty" => b.kv.key = fingerprint
          /\ b.layout # Nothing => b.kv.kind = "media" /\ b.kv.chat = b.layout
          /\ b.tokens # Nothing => b.kv.kind = "text" /\ b.kv.chat = b.tokens
          /\ EmptyKv.kind = "empty"
      BY <2>1, RestoredFits DEF EmptyKv
    <2>4. /\ fingerprint' = fingerprint /\ job' = job /\ disk' = disk /\ gen = None
          /\ gen'.key.key = fingerprint /\ pc' = [pc EXCEPT ![t] = "generating"]
      BY <1>6 DEF StartGeneration, SessionFree, MemoryKey, Goto
    <2>5. \A u \in Turns : pc'[u] = "generating" => u = t
      BY <1>2, <2>4 DEF HostInv, GenInv, RunsOnChosenModel
    <2>6. ListDescribesKv' /\ KvOfResidentModel'
      BY <2>2, <2>3, <2>4 DEF ListDescribesKv, KvOfResidentModel
    <2>7. OneList'
      BY <2>1, <2>2, <2>4, <2>5 DEF OneList, JobSet
    <2> QED
      BY <1>1, <2>4, <2>6, <2>7 DEF KvInv
  \* The end of a generation that leaves the context as it should be.
  <1>7. ASSUME NEW t \in Turns, NEW ok \in BOOLEAN, pc[t] = "generating", EndGeneration(t, ok),
               ListDescribesKv', KvOfResidentModel'
        PROVE  KvInv'
    <2>1. /\ fingerprint' = fingerprint /\ job' = job
          /\ gen # None /\ gen.turn = t /\ gen.key.key = fingerprint
          /\ job[t] \in JobSet
      BY <1>7, HostAssumption DEF EndGeneration, HostInv, GenInv, RunsOnChosenModel, KvInv, OneList,
             Working, TurnStates
    <2>2. \A u \in Turns : pc'[u] # "generating"
      BY <1>2, <1>7, <2>1 DEF EndGeneration, Goto, HostInv, GenInv, RunsOnChosenModel
    <2>3. OneList'
      BY <2>2 DEF OneList
    <2>4. CASE disk' = disk
      BY <1>1, <1>7, <2>3, <2>4 DEF KvInv
    <2>5. CASE job[t].chat # NoChat /\ Save(job[t].chat, gen.key, kv', tokens', layout')
      <3>1. job[t].chat \in Chats
        BY <2>1, <2>5 DEF JobSet
      <3>2. \A d \in Chats : FilesFit(disk'[d])
        BY <1>7, <2>1, <2>5, <3>1, SaveFits DEF ListDescribesKv, KvOfResidentModel
      <3> QED
        BY <1>7, <2>3, <3>2 DEF KvInv
    <2> QED
      BY <1>7, <2>4, <2>5 DEF EndGeneration
  <1>8. ASSUME NEW t \in Turns, TextAnswer(t) \/ TextStopped(t) \/ TooLarge(t) \/ TextError(t)
                                \/ MediaAnswer(t) \/ MediaError(t)
        PROVE  KvInv'
    <2>1. pc[t] = "generating" /\ \E ok \in BOOLEAN : EndGeneration(t, ok)
      BY <1>8 DEF TextAnswer, TextStopped, TooLarge, TextError, MediaAnswer, MediaError
    <2>2. /\ fingerprint' = fingerprint
          /\ ListDescribesKv /\ KvOfResidentModel
          /\ job[t].media => tokens = Nothing
          /\ ~job[t].media => layout = Nothing
      BY <2>1 DEF EndGeneration, KvInv, OneList
    <2>3. /\ EmptyKv.kind = "empty"
          /\ [EmptyKv EXCEPT !.kind = "partial", !.key = fingerprint, !.type = session].kind = "partial"
          /\ [EmptyKv EXCEPT !.kind = "partial", !.key = fingerprint, !.type = session].key = fingerprint
      BY DEF EmptyKv
    <2>4. \A kind, reused : /\ Filled(t, kind, reused).kind = kind
                            /\ Filled(t, kind, reused).chat = job[t].chat
                            /\ Filled(t, kind, reused).key = IF reused THEN kv.key ELSE fingerprint
      BY DEF Filled
    <2>5. ListDescribesKv' /\ KvOfResidentModel'
      <3>1. CASE TextAnswer(t)
        BY <2>2, <2>4, <3>1 DEF TextAnswer, ListDescribesKv, KvOfResidentModel
      <3>2. CASE MediaAnswer(t)
        BY <2>2, <2>4, <3>2 DEF MediaAnswer, ListDescribesKv, KvOfResidentModel
      <3>3. CASE TextStopped(t) \/ TooLarge(t) \/ TextError(t) \/ MediaError(t)
        BY <2>2, <2>3, <3>3 DEF TextStopped, TooLarge, TextError, MediaError, ListDescribesKv,
                                KvOfResidentModel
      <3> QED
        BY <1>8, <3>1, <3>2, <3>3
    <2> QED
      BY <1>7, <2>1, <2>5
  <1>9. ASSUME NEW t \in Turns, Finish(t)
        PROVE  KvInv'
    <2>1. /\ gen' = gen
          /\ \/ UNCHANGED <<kv, tokens, layout, fingerprint>>
             \/ kv' = EmptyKv /\ tokens' = Nothing /\ layout' = Nothing /\ gen = None
      BY <1>9 DEF Finish, NextStep, CloseAnswer, FinishTurn, FailTurn, DropTurn, BeginUnload,
                  FinishUnload, UnloadInner, SessionFree
    <2>2. \A u \in Turns : pc'[u] = "generating" => pc[u] = "generating" /\ job'[u] = job[u]
      <3>1. CASE BeginUnload(t)
        BY <1>2, <3>1 DEF BeginUnload, Goto
      <3>2. CASE FinishTurn(t)
        BY <1>2, <3>2 DEF FinishTurn, Retain, End, Goto
      <3>3. CASE NextStep(t) \/ CloseAnswer(t) \/ FailTurn(t) \/ DropTurn(t) \/ FinishUnload(t)
        BY <1>2, <3>3 DEF NextStep, CloseAnswer, FailTurn, DropTurn, FinishUnload, End, Goto
      <3> QED
        BY <1>9, <3>1, <3>2, <3>3 DEF Finish
    <2>3. \A u \in Turns : pc[u] = "generating" => gen # None
      BY DEF HostInv, GenInv, RunsOnChosenModel
    <2>4. ListDescribesKv' /\ KvOfResidentModel' /\ OneList'
      BY <2>1, <2>2, <2>3, KvAside
    <2>5. CASE disk' = disk
      BY <1>1, <2>4, <2>5 DEF KvInv
    <2>6. CASE job[t].chat # NoChat /\ Save(job[t].chat, MemoryKey, kv, tokens, layout)
               /\ pc[t] \in {"closed", "dropped"}
      <3>1. job[t].chat \in Chats /\ MemoryKey.key = fingerprint
        BY <2>6, HostAssumption DEF HostInv, GenInv, Working, TurnStates, JobSet, MemoryKey
      <3>2. \A d \in Chats : FilesFit(disk'[d])
        BY <2>6, <3>1, SaveFits DEF KvInv, ListDescribesKv, KvOfResidentModel
      <3> QED
        BY <2>4, <3>2 DEF KvInv
    <2> QED
      BY <1>9, <2>5, <2>6 DEF Finish, NextStep, CloseAnswer, FinishTurn, FailTurn, DropTurn,
                  BeginUnload, FinishUnload, SaveChatMemory
  <1>10. CASE SwitchMemory \/ (\E c \in Chats : DeleteMemory(c)) \/ Restart
    <2>1. ListDescribesKv' /\ KvOfResidentModel' /\ OneList'
      BY <1>10, KvAside DEF SwitchMemory, DeleteMemory, Restart
    <2>2. FilesFit(NoFiles)
      BY DEF FilesFit, NoFiles
    <2>3. \A c \in Chats : FilesFit(disk'[c])
      BY <1>1, <1>10, <2>2 DEF SwitchMemory, DeleteMemory, Restart, KvInv, HostInv, ContextTypes
    <2> QED
      BY <2>1, <2>3 DEF KvInv
  <1> QED
    BY <1>3, <1>4, <1>5, <1>6, <1>8, <1>9, <1>10 DEF Next, Generate

LEMMA KvHolds ==
    ASSUME ~SavesMayStop
    PROVE  Spec => []KvInv
  <1>1. Init => KvInv
    BY DEF Init, KvInv, ListDescribesKv, KvOfResidentModel, OneList, FilesFit, NoFiles, EmptyKv
  <1>2. HostInv /\ HostInv' /\ KvInv /\ [Next]_vars => KvInv'
    BY KvStep
  <1> QED
    BY <1>1, <1>2, HostInvInit, HostInvStep, PTL DEF Spec

\* When saves end whole, the token list and the media layout always describe
\* what the KV cache holds, after failed, stopped and rejected generations,
\* restored memories and reloads.
THEOREM ListsDescribeTheKv ==
    ASSUME ~SavesMayStop
    PROVE  Spec => []ListDescribesKv
  <1>1. KvInv => ListDescribesKv
    BY DEF KvInv
  <1> QED
    BY <1>1, KvHolds, PTL

\* When saves end whole, no KV of another model is ever in the context of the
\* resident one: the record that is compared on a restore is of the same save
\* as the KV it vouches for.
THEOREM KvIsOfResidentModel ==
    ASSUME ~SavesMayStop
    PROVE  Spec => []KvOfResidentModel
  <1>1. KvInv => KvOfResidentModel
    BY DEF KvInv
  <1> QED
    BY <1>1, KvHolds, PTL
=============================================================================
