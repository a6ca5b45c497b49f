----------------------------- MODULE Placement -----------------------------
(* How a chat model comes onto the GPU: EngineHost::ensure_loaded and         *)
(* load_model_inner (engine/runtime/src/host.rs) with the planner, what       *)
(* llama.cpp does when a placement does not fit, and what is measured and     *)
(* kept for the next plan (engine/plan/src/margin.rs). One request is in the  *)
(* transition at a time (EngineHost); what moves beside it is the memory that *)
(* other programs take and give back.                                        *)
EXTENDS Planner

CONSTANTS
    Model,       \* the model's sizes (see Planner)
    Settings,    \* settings requests may come with
    Vram,        \* memory of the GPU
    Ram,         \* RAM the planner may use
    Unified,     \* is the memory of the GPU the RAM
    Reserve,     \* what is left to the desktop once a model is measured
    DryGaps,     \* a dry run of the model may differ from the estimate by these
    ExtraGaps,   \* and the loaded model from the dry run by these
    IdleBytes,   \* what the idle models take
    Growth,      \* the pool may grow by this much while the model is used
    AppSizes,    \* bound: memory other programs may take
    MaxChanges   \* bound: how often that changes

VARIABLES
    apps, idle,  \* memory other programs take; that of idle models of the process
    changes,     \* how often the former changed
    real,        \* what the model really takes beyond the estimate
    pool, correction, \* what was measured of it (pool:, proj2:)
    load,        \* the request in the transition, or None: where it is, its settings,
                 \* the free memory it was planned for and what it found when the
                 \* load began, was the model unmeasured, which load of the request
                 \* it is (first, a better or a safer placement), the placement
    resident,    \* what the loaded model takes and whether that grew, or None
    use,         \* gpu_use: what was free before the load and what was planned
    missed       \* history: the placements recorded not to fit, with what was free

vars == <<apps, idle, changes, real, pool, correction, load, resident, use, missed>>

machineVars == <<apps, changes, real>>

Taken == IF resident = None THEN 0 ELSE resident.taken
FreeVram == Most(Vram - apps - idle - Taken, 0)

\* The plan for the free memory, the settings and what was measured.
PlanFor(free, s, gap, dry) ==
    CreatePlan(Model,
        [gpu |-> Vram > 0, vram |-> free, ram |-> Ram, unified |-> Unified, reserve |-> Reserve],
        s, [pool |-> gap, correction |-> dry])

\* The bytes of the planned placement with a number of layers on the GPU, and
\* what it takes there: nothing on the CPU, else more than the estimate.
Bytes(ngl) ==
    LET p == load.plan
    IN  Place(Model, ngl, p.moe, p.kqv, p.ctx, p.kv, Most(Model.logits + real.dry, 0), Unified)
Takes(ngl) == IF ngl = 0 THEN 0 ELSE Most(Bytes(ngl).vram + real.extra, 0)

Init ==
    /\ apps \in AppSizes /\ idle \in {0, IdleBytes} /\ changes = 0
    /\ apps + idle <= Vram
    /\ real \in [dry : DryGaps, extra : ExtraGaps]
    /\ pool = None /\ correction = None
    /\ load = None /\ resident = None /\ use = None
    /\ missed = {}

-----------------------------------------------------------------------------
(* What is measured.                                                       *)

\* Faulty: the last gap is kept.
RecordLast(gap) == gap

\* The largest gap seen is kept (margin::record_key).
Record(gap) == IF pool # None /\ pool >= gap THEN pool ELSE gap

\* The dry run of an unmeasured model (learn_correction), which may fail.
DryRun(s) ==
    IF correction = None /\ Vram > 0 /\ s.ngl # 0
    THEN correction' \in {None, real.dry}
    ELSE UNCHANGED correction

-----------------------------------------------------------------------------
(* ensure_loaded.                                                          *)

\* The model is resident with these settings: what it takes by now is learned,
\* unless an idle model of the process would be counted as its use.
AlreadyLoaded ==
    /\ load = None /\ resident # None
    /\ use # None /\ idle = 0
    /\ pool' = Record(use.free - FreeVram - use.planned)
    /\ UNCHANGED <<machineVars, idle, correction, load, resident, use, missed>>

\* Plan for the memory there is. When the chat would not be on the GPU, or with
\* less than the floor, the idle models are freed (a busy one is not) and it is
\* planned again.
Request(s) ==
    /\ load = None /\ resident = None
    /\ DryRun(s)
    /\ LET first == PlanFor(FreeVram, s, pool, correction')
           short == Vram > 0 /\ s.ngl # 0
                    /\ (first.tier # "gpu" \/ (s.context = "auto"
                            /\ first.ctx < Least(Model.native, ContextFloor)))
           free == Most(Vram - apps - idle', 0)
           plan == PlanFor(free, s, pool, correction')
       IN  /\ idle' \in IF short THEN {idle, 0} ELSE {idle}
           /\ load' = IF Feasible(plan)
                      THEN [at |-> "planned", settings |-> s, hw |-> free, seen |-> free,
                            fresh |-> pool = None, stage |-> "first", plan |-> plan]
                      ELSE None
    /\ UNCHANGED <<machineVars, pool, resident, use, missed>>

-----------------------------------------------------------------------------
(* load_model_inner.                                                       *)

At(step) == load # None /\ load.at = step

\* The machine is looked at again before the load.
BeginLoad ==
    /\ At("planned")
    /\ load' = [load EXCEPT !.at = "loading", !.seen = FreeVram]
    /\ UNCHANGED <<machineVars, idle, pool, correction, resident, use, missed>>

\* llama.cpp (NativeLlama::load): weights that do not fit are tried with half
\* the layers, then on the CPU when the file fits the RAM. The context has to
\* fit beside them.
WeightsFit(ngl) == ngl = 0 \/ Bytes(ngl).weights <= FreeVram
LoadedLayers ==
    LET ngl == load.plan.ngl
    IN  CASE WeightsFit(ngl) -> ngl
          [] ~WeightsFit(ngl) /\ ngl > 1 /\ WeightsFit(ngl \div 2) -> ngl \div 2
          [] OTHER -> 0
FellBack == LoadedLayers # load.plan.ngl
Loads ==
    /\ Takes(LoadedLayers) <= FreeVram
    /\ LoadedLayers = 0 /\ FellBack => Model.input + Model.output + BlockBytes(Model) <= Ram

\* The failed placement needed at least all that was free.
Missed ==
    /\ pool' = Record(load.seen - load.plan.vram)
    /\ missed' = missed \cup {[vram |-> load.plan.vram, free |-> load.seen]}

\* Faulty: measured before the warmup with a full batch.
TookBeforeWarmup(taken) == Most(load.seen - (FreeVram - (taken - real.extra)), 0)

\* What is free after the load against what was before.
Took(taken) == Most(load.seen - (FreeVram - taken), 0)

\* A load that succeeds is measured; one that fell back is a miss.
Succeed ==
    /\ At("loading") \/ At("retrying")
    /\ Loads
    /\ LET taken == Takes(LoadedLayers)
           delta == Took(taken)
           measured == ~FellBack /\ load.plan.ngl # 0 /\ delta > 0
       IN  /\ resident' = [taken |-> taken, grown |-> FALSE]
           /\ use' = IF measured THEN [free |-> load.seen, planned |-> load.plan.vram] ELSE None
           /\ IF FellBack THEN Missed
              ELSE /\ pool' = IF measured THEN Record(delta - load.plan.vram) ELSE pool
                   /\ UNCHANGED missed
    /\ load' = [load EXCEPT !.at = "settle", !.plan.ngl = LoadedLayers,
                            !.plan.tier = IF FellBack /\ LoadedLayers = 0 THEN "cpu" ELSE @]
    /\ UNCHANGED <<machineVars, idle, correction>>

\* after_failed_load: a placement on the GPU that was not the user's is recorded,
\* and what is planned now is tried when it differs.
Differs(a, b) == a.ngl # b.ngl \/ a.ctx # b.ctx \/ a.moe # b.moe \/ a.kv # b.kv \/ a.kqv # b.kqv

Fail ==
    /\ At("loading") /\ ~Loads
    /\ IF load.plan.ngl = 0 \/ load.settings.ngl # None \/ load.settings.moe # None
       THEN load' = None /\ UNCHANGED <<pool, missed>>
       ELSE /\ Missed
            /\ LET next == PlanFor(FreeVram, load.settings, pool', correction)
               IN  load' = IF Feasible(next) /\ Differs(next, load.plan)
                           THEN [load EXCEPT !.at = "retrying", !.plan = next]
                           ELSE None
    /\ UNCHANGED <<machineVars, idle, correction, resident, use>>

\* A second failure is the answer, and is not recorded.
FailAgain ==
    /\ At("retrying") /\ ~Loads
    /\ load' = None
    /\ UNCHANGED <<machineVars, idle, pool, correction, resident, use, missed>>

-----------------------------------------------------------------------------
(* After the load: the first measurement may allow a better placement.      *)

IsBetter(new, now) ==
    \/ GpuBlocks(Model, new.ngl) > GpuBlocks(Model, now.ngl)
    \/ GpuBlocks(Model, new.ngl) = GpuBlocks(Model, now.ngl) /\ new.ctx > now.ctx

\* Is the placement planned with what is known now loaded instead: a better one
\* after the first measurement, and another if that one leaves too little.
Replaces(next) ==
    /\ Feasible(next)
    /\ \/ load.stage = "first" /\ load.fresh /\ pool # None /\ IsBetter(next, load.plan)
       \/ load.stage = "better" /\ FreeVram < Reserve

Settle ==
    /\ At("settle")
    /\ LET next == PlanFor(load.hw, load.settings, pool, correction)
       IN  IF Replaces(next)
           THEN /\ load' = [load EXCEPT !.at = "planned", !.plan = next,
                                !.stage = IF load.stage = "first" THEN "better" ELSE "safe"]
                /\ resident' = None /\ use' = None
           ELSE load' = None /\ UNCHANGED <<resident, use>>
    /\ UNCHANGED <<machineVars, idle, pool, correction, missed>>

\* keep_alive, the owner or a request with other settings unloads.
Unload ==
    /\ load = None /\ resident # None
    /\ resident' = None /\ use' = None
    /\ UNCHANGED <<machineVars, idle, pool, correction, load, missed>>

-----------------------------------------------------------------------------
(* The rest of the machine.                                                *)

\* Other programs take memory or give it back.
Apps(n) ==
    /\ changes < MaxChanges /\ changes' = changes + 1
    /\ n # apps /\ n <= apps + FreeVram /\ apps' = n
    /\ UNCHANGED <<real, idle, pool, correction, load, resident, use, missed>>

\* The GPU pool of the loaded model grows with longer prompts.
Grow ==
    /\ load = None /\ resident # None
    /\ resident.taken > 0 /\ ~resident.grown /\ FreeVram >= Growth
    /\ resident' = [taken |-> resident.taken + Growth, grown |-> TRUE]
    /\ UNCHANGED <<machineVars, idle, pool, correction, load, use, missed>>

Next ==
    \/ \E s \in Settings : Request(s)
    \/ BeginLoad \/ Succeed \/ Fail \/ FailAgain \/ Settle
    \/ AlreadyLoaded \/ Unload \/ Grow
    \/ \E n \in AppSizes : Apps(n)

Spec == Init /\ [][Next]_vars

-----------------------------------------------------------------------------
(* Correctness.                                                            *)

TypeOK ==
    /\ apps \in AppSizes /\ idle \in {0, IdleBytes} /\ changes \in 0..MaxChanges
    /\ pool \in Int \cup {None} /\ correction \in DryGaps \cup {None}
    /\ load # None =>
          /\ load.at \in {"planned", "loading", "retrying", "settle"}
          /\ load.stage \in {"first", "better", "safe"}
          /\ (resident # None) <=> (load.at = "settle")
    /\ use # None => resident # None
    /\ apps + idle + Taken <= Vram

\* Nothing of the placement is the user's (is_manual_placement), nor the buffer.
Automatic(s) == s.buffer = None /\ s.ngl = None /\ s.moe = None /\ s.kqv = None

\* "it needed at least all the VRAM that was free, so the next plan for this
\* model and settings leaves room for that and does not fail again": what is
\* planned after a recorded miss, in no more memory, takes less than what missed,
\* whatever was measured in between.
MissesAreLearned ==
    [][load' # None /\ load'.plan # (IF load = None THEN None ELSE load.plan)
       /\ load'.at \in {"planned", "retrying"} /\ Automatic(load'.settings)
       => LET free == IF load'.at = "planned" THEN load'.hw ELSE FreeVram
          IN  \A miss \in missed' : free <= miss.free => load'.plan.vram < miss.vram]_vars

\* "Share of the GPU's total memory left for the desktop and other apps once a
\* model's real size is known": a model whose load was measured before is loaded
\* with the reserve left, while other programs leave the memory alone. (A miss is
\* only a lower bound; a dry run below the estimate that comes after the first
\* measurement is subtracted twice.)
ReserveIsLeft ==
    [][At("settle") /\ load' = None /\ Automatic(load.settings) /\ ~load.fresh
       /\ use # None /\ changes = 0 /\ missed = {} /\ (correction = None \/ correction >= 0)
       => FreeVram >= Reserve]_vars
=============================================================================
