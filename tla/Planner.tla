------------------------------ MODULE Planner ------------------------------
(* Where a chat model is placed (engine/plan/src/planner.rs): from the model's *)
(* sizes, the free memory, the settings and what was measured, the context,   *)
(* the KV type and the blocks on the GPU. Everything here is a pure operator; *)
(* Placement is the machine that uses it.                                    *)
(*                                                                           *)
(* Sizes are natural numbers of one unit, contexts numbers of one grid.       *)
(* Speeds measured by the bench (STEP 4) are left out: a model that was never *)
(* benched keeps the rule order.                                             *)
EXTENDS Integers, Sequences, SequencesExt

CONSTANTS
    ContextMin,     \* AUTO_CONTEXT_MIN
    ContextFloor,   \* AUTO_CONTEXT_FLOOR
    SplitContext,   \* AUTO_SPLIT_CONTEXT
    ContextTarget,  \* AUTO_CONTEXT_TARGET
    RuleBuffers,    \* the default VRAM buffer and the least one
    KvSize,         \* bytes of one KV element of each type
    None

Least(a, b) == IF a < b THEN a ELSE b
Most(a, b) == IF a > b THEN a ELSE b
Total(sizes) ==
    LET upTo[i \in 0..Len(sizes)] == IF i = 0 THEN 0 ELSE upTo[i - 1] + sizes[i]
    IN  upTo[Len(sizes)]

\* A model: its blocks [weights, experts, kv], its context limit, and the bytes
\* of the input embeddings, the output head, the copy of it when it is tied to
\* the input, and the logits buffer.
Blocks(g) == Len(g.blocks)
Experts(g) == Total([l \in 1..Blocks(g) |-> g.blocks[l].experts])
BlockBytes(g) == Total([l \in 1..Blocks(g) |-> g.blocks[l].weights]) + Experts(g)
FullGpu(g) == g.output + BlockBytes(g) + g.tied
KvLayer(g, l, ctx, kv) == g.blocks[l].kv * KvSize[kv] * ctx
KvCache(g, ctx, kv) == Total([l \in 1..Blocks(g) |-> KvLayer(g, l, ctx, kv)])

\* What may be used of free memory when a buffer is kept; a measured one is
\* negative when the model took less than was estimated.
Usable(free, buffer) == Most(free - buffer, 0)

\* The buffers to try: the user's, else the one measured for this model with
\* the desktop's reserve, else those of the rule.
BufferOptions(s, pool, reserve) ==
    CASE s.buffer # None -> <<s.buffer>>
      [] s.buffer = None /\ pool # None -> <<pool + reserve>>
      [] OTHER -> RuleBuffers

-----------------------------------------------------------------------------
(* The context and the KV type (resolve_context).                           *)

\* Of one try: its most if that fits, else a binary search of the grid.
LargestFitting(g, free, fixed, try) ==
    LET fits(ctx) == fixed + KvCache(g, ctx, try.kv) <= Usable(free, try.buffer)
        search[in \in (0..try.most) \X (0..try.most)] ==
            LET mid == (in[1] + in[2] + 1) \div 2
            IN  IF in[1] >= in[2] THEN in[1]
                ELSE IF fits(mid) THEN search[<<mid, in[2]>>] ELSE search[<<in[1], mid - 1>>]
    IN  IF fits(try.most) THEN try.most ELSE search[<<0, try.most>>]

\* What Auto tries in turn: with the first buffer the KV types of the ladder,
\* with the smaller one only the floor, and then less than the floor.
AutoTries(g, buffers, s) ==
    LET target == Least(g.native, ContextTarget)
        floor == Least(g.native, ContextFloor)
        step(kv, most, least) == [kv |-> kv, most |-> most, least |-> least]
        ladder == IF s.kv = "auto"
                  THEN <<step("f16", target, target), step("q8", target, floor),
                         step("q4", floor, floor)>>
                  ELSE <<step(s.kv, target, floor)>>
        with(try, buffer) == [kv |-> try.kv, most |-> try.most, least |-> try.least, buffer |-> buffer]
        atFloor(buffer) == [i \in DOMAIN ladder |->
                               with(step(ladder[i].kv, floor, floor), buffer)]
        short == step(Last(ladder).kv, floor, Least(g.native, ContextMin))
    IN  [i \in DOMAIN ladder |-> with(ladder[i], Head(buffers))]
        \o FlattenSeq([i \in DOMAIN Tail(buffers) |-> atFloor(Tail(buffers)[i])])
        \o [i \in DOMAIN buffers |-> with(short, buffers[i])]

\* A context the user named is kept whatever fits; KV F16 is tried before Q8.
ExactTries(ctx, buffers, s) ==
    LET kvs == IF s.kv = "auto" THEN <<"f16", "q8">> ELSE <<s.kv>>
    IN  FlattenSeq([k \in DOMAIN kvs |-> [i \in DOMAIN buffers |->
            [kv |-> kvs[k], most |-> ctx, least |-> ctx, buffer |-> buffers[i]]]])

\* The first try whose context fits, else what a split or refused model gets.
FirstFitting(g, free, fixed, tries, otherwise) ==
    LET found(try) == LargestFitting(g, free, fixed, try)
        first == SelectInSeq(tries, LAMBDA try : found(try) >= try.least)
    IN  IF first = 0 THEN otherwise
        ELSE [ctx |-> found(tries[first]), kv |-> tries[first].kv,
              buffer |-> tries[first].buffer, fits |-> TRUE]

ResolveContext(g, free, fixed, buffers, s) ==
    LET auto == s.context = "auto"
        exact == IF s.context = "max" THEN g.native ELSE Least(s.tokens, g.native)
    IN  FirstFitting(g, free, fixed,
            IF auto THEN AutoTries(g, buffers, s) ELSE ExactTries(exact, buffers, s),
            [ctx |-> IF auto THEN Least(g.native, SplitContext) ELSE exact,
             kv |-> IF s.kv = "auto" THEN "q8" ELSE s.kv,
             buffer |-> Head(buffers), fits |-> FALSE])

-----------------------------------------------------------------------------
(* The placements and the choice among them (Planner::plan).                *)

\* n_gpu_layers: -1 is all blocks, n the output head and the last n - 1.
GpuBlocks(g, ngl) ==
    CASE ngl < 0 -> Blocks(g) [] ngl = 0 -> 0 [] OTHER -> Least(ngl - 1, Blocks(g))

\* The bytes of a placement on each side; the experts of the first moe blocks
\* stay in RAM, and so does the KV unless it goes with its blocks.
PlaceOf(g, ngl, gpuBlocks, kvGpu, kvAll, logits, unified) ==
    LET weights == (IF ngl # 0 THEN g.output + g.tied ELSE 0) + gpuBlocks
        vram == weights + kvGpu + (IF ngl # 0 THEN logits ELSE 0)
        ram == g.input + BlockBytes(g) - gpuBlocks + kvAll - kvGpu
               + (IF ngl = 0 THEN g.output + g.logits ELSE 0)
    IN  [weights |-> weights, vram |-> vram, ram |-> ram + (IF unified THEN vram ELSE 0)]
Place(g, ngl, moe, kqv, ctx, kv, logits, unified) ==
    LET gpu == [l \in 1..Blocks(g) |-> l > Blocks(g) - GpuBlocks(g, ngl)]
    IN  PlaceOf(g, ngl,
            Total([l \in DOMAIN gpu |-> IF ~gpu[l] THEN 0
                      ELSE g.blocks[l].weights + IF l > moe THEN g.blocks[l].experts ELSE 0]),
            Total([l \in DOMAIN gpu |-> IF gpu[l] /\ kqv THEN KvLayer(g, l, ctx, kv) ELSE 0]),
            KvCache(g, ctx, kv), logits, unified)

NoPlacement(ctx, kv) == [tier |-> "none", ngl |-> 0, moe |-> 0, kqv |-> FALSE,
                         vram |-> 0, disk |-> 0, ctx |-> ctx, kv |-> kv]
Feasible(plan) == plan.tier # "none"

\* A candidate at a resolved context must fit the GPU unless that is left free,
\* and goes over the RAM only when it may read the rest from disk.
PlaceAt(g, at, ngl, moe, kqv) == Place(g, ngl, moe, kqv, at.ctx, at.kv, at.logits, at.unified)
Over(g, at, ngl, moe, kqv) == PlaceAt(g, at, ngl, moe, kqv).vram > at.usable
Measured(at, place, tier, ngl, moe, kqv, free, streams) ==
    LET excess == Most(place.ram - at.ram, 0)
    IN  IF (~free /\ place.vram > at.usable) \/ (excess > 0 /\ ~streams)
        THEN NoPlacement(at.ctx, at.kv)
        ELSE [tier |-> IF tier = "cpu" /\ excess > 0 THEN "disk" ELSE tier,
              ngl |-> ngl, moe |-> moe, kqv |-> kqv,
              vram |-> place.vram, disk |-> excess, ctx |-> at.ctx, kv |-> at.kv]
Candidate(g, at, tier, ngl, moe, kqv, free, streams) ==
    Measured(at, PlaceAt(g, at, ngl, moe, kqv), tier, ngl, moe, kqv, free, streams)

\* What the user set, whatever fits.
UsersTier(g, ngl, moe, kqv) ==
    CASE ngl = 0 -> "cpu"
      [] ngl # 0 /\ moe > 0 -> "moe"
      [] ngl # 0 /\ moe = 0 /\ kqv /\ (ngl < 0 \/ ngl > Blocks(g)) -> "gpu"
      [] OTHER -> "hybrid"
UsersPlan(g, at, ngl, moe, kqv) ==
    Candidate(g, at, UsersTier(g, ngl, moe, kqv), ngl, moe, kqv, TRUE, TRUE)
Users(g, at, s) ==
    UsersPlan(g, at,
        IF s.ngl # None THEN s.ngl ELSE IF at.gpu THEN -1 ELSE 0,
        IF s.moe # None THEN s.moe ELSE 0,
        IF s.kqv # None THEN s.kqv ELSE TRUE)

\* The fewest blocks with experts in RAM, and the most blocks on the GPU, that
\* fit it.
FewestExperts(g, at) ==
    Min({n \in 0..Blocks(g) : ~Over(g, at, -1, n, TRUE)} \cup {Blocks(g)})
MostBlocks(g, at) ==
    Max({b \in 1..(Blocks(g) - 1) : ~Over(g, at, b + 1, 0, TRUE)} \cup {1})

Candidates(g, at, gpu, auto) ==
    LET moe == Experts(g) > 0
    IN  (IF gpu THEN <<Candidate(g, at, "gpu", -1, 0, TRUE, FALSE, moe)>> ELSE <<>>)
        \o (IF gpu /\ moe
            THEN <<Candidate(g, at, "moe", -1, FewestExperts(g, at), TRUE, FALSE, TRUE)>> ELSE <<>>)
        \o (IF gpu /\ Blocks(g) > 1
            THEN <<Candidate(g, at, "hybrid", MostBlocks(g, at) + 1, 0, TRUE, FALSE, moe)>> ELSE <<>>)
        \o (IF gpu /\ ~auto
            THEN <<Candidate(g, at, "hybrid", -1, 0, FALSE, FALSE, FALSE)>> ELSE <<>>)
        \o <<Candidate(g, at, "cpu", 0, 0, TRUE, TRUE, moe)>>

\* The first that stays in memory, else, of a model with experts, the first.
Chosen(candidates, moe, none) ==
    LET inMemory == SelectInSeq(candidates, LAMBDA c : Feasible(c) /\ c.disk = 0)
        fromDisk == SelectInSeq(candidates, LAMBDA c : Feasible(c))
    IN  CASE inMemory # 0 -> candidates[inMemory]
          [] inMemory = 0 /\ moe /\ fromDisk # 0 -> candidates[fromDisk]
          [] OTHER -> none

\* hw: is there a GPU, its free memory, the RAM that may be used, is it one
\* memory, and the reserve of the desktop; m: what was measured of the model.
Logits(g, m) == Most(g.logits + (IF m.correction = None THEN 0 ELSE m.correction), 0)

ContextFor(g, hw, s, m, gpu) ==
    IF gpu
    THEN ResolveContext(g,
             IF hw.unified THEN Least(hw.vram, Most(hw.ram - g.input, 0)) ELSE hw.vram,
             FullGpu(g) - Experts(g) + Logits(g, m),
             BufferOptions(s, m.pool, hw.reserve), s)
    ELSE ResolveContext(g, hw.ram, g.input + g.output + BlockBytes(g) + g.logits, <<0>>, s)

\* A context of auto above the floor is the floor on the CPU, and where the
\* model is split when that is asked for.
PlanAt(g, hw, s, m, gpu, choice, splitAtFloor) ==
    LET floor == Least(g.native, ContextFloor)
        ctx == IF s.context = "auto" /\ choice.ctx > floor
                  /\ (~gpu \/ (splitAtFloor /\ ~choice.fits))
               THEN floor ELSE choice.ctx
        at == [ctx |-> ctx, kv |-> choice.kv, logits |-> Logits(g, m),
               usable |-> Usable(hw.vram, IF gpu THEN choice.buffer ELSE 0),
               gpu |-> hw.gpu, ram |-> hw.ram, unified |-> hw.unified /\ hw.gpu]
    IN  IF s.ngl # None \/ s.moe # None \/ s.kqv # None
        THEN Users(g, at, s)
        ELSE Chosen(Candidates(g, at, gpu, s.context = "auto"), Experts(g) > 0,
                    NoPlacement(ctx, choice.kv))

PlanOf(g, hw, s, m, splitAtFloor) ==
    LET gpu == hw.gpu /\ s.ngl # 0
    IN  PlanAt(g, hw, s, m, gpu, ContextFor(g, hw, s, m, gpu), splitAtFloor)

\* A split model gets the larger context, or the floor when RAM is too short.
Roomier(g, s, plan, smaller) ==
    IF ~Feasible(plan) /\ s.context = "auto"
       /\ plan.ctx > Least(g.native, ContextFloor) /\ Feasible(smaller)
    THEN smaller ELSE plan
CreatePlan(g, hw, s, m) ==
    Roomier(g, s, PlanOf(g, hw, s, m, FALSE), PlanOf(g, hw, s, m, TRUE))
=============================================================================
