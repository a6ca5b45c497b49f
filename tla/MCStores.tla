------------------------------ MODULE MCStores ------------------------------
(* What one actor or one file at a time goes through, for TLC: the event log *)
(* of a chat, the models with their registry, what was measured of a model    *)
(* that was loaded (Placement), the grants of a chat (ToolGrants), and how a  *)
(* conversation is fitted into the context. They share nothing here, so a     *)
(* behaviour is of one of them and the others stay as they begin.            *)
EXTENDS ToolGrants, Integers, Sequences

CONSTANTS
    SegmentBytes, MaxBatch, MaxEvents, MaxFaults, MaxDeletes, FirstWriteMayTear,
    Pulls, Names, Models, ModelOf, Listed, Helpers, Size, Attempts, MaxCrashes,
    ContextMin, ContextFloor, SplitContext, ContextTarget, RuleBuffers, KvSize,
    Model, Settings, Vram, Ram, Unified, Reserve, DryGaps, ExtraGaps, IdleBytes,
    Growth, AppSizes, MaxChanges,
    ToolRole, Context, MaxTokens, ReserveLeast, ReserveMost, LongResult, NoteSize,
    Schemas, Markers, SystemSize, RequestSizes, CallSize, ResultSizes, AnswerSize,
    MaxMessages

VARIABLES
    which,
    closed, open, synced, memory, hot, op, issued, kept, faults, deletes, rd,
    pulling, pull, dirs, part, dest, registry, removal, crashes,
    apps, idle, changes, real, pool, correction, load, resident, use, missed,
    at, chat, shown, settings, owed, traded

Events == INSTANCE EventStore
Supply == INSTANCE ModelSupply
Placing == INSTANCE Placement
Fit == INSTANCE ContextFit

eventVars == <<closed, open, synced, memory, hot, op, issued, kept, faults, deletes, rd>>
supplyVars == <<pulling, pull, dirs, part, dest, registry, removal, crashes>>
placingVars == <<apps, idle, changes, real, pool, correction, load, resident, use, missed>>
fitVars == <<at, chat, shown, settings, owed, traded>>
allVars == <<eventVars, supplyVars, placingVars, fitVars, vars, which>>

InitAll ==
    /\ which \in {"events", "models", "placement", "grants", "context"}
    /\ Events!Init /\ Supply!Init /\ Placing!Init /\ Fit!Init /\ Init
    /\ which # "placement" => apps = 0 /\ idle = 0 /\ real = [dry |-> 2, extra |-> 0]
    /\ which # "context" =>
           chat = <<>> /\ settings = [mode |-> "off", shifts |-> TRUE, thinks |-> FALSE, media |-> FALSE]

NextAll ==
    \/ /\ which = "events" /\ Events!Next
       /\ UNCHANGED <<supplyVars, placingVars, fitVars, vars, which>>
    \/ /\ which = "models" /\ Supply!Next
       /\ UNCHANGED <<eventVars, placingVars, fitVars, vars, which>>
    \/ /\ which = "placement" /\ Placing!Next
       /\ UNCHANGED <<eventVars, supplyVars, fitVars, vars, which>>
    \/ /\ which = "context" /\ Fit!Next
       /\ UNCHANGED <<eventVars, supplyVars, placingVars, vars, which>>
    \/ /\ which = "grants" /\ Next
       /\ UNCHANGED <<eventVars, supplyVars, placingVars, fitVars, which>>

SpecAll == InitAll /\ [][NextAll]_allVars

\* The parts' properties, each explained in its module.
TypesOK ==
    /\ which = "events" => Events!TypeOK
    /\ which = "models" => Supply!TypeOK
    /\ which = "placement" => Placing!TypeOK
    /\ which = "grants" => TypeOK
    /\ which = "context" => Fit!TypeOK
HotLogIsTheLog == which = "events" => Events!HotLogIsTheLog
SeqsGrow == which = "events" => Events!SeqsGrow
KeepsThePromise == Events!KeepsThePromise
FilesAreWhole == which = "models" => Supply!FilesAreWhole
StoppedLeavesNothing == Supply!StoppedLeavesNothing
MissesAreLearned == Placing!MissesAreLearned
ReserveIsLeft == Placing!ReserveIsLeft
WorkStays == which = "context" => Fit!WorkStays
GivesUpLast == which = "context" => Fit!GivesUpLast
TurnsBuyRoom == which = "context" => Fit!TurnsBuyRoom
EveryRoundFrees == Fit!EveryRoundFrees

\* What the names resolve to.
MCModelOf == [n \in Names |-> CHOOSE m \in Models : TRUE]

\* A model of two blocks, one with experts, in the units of the planner, and
\* settings: all on auto, a context, a buffer, a number of layers.
MCKvSize == [f16 |-> 4, q8 |-> 2, q4 |-> 1]
MCBuffers == <<6, 3>>
MCModel ==
    [blocks |-> <<[weights |-> 6, experts |-> 0, kv |-> 1], [weights |-> 3, experts |-> 3, kv |-> 1]>>,
     native |-> 8, input |-> 2, output |-> 2, tied |-> 0, logits |-> 2]
AutoSettings ==
    [context |-> "auto", tokens |-> 0, kv |-> "auto", buffer |-> None,
     ngl |-> None, moe |-> None, kqv |-> None]
MCSettings ==
    {AutoSettings, [AutoSettings EXCEPT !.context = "custom", !.tokens = 4],
     [AutoSettings EXCEPT !.buffer = 0], [AutoSettings EXCEPT !.ngl = 2]}
MCAppSizes == {0, 28}
MCDryGaps == {-1, 2}
MCExtraGaps == {0, 5}
=============================================================================
