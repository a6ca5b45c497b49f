----------------------------- MODULE MCServices -----------------------------
(* What runs beside the chat, for TLC: the task store and the idle-time jobs. *)
(* They share nothing, so a behaviour is of one of them and the other stays   *)
(* as it begins.                                                            *)
EXTENDS Tasks

CONSTANTS Chats, External, Requests, ColdBatch, MaxRequests, MaxCrashes

VARIABLES
    which,
    req, sent, shown, cards, external, queue, w, idleJob, idleStop, permit, quiet, scan,
    crashes, beside, raced

Jobs == INSTANCE ChatIndexer WITH Positions <- 1..2, job <- idleJob, stop <- idleStop

jobVars == <<req, sent, shown, cards, external, queue, w, idleJob, idleStop, permit, quiet, scan,
             crashes, beside, raced>>
allVars == <<vars, jobVars, which>>

InitAll == Init /\ Jobs!Init /\ which \in {"tasks", "jobs"}

NextAll ==
    \/ which = "tasks" /\ Next /\ UNCHANGED <<jobVars, which>>
    \/ which = "jobs" /\ Jobs!Next /\ UNCHANGED <<vars, which>>

SpecAll == InitAll /\ [][NextAll]_allVars /\ Fairness /\ Jobs!Fairness

\* The jobs' properties, each explained in its module.
TypesOK == TypeOK /\ Jobs!TypeOK
OneJobBeside == Jobs!OneJobBeside
OneCardPerAnswer == Jobs!OneCardPerAnswer
TurnsAreIndexed == Jobs!TurnsAreIndexed
=============================================================================
