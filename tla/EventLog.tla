------------------------------- MODULE EventLog -------------------------------
(***************************************************************************)
(* What the event store of a chat promises (trait EventStore,               *)
(* agents/src/memory/store.rs): one append-only log per chat. An append that *)
(* succeeds adds all its events at the end, one that fails at most the first *)
(* of them; a crash loses nothing that a sync has covered; deleting the chat *)
(* empties it.                                                              *)
(***************************************************************************)
EXTENDS Naturals, Sequences

CONSTANTS MaxBatch    \* bound: the events of one append

VARIABLES
    log,      \* the ids of the chat's events, oldest first
    kept,     \* how many of them the last sync covered
    issued    \* ids given so far

logVars == <<log, kept, issued>>

Init == log = <<>> /\ kept = 0 /\ issued = 0

\* The first n of a batch of new ids.
New(n) == [i \in 1..n |-> issued + i]

AppendAll(k) == issued' = issued + k /\ log' = log \o New(k) /\ UNCHANGED kept

AppendFails(k) ==
    /\ issued' = issued + k
    /\ \E n \in 0..(k - 1) : log' = log \o New(n)
    /\ UNCHANGED kept

Sync == UNCHANGED <<issued, log>> /\ kept' = Len(log)

Crash == UNCHANGED <<issued, kept>> /\ \E n \in kept..Len(log) : log' = SubSeq(log, 1, n)

Delete == UNCHANGED issued /\ kept' = 0 /\ log' = <<>>

Next == (\E k \in 1..MaxBatch : AppendAll(k) \/ AppendFails(k)) \/ Sync \/ Crash \/ Delete

Spec == Init /\ [][Next]_logVars
=============================================================================
