------------------------------ MODULE EventStore ------------------------------
(***************************************************************************)
(* The event log of one chat on disk (agents/src/memory/store.rs): the open  *)
(* segment, the closed ones, the state and the parsed log the process keeps, *)
(* with the steps of a rotation, failed writes, kills and power cuts.        *)
(*                                                                         *)
(* Appends, syncs, shared reads and deletes hold the chat's lock, so one     *)
(* runs at a time; EventStore::read does not take it.                       *)
(*                                                                         *)
(* Abstracted: an event is its id and its seq. A line takes two bytes, its   *)
(* newline one of them, so a cut line takes one. A line that is no event     *)
(* counts in the size of its segment and is not read. Other chats share only *)
(* the HOT_LOGS places of the parsed logs (EvictHot). A power cut in the     *)
(* middle of a rotation is left out.                                        *)
(***************************************************************************)
EXTENDS Naturals, Sequences, SequencesExt

CONSTANTS
    SegmentBytes,       \* SEGMENT_BYTES, in the bytes of the model
    MaxBatch,           \* bound: the events of one append
    MaxEvents,          \* bound: the events of a behaviour
    MaxFaults,          \* bound: failed writes, failed rotations, kills, power cuts
    MaxDeletes,         \* bound: deletes of the chat
    FirstWriteMayTear,  \* whether a failed write can cut the first line of a segment
    None

VARIABLES
    closed,   \* the closed segments, oldest first: the events each holds
    open,     \* the open segment: its events, its size, whether it ends a line
    synced,   \* how many of its events are on the disk for good
    memory,   \* ChatState: next_seq and open_bytes, or None
    hot,      \* the parsed log and the stamp of the files it was read from, or None
    op,       \* what the holder of the chat's lock is doing, and with how many events
    issued,   \* events given an id
    kept,     \* history: the events of the log that the last sync covered
    faults, deletes,
    rd        \* an unlocked read: its step, what it has read, the log when it began

files == <<closed, open, synced>>
vars == <<files, memory, hot, op, issued, kept, faults, deletes, rd>>

NoFile == [events |-> <<>>, size |-> 0, ended |-> TRUE]
Idle == [kind |-> "none", batch |-> 0]
NoRead == [step |-> "none", got |-> <<>>, from |-> <<>>]

Init ==
    /\ closed = <<>> /\ open = NoFile /\ synced = 0
    /\ memory = None /\ hot = None /\ op = Idle
    /\ issued = 0 /\ kept = 0 /\ faults = 0 /\ deletes = 0
    /\ rd = NoRead

-----------------------------------------------------------------------------
(* Reading.                                                                *)

\* read: every closed segment, then the open one.
Read == FlattenSeq(closed) \o open.events

\* stamp
Stamp == <<Len(closed), open.size>>

\* Faulty: the next seq is the number of events read.
NextSeqByCount(events) == Len(events) + 1
NextSeq(events) == IF events = <<>> THEN 1 ELSE Last(events).seq + 1

\* state: kept in memory, read from the log the first time.
Loaded == IF memory = None THEN [next |-> NextSeq(Read), bytes |-> open.size] ELSE memory

HotIsCurrent == hot # None /\ hot.stamp = Stamp

\* read_shared: the parsed log if the files are those it was read from, else a
\* new read, kept in its place.
ReadShared ==
    /\ op = Idle
    /\ ~HotIsCurrent
    /\ hot' = [stamp |-> Stamp, events |-> Read]
    /\ UNCHANGED <<files, memory, op, issued, kept, faults, deletes, rd>>

\* The parsed log makes room for those of other chats.
EvictHot ==
    /\ hot # None
    /\ hot' = None
    /\ UNCHANGED <<files, memory, op, issued, kept, faults, deletes, rd>>

-----------------------------------------------------------------------------
(* Appending.                                                              *)

\* The open segment and the state before the first new line is written.
Unfixed(st) == [file |-> open, bytes |-> st.bytes]
\* "A cut line from a crash must not swallow the next event": a newline first,
\* looked for when the state says that the segment is not empty.
Fresh(st) ==
    IF st.bytes > 0 /\ ~open.ended
    THEN [file |-> [open EXCEPT !.size = @ + 1, !.ended = TRUE], bytes |-> st.bytes + 1]
    ELSE Unfixed(st)

\* The file with new lines: after a cut line, the first is part of that line.
Written(f, new) ==
    [events |-> f.events \o (IF f.ended \/ new = <<>> THEN new ELSE Tail(new)),
     size |-> f.size + 2 * Len(new), ended |-> f.ended \/ new # <<>>]

NewEvents(st, n) == [i \in 1..n |-> [id |-> issued + i, seq |-> st.next + i - 1]]

\* Faulty: the parsed log is extended whatever files it was read from.
ExtendedBlindly(before, bytes, new) ==
    IF hot = None THEN None
    ELSE [stamp |-> <<Len(closed), bytes>>, events |-> hot.events \o new]

\* "A hot log that matched the files before this append gets the new events."
Extended(before, bytes, new) ==
    IF hot = None \/ hot.stamp # <<Len(closed), before>> THEN None
    ELSE [stamp |-> <<Len(closed), bytes>>, events |-> hot.events \o new]

\* The append of k events, when its turn to write has come.
MayWrite(k) ==
    \/ op = Idle /\ Loaded.bytes < SegmentBytes
    \/ op = [kind |-> "write", batch |-> k]

AppendEvents(k) ==
    LET st == Loaded
        fresh == Fresh(st)
        new == NewEvents(st, k)
    IN  /\ MayWrite(k)
        /\ issued + k <= MaxEvents
        /\ open' = Written(fresh.file, new)
        /\ memory' = [next |-> st.next + k, bytes |-> fresh.bytes + 2 * k]
        /\ hot' = Extended(fresh.bytes, fresh.bytes + 2 * k, new)
        /\ issued' = issued + k
        /\ op' = Idle
        /\ UNCHANGED <<closed, synced, kept, faults, deletes, rd>>

\* The write stops after n whole lines, with the next one cut or not: the
\* append fails, its seqs are used up, and open_bytes does not know.
AppendFails(k) ==
    LET st == Loaded
        fresh == Fresh(st)
    IN  /\ MayWrite(k)
        /\ issued + k <= MaxEvents /\ faults < MaxFaults
        /\ \E n \in 0..(k - 1), cut \in {0, 1} :
              /\ cut = 1 /\ fresh.bytes = 0 => FirstWriteMayTear
              /\ LET f == Written(fresh.file, NewEvents(st, n))
                 IN  open' = [f EXCEPT !.size = @ + cut, !.ended = @ /\ cut = 0]
        /\ memory' = [next |-> st.next + k, bytes |-> fresh.bytes]
        /\ issued' = issued + k
        /\ faults' = faults + 1
        /\ op' = Idle
        /\ UNCHANGED <<closed, synced, hot, kept, deletes, rd>>

\* rotate: the segment is full. The closed one is created empty.
BeginRotate(k) ==
    /\ op = Idle
    /\ Loaded.bytes >= SegmentBytes
    /\ issued + k <= MaxEvents
    /\ closed' = Append(closed, <<>>)
    /\ memory' = Loaded
    /\ op' = [kind |-> "copy", batch |-> k]
    /\ UNCHANGED <<open, synced, hot, issued, kept, faults, deletes, rd>>

\* io::copy, up to the sync of the closed segment
CopySegment ==
    /\ op.kind = "copy"
    /\ \E n \in Len(Last(closed))..Len(open.events) :
          /\ closed' = Front(closed) \o <<SubSeq(open.events, 1, n)>>
          /\ op' = IF n = Len(open.events) THEN [op EXCEPT !.kind = "remove"] ELSE op
    /\ UNCHANGED <<open, synced, memory, hot, issued, kept, faults, deletes, rd>>

\* remove_file; the append goes on with an empty segment.
RemoveOpen ==
    /\ op.kind = "remove"
    /\ open' = NoFile /\ synced' = 0
    /\ memory' = [memory EXCEPT !.bytes = 0]
    /\ op' = [op EXCEPT !.kind = "write"]
    /\ UNCHANGED <<closed, hot, issued, kept, faults, deletes, rd>>

\* An error in between: the append fails before its events have a seq. What was
\* copied stays beside the open segment.
RotateFails ==
    /\ op.kind \in {"copy", "remove"}
    /\ faults < MaxFaults
    /\ faults' = faults + 1
    /\ op' = Idle
    /\ UNCHANGED <<files, memory, hot, issued, kept, deletes, rd>>

-----------------------------------------------------------------------------
(* Sync, delete, and the end of the process.                               *)

\* The chat's events, without the repetitions an unfinished rotation leaves.
Distinct(events) ==
    LET upTo[i \in 0..Len(events)] ==
            IF i = 0 THEN <<>>
            ELSE IF \E j \in 1..(i - 1) : events[j] = events[i] THEN upTo[i - 1]
            ELSE Append(upTo[i - 1], events[i])
    IN  upTo[Len(events)]
Log == Distinct(Read)

\* sync: the open segment; the closed ones were synced when they were written.
Sync ==
    /\ op = Idle
    /\ synced # Len(open.events) \/ kept # Len(Log)
    /\ synced' = Len(open.events)
    /\ kept' = Len(Log)
    /\ UNCHANGED <<closed, open, memory, hot, op, issued, faults, deletes, rd>>

DeleteChat ==
    /\ op = Idle
    /\ deletes < MaxDeletes
    /\ deletes' = deletes + 1
    /\ closed' = <<>> /\ open' = NoFile /\ synced' = 0
    /\ memory' = None /\ hot' = None /\ kept' = 0
    /\ UNCHANGED <<op, issued, faults, rd>>

\* The process ends, at any step; what it wrote stays.
Kill ==
    /\ faults < MaxFaults
    /\ faults' = faults + 1
    /\ memory' = None /\ hot' = None /\ op' = Idle /\ rd' = NoRead
    /\ UNCHANGED <<files, issued, kept, deletes>>

\* The end of the open segment that no sync covered may be gone, and its last
\* line may be cut.
PowerCut ==
    /\ op = Idle
    /\ faults < MaxFaults
    /\ faults' = faults + 1
    /\ \E n \in synced..(Len(open.events) - 1), cut \in {0, 1} :
          open' = [events |-> SubSeq(open.events, 1, n), size |-> 2 * n + cut, ended |-> cut = 0]
    /\ memory' = None /\ hot' = None /\ rd' = NoRead
    /\ UNCHANGED <<closed, synced, op, issued, kept, deletes>>

Next ==
    \/ ReadShared \/ EvictHot
    \/ \E k \in 1..MaxBatch : AppendEvents(k) \/ AppendFails(k) \/ BeginRotate(k)
    \/ CopySegment \/ RemoveOpen \/ RotateFails
    \/ Sync \/ DeleteChat \/ Kill \/ PowerCut

Spec == Init /\ [][Next]_vars

-----------------------------------------------------------------------------
(* EventStore::read from another thread (the indexer's scan, searches over  *)
(* other chats, memory.read): the segments are listed and the closed ones    *)
(* read first, the open one later, and no lock is held.                      *)

ReadClosed ==
    /\ rd.step = "none"
    /\ rd' = [step |-> "open", got |-> FlattenSeq(closed), from |-> Log]
    /\ UNCHANGED <<files, memory, hot, op, issued, kept, faults, deletes>>

ReadOpen ==
    /\ rd.step = "open"
    /\ rd' = [rd EXCEPT !.step = "done", !.got = @ \o open.events]
    /\ UNCHANGED <<files, memory, hot, op, issued, kept, faults, deletes>>

SpecUnlocked == Init /\ [][Next \/ ReadClosed \/ ReadOpen]_vars

-----------------------------------------------------------------------------
(* Correctness.                                                            *)

IdsOf(events) == [i \in DOMAIN events |-> events[i].id]
EventOf == [id : 1..MaxEvents, seq : Nat \ {0}]

\* A full segment is at most a batch too large, and each failed write hides
\* the bytes of at most one more from the state.
MostBytes == SegmentBytes + 2 * MaxBatch * (1 + faults)

\* Every variable has its type; no segment is synced beyond its end, and none
\* grows once the process knows that it is full.
TypeOK ==
    /\ closed \in Seq(Seq(EventOf))
    /\ open \in [events : Seq(EventOf), size : 0..MostBytes, ended : BOOLEAN]
    /\ synced \in 0..Len(open.events)
    /\ memory # None => memory \in [next : Nat \ {0}, bytes : 0..MostBytes]
    /\ hot # None => hot \in [stamp : Nat \X Nat, events : Seq(EventOf)]
    /\ op \in [kind : {"none", "copy", "remove", "write"}, batch : 0..MaxBatch]
    /\ issued \in 0..MaxEvents /\ kept \in 0..MaxEvents

\* "Parsed logs of hot chats with the files they were read from": a parsed log
\* whose stamp is that of the files (which read_shared hands out) holds what a
\* read of those files gives, after failed appends, failed rotations and
\* deletes too.
HotLogIsTheLog == HotIsCurrent /\ op = Idle => hot.events = Read

\* "Position in the chat's log, from 1": seqs grow along the log, and the one
\* kept for the next event is above them all, also when appends failed half-way
\* or the end of the log was lost. (Not so once an unfinished rotation has left
\* repetitions and a power cut then takes the end of the open segment.)
SeqsGrow ==
    LET log == Read
    IN  log = Distinct(log) =>
        /\ \A i \in 2..Len(log) : log[i - 1].seq < log[i].seq
        /\ memory # None => \A i \in DOMAIN log : log[i].seq < memory.next

\* The files are an append-only log of the chat, once the repetitions of an
\* unfinished rotation are dropped: no event whose append returned is missing
\* or out of order, whatever failed, and none that a sync covered is lost.
PromisedLog == INSTANCE EventLog WITH log <- IdsOf(Log), kept <- kept, issued <- issued
KeepsThePromise == PromisedLog!Spec

\* "All events of the chat, oldest first" (EventStore::read), for a chat that is
\* not deleted meanwhile: what was there when the read began, and then only
\* what was added.
ReadsAreWhole ==
    rd.step = "done" /\ deletes = 0 => IsPrefix(rd.from, rd.got) /\ IsPrefix(rd.got, Log)
=============================================================================
