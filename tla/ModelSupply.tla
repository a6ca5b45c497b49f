----------------------------- MODULE ModelSupply -----------------------------
(***************************************************************************)
(* Getting models: the pull handler and its guard (api/src/handlers/         *)
(* models.rs), the plan and its files (engine/models/src/fetcher), one file  *)
(* through its .part with resumed tries, stopping, restarts, the registry of *)
(* installed models, and their removal.                                     *)
(*                                                                         *)
(* Abstracted: a file is a sequence of Size pieces, numbered; a plan is the  *)
(* files of a model, the first one primary, the last Helpers ones fetched by *)
(* complete_onnx_assets. A server states the length of a file, sends no more *)
(* than that, and has the same file all the time. Waits between tries and    *)
(* progress are left out; an entry of the registry is its model's name, and  *)
(* its file is written in one step.                                          *)
(***************************************************************************)
EXTENDS Naturals, Sequences, FiniteSets

CONSTANTS
    Pulls,       \* pull requests that are handled at the same time
    Names,       \* what a request may call a model, in lower case
    Models,
    ModelOf,     \* what a name resolves to
    Listed,      \* files of a plan
    Helpers,     \* files the primary turns out to need
    Size,        \* pieces of a file
    Attempts,    \* ATTEMPTS
    MaxCrashes,  \* bound: restarts
    None

VARIABLES
    pulling,     \* PULLING
    pull,        \* the requests: how far, and the file at hand
    dirs,        \* models with a folder
    part, dest,  \* the .part and the finished file of each file, None for none
    registry,    \* model_registry.json
    removal,     \* an uninstall: the model, and what it read
    crashes

vars == <<pulling, pull, dirs, part, dest, registry, removal, crashes>>

Count == Listed + Helpers
Files == Models \X (1..Count)
Whole == [i \in 1..Size |-> i]
NoPull == [step |-> "idle", name |-> None, idx |-> 0, at |-> 0, from |-> 0, grows |-> FALSE, on |-> "part",
           fails |-> 0, abort |-> FALSE, created |-> {}, had |-> {}, read |-> {}]
NoRemoval == [step |-> "idle", model |-> None, read |-> {}]

Init ==
    /\ pulling = {} /\ pull = [p \in Pulls |-> NoPull]
    /\ dirs = {} /\ registry = {}
    /\ part = [f \in Files |-> None] /\ dest = [f \in Files |-> None]
    /\ removal = NoRemoval /\ crashes = 0

At(p, step) == pull[p].step = step
ModelWanted(p) == ModelOf[pull[p].name]
File(p) == <<ModelWanted(p), pull[p].idx>>
Set(p, new) == pull' = [pull EXCEPT ![p] = new]
Go(p, step) == Set(p, [pull[p] EXCEPT !.step = step])

\* The bytes a path has; file_len takes a missing file for an empty one.
Length(f) == IF part[f] = None THEN 0 ELSE Len(part[f])

\* A file open for writing goes on being written after its path is renamed or
\* removed.
Moved(f, where, new) ==
    pull' = [q \in Pulls |-> IF q \in DOMAIN new THEN new[q]
                             ELSE IF At(q, "stream") /\ File(q) = f /\ pull[q].on = "part"
                             THEN [pull[q] EXCEPT !.on = where] ELSE pull[q]]
One(p, new) == [q \in {p} |-> new]

-----------------------------------------------------------------------------
(* The request.                                                            *)

\* pull: a name that is being pulled is refused.
Begin(p) ==
    /\ At(p, "idle")
    /\ \E n \in Names \ pulling :
          /\ pulling' = pulling \cup {n}
          /\ Set(p, [NoPull EXCEPT !.step = "resolve", !.name = n])
    /\ UNCHANGED <<dirs, part, dest, registry, removal, crashes>>

\* The answer, whatever it is; Release.
Finish(p) == Set(p, NoPull) /\ pulling' = pulling \ {pull[p].name}

\* tasks.cancel, or the client went away.
Abort(p) ==
    /\ ~At(p, "idle") /\ ~pull[p].abort
    /\ Set(p, [pull[p] EXCEPT !.abort = TRUE])
    /\ UNCHANGED <<pulling, dirs, part, dest, registry, removal, crashes>>

OnDisk(m) == \A i \in {1} \cup (Listed + 1)..Count : dest[<<m, i>>] # None

\* resolve, and install's folder. It may fail.
Resolve(p) ==
    LET m == ModelWanted(p)
    IN  /\ At(p, "resolve")
        /\ \/ Finish(p) /\ UNCHANGED dirs
           \/ /\ ~OnDisk(m)
              /\ dirs' = dirs \cup {m}
              /\ Set(p, [pull[p] EXCEPT !.step = "file", !.idx = 1,
                    !.had = {f \in Files : f[1] = m /\ (part[f] # None \/ dest[f] # None)}])
              /\ UNCHANGED pulling
        /\ UNCHANGED <<part, dest, registry, removal, crashes>>

\* install's loop: a file on disk is skipped. A helper is not begun once stopped.
NextFile(p) ==
    LET q == pull[p]
    IN  /\ At(p, "file")
        /\ IF q.idx > Count
           THEN IF dest[<<ModelWanted(p), 1>>] # None THEN Go(p, "load") /\ UNCHANGED <<pulling, dirs>>
                ELSE Finish(p) /\ UNCHANGED dirs
           ELSE IF q.idx > Listed /\ dest[<<ModelWanted(p), 1>>] = None THEN Finish(p) /\ UNCHANGED dirs
           ELSE IF dest[File(p)] # None
           THEN Set(p, [q EXCEPT !.idx = @ + 1]) /\ UNCHANGED <<pulling, dirs>>
           ELSE IF q.idx > Listed /\ q.abort THEN Go(p, "aborted") /\ UNCHANGED <<pulling, dirs>>
           ELSE /\ Set(p, [q EXCEPT !.step = "ask", !.fails = 0])
                /\ dirs' = dirs \cup {ModelWanted(p)} /\ UNCHANGED pulling
        /\ UNCHANGED <<part, dest, registry, removal, crashes>>

-----------------------------------------------------------------------------
(* One try (attempt).                                                      *)

\* The request, from the end of .part.
Ask(p) ==
    /\ At(p, "ask")
    /\ Set(p, [pull[p] EXCEPT !.step = "sent", !.at = Length(File(p)), !.from = Length(File(p))])
    /\ UNCHANGED <<pulling, dirs, part, dest, registry, removal, crashes>>

\* Retry: no connection, a busy server. Fatal: the source refuses.
NoFile(p) ==
    /\ At(p, "sent")
    /\ \/ Go(p, "retry") /\ UNCHANGED pulling
       \/ Finish(p)
    /\ UNCHANGED <<dirs, part, dest, registry, removal, crashes>>

\* 416: .part has the whole file already, or does not fit.
NotSatisfiable(p) ==
    LET q == pull[p]
    IN  /\ At(p, "sent") /\ q.at >= Size
        /\ IF q.at = Size THEN Go(p, "rename") /\ UNCHANGED part
           ELSE /\ part' = [part EXCEPT ![File(p)] = None]
                /\ Moved(File(p), "gone", One(p, [q EXCEPT !.step = "retry"]))
        /\ UNCHANGED <<pulling, dirs, dest, registry, removal, crashes>>

\* 206, and .part is opened to append, if it is still there.
Partial(p) ==
    LET q == pull[p]
    IN  /\ At(p, "sent") /\ q.at > 0 /\ q.at < Size
        /\ IF part[File(p)] = None THEN Finish(p)
           ELSE Set(p, [q EXCEPT !.step = "stream", !.grows = TRUE, !.on = "part"]) /\ UNCHANGED pulling
        /\ UNCHANGED <<dirs, part, dest, registry, removal, crashes>>

\* 206 for another part of the file.
OtherPart(p) ==
    /\ At(p, "sent") /\ pull[p].at > 0
    /\ part' = [part EXCEPT ![File(p)] = None]
    /\ Moved(File(p), "gone", One(p, [pull[p] EXCEPT !.step = "retry"]))
    /\ UNCHANGED <<pulling, dirs, dest, registry, removal, crashes>>

\* 200: the whole file, from the start; .part is truncated.
WholeFile(p) ==
    LET q == pull[p]
    IN  /\ At(p, "sent")
        /\ IF ModelWanted(p) \in dirs
           THEN /\ part' = [part EXCEPT ![File(p)] = <<>>]
                /\ Set(p, [q EXCEPT !.step = "stream", !.at = 0, !.grows = FALSE, !.on = "part"])
                /\ UNCHANGED pulling
           ELSE Finish(p) /\ UNCHANGED part
        /\ UNCHANGED <<dirs, dest, registry, removal, crashes>>

\* What a file holds after piece n was written at the end, or in its place.
Written(file, n, grows) ==
    IF grows THEN Append(file, n)
    ELSE [i \in 1..(IF n > Len(file) THEN n ELSE Len(file)) |->
             IF i = n THEN n ELSE IF i <= Len(file) THEN file[i] ELSE 0]

\* A piece arrives, if the pull is not stopped.
Piece(p) ==
    LET q == pull[p]
        f == File(p)
    IN  /\ At(p, "stream") /\ q.at < Size /\ ~q.abort
        /\ part' = IF q.on = "part" THEN [part EXCEPT ![f] = Written(@, q.at + 1, q.grows)] ELSE part
        /\ dest' = IF q.on = "dest" /\ dest[f] # None
                   THEN [dest EXCEPT ![f] = Written(@, q.at + 1, q.grows)] ELSE dest
        /\ Set(p, [q EXCEPT !.at = @ + 1])
        /\ UNCHANGED <<pulling, dirs, registry, removal, crashes>>

\* Stopped while pieces come: .part goes.
Stop(p) ==
    /\ At(p, "stream") /\ pull[p].at < Size /\ pull[p].abort
    /\ part' = [part EXCEPT ![File(p)] = None]
    /\ Moved(File(p), "gone", One(p, [pull[p] EXCEPT !.step = "aborted"]))
    /\ UNCHANGED <<pulling, dirs, dest, registry, removal, crashes>>

\* Faulty: a stream that ends is a file that is complete.
StreamEndUnchecked(p) ==
    /\ At(p, "stream")
    /\ Go(p, "rename")
    /\ UNCHANGED <<pulling, dirs, part, dest, registry, removal, crashes>>

\* "Only a complete file is renamed": the stream ends, early or not, or breaks.
StreamEnd(p) ==
    /\ At(p, "stream")
    /\ Go(p, IF pull[p].at = Size THEN "rename" ELSE "retry")
    /\ UNCHANGED <<pulling, dirs, part, dest, registry, removal, crashes>>

-----------------------------------------------------------------------------
(* Between the tries (download_single_file), and the end of a pull.        *)

Failures(p, more) == IF more THEN 1 ELSE pull[p].fails + 1

Retry(p) ==
    LET q == pull[p]
        more == Length(File(p)) > q.from
        n == Failures(p, more)
        now == [q EXCEPT !.fails = n]
    IN  /\ At(p, "retry")
        /\ IF n >= Attempts THEN Set(p, [now EXCEPT !.step = "gaveup"]) /\ UNCHANGED part
           ELSE IF q.abort
           THEN /\ part' = [part EXCEPT ![File(p)] = None]
                /\ Moved(File(p), "gone", One(p, [now EXCEPT !.step = "aborted"]))
           ELSE Set(p, [now EXCEPT !.step = "ask"]) /\ UNCHANGED part
        /\ UNCHANGED <<pulling, dirs, dest, registry, removal, crashes>>

\* "running the same download again continues from there"
GiveUp(p) ==
    /\ At(p, "gaveup") /\ Finish(p)
    /\ UNCHANGED <<dirs, part, dest, registry, removal, crashes>>

Rename(p) ==
    LET f == File(p)
        q == pull[p]
    IN  /\ At(p, "rename")
        /\ IF part[f] = None THEN Finish(p) /\ UNCHANGED <<part, dest>>
           ELSE /\ dest' = [dest EXCEPT ![f] = part[f]]
                /\ part' = [part EXCEPT ![f] = None]
                /\ Moved(f, "dest", One(p, [q EXCEPT !.step = "file", !.idx = @ + 1, !.created = @ \cup {f}]))
                /\ UNCHANGED pulling
        /\ UNCHANGED <<dirs, registry, removal, crashes>>

\* Faulty: the finished files stay.
CleanUpNothing(p) ==
    /\ At(p, "aborted") /\ Finish(p)
    /\ UNCHANGED <<dirs, part, dest, registry, removal, crashes>>

\* "a download the user stopped leaves nothing behind": the files of the plan
\* that this call created go, and the folder if it is empty then. A helper's end
\* is passed on as it is.
CleanUp(p) ==
    LET m == ModelWanted(p)
        listed == pull[p].idx <= Listed
        left == [f \in Files |-> IF listed /\ f \in pull[p].created THEN None ELSE dest[f]]
    IN  /\ At(p, "aborted") /\ Finish(p)
        /\ dest' = left
        /\ dirs' = IF listed /\ \A i \in 1..Count : left[<<m, i>>] = None /\ part[<<m, i>>] = None
                   THEN dirs \ {m} ELSE dirs
        /\ UNCHANGED <<part, registry, removal, crashes>>

\* register_model reads the registry,
Load(p) ==
    /\ At(p, "load")
    /\ Set(p, [pull[p] EXCEPT !.step = "save", !.read = {m \in registry : dest[<<m, 1>>] # None}])
    /\ UNCHANGED <<pulling, dirs, part, dest, registry, removal, crashes>>

\* and writes it with the new entry.
Save(p) ==
    /\ At(p, "save")
    /\ registry' = pull[p].read \cup {ModelWanted(p)}
    /\ Finish(p)
    /\ UNCHANGED <<dirs, part, dest, removal, crashes>>

-----------------------------------------------------------------------------
(* uninstall: the folder goes, then the entry, in the same two halves.     *)
RemoveFolder ==
    /\ removal.step = "idle"
    /\ \E m \in registry :
          /\ removal' = [removal EXCEPT !.step = "load", !.model = m]
          /\ dirs' = dirs \ {m}
          /\ part' = [f \in Files |-> IF f[1] = m THEN None ELSE part[f]]
          /\ dest' = [f \in Files |-> IF f[1] = m THEN None ELSE dest[f]]
          /\ pull' = [p \in Pulls |-> IF At(p, "stream") /\ ModelWanted(p) = m THEN [pull[p] EXCEPT !.on = "gone"]
                                      ELSE pull[p]]
    /\ UNCHANGED <<pulling, registry, crashes>>

LoadToRemove ==
    /\ removal.step = "load"
    /\ removal' = [removal EXCEPT !.step = "save", !.read = {m \in registry : dest[<<m, 1>>] # None}]
    /\ UNCHANGED <<pulling, pull, dirs, part, dest, registry, crashes>>

SaveRemoved ==
    /\ removal.step = "save"
    /\ registry' = removal.read \ {removal.model}
    /\ removal' = NoRemoval
    /\ UNCHANGED <<pulling, pull, dirs, part, dest, crashes>>

\* The end of the process; the files stay as they are.
Restart ==
    /\ crashes < MaxCrashes
    /\ crashes' = crashes + 1
    /\ pulling' = {} /\ pull' = [p \in Pulls |-> NoPull] /\ removal' = NoRemoval
    /\ UNCHANGED <<dirs, part, dest, registry>>

PullStep(p) ==
    \/ Resolve(p) \/ NextFile(p) \/ Ask(p) \/ NoFile(p) \/ NotSatisfiable(p) \/ Partial(p)
    \/ OtherPart(p) \/ WholeFile(p) \/ Piece(p) \/ Stop(p) \/ StreamEnd(p) \/ Retry(p)
    \/ GiveUp(p) \/ Rename(p) \/ CleanUp(p) \/ Load(p) \/ Save(p)

Next ==
    \/ \E p \in Pulls : Begin(p) \/ Abort(p) \/ PullStep(p)
    \/ RemoveFolder \/ LoadToRemove \/ SaveRemoved \/ Restart

Spec == Init /\ [][Next]_vars

-----------------------------------------------------------------------------
(* Correctness.                                                            *)

\* Every variable has its type; a name is taken by the one pull of it.
TypeOK ==
    /\ pulling \subseteq Names
    /\ \A p \in Pulls : pull[p].name # None => pull[p].name \in pulling
    /\ dirs \subseteq Models /\ registry \subseteq Models
    /\ \A f \in Files : (part[f] # None \/ dest[f] # None) => f[1] \in dirs
    /\ crashes \in 0..MaxCrashes

\* "only a complete file is renamed": a file that is not a .part any more has
\* every piece once and in order, after dropped connections, servers that ignore
\* or mistake the range, stops, restarts and removals.
FilesAreWhole == \A f \in Files : dest[f] # None => dest[f] = Whole

\* "a download the user stopped leaves nothing behind": what was not in the
\* model's folder when the pull began is not there when it has ended.
StoppedLeavesNothing ==
    [][\A p \in Pulls : At(p, "aborted") /\ pull'[p].step = "idle" /\ crashes' = crashes =>
          \A f \in Files \ pull[p].had : f[1] = ModelWanted(p) => part'[f] = None /\ dest'[f] = None]_vars
=============================================================================
