------------------------------ MODULE McpClient ------------------------------
(***************************************************************************)
(* The MCP client (agents/src/mcp/client.rs): one long-lived process per     *)
(* tool server, a table of the running ones behind an async lock, a reader   *)
(* thread per process, the requests that wait for answers, the crash record  *)
(* and the cache of tool lists.                                             *)
(*                                                                         *)
(* Abstracted: a request is known by its caller (a caller waits for one at a *)
(* time) and a tool list by its version. The least recently used server is   *)
(* any in the table. Crashes age out one at a time. A tool list has one      *)
(* page; `expose`, static tools of package.json and the list kept on disk    *)
(* are left out, and so are full pipes.                                     *)
(***************************************************************************)
EXTENDS Naturals, FiniteSets

CONSTANTS
    Servers,      \* package folders
    Callers,      \* tasks that call tools
    Listers,      \* those that list them instead
    Uses,         \* bound: the servers each caller asks
    MaxRunning,   \* MAX_RUNNING
    MaxCrashes,   \* MAX_CRASHES
    MaxStarts,    \* bound: processes started
    None

ASSUME McpAssumption ==
    /\ MaxRunning \in Nat /\ MaxCrashes \in Nat /\ MaxStarts \in Nat
    /\ None \notin Callers \cup Servers
    /\ \A c \in Callers : Uses[c] \subseteq Servers

VARIABLES
    table,     \* SESSIONS: the session of each server, 0 for none
    holder,    \* the caller with the lock on SESSIONS
    session,   \* the sessions: process, flags, reader thread
    pending,   \* the callers whose requests a session has not answered
    crashes,   \* CRASHES within the window
    cache,     \* MCP_TOOL_CACHE: whether it has a server's list, and an old one
    call       \* the callers: how far, with which server and session

vars == <<table, holder, session, pending, crashes, cache, call>>

Sessions == 1..MaxStarts
NoSession == [dir |-> None, running |-> FALSE, alive |-> FALSE, here |-> FALSE, stopping |-> FALSE,
              reader |-> "none", failed |-> FALSE, died |-> FALSE]
NoCall == [step |-> "idle", dir |-> None, s |-> 0, old |-> FALSE]

Init ==
    /\ table = [d \in Servers |-> 0] /\ holder = None
    /\ session = [s \in Sessions |-> NoSession] /\ pending = [s \in Sessions |-> {}]
    /\ crashes = [d \in Servers |-> 0]
    /\ cache = [d \in Servers |-> "none"]
    /\ call = [c \in Callers |-> NoCall]

Held == {d \in Servers : table[d] # 0}
At(c, step) == call[c].step = step
Go(c, step) == call' = [call EXCEPT ![c].step = step]
End(c) == call' = [call EXCEPT ![c] = NoCall]

\* Faulty: the Engine's own stop is not marked.
StoppedUnmarked(s) == [session[s] EXCEPT !.alive = FALSE, !.here = FALSE, !.running = FALSE]
\* stop: the exit that follows is no crash; stdin closes, the process is ended.
Stopped(s) == [session[s] EXCEPT !.stopping = TRUE, !.alive = FALSE, !.here = FALSE,
                                        !.running = FALSE]

-----------------------------------------------------------------------------
(* call_tool and list_tools, up to the session (session_for).              *)

\* list_tools answers from the cache; all else asks the server.
Begin(c) ==
    /\ At(c, "idle")
    /\ \E d \in Uses[c] :
          /\ ~(c \in Listers /\ cache[d] # "none")
          /\ call' = [call EXCEPT ![c] = [NoCall EXCEPT !.step = "lock", !.dir = d]]
    /\ UNCHANGED <<table, holder, session, pending, crashes, cache>>

Lock(c) ==
    /\ At(c, "lock") /\ holder = None
    /\ holder' = c /\ Go(c, "look")
    /\ UNCHANGED <<table, session, pending, crashes, cache>>

\* A live session of the open workspace is used; any other is stopped first.
Look(c) ==
    LET d == call[c].dir
        s == table[d]
    IN  /\ At(c, "look")
        /\ IF s = 0 THEN Go(c, "room") /\ UNCHANGED <<table, holder, session>>
           ELSE IF session[s].alive /\ session[s].here
           THEN /\ call' = [call EXCEPT ![c].step = "request", ![c].s = s]
                /\ holder' = None /\ UNCHANGED <<table, session>>
           ELSE /\ session' = [session EXCEPT ![s] = Stopped(s)]
                /\ table' = [table EXCEPT ![d] = 0]
                /\ Go(c, "room") /\ UNCHANGED holder
        /\ UNCHANGED <<pending, crashes, cache>>

\* Faulty: room is made only once the table is over the limit.
CrowdedLate == Cardinality(Held) > MaxRunning
Crowded == Cardinality(Held) >= MaxRunning

\* The least recently used server goes, with the requests it has.
Evict(c) ==
    /\ At(c, "room") /\ Crowded
    /\ \E d \in Held :
          /\ session' = [session EXCEPT ![table[d]] = Stopped(table[d])]
          /\ table' = [table EXCEPT ![d] = 0]
    /\ UNCHANGED <<holder, pending, crashes, cache, call>>

\* restart_wait: not after MAX_CRASHES. Otherwise, after a pause, the process,
\* its reader thread and the request to initialize; the lock is held throughout.
Start(c) ==
    /\ At(c, "room") /\ ~Crowded /\ crashes[call[c].dir] < MaxCrashes
    /\ \E s \in Sessions :
          /\ session[s].reader = "none" /\ \A t \in 1..(s - 1) : session[t].reader # "none"
          /\ session' = [session EXCEPT ![s] = [NoSession EXCEPT
                !.dir = call[c].dir, !.running = TRUE, !.alive = TRUE, !.here = TRUE, !.reader = "reads"]]
          /\ pending' = [pending EXCEPT ![s] = {c}]
          /\ call' = [call EXCEPT ![c].step = "init", ![c].s = s]
    /\ UNCHANGED <<table, holder, crashes, cache>>

\* Refused, or no program to run.
StartFails(c) ==
    /\ At(c, "room") /\ ~Crowded
    /\ End(c) /\ holder' = None
    /\ UNCHANGED <<table, session, pending, crashes, cache>>

\* The answer to `initialize`; the notification that follows may fail.
Initialized(c) ==
    /\ At(c, "ready")
    /\ table' = [table EXCEPT ![call[c].dir] = call[c].s]
    /\ holder' = None /\ Go(c, "request")
    /\ UNCHANGED <<session, pending, crashes, cache>>

\* No answer in time, an error, or the process exited: the session is given up
\* as it is. Nothing stops its process.
NotInitialized(c) ==
    /\ call[c].step \in {"init", "ready", "dropped"} /\ holder = c
    /\ pending' = [pending EXCEPT ![call[c].s] = @ \ {c}]
    /\ session' = [session EXCEPT ![call[c].s].failed = TRUE]
    /\ End(c) /\ holder' = None
    /\ UNCHANGED <<table, crashes, cache>>

-----------------------------------------------------------------------------
(* The request.                                                            *)

\* request: the entry in the table of waiting requests
Enter(c) ==
    /\ At(c, "request")
    /\ pending' = [pending EXCEPT ![call[c].s] = @ \cup {c}]
    /\ Go(c, "send")
    /\ UNCHANGED <<table, holder, session, crashes, cache>>

\* and the line on stdin, unless it is closed or broken.
Send(c) ==
    LET s == call[c].s
    IN  /\ At(c, "send")
        /\ \/ ~session[s].stopping /\ Go(c, "wait") /\ UNCHANGED pending
           \/ ~session[s].running /\ End(c) /\ pending' = [pending EXCEPT ![s] = @ \ {c}]
        /\ UNCHANGED <<table, holder, session, crashes, cache>>

\* Faulty: no time limit.
FailIfDropped(c) ==
    /\ At(c, "dropped") /\ holder # c
    /\ pending' = [pending EXCEPT ![call[c].s] = @ \ {c}]
    /\ End(c)
    /\ UNCHANGED <<table, holder, session, crashes, cache>>

\* The time limit, or the sender was dropped.
Fail(c) ==
    /\ call[c].step \in {"wait", "dropped"} /\ holder # c
    /\ pending' = [pending EXCEPT ![call[c].s] = @ \ {c}]
    /\ End(c)
    /\ UNCHANGED <<table, holder, session, crashes, cache>>

\* The answer of a call, or the list that list_tools keeps.
Return(c) ==
    /\ At(c, "answered")
    /\ cache' = [cache EXCEPT ![call[c].dir] =
          IF c \notin Listers THEN @ ELSE IF call[c].old THEN "old" ELSE "current"]
    /\ End(c)
    /\ UNCHANGED <<table, holder, session, pending, crashes>>

-----------------------------------------------------------------------------
(* The server and the reader of its stdout.                                *)

Answer(s) ==
    /\ session[s].reader = "reads"
    /\ \E c \in pending[s] :
          /\ pending' = [pending EXCEPT ![s] = @ \ {c}]
          /\ \/ At(c, "init") /\ Go(c, "ready")
             \/ At(c, "wait") /\ Go(c, "answered")
    /\ UNCHANGED <<table, holder, session, crashes, cache>>

\* notifications/tools/list_changed: the kept list goes. A list that was
\* answered before is an old one.
ListChanged(s) ==
    LET d == session[s].dir
    IN  /\ session[s].reader = "reads" /\ session[s].running
        /\ cache' = [cache EXCEPT ![d] = "none"]
        /\ call' = [c \in Callers |-> [call[c] EXCEPT !.old = @ \/ (c \in Listers /\ At(c, "answered")
                                                                 /\ call[c].dir = d)]]
        /\ UNCHANGED <<table, holder, session, pending, crashes>>

\* The process ends by itself.
Exit(s) ==
    /\ session[s].running
    /\ session' = [session EXCEPT ![s].running = FALSE, ![s].died = TRUE]
    /\ UNCHANGED <<table, holder, pending, crashes, cache, call>>

\* The end of stdout: not alive any more,
Eof(s) ==
    /\ session[s].reader = "reads" /\ ~session[s].running
    /\ session' = [session EXCEPT ![s].reader = "ended", ![s].alive = FALSE]
    /\ UNCHANGED <<table, holder, pending, crashes, cache, call>>

\* the waiting requests fail as their senders drop,
Clear(s) ==
    /\ session[s].reader = "ended"
    /\ session' = [session EXCEPT ![s].reader = "judges"]
    /\ pending' = [pending EXCEPT ![s] = {}]
    /\ call' = [c \in Callers |-> IF c \in pending[s] /\ call[c].step \in {"init", "wait"}
                                  THEN [call[c] EXCEPT !.step = "dropped"] ELSE call[c]]
    /\ UNCHANGED <<table, holder, crashes, cache>>

\* and what the Engine did not stop is a crash.
Judge(s) ==
    LET crash == ~session[s].stopping
        d == session[s].dir
    IN  /\ session[s].reader = "judges"
        /\ session' = [session EXCEPT ![s] = [NoSession EXCEPT !.dir = d, !.reader = "done"]]
        /\ crashes' = IF crash /\ crashes[d] < MaxCrashes THEN [crashes EXCEPT ![d] = @ + 1] ELSE crashes
        /\ UNCHANGED <<table, holder, pending, cache, call>>

-----------------------------------------------------------------------------
(* The rest of the program.                                                *)

\* A request sent lately: its session is not idle.
Busy(s) == \E c \in Callers : call[c].s = s /\ call[c].step \in {"init", "send", "wait"}

\* The reaper: servers idle for IDLE_STOP, and exited ones.
Reap ==
    LET gone(d) == ~session[table[d]].alive
    IN  /\ holder = None
        /\ \E idle \in SUBSET {d \in Held : ~Busy(table[d])} :
              LET D == idle \cup {d \in Held : gone(d)}
              IN  /\ D # {}
                  /\ session' = [s \in Sessions |-> IF \E d \in D : table[d] = s THEN Stopped(s) ELSE session[s]]
                  /\ table' = [d \in Servers |-> IF d \in D THEN 0 ELSE table[d]]
        /\ UNCHANGED <<holder, pending, crashes, cache, call>>

\* stop_server, for a package that goes: its session, then its tools.
StopServer(d) ==
    /\ holder = None /\ table[d] # 0
    /\ session' = [session EXCEPT ![table[d]] = Stopped(table[d])]
    /\ table' = [table EXCEPT ![d] = 0]
    /\ UNCHANGED <<holder, pending, crashes, cache, call>>

\* stop_server's end, or clear_tool_cache
ForgetTools(d) ==
    /\ cache[d] # "none"
    /\ cache' = [cache EXCEPT ![d] = "none"]
    /\ UNCHANGED <<table, holder, session, pending, crashes, call>>

\* Another workspace is opened.
OpenWorkspace ==
    /\ \E s \in Sessions : session[s].here
    /\ session' = [s \in Sessions |-> [session[s] EXCEPT !.here = FALSE]]
    /\ UNCHANGED <<table, holder, pending, crashes, cache, call>>

\* CRASH_WINDOW has passed since the oldest crash.
WindowPasses(d) ==
    /\ crashes[d] > 0
    /\ crashes' = [crashes EXCEPT ![d] = @ - 1]
    /\ UNCHANGED <<table, holder, session, pending, cache, call>>

CallStep(c) ==
    \/ Look(c) \/ Evict(c) \/ Start(c) \/ StartFails(c)
    \/ Initialized(c) \/ NotInitialized(c) \/ Enter(c) \/ Send(c) \/ Fail(c) \/ Return(c)
ReaderStep(s) == Eof(s) \/ Clear(s) \/ Judge(s)

Next ==
    \/ \E c \in Callers : Begin(c) \/ Lock(c) \/ CallStep(c)
    \/ \E s \in Sessions : Answer(s) \/ ListChanged(s) \/ Exit(s) \/ ReaderStep(s)
    \/ \E d \in Servers : StopServer(d) \/ ForgetTools(d) \/ WindowPasses(d)
    \/ Reap \/ OpenWorkspace

Spec == Init /\ [][Next]_vars

\* The lock is granted in turn (tokio's Mutex is fair), and a task, a timer and
\* a reader thread go on; nothing is assumed of the servers.
Fairness ==
    /\ \A c \in Callers : SF_vars(Lock(c)) /\ WF_vars(CallStep(c))
    /\ \A s \in Sessions : WF_vars(ReaderStep(s))

FairSpec == Spec /\ Fairness

-----------------------------------------------------------------------------
(* Correctness.                                                            *)

\* Every variable has its type; the lock is held by a caller on its way to a
\* session, and only by that one.
TypeOK ==
    /\ table \in [Servers -> 0..MaxStarts]
    /\ crashes \in [Servers -> 0..MaxCrashes]
    /\ cache \in [Servers -> {"none", "current", "old"}]
    /\ pending \in [Sessions -> SUBSET Callers]
    /\ \A c \in Callers : call[c].step \in {"look", "room", "init", "ready"} => holder = c
    /\ holder \in Callers \cup {None}
    /\ \A d \in Held : session[table[d]].dir = d

\* "Most servers running at once": the processes that run, those whose start
\* failed aside, are never more than MAX_RUNNING, through evictions, restarts,
\* other workspaces, stopped packages and idle ones. None is forgotten running.
RunningBounded ==
    Cardinality({s \in Sessions : session[s].running /\ ~session[s].failed}) <= MaxRunning

\* "Set when the Engine stops it: its exit is then not a crash".
StoppedIsNoCrash ==
    [][\A d \in Servers : crashes'[d] > crashes[d] =>
          \E s \in Sessions : session[s].dir = d /\ session[s].died /\ session'[s].reader = "done"]_vars

\* Every call ends, with an answer, an error or a timeout, whatever the server
\* does and however often servers are evicted, restarted or stopped.
EveryCallEnds == \A c \in Callers : ~At(c, "idle") ~> At(c, "idle")
=============================================================================
