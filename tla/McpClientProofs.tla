--------------------------- MODULE McpClientProofs ---------------------------
(* What holds of McpClient for any number of callers and servers, and       *)
(* whatever the limits of running servers and of crashes are.               *)
EXTENDS McpClient, FiniteSetTheorems, TLAPS

-----------------------------------------------------------------------------
(* Types.                                                                  *)

Steps == {"idle", "lock", "look", "room", "init", "ready", "dropped", "request", "send",
          "wait", "answered"}
Session == [dir : Servers \cup {None}, running : BOOLEAN, alive : BOOLEAN, here : BOOLEAN,
            stopping : BOOLEAN, reader : {"none", "reads", "ended", "judges", "done"},
            failed : BOOLEAN, died : BOOLEAN]
Call == [step : Steps, dir : Servers \cup {None}, s : 0..MaxStarts, old : BOOLEAN]

\* The steps of a caller that has the lock; one whose start ran into the end of
\* the process still has it.
Locked == {"look", "room", "init", "ready", "dropped"}

\* A caller knows the server it calls, and then the session; the one with the
\* lock is on its way to a session; a session in the table was started, and one
\* that is being started is of the server it is started for.
Shape ==
    /\ session \in [Sessions -> Session] /\ call \in [Callers -> Call]
    /\ \A c \in Callers :
          /\ call[c].step # "idle" => call[c].dir \in Servers
          /\ call[c].step \in {"init", "ready", "dropped", "request", "send", "wait", "answered"}
                => call[c].s \in Sessions
    /\ holder # None => call[holder].step \in Locked
    /\ \A d \in Servers : table[d] # 0 => session[table[d]].reader # "none"
    /\ \A c \in Callers : call[c].step \in {"init", "ready"} =>
          session[call[c].s].dir = call[c].dir /\ session[call[c].s].reader # "none"

LEMMA NoCallType == NoCall \in Call /\ NoCall.step = "idle"
  <1>1. 0 \in 0..MaxStarts
    BY McpAssumption
  <1> QED
    BY <1>1 DEF NoCall, Call, Steps

\* A caller that goes on.
LEMMA NextStep ==
    ASSUME NEW k \in Call, NEW st \in Steps
    PROVE  /\ [k EXCEPT !.step = st] \in Call
           /\ [k EXCEPT !.step = st].step = st
           /\ [k EXCEPT !.step = st].dir = k.dir
           /\ [k EXCEPT !.step = st].s = k.s
  BY DEF Call

LEMMA StopType ==
    ASSUME Shape, NEW s \in Sessions
    PROVE  /\ Stopped(s) \in Session
           /\ Stopped(s).dir = session[s].dir /\ Stopped(s).reader = session[s].reader
           /\ Stopped(s).failed = session[s].failed /\ Stopped(s).died = session[s].died
           /\ ~Stopped(s).running /\ Stopped(s).stopping
  <1>1. session[s] \in Session
    BY DEF Shape
  <1> QED
    BY <1>1 DEF Stopped, Session

\* One caller takes a step outside the lock, and nothing but it and the
\* requests that wait changes.
LEMMA OneCall ==
    ASSUME TypeOK, Shape, NEW c \in Callers, NEW k \in Call,
           call' = [call EXCEPT ![c] = k], UNCHANGED <<table, holder, session, crashes>>,
           pending' \in [Sessions -> SUBSET Callers], cache' \in [Servers -> {"none", "current", "old"}],
           k.step # "idle" => k.dir \in Servers,
           k.step \in {"init", "ready", "dropped", "request", "send", "wait", "answered"}
              => k.s \in Sessions,
           k.step \in Locked => holder = c \/ k.step = "dropped",
           k.step \in {"init", "ready"} => session[k.s].dir = k.dir /\ session[k.s].reader # "none",
           holder = c => k.step \in Locked
    PROVE  TypeOK' /\ Shape'
  <1>1. call'[c] = k /\ \A b \in Callers \ {c} : call'[b] = call[b]
    BY DEF Shape
  <1>2. call' \in [Callers -> Call]
    BY DEF Shape
  <1>3. TypeOK'
    BY <1>1 DEF TypeOK, Locked, Held
  <1>4. Shape'
    BY <1>1, <1>2 DEF Shape, TypeOK
  <1> QED
    BY <1>3, <1>4

LEMMA RequestTypes ==
    ASSUME TypeOK, Shape, NEW c \in Callers,
           Begin(c) \/ Enter(c) \/ Send(c) \/ Fail(c) \/ Return(c)
    PROVE  TypeOK' /\ Shape'
  <1> DEFINE D == call[c].dir
  <1>1. call[c] \in Call /\ (holder = c => call[c].step \in Locked)
    BY McpAssumption DEF Shape
  <1>2. CASE Begin(c)
    <2>1. PICK d \in Servers : call' = [call EXCEPT ![c] = [NoCall EXCEPT !.step = "lock", !.dir = d]]
      BY <1>2, McpAssumption DEF Begin
    <2>2. /\ [NoCall EXCEPT !.step = "lock", !.dir = d] \in Call
          /\ [NoCall EXCEPT !.step = "lock", !.dir = d].step = "lock"
          /\ [NoCall EXCEPT !.step = "lock", !.dir = d].dir = d
      <3>1. 0 \in 0..MaxStarts
        BY McpAssumption
      <3> QED
        BY <3>1 DEF NoCall, Call, Steps
    <2>3. holder # c
      BY <1>1, <1>2 DEF Begin, At, Locked
    <2> QED
      BY <1>2, <2>1, <2>2, <2>3, OneCall DEF Begin, TypeOK, Locked
  <1>3. CASE Enter(c)
    <2> DEFINE k == [call[c] EXCEPT !.step = "send"]
    <2>1. k \in Call /\ k.step = "send" /\ k.dir = call[c].dir /\ k.s = call[c].s
      BY <1>1, NextStep DEF Steps
    <2>2. call' = [call EXCEPT ![c] = k] /\ call[c].step = "request" /\ holder # c
      BY <1>1, <1>3 DEF Enter, Go, At, Locked
    <2> HIDE DEF k
    <2> QED
      BY <1>3, <2>1, <2>2, OneCall DEF Enter, TypeOK, Shape, Locked
  <1>4. CASE Send(c)
    <2>1. call[c].step = "send" /\ holder # c
      BY <1>1, <1>4 DEF Send, At, Locked
    <2>2. CASE Go(c, "wait") /\ UNCHANGED pending
      <3> DEFINE k == [call[c] EXCEPT !.step = "wait"]
      <3>1. k \in Call /\ k.step = "wait" /\ k.dir = call[c].dir /\ k.s = call[c].s
        BY <1>1, NextStep DEF Steps
      <3>2. call' = [call EXCEPT ![c] = k]
        BY <2>2 DEF Go
      <3> HIDE DEF k
      <3> QED
        BY <1>4, <2>1, <2>2, <3>1, <3>2, OneCall DEF Send, TypeOK, Shape, Locked
    <2>3. CASE End(c) /\ pending' = [pending EXCEPT ![call[c].s] = @ \ {c}]
      BY <1>4, <2>1, <2>3, OneCall, NoCallType DEF Send, End, TypeOK, Locked
    <2> QED
      BY <1>4, <2>2, <2>3 DEF Send
  <1>5. CASE Fail(c)
    BY <1>5, OneCall, NoCallType DEF Fail, End, TypeOK, Locked
  <1>6. CASE Return(c)
    <2>1. holder # c
      BY <1>1, <1>6 DEF Return, At, Locked
    <2>2. cache' \in [Servers -> {"none", "current", "old"}]
      BY <1>6 DEF Return, TypeOK
    <2> QED
      BY <1>6, <2>1, <2>2, OneCall, NoCallType DEF Return, End, TypeOK, Locked
  <1> QED
    BY <1>2, <1>3, <1>4, <1>5, <1>6

\* What the table says of its sessions stays true while sessions go out of it,
\* and they keep their server and were started.
TableInv ==
    /\ \A d \in Servers :
          table[d] # 0 => session[table[d]].dir = d /\ session[table[d]].reader # "none"
    /\ \A c \in Callers : call[c].step \in {"init", "ready"} =>
          session[call[c].s].dir = call[c].dir /\ session[call[c].s].reader # "none"

LEMMA TableRight == TypeOK /\ Shape => TableInv
  BY DEF TypeOK, Shape, TableInv, Held

LEMMA TableKept ==
    ASSUME TypeOK, Shape, \A d \in Servers : table'[d] \in {table[d], 0},
           \A s \in Sessions : session[s].reader # "none" =>
              session'[s].dir = session[s].dir /\ session'[s].reader # "none",
           \A c \in Callers : call'[c].step \in {"init", "ready"} =>
              /\ call[c].step \in {"init", "ready"}
              /\ call'[c].s = call[c].s /\ call'[c].dir = call[c].dir
    PROVE  TableInv'
  <1>1. ASSUME NEW d \in Servers, table'[d] # 0
        PROVE  session'[table'[d]].dir = d /\ session'[table'[d]].reader # "none"
    <2>1. table'[d] = table[d] /\ table[d] \in 0..MaxStarts
      BY <1>1 DEF TypeOK
    <2>2. table[d] \in Sessions
      BY <1>1, <2>1, McpAssumption DEF Sessions
    <2>3. session[table[d]].dir = d /\ session[table[d]].reader # "none"
      BY <1>1, <2>1, TableRight DEF TableInv
    <2> QED
      BY <2>1, <2>2, <2>3
  <1>2. ASSUME NEW c \in Callers, call'[c].step \in {"init", "ready"}
        PROVE  session'[call'[c].s].dir = call'[c].dir /\ session'[call'[c].s].reader # "none"
    <2>1. call[c].step \in {"init", "ready"} /\ call'[c].s = call[c].s /\ call'[c].dir = call[c].dir
      BY <1>2
    <2>2. call[c].s \in Sessions /\ session[call[c].s].dir = call[c].dir
          /\ session[call[c].s].reader # "none"
      BY <2>1 DEF Shape
    <2> QED
      BY <2>1, <2>2
  <1> QED
    BY <1>1, <1>2 DEF TableInv

\* The parts of TypeOK and Shape, for a step that changes several of them.
LEMMA Assembled ==
    ASSUME table' \in [Servers -> 0..MaxStarts], crashes' \in [Servers -> 0..MaxCrashes],
           cache' \in [Servers -> {"none", "current", "old"}],
           pending' \in [Sessions -> SUBSET Callers], holder' \in Callers \cup {None},
           session' \in [Sessions -> Session], call' \in [Callers -> Call], TableInv',
           \A c \in Callers :
              /\ call'[c].step \in {"look", "room", "init", "ready"} => holder' = c
              /\ call'[c].step # "idle" => call'[c].dir \in Servers
              /\ call'[c].step \in {"init", "ready", "dropped", "request", "send", "wait", "answered"}
                    => call'[c].s \in Sessions,
           holder' # None => call'[holder'].step \in Locked
    PROVE  TypeOK' /\ Shape'
  BY DEF TypeOK, Shape, TableInv, Held

\* A step that changes sessions, and takes some out of the table.
LEMMA SessionsChange ==
    ASSUME TypeOK, Shape, UNCHANGED <<holder, call, cache>>,
           pending' \in [Sessions -> SUBSET Callers], crashes' \in [Servers -> 0..MaxCrashes],
           table' \in [Servers -> 0..MaxStarts], \A d \in Servers : table'[d] \in {table[d], 0},
           session' \in [Sessions -> Session],
           \A s \in Sessions : session[s].reader # "none" =>
              session'[s].dir = session[s].dir /\ session'[s].reader # "none"
    PROVE  TypeOK' /\ Shape'
  <1>1. TableInv'
    BY TableKept
  <1> QED
    BY <1>1, Assembled DEF TypeOK, Shape

LEMMA ReaderTypes ==
    ASSUME TypeOK, Shape, NEW s \in Sessions,
           Answer(s) \/ ListChanged(s) \/ Exit(s) \/ Eof(s) \/ Clear(s) \/ Judge(s)
    PROVE  TypeOK' /\ Shape'
  <1>1. session[s] \in Session
    BY DEF Shape
  <1>2. CASE Answer(s)
    <2>1. PICK c \in pending[s] :
            /\ pending' = [pending EXCEPT ![s] = @ \ {c}]
            /\ \/ At(c, "init") /\ Go(c, "ready")
               \/ At(c, "wait") /\ Go(c, "answered")
      BY <1>2 DEF Answer
    <2>2. c \in Callers /\ call[c] \in Call /\ (holder = c => call[c].step \in Locked)
      BY McpAssumption DEF TypeOK, Shape
    <2>3. PICK st \in {"ready", "answered"} :
            /\ call' = [call EXCEPT ![c] = [call[c] EXCEPT !.step = st]]
            /\ call[c].step = IF st = "ready" THEN "init" ELSE "wait"
      BY <2>1 DEF At, Go
    <2> DEFINE k == [call[c] EXCEPT !.step = st]
    <2>4. k \in Call /\ k.step = st /\ k.dir = call[c].dir /\ k.s = call[c].s
      <3>1. st \in Steps
        BY DEF Steps
      <3> QED
        BY <2>2, <3>1, NextStep
    <2>5. call' = [call EXCEPT ![c] = k]
      BY <2>3
    <2> HIDE DEF k
    <2>6. /\ k.dir \in Servers /\ k.s \in Sessions
          /\ (k.step \in Locked => holder = c) /\ (holder = c => k.step \in Locked)
          /\ (k.step = "ready" => session[k.s].dir = k.dir /\ session[k.s].reader # "none")
      BY <2>2, <2>3, <2>4 DEF TypeOK, Shape, Locked
    <2>7. /\ pending' \in [Sessions -> SUBSET Callers]
          /\ cache' \in [Servers -> {"none", "current", "old"}]
          /\ UNCHANGED <<table, holder, session, crashes>>
      BY <1>2, <2>1 DEF Answer, TypeOK
    <2> QED
      BY <2>2, <2>4, <2>5, <2>6, <2>7, OneCall
  <1>3. CASE ListChanged(s)
    <2>1. \A c \in Callers : /\ call'[c] \in Call /\ call'[c].step = call[c].step
                              /\ call'[c].dir = call[c].dir /\ call'[c].s = call[c].s
      <3> SUFFICES ASSUME NEW c \in Callers
                   PROVE  /\ call'[c] \in Call /\ call'[c].step = call[c].step
                          /\ call'[c].dir = call[c].dir /\ call'[c].s = call[c].s
        OBVIOUS
      <3>1. PICK b \in BOOLEAN : call'[c] = [call[c] EXCEPT !.old = b]
        <4> DEFINE b == call[c].old \/ (c \in Listers /\ At(c, "answered")
                                         /\ call[c].dir = session[s].dir)
        <4>1. call'[c] = [call[c] EXCEPT !.old = b]
          BY <1>3 DEF ListChanged
        <4> QED
          BY <4>1
      <3>2. call[c] \in Call
        BY DEF Shape
      <3> QED
        BY <3>1, <3>2 DEF Call
    <2>2. call' \in [Callers -> Call]
      <3>1. call' = [c \in Callers |-> call'[c]]
        BY <1>3 DEF ListChanged
      <3> QED
        BY <2>1, <3>1
    <2>3. cache' \in [Servers -> {"none", "current", "old"}] /\ UNCHANGED <<table, holder, session, pending, crashes>>
      BY <1>3 DEF ListChanged, TypeOK
    <2>4. TableInv'
      BY <2>1, <2>3, TableKept
    <2> QED
      BY <2>1, <2>2, <2>3, <2>4, Assembled DEF TypeOK, Shape
  <1>4. CASE Exit(s)
    <2> DEFINE n == [session[s] EXCEPT !.running = FALSE, !.died = TRUE]
    <2>1. n \in Session /\ n.dir = session[s].dir /\ n.reader = session[s].reader
      BY <1>1 DEF Session
    <2>2. session' = [session EXCEPT ![s] = n] /\ UNCHANGED <<table, holder, pending, crashes, cache, call>>
      BY <1>4 DEF Exit
    <2> HIDE DEF n
    <2> QED
      BY <2>1, <2>2, SessionsChange DEF TypeOK, Shape
  <1>5. CASE Eof(s)
    <2> DEFINE n == [session[s] EXCEPT !.reader = "ended", !.alive = FALSE]
    <2>1. n \in Session /\ n.dir = session[s].dir /\ n.reader = "ended"
      BY <1>1 DEF Session
    <2>2. session' = [session EXCEPT ![s] = n] /\ UNCHANGED <<table, holder, pending, crashes, cache, call>>
      BY <1>5 DEF Eof
    <2> HIDE DEF n
    <2> QED
      BY <2>1, <2>2, SessionsChange DEF TypeOK, Shape
  <1>6. CASE Clear(s)
    <2> DEFINE n == [session[s] EXCEPT !.reader = "judges"]
    <2>1. n \in Session /\ n.dir = session[s].dir /\ n.reader = "judges"
      BY <1>1 DEF Session
    <2>2. session' = [session EXCEPT ![s] = n] /\ UNCHANGED <<table, holder, crashes, cache>>
      BY <1>6 DEF Clear
    <2> HIDE DEF n
    <2>3. pending' \in [Sessions -> SUBSET Callers]
      BY <1>6 DEF Clear, TypeOK
    <2>4. \A c \in Callers : \/ call'[c] = call[c]
                             \/ /\ call[c].step \in {"init", "wait"} /\ call'[c] \in Call
                                /\ call'[c].step = "dropped" /\ call'[c].dir = call[c].dir
                                /\ call'[c].s = call[c].s
      <3> SUFFICES ASSUME NEW c \in Callers, call'[c] # call[c]
                   PROVE  /\ call[c].step \in {"init", "wait"} /\ call'[c] \in Call
                          /\ call'[c].step = "dropped" /\ call'[c].dir = call[c].dir
                          /\ call'[c].s = call[c].s
        OBVIOUS
      <3>1. call[c] \in Call /\ "dropped" \in Steps
        BY DEF Shape, Steps
      <3>2. call[c].step \in {"init", "wait"} /\ call'[c] = [call[c] EXCEPT !.step = "dropped"]
        BY <1>6 DEF Clear
      <3> QED
        BY <3>1, <3>2, NextStep
    <2>5. call' \in [Callers -> Call]
      <3>1. call' = [c \in Callers |-> call'[c]]
        BY <1>6 DEF Clear
      <3>2. \A c \in Callers : call'[c] \in Call
        BY <2>4 DEF Shape
      <3> QED
        BY <3>1, <3>2
    <2>6. TableInv'
      BY <2>1, <2>2, <2>4, TableKept DEF Shape
    <2>7. session' \in [Sessions -> Session]
      BY <2>1, <2>2 DEF Shape
    <2>8. \A c \in Callers :
              /\ call'[c].step \in {"look", "room", "init", "ready"} => holder' = c
              /\ call'[c].step # "idle" => call'[c].dir \in Servers
              /\ call'[c].step \in {"init", "ready", "dropped", "request", "send", "wait", "answered"}
                    => call'[c].s \in Sessions
      BY <2>2, <2>4 DEF TypeOK, Shape
    <2>9. holder' # None => call'[holder'].step \in Locked
      BY <2>2, <2>4 DEF TypeOK, Shape, Locked
    <2> QED
      BY <2>2, <2>3, <2>5, <2>6, <2>7, <2>8, <2>9, Assembled DEF TypeOK
  <1>7. CASE Judge(s)
    <2> DEFINE n == [NoSession EXCEPT !.dir = session[s].dir, !.reader = "done"]
    <2>1. n \in Session /\ n.dir = session[s].dir /\ n.reader = "done"
      BY <1>1 DEF Session, NoSession
    <2>2. session' = [session EXCEPT ![s] = n] /\ UNCHANGED <<table, holder, pending, cache, call>>
      BY <1>7 DEF Judge
    <2> HIDE DEF n
    <2>3. crashes' \in [Servers -> 0..MaxCrashes]
      <3>1. UNCHANGED crashes \/ (/\ crashes[session[s].dir] < MaxCrashes
                                 /\ crashes' = [crashes EXCEPT ![session[s].dir] = @ + 1])
        BY <1>7 DEF Judge
      <3>2. \A d \in Servers : crashes[d] \in 0..MaxCrashes
        BY DEF TypeOK
      <3> QED
        BY <3>1, <3>2, McpAssumption DEF TypeOK
    <2> QED
      BY <2>1, <2>2, <2>3, SessionsChange DEF TypeOK, Shape
  <1> QED
    BY <1>2, <1>3, <1>4, <1>5, <1>6, <1>7

LEMMA ProgramTypes ==
    ASSUME TypeOK, Shape,
           \/ \E d \in Servers : StopServer(d) \/ ForgetTools(d) \/ WindowPasses(d)
           \/ Reap \/ OpenWorkspace
    PROVE  TypeOK' /\ Shape'
  <1>1. ASSUME NEW d \in Servers, StopServer(d)
        PROVE  TypeOK' /\ Shape'
    <2>1. table[d] \in Sessions
      BY <1>1, McpAssumption DEF StopServer, TypeOK, Sessions
    <2>2. /\ session' = [session EXCEPT ![table[d]] = Stopped(table[d])]
          /\ table' = [table EXCEPT ![d] = 0] /\ UNCHANGED <<holder, pending, crashes, cache, call>>
      BY <1>1 DEF StopServer
    <2>3. table' \in [Servers -> 0..MaxStarts]
      BY <2>2, McpAssumption DEF TypeOK
    <2>4. \A e \in Servers : table'[e] \in {table[e], 0}
      BY <2>2 DEF TypeOK
    <2> QED
      BY <2>1, <2>2, <2>3, <2>4, StopType, SessionsChange DEF TypeOK, Shape
  <1>2. ASSUME NEW d \in Servers, ForgetTools(d)
        PROVE  TypeOK' /\ Shape'
    BY <1>2 DEF ForgetTools, TypeOK, Shape, Held
  <1>3. ASSUME NEW d \in Servers, WindowPasses(d)
        PROVE  TypeOK' /\ Shape'
    <2>1. crashes' \in [Servers -> 0..MaxCrashes]
      BY <1>3, McpAssumption DEF WindowPasses, TypeOK
    <2> QED
      BY <1>3, <2>1 DEF WindowPasses, TypeOK, Shape, Held
  <1>4. CASE Reap
    <2>1. PICK D \in SUBSET Servers :
            /\ session' = [s \in Sessions |-> IF \E d \in D : table[d] = s THEN Stopped(s) ELSE session[s]]
            /\ table' = [d \in Servers |-> IF d \in D THEN 0 ELSE table[d]]
      BY <1>4 DEF Reap, Held
    <2>2. UNCHANGED <<holder, pending, crashes, cache, call>>
      BY <1>4 DEF Reap
    <2>3. \A s \in Sessions : /\ session'[s] \in Session /\ session'[s].dir = session[s].dir
                              /\ session'[s].reader = session[s].reader
      BY <2>1, StopType DEF Shape
    <2>4. session' \in [Sessions -> Session]
      <3>1. session' = [s \in Sessions |-> session'[s]]
        BY <2>1
      <3> QED
        BY <2>3, <3>1
    <2>5. table' \in [Servers -> 0..MaxStarts] /\ \A d \in Servers : table'[d] \in {table[d], 0}
      BY <2>1, McpAssumption DEF TypeOK
    <2> QED
      BY <2>2, <2>3, <2>4, <2>5, SessionsChange DEF TypeOK
  <1>5. CASE OpenWorkspace
    <2>1. \A s \in Sessions : /\ session'[s] \in Session /\ session'[s].dir = session[s].dir
                              /\ session'[s].reader = session[s].reader
      <3> SUFFICES ASSUME NEW s \in Sessions
                   PROVE  /\ session'[s] \in Session /\ session'[s].dir = session[s].dir
                          /\ session'[s].reader = session[s].reader
        OBVIOUS
      <3>1. session[s] \in Session
        BY DEF Shape
      <3>2. session'[s] = [session[s] EXCEPT !.here = FALSE]
        BY <1>5 DEF OpenWorkspace
      <3> QED
        BY <3>1, <3>2 DEF Session
    <2>2. session' \in [Sessions -> Session]
      <3>1. session' = [s \in Sessions |-> session'[s]]
        BY <1>5 DEF OpenWorkspace
      <3> QED
        BY <2>1, <3>1
    <2> QED
      BY <1>5, <2>1, <2>2, SessionsChange DEF OpenWorkspace, TypeOK
  <1> QED
    BY <1>1, <1>2, <1>3, <1>4, <1>5

\* A step of the caller that has the lock, or that takes it.
LEMMA LockStep ==
    ASSUME TypeOK, Shape, NEW c \in Callers, NEW k \in Call,
           holder \in {c, None}, holder' \in {c, None}, holder' = c <=> k.step \in Locked,
           call' = [call EXCEPT ![c] = k], UNCHANGED <<crashes, cache>>,
           k.step # "idle" => k.dir \in Servers,
           k.step \in {"init", "ready", "dropped", "request", "send", "wait", "answered"}
              => k.s \in Sessions,
           table' \in [Servers -> 0..MaxStarts], session' \in [Sessions -> Session],
           pending' \in [Sessions -> SUBSET Callers], TableInv'
    PROVE  TypeOK' /\ Shape'
  <1>1. call'[c] = k /\ \A b \in Callers \ {c} : call'[b] = call[b]
    BY DEF Shape
  <1>2. call' \in [Callers -> Call]
    BY DEF Shape
  <1>3. \A b \in Callers \ {c} : call[b].step \notin {"look", "room", "init", "ready"}
    BY McpAssumption DEF TypeOK
  <1>4. \A b \in Callers :
              /\ call'[b].step \in {"look", "room", "init", "ready"} => holder' = b
              /\ call'[b].step # "idle" => call'[b].dir \in Servers
              /\ call'[b].step \in {"init", "ready", "dropped", "request", "send", "wait", "answered"}
                    => call'[b].s \in Sessions
    BY <1>1, <1>3 DEF Shape, Locked
  <1>5. holder' # None => call'[holder'].step \in Locked
    BY <1>1
  <1> QED
    BY <1>2, <1>4, <1>5, Assembled DEF TypeOK

LEMMA LockTypes ==
    ASSUME TypeOK, Shape, NEW c \in Callers,
           \/ Lock(c) \/ Look(c) \/ Evict(c) \/ Start(c) \/ StartFails(c)
           \/ Initialized(c) \/ NotInitialized(c)
    PROVE  TypeOK' /\ Shape'
  <1> DEFINE Step(st) == [call[c] EXCEPT !.step = st]
  <1>1. call[c] \in Call
    BY DEF Shape
  <1>2. \A st \in Steps : /\ Step(st) \in Call /\ Step(st).step = st
                          /\ Step(st).dir = call[c].dir /\ Step(st).s = call[c].s
    BY <1>1, NextStep
  <1> HIDE DEF Step
  <1>3. \A d \in Servers : table[d] # 0 => table[d] \in Sessions
    BY McpAssumption DEF TypeOK, Sessions
  <1>4. \A d \in Servers : [table EXCEPT ![d] = 0] \in [Servers -> 0..MaxStarts]
    BY McpAssumption DEF TypeOK
  <1>5. CASE Lock(c)
    <2>1. /\ call[c].step = "lock" /\ holder = None /\ holder' = c
          /\ call' = [call EXCEPT ![c] = Step("look")]
          /\ UNCHANGED <<table, session, pending, crashes, cache>>
      BY <1>5 DEF Lock, At, Go, Step
    <2>2. TableInv'
      BY <1>2, <2>1, TableKept DEF Shape, Steps
    <2> QED
      BY <1>2, <2>1, <2>2, LockStep DEF TypeOK, Shape, Steps, Locked
  <1>6. CASE Look(c)
    <2> DEFINE d == call[c].dir
               s == table[d]
    <2>1. call[c].step = "look" /\ holder = c /\ d \in Servers
      BY <1>6 DEF Look, At, TypeOK, Shape
    <2>2. UNCHANGED <<pending, crashes, cache>>
      BY <1>6 DEF Look
    <2>3. CASE s = 0
      <3>1. call' = [call EXCEPT ![c] = Step("room")] /\ UNCHANGED <<table, holder, session>>
        BY <1>6, <2>3 DEF Look, Go, Step
      <3>2. TableInv'
        BY <1>2, <3>1, TableKept DEF Shape, Steps
      <3> QED
        BY <1>2, <2>1, <2>2, <3>1, <3>2, LockStep DEF TypeOK, Shape, Steps, Locked
    <2>4. CASE s # 0 /\ session[s].alive /\ session[s].here
      <3> DEFINE k == [call[c] EXCEPT !.step = "request", !.s = s]
      <3>1. call' = [call EXCEPT ![c] = k] /\ holder' = None /\ UNCHANGED <<table, session>>
        BY <1>6, <2>4 DEF Look
      <3>2. s \in Sessions
        BY <1>3, <2>1, <2>4
      <3>s. "request" \in Steps /\ call[c] \in Call
        BY <1>1 DEF Steps
      <3>t. s \in 0..MaxStarts
        BY <3>2, McpAssumption DEF Sessions
      <3>3. k \in Call /\ k.step = "request" /\ k.dir = d /\ k.s = s
        BY ONLY <3>s, <3>2, <3>t DEF Call
      <3> HIDE DEF k, d, s
      <3>4. TableInv'
        BY <3>1, <3>3, TableKept DEF Shape
      <3> QED
        BY <2>1, <2>2, <3>1, <3>2, <3>3, <3>4, LockStep, McpAssumption DEF TypeOK, Shape, Locked
    <2>5. CASE s # 0 /\ ~(session[s].alive /\ session[s].here)
      <3>1. /\ session' = [session EXCEPT ![s] = Stopped(s)] /\ table' = [table EXCEPT ![d] = 0]
            /\ call' = [call EXCEPT ![c] = Step("room")] /\ holder' = holder
        BY <1>6, <2>5 DEF Look, Go, Step
      <3>2. s \in Sessions
        BY <1>3, <2>1, <2>5
      <3>3. table' \in [Servers -> 0..MaxStarts] /\ \A e \in Servers : table'[e] \in {table[e], 0}
        BY <1>4, <2>1, <3>1 DEF TypeOK
      <3>4. /\ session' \in [Sessions -> Session]
            /\ \A t \in Sessions : session[t].reader # "none" =>
                  session'[t].dir = session[t].dir /\ session'[t].reader # "none"
        BY <3>1, <3>2, StopType DEF Shape
      <3>5. TableInv'
        <4>1. \A b \in Callers : call'[b].step \in {"init", "ready"} => call'[b] = call[b]
          BY <1>2, <3>1 DEF Shape, Steps
        <4> QED
          BY <3>3, <3>4, <4>1, TableKept
      <3> QED
        BY <1>2, <2>1, <2>2, <3>1, <3>3, <3>4, <3>5, LockStep DEF TypeOK, Shape, Steps, Locked
    <2> QED
      BY <2>3, <2>4, <2>5
  <1>7. CASE Evict(c)
    <2>1. PICK d \in Servers : /\ table[d] # 0
                              /\ session' = [session EXCEPT ![table[d]] = Stopped(table[d])]
                              /\ table' = [table EXCEPT ![d] = 0]
      BY <1>7 DEF Evict, Held
    <2>2. UNCHANGED <<holder, pending, crashes, cache, call>>
      BY <1>7 DEF Evict
    <2>3. \A e \in Servers : table'[e] \in {table[e], 0}
      BY <2>1 DEF TypeOK
    <2>4. table[d] \in Sessions /\ table' \in [Servers -> 0..MaxStarts]
      BY <1>3, <1>4, <2>1
    <2> QED
      BY <2>1, <2>2, <2>3, <2>4, StopType, SessionsChange DEF TypeOK, Shape
  <1>8. CASE Start(c)
    <2> DEFINE n == [NoSession EXCEPT !.dir = call[c].dir, !.running = TRUE, !.alive = TRUE,
                                      !.here = TRUE, !.reader = "reads"]
    <2>1. call[c].step = "room" /\ holder = c /\ call[c].dir \in Servers
      BY <1>8 DEF Start, At, TypeOK, Shape
    <2>2. PICK s \in Sessions :
            /\ session[s].reader = "none" /\ \A t \in 1..(s - 1) : session[t].reader # "none"
            /\ session' = [session EXCEPT ![s] = [NoSession EXCEPT
                  !.dir = call[c].dir, !.running = TRUE, !.alive = TRUE, !.here = TRUE, !.reader = "reads"]]
            /\ pending' = [pending EXCEPT ![s] = {c}]
            /\ call' = [call EXCEPT ![c].step = "init", ![c].s = s]
      BY <1>8, Zenon DEF Start
    <2>3. n \in Session /\ n.dir = call[c].dir /\ n.reader = "reads"
      BY <2>1 DEF NoSession, Session
    <2> DEFINE k == [call[c] EXCEPT !.step = "init", !.s = s]
    <2>s. "init" \in Steps /\ call[c] \in Call
      BY <1>1 DEF Steps
    <2>t. s \in 0..MaxStarts
      BY McpAssumption DEF Sessions
    <2>4. k \in Call /\ k.step = "init" /\ k.dir = call[c].dir /\ k.s = s
      BY ONLY <2>s, <2>t DEF Call
    <2>5. call' = [call EXCEPT ![c] = k] /\ UNCHANGED <<table, holder, crashes, cache>>
      BY <1>8, <2>2 DEF Start, Shape
    <2>n. session' = [session EXCEPT ![s] = n]
      BY <2>2
    <2> HIDE DEF n, k
    <2>6. /\ session'[s] = n /\ \A t \in Sessions \ {s} : session'[t] = session[t]
          /\ session' \in [Sessions -> Session]
      BY <2>3, <2>n DEF Shape
    <2>7. call'[c] = k /\ \A b \in Callers \ {c} : call'[b] = call[b]
      BY <2>5 DEF Shape
    <2>8. TableInv'
      <3>1. ASSUME NEW d \in Servers, table'[d] # 0
            PROVE  session'[table'[d]].dir = d /\ session'[table'[d]].reader # "none"
        <4>1. table'[d] = table[d] /\ table[d] \in Sessions
          BY <1>3, <2>5, <3>1
        <4>2. session[table[d]].dir = d /\ session[table[d]].reader # "none"
          BY <3>1, <4>1, TableRight DEF TableInv
        <4>3. table[d] # s
          BY <2>2, <4>2
        <4> QED
          BY <2>6, <4>1, <4>2, <4>3
      <3>2. ASSUME NEW b \in Callers, call'[b].step \in {"init", "ready"}
            PROVE  session'[call'[b].s].dir = call'[b].dir /\ session'[call'[b].s].reader # "none"
        <4>1. CASE b = c
          BY <2>3, <2>4, <2>6, <2>7, <4>1
        <4>2. CASE b # c
          BY <2>1, <2>7, <3>2, <4>2 DEF TypeOK
        <4> QED
          BY <4>1, <4>2
      <3> QED
        BY <3>1, <3>2 DEF TableInv
    <2>9. pending' \in [Sessions -> SUBSET Callers]
      BY <2>2 DEF TypeOK
    <2> QED
      BY <2>1, <2>4, <2>5, <2>6, <2>8, <2>9, LockStep DEF TypeOK, Locked
  <1>9. CASE StartFails(c)
    <2>1. /\ call[c].step = "room" /\ holder = c /\ holder' = None
          /\ call' = [call EXCEPT ![c] = NoCall] /\ UNCHANGED <<table, session, pending, crashes, cache>>
      BY <1>9 DEF StartFails, At, End, TypeOK
    <2>2. TableInv'
      BY <2>1, NoCallType, TableKept DEF Shape
    <2> QED
      BY <2>1, <2>2, NoCallType, LockStep, McpAssumption DEF TypeOK, Shape, Locked
  <1>10. CASE Initialized(c)
    <2> DEFINE d == call[c].dir
               s == call[c].s
    <2>1. /\ call[c].step = "ready" /\ holder = c /\ d \in Servers /\ s \in Sessions
          /\ session[s].dir = d /\ session[s].reader # "none"
      BY <1>10 DEF Initialized, At, TypeOK, Shape
    <2>2. /\ table' = [table EXCEPT ![d] = s] /\ holder' = None
          /\ call' = [call EXCEPT ![c] = Step("request")] /\ UNCHANGED <<session, pending, crashes, cache>>
      BY <1>10 DEF Initialized, Go, Step
    <2>3. Step("request") \in Call /\ Step("request").step = "request"
          /\ Step("request").dir = d /\ Step("request").s = s
      BY <1>2 DEF Steps
    <2> HIDE DEF d, s
    <2>4. table' \in [Servers -> 0..MaxStarts] /\ \A e \in Servers : table'[e] = IF e = d THEN s ELSE table[e]
      <3>1. s \in 0..MaxStarts
        BY <2>1, McpAssumption DEF Sessions
      <3> QED
        BY <2>2, <3>1 DEF TypeOK
    <2>5. TableInv'
      <3>1. \A b \in Callers : call'[b].step \in {"init", "ready"} => call'[b] = call[b]
        BY <2>2, <2>3 DEF Shape
      <3> QED
        BY <2>1, <2>2, <2>4, <3>1, TableRight DEF TableInv
    <2>6. None \notin Callers /\ session' \in [Sessions -> Session] /\ pending' \in [Sessions -> SUBSET Callers]
          /\ UNCHANGED <<crashes, cache>>
      BY <2>2, McpAssumption DEF TypeOK, Shape
    <2> DEFINE k == Step("request")
    <2>7. k \in Call /\ k.step = "request" /\ k.dir = d /\ k.s = s /\ call' = [call EXCEPT ![c] = k]
      BY <2>2, <2>3
    <2>8. holder \in {c, None} /\ holder' \in {c, None} /\ (holder' = c <=> k.step \in Locked)
      BY <2>1, <2>2, <2>6, <2>7 DEF Locked
    <2> HIDE DEF k
    <2> QED
      BY <2>1, <2>4, <2>5, <2>6, <2>7, <2>8, LockStep
  <1>11. CASE NotInitialized(c)
    <2> DEFINE s == call[c].s
               n == [session[s] EXCEPT !.failed = TRUE]
    <2>1. call[c].step \in {"init", "ready", "dropped"} /\ holder = c /\ s \in Sessions
      BY <1>11 DEF NotInitialized, Shape
    <2>2. /\ session' = [session EXCEPT ![s] = n] /\ holder' = None
          /\ pending' = [pending EXCEPT ![s] = @ \ {c}]
          /\ call' = [call EXCEPT ![c] = NoCall] /\ UNCHANGED <<table, crashes, cache>>
      BY <1>11 DEF NotInitialized, End
    <2>3. session[s] \in Session
      BY <2>1 DEF Shape
    <2>4. n \in Session /\ n.dir = session[s].dir /\ n.reader = session[s].reader
      BY <2>3 DEF Session
    <2> HIDE DEF n, s
    <2>5. /\ session' \in [Sessions -> Session] /\ pending' \in [Sessions -> SUBSET Callers]
          /\ \A t \in Sessions : session[t].reader # "none" =>
                session'[t].dir = session[t].dir /\ session'[t].reader # "none"
      BY <2>1, <2>2, <2>4 DEF TypeOK, Shape
    <2>6. TableInv'
      <3>1. \A b \in Callers : call'[b].step \in {"init", "ready"} => call'[b] = call[b]
        BY <2>2, NoCallType DEF Shape
      <3> QED
        BY <2>2, <2>5, <3>1, TableKept
    <2> QED
      BY <2>1, <2>2, <2>5, <2>6, NoCallType, LockStep, McpAssumption DEF TypeOK, Locked
  <1> QED
    BY <1>5, <1>6, <1>7, <1>8, <1>9, <1>10, <1>11

LEMMA TypeInit == Init => TypeOK /\ Shape
  <1> SUFFICES ASSUME Init
               PROVE  TypeOK /\ Shape
    OBVIOUS
  <1>1. NoSession \in Session
    BY DEF NoSession, Session
  <1>2. 0 \in 0..MaxStarts /\ 0 \in 0..MaxCrashes
    BY McpAssumption
  <1>3. TypeOK
    BY <1>2, NoCallType DEF Init, TypeOK, Held
  <1>4. Shape
    BY <1>1, NoCallType DEF Init, Shape
  <1> QED
    BY <1>3, <1>4

LEMMA TypeStep == TypeOK /\ Shape /\ [Next]_vars => TypeOK' /\ Shape'
  <1> SUFFICES ASSUME TypeOK, Shape, [Next]_vars
               PROVE  TypeOK' /\ Shape'
    OBVIOUS
  <1>1. CASE UNCHANGED vars
    BY <1>1 DEF TypeOK, Shape, Held, vars
  <1> QED
    BY <1>1, RequestTypes, LockTypes, ReaderTypes, ProgramTypes DEF Next, CallStep, ReaderStep

\* Every variable has its type, a caller on its way to a session has the lock,
\* and a session in the table is of its server (client.rs).
THEOREM TypeCorrect == Spec => []TypeOK
  <1>1. (TypeOK /\ Shape) /\ [Next]_vars => (TypeOK /\ Shape)'
    BY TypeStep
  <1> QED
    BY <1>1, TypeInit, PTL DEF Spec

-----------------------------------------------------------------------------
(* Stopped servers and crashes.                                            *)

\* A reader is past the end of stdout only when the process has ended, and a
\* process that has ended was stopped by the Engine or ended by itself.
Fate(x) ==
    /\ x.reader \in {"ended", "judges"} => ~x.running
    /\ x.reader \in {"reads", "ended", "judges"} /\ ~x.running /\ ~x.stopping => x.died
FateInv == \A s \in Sessions : Fate(session[s])

LEMMA StoppedFate ==
    ASSUME Shape, NEW s \in Sessions
    PROVE  Fate(Stopped(s))
  BY StopType DEF Fate

LEMMA OneFate ==
    ASSUME Shape, FateInv, NEW s \in Sessions, NEW n, Fate(n), session' = [session EXCEPT ![s] = n]
    PROVE  FateInv'
  BY DEF Shape, FateInv, Fate

LEMMA FateStep ==
    ASSUME TypeOK, Shape, FateInv, Next
    PROVE  FateInv'
  <1>1. \A s \in Sessions : session[s] \in Session /\ Fate(session[s]) /\ Fate(Stopped(s))
    BY StoppedFate DEF Shape, FateInv
  <1>2. \A d \in Servers : table[d] # 0 => table[d] \in Sessions
    BY McpAssumption DEF TypeOK, Sessions
  <1>3. CASE UNCHANGED session
    BY <1>3 DEF FateInv
  <1>4. ASSUME NEW d \in Servers, table[d] # 0,
               session' = [session EXCEPT ![table[d]] = Stopped(table[d])]
        PROVE  FateInv'
    BY <1>1, <1>2, <1>4, OneFate
  <1>5. ASSUME NEW c \in Callers, Begin(c) \/ Lock(c) \/ CallStep(c)
        PROVE  FateInv'
    <2>1. CASE Look(c)
      <3>1. call[c].dir \in Servers
        BY <2>1 DEF Look, At, Shape
      <3> QED
        BY <1>3, <1>4, <2>1, <3>1 DEF Look
    <2>2. CASE Evict(c)
      BY <1>4, <2>2 DEF Evict, Held
    <2>3. CASE Start(c)
      <3> DEFINE n == [NoSession EXCEPT !.dir = call[c].dir, !.running = TRUE, !.alive = TRUE,
                                        !.here = TRUE, !.reader = "reads"]
      <3>1. \E s \in Sessions : session' = [session EXCEPT ![s] = n]
        BY <2>3, Zenon DEF Start
      <3>2. Fate(n)
        BY DEF Fate, NoSession
      <3> HIDE DEF n
      <3> QED
        BY <3>1, <3>2, OneFate
    <2>4. CASE NotInitialized(c)
      <3> DEFINE s == call[c].s
                 n == [session[s] EXCEPT !.failed = TRUE]
      <3>1. s \in Sessions /\ session' = [session EXCEPT ![s] = n]
        BY <2>4 DEF NotInitialized, Shape
      <3>2. session[s] \in Session /\ Fate(session[s])
        BY <1>1, <3>1
      <3>3. Fate(n)
        BY <3>2 DEF Fate, Session
      <3> HIDE DEF n, s
      <3> QED
        BY <3>1, <3>3, OneFate
    <2> QED
      BY <1>3, <1>5, <2>1, <2>2, <2>3, <2>4
      DEF Begin, Lock, CallStep, StartFails, Initialized, Enter, Send, Fail, Return
  <1>6. ASSUME NEW s \in Sessions, Answer(s) \/ ListChanged(s) \/ Exit(s) \/ ReaderStep(s)
        PROVE  FateInv'
    <2>1. session[s] \in Session /\ Fate(session[s])
      BY <1>1
    <2>2. CASE Exit(s)
      <3> DEFINE n == [session[s] EXCEPT !.running = FALSE, !.died = TRUE]
      <3>1. session' = [session EXCEPT ![s] = n]
        BY <2>2 DEF Exit
      <3>2. Fate(n)
        BY <2>1 DEF Fate, Session
      <3> HIDE DEF n
      <3> QED
        BY <3>1, <3>2, OneFate
    <2>3. CASE Eof(s)
      <3> DEFINE n == [session[s] EXCEPT !.reader = "ended", !.alive = FALSE]
      <3>1. session' = [session EXCEPT ![s] = n] /\ session[s].reader = "reads" /\ ~session[s].running
        BY <2>3 DEF Eof
      <3>2. Fate(n)
        BY <2>1, <3>1 DEF Fate, Session
      <3> HIDE DEF n
      <3> QED
        BY <3>1, <3>2, OneFate
    <2>4. CASE Clear(s)
      <3> DEFINE n == [session[s] EXCEPT !.reader = "judges"]
      <3>1. session' = [session EXCEPT ![s] = n] /\ session[s].reader = "ended"
        BY <2>4 DEF Clear
      <3>2. Fate(n)
        BY <2>1, <3>1 DEF Fate, Session
      <3> HIDE DEF n
      <3> QED
        BY <3>1, <3>2, OneFate
    <2>5. CASE Judge(s)
      <3> DEFINE n == [NoSession EXCEPT !.dir = session[s].dir, !.reader = "done"]
      <3>1. session' = [session EXCEPT ![s] = n]
        BY <2>5 DEF Judge
      <3>2. Fate(n)
        BY DEF Fate, NoSession
      <3> HIDE DEF n
      <3> QED
        BY <3>1, <3>2, OneFate
    <2> QED
      BY <1>3, <1>6, <2>2, <2>3, <2>4, <2>5 DEF Answer, ListChanged, ReaderStep
  <1>7. ASSUME NEW d \in Servers, StopServer(d) \/ ForgetTools(d) \/ WindowPasses(d)
        PROVE  FateInv'
    BY <1>3, <1>4, <1>7 DEF StopServer, ForgetTools, WindowPasses
  <1>8. CASE Reap
    <2>1. \A s \in Sessions : session'[s] \in {session[s], Stopped(s)}
      BY <1>8 DEF Reap
    <2> QED
      BY <1>1, <2>1 DEF FateInv, Fate
  <1>9. CASE OpenWorkspace
    <2> SUFFICES ASSUME NEW s \in Sessions
                 PROVE  Fate(session'[s])
      BY DEF FateInv, Fate
    <2>1. session'[s] = [session[s] EXCEPT !.here = FALSE]
      BY <1>9 DEF OpenWorkspace
    <2> QED
      BY <1>1, <2>1 DEF Fate, Session
  <1> QED
    BY <1>5, <1>6, <1>7, <1>8, <1>9 DEF Next

\* Only the exit of a process that the Engine had not stopped counts as a crash
\* ("Set when the Engine stops it: its exit is then not a crash", client.rs).
THEOREM OnlyCrashesCount == Spec => StoppedIsNoCrash
  <1> DEFINE Counts == \A d \in Servers : crashes'[d] > crashes[d] =>
                \E s \in Sessions : session[s].dir = d /\ session[s].died /\ session'[s].reader = "done"
  <1>1. Init => TypeOK /\ Shape /\ FateInv
    <2>1. Init => FateInv
      BY DEF Init, FateInv, Fate, NoSession
    <2> QED
      BY <2>1, TypeInit
  <1>2. (TypeOK /\ Shape /\ FateInv) /\ [Next]_vars => (TypeOK /\ Shape /\ FateInv)'
    BY TypeStep, FateStep DEF FateInv, Fate, vars
  <1>3. (TypeOK /\ Shape /\ FateInv) /\ [Next]_vars => [Counts]_vars
    <2> SUFFICES ASSUME TypeOK, Shape, FateInv, Next, NEW d \in Servers, crashes'[d] > crashes[d]
                 PROVE  \E s \in Sessions : session[s].dir = d /\ session[s].died /\ session'[s].reader = "done"
      BY Zenon
    <2>1. crashes[d] \in Nat
      BY McpAssumption DEF TypeOK
    <2>2. ~UNCHANGED crashes
      BY <2>1
    <2>3. \E s \in Sessions : Judge(s)
      <3>1. ~\E e \in Servers : WindowPasses(e)
        BY <2>1 DEF WindowPasses, TypeOK
      <3> QED
        BY <2>2, <3>1, Zenon
        DEF Next, CallStep, ReaderStep, Begin, Lock, Look, Evict, Start, StartFails, Initialized,
            NotInitialized, Enter, Send, Fail, Return, Answer, ListChanged, Exit, Eof, Clear, Reap,
            StopServer, ForgetTools, OpenWorkspace
    <2>4. PICK s \in Sessions : Judge(s)
      BY <2>3
    <2>5. ~session[s].stopping /\ session[s].dir = d /\ session[s].reader = "judges"
      BY <2>1, <2>2, <2>4 DEF Judge, TypeOK
    <2>6. session'[s].reader = "done"
      BY <2>4 DEF Judge, Shape, NoSession
    <2>7. session[s].died
      BY <2>5 DEF FateInv, Fate
    <2> QED
      BY <2>5, <2>6, <2>7
  <1> HIDE DEF Counts
  <1>4. [][Counts]_vars => StoppedIsNoCrash
    BY DEF Counts, StoppedIsNoCrash
  <1> QED
    BY <1>1, <1>2, <1>3, <1>4, PTL DEF Spec

-----------------------------------------------------------------------------
(* The limit of running servers.                                           *)

Counted(x) == x.running /\ ~x.failed
Starting == holder # None /\ call[holder].step \in {"init", "ready", "dropped"}
HasRoom == holder # None /\ call[holder].step \in {"room", "init", "ready", "dropped"}

\* A process that runs is in the table, or is the one that the holder of the
\* lock is starting; for that one there is room, and its server has no other.
RoomInv ==
    /\ IsFiniteSet(Held) /\ Cardinality(Held) <= MaxRunning
    /\ Starting => Cardinality(Held) < MaxRunning
    /\ HasRoom => table[call[holder].dir] = 0
    /\ \A s \in Sessions : Counted(session[s]) =>
          (\E d \in Servers : table[d] = s) \/ (Starting /\ call[holder].s = s)

\* A step after which fewer servers are in the table, and no more run.
LEMMA NoMoreRun ==
    ASSUME RoomInv, \A d \in Servers : table'[d] \in {table[d], 0},
           \A s \in Sessions : Counted(session'[s]) =>
              /\ Counted(session[s])
              /\ \A d \in Servers : table[d] = s => table'[d] = s
              /\ Starting /\ call[holder].s = s => Starting' /\ call'[holder'].s = s,
           Starting' => Starting,
           HasRoom' => table'[call'[holder'].dir] = 0
    PROVE  RoomInv'
  <1>1. Held' \subseteq Held
    BY DEF Held
  <1>2. IsFiniteSet(Held') /\ Cardinality(Held') <= Cardinality(Held)
    BY <1>1, FS_Subset DEF RoomInv
  <1>3. Cardinality(Held) \in Nat /\ Cardinality(Held') \in Nat
    BY <1>2, FS_CardinalityType DEF RoomInv
  <1>4. Cardinality(Held') <= MaxRunning /\ (Starting' => Cardinality(Held') < MaxRunning)
    BY <1>2, <1>3, McpAssumption DEF RoomInv
  <1>5. ASSUME NEW s \in Sessions, Counted(session'[s])
        PROVE  (\E d \in Servers : table'[d] = s) \/ (Starting' /\ call'[holder'].s = s)
    BY <1>5 DEF RoomInv
  <1> QED
    BY <1>2, <1>4, <1>5 DEF RoomInv

\* A step that leaves the lock and its holder alone.
LEMMA HolderStays ==
    ASSUME RoomInv, UNCHANGED holder,
           holder # None => call'[holder] = call[holder],
           \A d \in Servers : table'[d] \in {table[d], 0},
           HasRoom => call[holder].dir \in Servers,
           \A s \in Sessions : Counted(session'[s]) =>
              /\ Counted(session[s])
              /\ \A d \in Servers : table[d] = s => table'[d] = s
    PROVE  RoomInv'
  <1>1. (Starting' <=> Starting) /\ (HasRoom' <=> HasRoom)
    BY DEF Starting, HasRoom
  <1>2. HasRoom' => table'[call'[holder'].dir] = 0
    BY <1>1 DEF RoomInv, HasRoom
  <1>3. Starting => call'[holder'].s = call[holder].s
    BY DEF Starting
  <1> QED
    BY <1>1, <1>2, <1>3, NoMoreRun

LEMMA RoomReader ==
    ASSUME TypeOK, Shape, RoomInv, NEW s \in Sessions,
           Answer(s) \/ ListChanged(s) \/ Exit(s) \/ ReaderStep(s)
    PROVE  RoomInv'
  <1>1. session[s] \in Session
    BY DEF Shape
  <1>2. HasRoom => call[holder].dir \in Servers
    BY DEF HasRoom, Shape, TypeOK
  <1>3. UNCHANGED <<table, holder>>
    BY DEF Answer, ListChanged, Exit, ReaderStep, Eof, Clear, Judge
  <1>4. \A t \in Sessions : Counted(session'[t]) => Counted(session[t])
    <2>1. CASE UNCHANGED session
      BY <2>1
    <2>2. CASE Exit(s)
      BY <1>1, <2>2 DEF Exit, Shape, Session, Counted
    <2>3. CASE Eof(s)
      BY <1>1, <2>3 DEF Eof, Shape, Session, Counted
    <2>4. CASE Clear(s)
      BY <1>1, <2>4 DEF Clear, Shape, Session, Counted
    <2>5. CASE Judge(s)
      BY <1>1, <2>5 DEF Judge, Shape, NoSession, Counted
    <2> QED
      BY <2>1, <2>2, <2>3, <2>4, <2>5 DEF Answer, ListChanged, ReaderStep
  <1>5. holder # None =>
          /\ call'[holder].dir = call[holder].dir /\ call'[holder].s = call[holder].s
          /\ \/ call'[holder].step = call[holder].step
             \/ /\ call[holder].step \in {"init", "ready", "dropped"}
                /\ call'[holder].step \in {"init", "ready", "dropped"}
    <2> SUFFICES ASSUME holder # None
                 PROVE  /\ call'[holder].dir = call[holder].dir /\ call'[holder].s = call[holder].s
                        /\ \/ call'[holder].step = call[holder].step
                           \/ /\ call[holder].step \in {"init", "ready", "dropped"}
                              /\ call'[holder].step \in {"init", "ready", "dropped"}
      OBVIOUS
    <2>1. holder \in Callers /\ call[holder] \in Call /\ call[holder].step \in Locked
      BY DEF TypeOK, Shape
    <2>2. CASE UNCHANGED call
      BY <2>2
    <2>3. CASE Answer(s)
      <3>1. PICK c \in pending[s] : \/ At(c, "init") /\ Go(c, "ready")
                                    \/ At(c, "wait") /\ Go(c, "answered")
        BY <2>3 DEF Answer
      <3> QED
        BY <2>1, <3>1 DEF Go, At, Shape, Call, Locked
    <2>4. CASE ListChanged(s)
      <3>1. \E b \in BOOLEAN : call'[holder] = [call[holder] EXCEPT !.old = b]
        <4> DEFINE b == call[holder].old \/ (holder \in Listers /\ At(holder, "answered")
                                              /\ call[holder].dir = session[s].dir)
        <4>1. call'[holder] = [call[holder] EXCEPT !.old = b]
          BY <2>1, <2>4 DEF ListChanged
        <4> QED
          BY <4>1
      <3> QED
        BY <2>1, <3>1 DEF Call
    <2>5. CASE Clear(s)
      <3>1. \/ call'[holder] = call[holder]
            \/ /\ call[holder].step \in {"init", "wait"}
               /\ call'[holder] = [call[holder] EXCEPT !.step = "dropped"]
        BY <2>1, <2>5 DEF Clear
      <3> QED
        BY <2>1, <3>1 DEF Call, Locked
    <2> QED
      BY <2>2, <2>3, <2>4, <2>5 DEF Exit, ReaderStep, Eof, Judge
  <1>6. (Starting' <=> Starting) /\ (HasRoom' <=> HasRoom)
    BY <1>3, <1>5 DEF Starting, HasRoom
  <1>7. HasRoom' => table'[call'[holder'].dir] = 0
    BY <1>3, <1>5, <1>6 DEF RoomInv, HasRoom
  <1>8. Starting => call'[holder'].s = call[holder].s
    BY <1>3, <1>5 DEF Starting
  <1>9. \A d \in Servers : table'[d] \in {table[d], 0}
    BY <1>3
  <1> QED
    BY <1>3, <1>4, <1>6, <1>7, <1>8, <1>9, NoMoreRun

\* Sessions that are stopped and go out of the table.
LEMMA RoomStopped ==
    ASSUME TypeOK, Shape, RoomInv, NEW D \in SUBSET Servers, UNCHANGED <<holder, call>>,
           table' = [d \in Servers |-> IF d \in D THEN 0 ELSE table[d]],
           session' = [s \in Sessions |-> IF \E d \in D : table[d] = s THEN Stopped(s) ELSE session[s]]
    PROVE  RoomInv'
  <1>1. \A d \in Servers : table'[d] \in {table[d], 0}
    OBVIOUS
  <1>2. HasRoom => call[holder].dir \in Servers
    BY DEF HasRoom, Shape, TypeOK
  <1>3. ASSUME NEW s \in Sessions, Counted(session'[s])
        PROVE  Counted(session[s]) /\ \A d \in Servers : table[d] = s => table'[d] = s
    <2>1. ~\E d \in D : table[d] = s
      BY <1>3, StopType DEF Counted
    <2> QED
      BY <1>3, <2>1
  <1> QED
    BY <1>1, <1>2, <1>3, HolderStays

LEMMA StopsOne ==
    ASSUME TypeOK, Shape, NEW d \in Servers, table[d] # 0,
           table' = [table EXCEPT ![d] = 0],
           session' = [session EXCEPT ![table[d]] = Stopped(table[d])]
    PROVE  /\ table' = [e \in Servers |-> IF e \in {d} THEN 0 ELSE table[e]]
           /\ session' = [s \in Sessions |-> IF \E e \in {d} : table[e] = s THEN Stopped(s) ELSE session[s]]
  <1>1. table' = [e \in Servers |-> IF e \in {d} THEN 0 ELSE table[e]]
    BY DEF TypeOK
  <1>2. session' = [s \in Sessions |-> IF \E e \in {d} : table[e] = s THEN Stopped(s) ELSE session[s]]
    BY DEF Shape
  <1> QED
    BY <1>1, <1>2

LEMMA RoomCaller ==
    ASSUME TypeOK, Shape, RoomInv, NEW c \in Callers, Begin(c) \/ Lock(c) \/ CallStep(c)
    PROVE  RoomInv'
  <1>1. /\ c # None /\ call[c] \in Call
        /\ (holder = c => call[c].step \in Locked)
        /\ (call[c].step \in {"look", "room", "init", "ready"} => holder = c)
        /\ (HasRoom => call[holder].dir \in Servers)
    BY McpAssumption DEF TypeOK, Shape, HasRoom
  <1>2. \A d \in Servers : table[d] # 0 => table[d] \in Sessions
    BY McpAssumption DEF TypeOK, Sessions
  <1>3. CASE Begin(c) \/ Enter(c) \/ Send(c) \/ Fail(c) \/ Return(c)
    <2>1. holder # c /\ UNCHANGED <<table, holder, session>>
      BY <1>1, <1>3 DEF Begin, Enter, Send, Fail, Return, At, Locked
    <2>2. \A b \in Callers \ {c} : call'[b] = call[b]
      BY <1>3 DEF Begin, Enter, Send, Fail, Return, Go, End, Shape
    <2>3. holder # None => call'[holder] = call[holder]
      BY <2>1, <2>2 DEF TypeOK
    <2> QED
      BY <1>1, <2>1, <2>3, HolderStays
  <1>4. CASE Lock(c)
    <2>1. holder = None /\ holder' = c /\ UNCHANGED <<table, session>>
      BY <1>4 DEF Lock
    <2>2. call'[c].step = "look"
      BY <1>1, <1>4 DEF Lock, Go, Shape, Call
    <2> QED
      BY <2>1, <2>2, NoMoreRun DEF Starting, HasRoom
  <1>5. CASE Look(c)
    <2> DEFINE d == call[c].dir
               s == table[d]
    <2>1. call[c].step = "look" /\ holder = c /\ d \in Servers
      BY <1>1, <1>5 DEF Look, At, Shape
    <2>2. ~Starting
      BY <2>1 DEF Starting
    <2>3. CASE s = 0
      <3>1. UNCHANGED <<table, holder, session>> /\ call'[c].step = "room" /\ call'[c].dir = d
        BY <1>1, <1>5, <2>3 DEF Look, Go, Shape, Call
      <3> QED
        BY <2>1, <2>2, <2>3, <3>1, NoMoreRun DEF Starting, HasRoom
    <2>4. CASE s # 0 /\ session[s].alive /\ session[s].here
      <3>1. UNCHANGED <<table, session>> /\ holder' = None
        BY <1>5, <2>4 DEF Look
      <3> QED
        BY <2>2, <3>1, NoMoreRun DEF Starting, HasRoom
    <2>5. CASE s # 0 /\ ~(session[s].alive /\ session[s].here)
      <3>1. /\ session' = [session EXCEPT ![s] = Stopped(s)] /\ table' = [table EXCEPT ![d] = 0]
            /\ holder' = holder /\ Go(c, "room")
        BY <1>5, <2>5 DEF Look
      <3>2. call'[c].step = "room" /\ call'[c].dir = d
        BY <1>1, <3>1 DEF Go, Shape, Call
      <3>3. table'[d] = 0 /\ \A e \in Servers : table'[e] \in {table[e], 0}
        BY <2>1, <3>1 DEF TypeOK
      <3>4. ASSUME NEW t \in Sessions, Counted(session'[t])
            PROVE  Counted(session[t]) /\ \A e \in Servers : table[e] = t => table'[e] = t
        <4>1. t # s
          BY <1>2, <2>1, <2>5, <3>1, <3>4, StopType DEF Counted, Shape
        <4> QED
          BY <3>1, <3>4, <4>1 DEF Shape, TypeOK
      <3> QED
        BY <2>1, <2>2, <3>1, <3>2, <3>3, <3>4, NoMoreRun DEF Starting, HasRoom
    <2> QED
      BY <2>3, <2>4, <2>5
  <1>6. CASE Evict(c)
    <2>1. PICK d \in Servers : /\ table[d] # 0
                               /\ session' = [session EXCEPT ![table[d]] = Stopped(table[d])]
                               /\ table' = [table EXCEPT ![d] = 0]
      BY <1>6 DEF Evict, Held
    <2>2. UNCHANGED <<holder, call>> /\ {d} \in SUBSET Servers
      BY <1>6 DEF Evict
    <2> QED
      BY <2>1, <2>2, StopsOne, RoomStopped
  <1>7. CASE Start(c)
    <2>1. /\ call[c].step = "room" /\ holder = c /\ UNCHANGED <<table, holder>>
          /\ ~(Cardinality(Held) >= MaxRunning)
      BY <1>1, <1>7 DEF Start, At, Crowded
    <2>2. PICK s \in Sessions :
            /\ session' = [session EXCEPT ![s] = [NoSession EXCEPT
                  !.dir = call[c].dir, !.running = TRUE, !.alive = TRUE, !.here = TRUE, !.reader = "reads"]]
            /\ call' = [call EXCEPT ![c].step = "init", ![c].s = s]
      BY <1>7, Zenon DEF Start
    <2>3. call'[c].step = "init" /\ call'[c].s = s /\ call'[c].dir = call[c].dir
      BY <1>1, <2>2 DEF Shape, Call
    <2>4. \A t \in Sessions \ {s} : session'[t] = session[t]
      BY <2>2 DEF Shape
    <2>5. ~Starting /\ HasRoom /\ Starting'
      BY <1>1, <2>1, <2>3 DEF Starting, HasRoom
    <2>6. Held' = Held
      BY <2>1 DEF Held
    <2>7. Cardinality(Held) \in Nat /\ Cardinality(Held) < MaxRunning
      BY <2>1, FS_CardinalityType, McpAssumption DEF RoomInv
    <2>8. ASSUME NEW t \in Sessions, Counted(session'[t])
          PROVE  (\E d \in Servers : table'[d] = t) \/ (Starting' /\ call'[holder'].s = t)
      <3>1. CASE t = s
        BY <2>1, <2>3, <2>5, <3>1
      <3>2. CASE t # s
        BY <2>1, <2>4, <2>5, <2>8, <3>2 DEF RoomInv
      <3> QED
        BY <3>1, <3>2
    <2>9. table'[call'[holder'].dir] = 0
      BY <2>1, <2>3, <2>5 DEF RoomInv
    <2> QED
      BY <2>6, <2>7, <2>8, <2>9 DEF RoomInv
  <1>8. CASE StartFails(c)
    <2>1. call[c].step = "room" /\ holder = c /\ holder' = None /\ UNCHANGED <<table, session>>
      BY <1>1, <1>8 DEF StartFails, At
    <2> QED
      BY <2>1, NoMoreRun DEF Starting, HasRoom
  <1>9. CASE Initialized(c)
    <2> DEFINE d == call[c].dir
               s == call[c].s
    <2>1. /\ call[c].step = "ready" /\ holder = c /\ d \in Servers /\ s \in Sessions
          /\ table' = [table EXCEPT ![d] = s] /\ holder' = None /\ UNCHANGED session
      BY <1>1, <1>9 DEF Initialized, At, Shape
    <2>2. Starting /\ HasRoom
      BY <1>1, <2>1 DEF Starting, HasRoom
    <2>3. table[d] = 0
      BY <2>1, <2>2 DEF RoomInv
    <2>4. Held' = Held \cup {d}
      <3>1. s # 0
        BY <2>1, McpAssumption DEF Sessions
      <3> QED
        BY <2>1, <3>1 DEF Held, TypeOK
    <2>5. IsFiniteSet(Held') /\ Cardinality(Held') <= MaxRunning
      <3>1. d \notin Held /\ IsFiniteSet(Held)
        BY <2>3 DEF Held, RoomInv
      <3>2. IsFiniteSet(Held \cup {d}) /\ Cardinality(Held \cup {d}) = Cardinality(Held) + 1
        BY <3>1, FS_AddElement
      <3>3. Cardinality(Held) \in Nat /\ Cardinality(Held) < MaxRunning
        BY <2>2, <3>1, FS_CardinalityType DEF RoomInv
      <3> QED
        BY <2>4, <3>2, <3>3, McpAssumption
    <2>6. ASSUME NEW t \in Sessions, Counted(session'[t])
          PROVE  \E e \in Servers : table'[e] = t
      <3>1. (\E e \in Servers : table[e] = t) \/ s = t
        BY <2>1, <2>6 DEF RoomInv
      <3>2. CASE s = t
        BY <2>1, <3>2 DEF TypeOK
      <3>3. CASE \E e \in Servers : table[e] = t
        <4>1. PICK e \in Servers : table[e] = t
          BY <3>3
        <4>2. e # d
          BY <2>3, <4>1, McpAssumption DEF Sessions
        <4> QED
          BY <2>1, <4>1, <4>2 DEF TypeOK
      <3> QED
        BY <3>1, <3>2, <3>3
    <2>7. ~Starting' /\ ~HasRoom'
      BY <2>1 DEF Starting, HasRoom
    <2> QED
      BY <2>5, <2>6, <2>7 DEF RoomInv
  <1>10. CASE NotInitialized(c)
    <2> DEFINE s == call[c].s
               n == [session[s] EXCEPT !.failed = TRUE]
    <2>1. /\ holder = c /\ s \in Sessions /\ holder' = None /\ UNCHANGED table
          /\ session' = [session EXCEPT ![s] = n]
      BY <1>10 DEF NotInitialized, Shape
    <2>2. session[s] \in Session
      BY <2>1 DEF Shape
    <2>3. n.failed
      BY <2>2 DEF Session
    <2> HIDE DEF n
    <2>4. \A t \in Sessions : Counted(session'[t]) => t # s /\ session'[t] = session[t]
      BY <2>1, <2>3 DEF Counted, Shape
    <2> QED
      BY <2>1, <2>4, NoMoreRun DEF Starting, HasRoom
  <1> QED
    BY <1>3, <1>4, <1>5, <1>6, <1>7, <1>8, <1>9, <1>10 DEF CallStep

LEMMA RoomStep ==
    ASSUME TypeOK, Shape, RoomInv, Next
    PROVE  RoomInv'
  <1>1. HasRoom => call[holder].dir \in Servers
    BY DEF HasRoom, Shape, TypeOK
  <1>2. ASSUME NEW d \in Servers, StopServer(d)
        PROVE  RoomInv'
    <2>1. {d} \in SUBSET Servers
      OBVIOUS
    <2> QED
      BY <1>2, <2>1, StopsOne, RoomStopped DEF StopServer
  <1>3. ASSUME NEW d \in Servers, ForgetTools(d) \/ WindowPasses(d)
        PROVE  RoomInv'
    BY <1>1, <1>3, HolderStays DEF ForgetTools, WindowPasses
  <1>4. CASE Reap
    <2>1. PICK D \in SUBSET Servers :
            /\ session' = [s \in Sessions |-> IF \E d \in D : table[d] = s THEN Stopped(s) ELSE session[s]]
            /\ table' = [d \in Servers |-> IF d \in D THEN 0 ELSE table[d]]
      BY <1>4 DEF Reap, Held
    <2>2. UNCHANGED <<holder, call>>
      BY <1>4 DEF Reap
    <2> QED
      BY <2>1, <2>2, RoomStopped
  <1>5. CASE OpenWorkspace
    <2>1. \A s \in Sessions : Counted(session'[s]) => Counted(session[s])
      <3> SUFFICES ASSUME NEW s \in Sessions, Counted(session'[s])
                   PROVE  Counted(session[s])
        OBVIOUS
      <3>1. session'[s] = [session[s] EXCEPT !.here = FALSE] /\ session[s] \in Session
        BY <1>5 DEF OpenWorkspace, Shape
      <3> QED
        BY <3>1 DEF Counted, Session
    <2> QED
      BY <1>1, <1>5, <2>1, HolderStays DEF OpenWorkspace
  <1> QED
    BY <1>2, <1>3, <1>4, <1>5, RoomCaller, RoomReader DEF Next

\* There are never more running servers than places in the table, or one less
\* and the one that is being started.
LEMMA RoomBounds == RoomInv /\ TypeOK /\ Shape => RunningBounded
  <1> SUFFICES ASSUME RoomInv, TypeOK, Shape
               PROVE  RunningBounded
    OBVIOUS
  <1> DEFINE R == {s \in Sessions : session[s].running /\ ~session[s].failed}
             T == {table[d] : d \in Held}
             f == [d \in Held |-> table[d]]
  <1>1. IsFiniteSet(T) /\ Cardinality(T) <= Cardinality(Held)
    <2>1. f \in Surjection(Held, T)
      BY DEF Surjection
    <2> HIDE DEF f, T
    <2> QED
      BY <2>1, FS_Surjection DEF RoomInv
  <1>2. Cardinality(T) \in Nat /\ Cardinality(Held) \in Nat
    BY <1>1, FS_CardinalityType DEF RoomInv
  <1>3. \A s \in R : s \in T \/ (Starting /\ call[holder].s = s)
    BY McpAssumption DEF RoomInv, Counted, Held, Sessions
  <1> HIDE DEF T, R
  <1>4. CASE Starting
    <2>1. IsFiniteSet(T \cup {call[holder].s}) /\ Cardinality(T \cup {call[holder].s}) <= Cardinality(T) + 1
      BY <1>1, <1>2, FS_AddElement
    <2>2. R \in SUBSET (T \cup {call[holder].s})
      BY <1>3
    <2>3. IsFiniteSet(R) /\ Cardinality(R) <= Cardinality(T \cup {call[holder].s})
      BY <2>1, <2>2, FS_Subset
    <2>4. Cardinality(R) \in Nat /\ Cardinality(T \cup {call[holder].s}) \in Nat
      BY <2>1, <2>3, FS_CardinalityType
    <2>5. Cardinality(Held) < MaxRunning
      BY <1>4 DEF RoomInv
    <2>6. Cardinality(R) <= MaxRunning
      BY <1>1, <1>2, <2>1, <2>3, <2>4, <2>5, McpAssumption
    <2> QED
      BY <2>6 DEF R, RunningBounded
  <1>5. CASE ~Starting
    <2>1. R \in SUBSET T
      BY <1>3, <1>5
    <2>2. IsFiniteSet(R) /\ Cardinality(R) <= Cardinality(T)
      BY <1>1, <2>1, FS_Subset
    <2>3. Cardinality(R) \in Nat
      BY <2>2, FS_CardinalityType
    <2>4. Cardinality(R) <= MaxRunning
      BY <1>1, <1>2, <2>2, <2>3, McpAssumption DEF RoomInv
    <2> QED
      BY <2>4 DEF R, RunningBounded
  <1> QED
    BY <1>4, <1>5

\* No more than MAX_RUNNING servers run at once, however callers, evictions,
\* restarts, other workspaces, idle servers and removed packages meet; those
\* whose start failed are not counted (session_for, make_room, client.rs).
THEOREM RunningIsBounded == Spec => []RunningBounded
  <1>1. Init => TypeOK /\ Shape /\ RoomInv
    <2>1. ASSUME Init
          PROVE  RoomInv
      <3>1. Held = {} /\ ~Starting /\ ~HasRoom /\ \A s \in Sessions : ~Counted(session[s])
        BY <2>1 DEF Init, Held, Starting, HasRoom, Counted, NoSession
      <3>2. IsFiniteSet({}) /\ Cardinality({}) = 0 /\ 0 <= MaxRunning
        BY FS_EmptySet, McpAssumption
      <3> QED
        BY <3>1, <3>2 DEF RoomInv
    <2> QED
      BY <2>1, TypeInit
  <1>2. (TypeOK /\ Shape /\ RoomInv) /\ [Next]_vars => (TypeOK /\ Shape /\ RoomInv)'
    <2>1. ASSUME RoomInv, UNCHANGED vars
          PROVE  RoomInv'
      <3>1. Held' = Held
        BY <2>1 DEF vars, Held
      <3> QED
        BY <2>1, <3>1 DEF vars, RoomInv, Starting, HasRoom, Counted
    <2> QED
      BY <2>1, TypeStep, RoomStep
  <1>3. (TypeOK /\ Shape /\ RoomInv) => RunningBounded
    BY RoomBounds
  <1> QED
    BY <1>1, <1>2, <1>3, PTL DEF Spec
=============================================================================
