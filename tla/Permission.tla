------------------------------ MODULE Permission ------------------------------
(***************************************************************************)
(* What an approval is to those who need it ("the owner's yes for one exact  *)
(* call", cep/src/approval.rs): asked for one deed, answered once, and good  *)
(* for the call of that deed alone. A call of a client uses its permission   *)
(* up; a tool call that waited is told the answer.                          *)
(***************************************************************************)
CONSTANTS
    Ids,      \* the permissions of a behaviour
    Clients,  \* calls that are refused, and come again with an id
    Agents,   \* calls that wait for the answer
    Deeds,    \* what calls want to do
    None

VARIABLES
    about,     \* the deed each permission was asked for, or None
    standing,  \* how it stands
    deed,      \* what each call wants to do, or None
    waits,     \* the permission each call of an agent waits for, or None
    permitted  \* the permission each call goes on with, or None

permitVars == <<about, standing, deed, waits, permitted>>

Callers == Clients \cup Agents
Nobody(S) == [c \in S |-> None]

Init ==
    /\ about = Nobody(Ids) /\ standing = [i \in Ids |-> "free"]
    /\ deed = Nobody(Callers) /\ waits = Nobody(Agents) /\ permitted = Nobody(Callers)

Begin(c) ==
    /\ deed[c] = None
    /\ \E d \in Deeds : deed' = [deed EXCEPT ![c] = d]
    /\ UNCHANGED <<about, standing, waits, permitted>>

End(c) ==
    /\ deed' = [deed EXCEPT ![c] = None] /\ permitted' = [permitted EXCEPT ![c] = None]
    /\ waits' = [a \in Agents |-> IF a = c THEN None ELSE waits[a]]
    /\ UNCHANGED <<about, standing>>

\* A permission is asked for what a call wants to do.
Ask(c, i) ==
    /\ deed[c] # None /\ permitted[c] = None /\ standing[i] = "free"
    /\ about' = [about EXCEPT ![i] = deed[c]]
    /\ standing' = [standing EXCEPT ![i] = "asked"]
    /\ UNCHANGED permitted

\* The call of a client is over with that; that of an agent waits.
Refuse(c, i) == Ask(c, i) /\ deed' = [deed EXCEPT ![c] = None] /\ UNCHANGED waits
Wait(a, i) == waits[a] = None /\ Ask(a, i) /\ waits' = [waits EXCEPT ![a] = i] /\ UNCHANGED deed

\* The owner answers, once.
Answer(i) ==
    /\ standing[i] = "asked"
    /\ \E answer \in {"granted", "refused"} : standing' = [standing EXCEPT ![i] = answer]
    /\ UNCHANGED <<about, deed, waits, permitted>>

\* A call goes on with a permission for its deed: that of a client uses it up,
\* that of an agent has waited for it.
GoOn(c, i) ==
    /\ deed[c] # None /\ permitted[c] = None
    /\ standing[i] = "granted" /\ about[i] = deed[c]
    /\ permitted' = [permitted EXCEPT ![c] = i]
    /\ UNCHANGED <<about, deed, waits>>
Use(c, i) == GoOn(c, i) /\ standing' = [standing EXCEPT ![i] = "used"]
Hear(a, i) == waits[a] = i /\ GoOn(a, i) /\ UNCHANGED standing

\* All calls end with the process.
Restart ==
    /\ deed' = Nobody(Callers) /\ waits' = Nobody(Agents) /\ permitted' = Nobody(Callers)
    /\ UNCHANGED <<about, standing>>

Next ==
    \/ \E c \in Callers : Begin(c) \/ End(c)
    \/ \E c \in Clients, i \in Ids : Refuse(c, i) \/ Use(c, i)
    \/ \E a \in Agents, i \in Ids : Wait(a, i) \/ Hear(a, i)
    \/ \E i \in Ids : Answer(i)
    \/ Restart

Spec == Init /\ [][Next]_permitVars
=============================================================================
