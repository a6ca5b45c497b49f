------------------------------ MODULE TaskResult ------------------------------
(***************************************************************************)
(* What a task is to those who ask for its result (tasks.result, cep/src/   *)
(* task.rs): a value that is assigned once, by the end of its work or by a  *)
(* cancellation, told as it is to whoever asks from then on, and forgotten  *)
(* when its time is over.                                                   *)
(***************************************************************************)
CONSTANT Ids \* the tasks of a behaviour

VARIABLES
    result, \* the result of each task, or how far it is from one
    told    \* the results given to those who asked

resultVars == <<result, told>>

Results == {"ok", "error", "cancelled"}

Init == result = [i \in Ids |-> "free"] /\ told = [i \in Ids |-> {}]

\* What is left once the tasks of gone are forgotten, whatever they came to.
Without(gone) == [i \in Ids |-> IF i \in gone /\ result[i] # "free" THEN "gone" ELSE result[i]]

\* A new task; some of those before it may be forgotten.
Open(i) ==
    /\ result[i] = "free"
    /\ \E gone \in SUBSET Ids : result' = [Without(gone) EXCEPT ![i] = "open"]
    /\ UNCHANGED told

Forget == (\E gone \in SUBSET Ids : result' = Without(gone)) /\ UNCHANGED told

Assign(i) ==
    /\ result[i] = "open"
    /\ \E r \in Results : result' = [result EXCEPT ![i] = r]
    /\ UNCHANGED told

Answer(i) ==
    /\ result[i] \in Results
    /\ told' = [told EXCEPT ![i] = @ \cup {result[i]}]
    /\ UNCHANGED result

Next == Forget \/ \E i \in Ids : Open(i) \/ Assign(i) \/ Answer(i)

Spec == Init /\ [][Next]_resultVars
=============================================================================
