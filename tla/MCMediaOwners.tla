--------------------------- MODULE MCMediaOwners ---------------------------
(* Small instances of MediaOwners for TLC. *)
EXTENDS MediaOwners, TLC

Job(owner, tasks, models, keeps) ==
    [owner : {owner}, model : models, task : tasks, keep : keeps]

\* Every owner, with the keep_alive values that differ.
AllJobs ==
    LET one == {CHOOSE m \in Models : TRUE}
    IN  Job("speech", {"tts"}, one, {"retain", "minutes", "now"})
        \cup Job("onnx", {"tts", "stt"}, Models, {"retain", "minutes"})
        \cup Job("embedding", {"embed"}, one, {"minutes"})
        \cup Job("chat", {"stt"}, one, {"retain"})

\* One kind of request each, for the questions about waiting.
LockJobs ==
    LET one == {CHOOSE m \in Models : TRUE}
    IN  Job("speech", {"tts"}, one, {"now"})
        \cup Job("onnx", {"tts", "stt"}, one, {"minutes"})
        \cup Job("embedding", {"embed"}, one, {"now"})
        \cup Job("chat", {"stt"}, one, {"retain"})

Symmetric == Permutations(Requests)
=============================================================================
