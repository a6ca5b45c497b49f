---------------------------- MODULE MCEngineHost ----------------------------
(* Small instances of EngineHost for TLC. *)
EXTENDS EngineHost, TLC

Job(chats, medias, saves, keeps) ==
    [key : Keys, chat : chats, media : medias, saves : saves, keep : keeps]

\* Chats with text and media requests.
MemoryJobs == Job(Chats, BOOLEAN, {TRUE}, {"retain"})

\* Text and media requests, of a chat or without one, whose memory is saved.
MixedJobs == Job({CHOOSE c \in Chats : TRUE, NoChat}, BOOLEAN, {TRUE}, {"retain"})

\* Requests that unload at once, after minutes, or never.
KeepJobs == Job(Chats, {FALSE}, {TRUE}, {"retain", "now", "minutes"})

\* Requests without a chat: nothing is saved, so the locks are all that is left.
\* Both ways to unload after an answer on one model, the timer on the others.
LockJobs ==
    LET first == CHOOSE k \in Keys : TRUE
    IN  {j \in Job({NoChat}, {FALSE}, {FALSE}, {"now", "minutes"}) :
            j.key = first \/ j.keep = "minutes"}

Symmetric == Permutations(Turns) \cup Permutations(Chats) \cup Permutations(Keys)
             \cup Permutations(KvTypes)
=============================================================================
