----------------------------- MODULE ContextFit -----------------------------
(***************************************************************************)
(* How a conversation is fitted into the context of the model before each   *)
(* generation of an answer (engine/llama/src/native/stream.rs with the      *)
(* helpers of engine/core/src/chat.rs), while tool steps make the           *)
(* conversation longer (handlers/chat/tool_turns.rs).                       *)
(*                                                                         *)
(* Each generation begins with the whole conversation and takes parts away  *)
(* until prompt and answer fit. A round of the loop is an action.           *)
(*                                                                         *)
(* Abstracted: a message is what it is, its number of tokens and its place  *)
(* in the conversation; the template adds Markers tokens to every message   *)
(* and Schemas tokens for the tools. A prompt with media (native/media.rs)  *)
(* is fitted by a loop of its own, over the positions its media take.       *)
(* Continuations of a prompt already in the context are not fitted.         *)
(***************************************************************************)
EXTENDS Naturals, Sequences, FiniteSets, SequencesExt

CONSTANTS
    ToolRole,     \* does the template have a role for tool results
    Context,      \* n_ctx
    MaxTokens,    \* max_tokens of the requests
    ReserveLeast, ReserveMost, \* 256 and 2048
    LongResult,   \* EARLIER_RESULT_MIN_TOKENS
    NoteSize,     \* tokens of EARLIER_RESULT_NOTE, at most LongResult: a tokenizer
                  \* that needs more of them would have the loop replace it for ever
    Schemas, Markers,
    SystemSize, RequestSizes, CallSize, ResultSizes, AnswerSize,
    MaxMessages   \* bound: messages of a conversation

VARIABLES
    at,        \* waiting for a request, fitting, generating, or the request exceeded
    chat,      \* the conversation
    shown,     \* what is left of it for this generation
    settings,  \* the context-shifting mode, can the KV shift, does the model think,
               \* is there media in the conversation
    owed,      \* to_free: what the mode still wants to be free (media)
    traded     \* history: earlier turns went although the answer alone fitted

vars == <<at, chat, shown, settings, owed, traded>>

Shares == [minimal |-> 5, standard |-> 10, aggressive |-> 25, extreme |-> 50]
Modes == DOMAIN Shares \cup {"auto", "off"}

-----------------------------------------------------------------------------
(* The prompt.                                                             *)

Message(what, size) == [what |-> what, size |-> size, nr |-> Len(chat) + 1]

Role(m) ==
    CASE m.what = "system" -> "system"
      [] m.what = "request" -> "user"
      [] m.what = "result" -> (IF ToolRole THEN "tool" ELSE "user")
      [] OTHER -> "assistant"

Tokens(ms) == FoldLeft(LAMBDA n, m : n + m.size, 0, ms)
Prompt(ms) == Schemas + Tokens(ms) + Markers * Len(ms)

\* What the template adds is spread over the messages.
Spread(ms) ==
    LET each == (Prompt(ms) - Tokens(ms)) \div Len(ms)
    IN  [i \in DOMAIN ms |-> [ms[i] EXCEPT !.size = @ + each]]

Lower(m, n) == IF m < n THEN m ELSE n

\* answer_reserve, and the room for a model that thinks first.
AnswerRoom ==
    LET quarter == Lower(IF Context \div 4 < ReserveLeast THEN ReserveLeast ELSE Context \div 4,
                         ReserveMost)
    IN  Lower(MaxTokens, quarter)
ThinkingRoom == IF settings.thinks THEN Lower(2 * AnswerRoom, Context \div 2) ELSE AnswerRoom

-----------------------------------------------------------------------------
(* What can be left out (engine/core/src/chat.rs).                          *)

First(ms) == IF Role(ms[1]) = "system" THEN 2 ELSE 1
LastUser(ms) == SelectLastInSeq(ms, LAMBDA m : Role(m) = "user")
Between(ms, from, to) == Tokens(SubSeq(ms, from, to - 1))

\* Faulty: always the room for thinking.
RoomAlwaysForThinking(ms) == ThinkingRoom

\* Earlier turns are not given up for room that dropping them cannot make.
RoomToKeep(ms) ==
    IF Prompt(ms) - Between(ms, First(ms), LastUser(ms)) + ThinkingRoom <= Context
    THEN ThinkingRoom ELSE AnswerRoom

Overflow(ms) == LET needs == Prompt(ms) + RoomToKeep(ms)
                IN  IF needs > Context THEN needs - Context ELSE 0

\* tokens_to_free: a share of the context, or what is too much.
ToFree(overflow, shifts) ==
    LET share == IF settings.mode = "auto"
                 THEN IF shifts THEN 0 ELSE Context \div 4
                 ELSE (Context * Shares[settings.mode]) \div 100
    IN  IF share > overflow THEN share ELSE overflow

\* Faulty: short results, too.
AnyEarlierResults(ms) == {i \in 1..(LastUser(ms) - 1) : Role(ms[i]) = "tool"}

EarlierResults(ms) ==
    {i \in 1..(LastUser(ms) - 1) : Role(ms[i]) = "tool" /\ ms[i].size > LongResult}

\* Faulty: stops where enough is free, also in the middle of a turn.
TurnsEndAnywhere(ms, target) ==
    LET last == LastUser(ms)
    IN  Min({e \in First(ms)..last : e = last \/ Between(ms, First(ms), e) >= target})

\* oldest_turns_to_drop: whole turns, the first message that stays.
TurnsEnd(ms, target) ==
    LET last == LastUser(ms)
    IN  Min({e \in First(ms)..last :
             \/ e = last
             \/ Role(ms[e]) = "user" /\ Between(ms, First(ms), e) >= target})

\* oldest_steps_to_drop: whole steps of the current request, so that the answer
\* alone fits; the newest stays.
Steps(ms) == {i \in (LastUser(ms) + 1)..Len(ms) : Role(ms[i]) # "tool"}
Short(ms) == LET needs == Prompt(ms) + AnswerRoom IN IF needs > Context THEN needs - Context ELSE 0
StepsEnd(ms) ==
    IF Steps(ms) = {} THEN LastUser(ms) + 1
    ELSE LET sizes == Spread(ms)
         IN  Min({e \in Steps(ms) : \/ e = Max(Steps(ms))
                                    \/ Between(sizes, LastUser(ms) + 1, e) >= Short(ms)})

Without(ms, from, to) == SubSeq(ms, 1, from - 1) \o SubSeq(ms, to, Len(ms))

-----------------------------------------------------------------------------
(* The conversation.                                                       *)

Request(ms) == SelectLastInSeq(ms, LAMBDA m : m.what = "request")

\* The messages as they are rendered: with media, the steps are written into the
\* request.
Rendered(ms) ==
    IF settings.media
    THEN LET r == Request(ms)
         IN  Append(SubSeq(ms, 1, r - 1),
                    [ms[r] EXCEPT !.size = @ + Between(ms, r + 1, Len(ms) + 1)])
    ELSE ms

Begin(messages) ==
    /\ chat' = messages
    /\ shown' = Rendered(messages)
    /\ at' = "fitting"
    /\ owed' = 0 /\ traded' = FALSE
    /\ UNCHANGED settings

\* With a system message or without. Only "auto" asks if the KV can shift; a
\* prompt with media keeps the room for the answer and does not shift.
Init ==
    /\ at = "waiting"
    /\ chat \in {<<>>, <<[what |-> "system", size |-> SystemSize, nr |-> 1]>>}
    /\ shown = chat
    /\ settings \in [mode : Modes, shifts : BOOLEAN, thinks : BOOLEAN, media : BOOLEAN]
    /\ settings.mode # "auto" /\ ~settings.media => settings.shifts
    /\ settings.media => ~settings.shifts /\ ~settings.thinks
    /\ owed = 0 /\ traded = FALSE

Ask(size) ==
    /\ at = "waiting"
    /\ Len(chat) < MaxMessages
    /\ Begin(Append(chat, Message("request", size)))

-----------------------------------------------------------------------------
(* The loop of stream.rs.                                                  *)

MustShrink ==
    /\ at = "fitting" /\ ~settings.media
    /\ Prompt(shown) + ThinkingRoom > Context
    /\ Overflow(shown) > 0
    /\ settings.mode # "off"

Leave(messages) ==
    /\ shown' = messages
    /\ traded' = (traded \/ /\ Prompt(shown) + AnswerRoom <= Context
                            /\ Len(messages) < Len(shown))
    /\ UNCHANGED <<at, chat, settings>>

\* The turns that go when a share of the context is to be free.
OldTurnsEnd == TurnsEnd(Spread(shown), ToFree(Overflow(shown), settings.shifts))

LeaveResultOut ==
    /\ MustShrink
    /\ EarlierResults(shown) # {}
    /\ Leave([shown EXCEPT ![Min(EarlierResults(shown))].size = NoteSize])
    /\ UNCHANGED owed

DropTurns ==
    /\ MustShrink
    /\ EarlierResults(shown) = {}
    /\ OldTurnsEnd > First(shown)
    /\ Leave(Without(shown, First(shown), OldTurnsEnd))
    /\ UNCHANGED owed

StepsCanGo ==
    /\ Short(shown) > 0
    /\ StepsEnd(shown) > LastUser(shown) + 1

OnlyRequestLeft == EarlierResults(shown) = {} /\ OldTurnsEnd = First(shown)

DropSteps ==
    /\ MustShrink
    /\ OnlyRequestLeft
    /\ StepsCanGo
    /\ Leave(Without(shown, LastUser(shown) + 1, StepsEnd(shown)))
    /\ UNCHANGED owed

Dispatch(ok) ==
    /\ at' = IF ok THEN "generating" ELSE "exceeded"
    /\ UNCHANGED <<chat, shown, settings, owed, traded>>

\* Faulty: gives up when no earlier turn is left.
EndFitEarly ==
    /\ at = "fitting" /\ ~settings.media
    /\ MustShrink => OnlyRequestLeft
    /\ Dispatch(Prompt(shown) < Context)

\* The prompt fits, or no more can go.
EndFit ==
    /\ at = "fitting" /\ ~settings.media
    /\ MustShrink => OnlyRequestLeft /\ ~StepsCanGo
    /\ Dispatch(Prompt(shown) < Context)

-----------------------------------------------------------------------------
(* The loop of media.rs: one turn at a time, until the mode has its share.  *)

MediaFits == Prompt(shown) + AnswerRoom <= Context
MediaTurnEnd == TurnsEnd([i \in DOMAIN shown |-> [shown[i] EXCEPT !.size = 1]], 1)
MediaTurnCanGo == settings.mode # "off" /\ MediaTurnEnd > First(shown)

DropMediaTurn ==
    /\ at = "fitting" /\ settings.media
    /\ ~MediaFits \/ owed > 0
    /\ MediaTurnCanGo
    /\ Leave(Without(shown, First(shown), MediaTurnEnd))
    /\ LET freed == Prompt(shown) - Prompt(shown')
           goal == IF owed > 0 THEN owed
                   ELSE ToFree(Prompt(shown) + AnswerRoom - Context, settings.shifts)
       IN  owed' = IF goal > freed THEN goal - freed ELSE 0

EndMediaFit ==
    /\ at = "fitting" /\ settings.media
    /\ (~MediaFits \/ owed > 0) => ~MediaTurnCanGo
    /\ Dispatch(MediaFits)

-----------------------------------------------------------------------------
(* What the model says: a tool call, whose result comes next, or the answer. *)

AddStep(size) ==
    /\ at = "generating"
    /\ Len(chat) + 1 < MaxMessages
    /\ Begin(chat \o << Message("call", CallSize),
                        [Message("result", size) EXCEPT !.nr = @ + 1] >>)

Answer ==
    /\ at = "generating"
    /\ Len(chat) < MaxMessages
    /\ chat' = Append(chat, Message("answer", AnswerSize))
    /\ shown' = chat'
    /\ at' = "waiting" /\ owed' = 0 /\ traded' = FALSE
    /\ UNCHANGED settings

Next ==
    \/ \E size \in RequestSizes : Ask(size)
    \/ LeaveResultOut \/ DropTurns \/ DropSteps \/ EndFit
    \/ DropMediaTurn \/ EndMediaFit
    \/ \E size \in ResultSizes : AddStep(size)
    \/ Answer

Spec == Init /\ [][Next]_vars

-----------------------------------------------------------------------------
(* Correctness.                                                            *)

TypeOK ==
    /\ at \in {"waiting", "fitting", "generating", "exceeded"}
    /\ settings \in [mode : Modes, shifts : BOOLEAN, thinks : BOOLEAN, media : BOOLEAN]
    /\ owed \in Nat /\ traded \in BOOLEAN
    /\ Len(chat) <= MaxMessages /\ Len(shown) <= Len(chat)

\* "The current request (the last user message, with the steps after it) always
\* stays: a model that has lost it does not know what it is doing" (chat.rs:160),
\* however long its steps and the turns before it are.
RequestStays == at # "waiting" => \E i \in DOMAIN shown : shown[i].nr = Request(chat)

\* A tool result stays only with its call, the system message and the newest
\* step stay, and what stays is in order ("Rules that hold in every mode",
\* chat_completions.md): a prompt never opens in the middle of a turn.
WorkStays ==
    at # "waiting" =>
        /\ RequestStays
        /\ ~settings.media => Last(shown).nr = Len(chat)
        /\ chat[1].what = "system" => shown[1] = chat[1]
        /\ \A i \in DOMAIN shown : shown[i].what \in {"call", "answer"}
               => i > 1 /\ shown[i - 1].what # "system"
        /\ \A i \in DOMAIN shown : shown[i].what = "result"
               => i > 1 /\ shown[i - 1].nr = shown[i].nr - 1

\* What must stay: the system message, the request and its newest step.
MustStay(all, request) ==
    SubSeq(all, 1, First(all) - 1) \o SubSeq(all, request, request)
      \o SubSeq(all, IF Len(all) = request THEN request + 1 ELSE Len(all) - 1, Len(all))

\* A request fails for its size only when what must stay, the system message,
\* the request and its newest step, does not fit (mode off aside); with media,
\* and the room for the answer.
GivesUpLast ==
    at = "exceeded" /\ settings.mode # "off" =>
        Prompt(MustStay(Rendered(chat), Request(chat)))
          + (IF settings.media THEN AnswerRoom - 1 ELSE 0) >= Context

\* "Earlier turns are not given up for room that dropping them cannot make"
\* (room_to_keep): where the answer alone had fitted and turns went all the
\* same, the room for thinking is there in the end.
TurnsBuyRoom == at = "generating" /\ traded => Prompt(shown) + ThinkingRoom <= Context

\* The loop ends: each round makes the prompt smaller (stream.rs:334,
\* media.rs:615).
EveryRoundFrees ==
    [][at = "fitting" /\ shown' # shown => Prompt(shown') < Prompt(shown)]_vars
=============================================================================
