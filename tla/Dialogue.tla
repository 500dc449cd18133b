------------------------------ MODULE Dialogue ------------------------------
(***************************************************************************)
(* DialogueAgent (src/voice_ui/dialogue.py): the conversation sent along   *)
(* with each question to the LLM, and when it is forgotten.  An exchange   *)
(* is counted, not quoted.                                                 *)
(***************************************************************************)
EXTENDS Naturals

CONSTANTS HistoryTurns,   \* DIALOGUE_HISTORY_TURNS
          IdleReset       \* DIALOGUE_IDLE_RESET_SECONDS, in ticks

(* With HistoryTurns = 0 "del history[:-0]" deletes nothing.               *)
ASSUME DialogueAssumption ==
    HistoryTurns \in Nat \ {0} /\ IdleReset \in Nat \ {0}

VARIABLES
    history,     \* exchanges kept
    last_chat,   \* ticks since _last_chat_at; IdleReset: none, or long ago
    asked        \* ticks since respond() read the clock

dialogueVars == <<history, last_chat, asked>>

DialogueTypeOK ==
    /\ history \in 0..HistoryTurns
    /\ last_chat \in 0..IdleReset /\ asked \in 0..IdleReset

DialogueInit == history = 0 /\ last_chat = IdleReset /\ asked = 0

Reset == history' = 0 /\ last_chat' = IdleReset

Ask ==
    /\ asked' = 0
    /\ IF last_chat >= IdleReset THEN Reset ELSE UNCHANGED <<history, last_chat>>

(* Mutant: the history is not cut.                                         *)
Chat_Grows ==
    /\ last_chat' = asked
    /\ history' = history + 1
    /\ UNCHANGED asked

Chat ==
    /\ last_chat' = asked
    /\ history' = IF history < HistoryTurns THEN history + 1 ELSE HistoryTurns
    /\ UNCHANGED asked

(* "ignore", a chat without a reply, or an LLM that fails.                 *)
Ignore == UNCHANGED dialogueVars

Checkin == Reset /\ UNCHANGED asked

DialogueTick ==
    /\ last_chat' = IF last_chat < IdleReset THEN last_chat + 1 ELSE IdleReset
    /\ asked' = IF asked < IdleReset THEN asked + 1 ELSE IdleReset
    /\ UNCHANGED history
=============================================================================
