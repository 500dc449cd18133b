------------------------------ MODULE VoiceUi ------------------------------
(***************************************************************************)
(* The voice process (src/voice_ui): the microphone's callback fills a     *)
(* queue in real time; the check-in loop takes it chunk by chunk, cuts     *)
(* utterances (VAD), transcribes them, asks the LLM and posts voice        *)
(* starts, each of which takes its time; the speaker's threads and the     *)
(* progress thread run beside it.  The microphone hears the speaker.       *)
(*                                                                         *)
(* A tick is a chunk of audio.  The wording of what is heard and said is   *)
(* left out: a text holds a start keyword or not, is clear enough or not.  *)
(***************************************************************************)
EXTENDS Speaker, Dialogue, Sequences

CONSTANTS SilenceChunks,     \* _silence_chunks_needed
          MaxSpeech,         \* chunks of speech in one utterance
          MaxBacklog,        \* chunks in the microphone's queue
          ExitThreshold,     \* NO_UTTERANCE_EXIT_THRESHOLD
          DialogueEnabled    \* DIALOGUE_ENABLED

ASSUME VoiceAssumption ==
    /\ SilenceChunks \in Nat \ {0} /\ MaxSpeech \in Nat \ {0}
    /\ MaxBacklog \in Nat \ {0} /\ ExitThreshold \in Nat \ {0}
    /\ DialogueEnabled \in BOOLEAN
    /\ Horizon > MaxSpeech + SilenceChunks + EchoGuard

VARIABLES
    queue,     \* the microphone's queue
    mic,       \* "on", or "gone"
    buffer,    \* the VAD's buffer: its length, and what was heard in it
    quiet_run, \* _silence_run
    turn,      \* the utterance the loop works on
    pc,        \* where the loop is
    streak,    \* consecutive_no_utterance
    since_chat,\* ticks since a chat was really begun
    moved_on   \* has a start been asked for since the last chat

voiceVars == <<queue, mic, buffer, quiet_run, turn, pc, streak, since_chat, moved_on>>
allVars   == <<voiceVars, speakerVars, dialogueVars>>

Sounds == {"quiet", "visitor", "own"}
Chunks == [sound : Sounds, guarded : BOOLEAN]
Empty  == [length |-> 0, own |-> FALSE, guarded |-> FALSE]
NoTurn == [own |-> FALSE, guarded |-> FALSE, echo |-> FALSE, behind |-> 0]
MaxUtterance == MaxSpeech + SilenceChunks
PCs == {"listen", "stt", "llm", "start", "report", "exited"}

VoiceTypeOK ==
    /\ SpeakerTypeOK /\ DialogueTypeOK
    /\ queue \in Seq(Chunks) /\ Len(queue) <= MaxBacklog
    /\ mic \in {"on", "gone"}
    /\ buffer \in [length : 0..MaxUtterance, own : BOOLEAN, guarded : BOOLEAN]
    /\ quiet_run \in 0..(SilenceChunks - 1)
    /\ turn \in [own : BOOLEAN, guarded : BOOLEAN, echo : BOOLEAN, behind : 0..MaxBacklog]
    /\ pc \in PCs /\ streak \in 0..ExitThreshold
    /\ since_chat \in 0..IdleReset /\ moved_on \in BOOLEAN

VoiceInit ==
    /\ SpeakerInit /\ DialogueInit
    /\ queue = <<>> /\ mic = "on"
    /\ buffer = Empty /\ quiet_run = 0
    /\ turn = NoTurn /\ pc = "listen" /\ streak = 0
    /\ since_chat = IdleReset /\ moved_on = FALSE

-----------------------------------------------------------------------------
(* Time: the microphone's callback puts a chunk, and everything ages.      *)
(* A chunk is read and fed in less than a tick; all else may take longer.  *)

Running == pc # "exited"

(* Nobody speaks on for more than MaxSpeech chunks.                        *)
Sounding == IF buffer.length + Len(queue) >= MaxSpeech THEN {"quiet"}
            ELSE IF Audible THEN Sounds ELSE Sounds \ {"own"}

Hears == [sound : Sounding, guarded : {Guarded}]

Tick ==
    /\ Running
    /\ pc = "listen" => queue = <<>>
    /\ IF mic = "on"
       THEN /\ Len(queue) < MaxBacklog
            /\ \E chunk \in Hears : queue' = Append(queue, chunk)
       ELSE UNCHANGED queue
    /\ SpeakerTick /\ DialogueTick
    /\ since_chat' = IF since_chat < IdleReset THEN since_chat + 1 ELSE IdleReset
    /\ UNCHANGED <<texts, audio, mic, buffer, quiet_run, turn, pc, streak, moved_on>>

MicrophoneLost ==
    /\ Running
    /\ mic = "on" /\ mic' = "gone"
    /\ UNCHANGED <<queue, buffer, quiet_run, turn, pc, streak, since_chat, moved_on,
                   speakerVars, dialogueVars>>

-----------------------------------------------------------------------------
(* SileroVadSegmenter.feed *)

Heard(chunk) ==
    [length  |-> buffer.length + 1,
     own     |-> buffer.own \/ chunk.sound = "own",
     guarded |-> buffer.guarded \/ chunk.guarded]

InSpeech == buffer.length > 0

FeedSpeech ==
    LET chunk == Head(queue)
    IN  /\ chunk.sound # "quiet"
        /\ buffer' = Heard(chunk) /\ quiet_run' = 0

FeedQuiet ==
    LET chunk == Head(queue)
    IN  /\ chunk.sound = "quiet"
        /\ \/ ~InSpeech /\ UNCHANGED <<buffer, quiet_run>>
           \/ /\ InSpeech /\ quiet_run + 1 < SilenceChunks
              /\ buffer' = Heard(chunk) /\ quiet_run' = quiet_run + 1

UtteranceEnds ==
    /\ Head(queue).sound = "quiet"
    /\ InSpeech /\ quiet_run + 1 = SilenceChunks

-----------------------------------------------------------------------------
(* run_turn_once, called over and over by run_checkin_loop *)

ReadChunk ==
    /\ pc = "listen" /\ queue # <<>>
    /\ FeedSpeech \/ FeedQuiet
    /\ queue' = Tail(queue)
    /\ UNCHANGED <<mic, turn, pc, streak, since_chat, moved_on, speakerVars,
                   dialogueVars>>

(* The chunk that closes an utterance.  self_echo is decided here, before  *)
(* the transcription, for a window that ends now.                          *)
CloseUtterance ==
    /\ pc = "listen" /\ queue # <<>>
    /\ UtteranceEnds
    /\ LET utterance == Heard(Head(queue))
       IN  turn' = [own     |-> utterance.own,
                    guarded |-> utterance.guarded \/ Guarded,
                    echo    |-> WasSpeakingDuring(utterance.length),
                    behind  |-> IF mic = "on" THEN Len(queue) - 1 ELSE MaxBacklog]
    /\ buffer' = Empty /\ quiet_run' = 0
    /\ queue' = Tail(queue)
    /\ pc' = "stt"
    /\ UNCHANGED <<mic, streak, since_chat, moved_on, speakerVars, dialogueVars>>

(* Mutant: the outcomes are not counted from one call to the next.         *)
NoUtterance_Forgets ==
    /\ pc = "listen" /\ queue = <<>> /\ mic = "gone"
    /\ streak' = 1
    /\ pc' = IF streak' = ExitThreshold THEN "exited" ELSE "listen"
    /\ UNCHANGED <<queue, mic, buffer, quiet_run, turn, since_chat, moved_on,
                   speakerVars, dialogueVars>>

(* read_chunk waits in vain.                                               *)
NoUtterance ==
    /\ pc = "listen" /\ queue = <<>> /\ mic = "gone"
    /\ streak' = streak + 1
    /\ pc' = IF streak' = ExitThreshold THEN "exited" ELSE "listen"
    /\ UNCHANGED <<queue, mic, buffer, quiet_run, turn, since_chat, moved_on,
                   speakerVars, dialogueVars>>

(* self_echo, rejected_low_confidence, no_keyword.                         *)
Discard ==
    /\ pc = "stt"
    /\ pc' = "report"
    /\ UNCHANGED <<queue, mic, buffer, quiet_run, turn, streak, since_chat, moved_on,
                   speakerVars, dialogueVars>>

(* transcribe raises, which nothing catches: the process ends.             *)
TranscribeRaises ==
    /\ pc = "stt"
    /\ pc' = "exited"
    /\ UNCHANGED <<queue, mic, buffer, quiet_run, turn, streak, since_chat, moved_on,
                   speakerVars, dialogueVars>>

(* Mutant: a keyword keeps the conversation.                               *)
KeywordStart_KeepsHistory ==
    /\ pc = "stt" /\ ~turn.echo
    /\ UNCHANGED dialogueVars
    /\ moved_on' = TRUE
    /\ pc' = "start"
    /\ UNCHANGED <<queue, mic, buffer, quiet_run, turn, streak, since_chat, speakerVars>>

KeywordStart ==
    /\ pc = "stt" /\ ~turn.echo
    /\ IF DialogueEnabled THEN Checkin ELSE UNCHANGED dialogueVars
    /\ moved_on' = TRUE
    /\ pc' = "start"
    /\ UNCHANGED <<queue, mic, buffer, quiet_run, turn, streak, since_chat, speakerVars>>

AskLlm ==
    /\ pc = "stt" /\ ~turn.echo
    /\ DialogueEnabled
    /\ Ask
    /\ pc' = "llm"
    /\ UNCHANGED <<queue, mic, buffer, quiet_run, turn, streak, since_chat, moved_on,
                   speakerVars>>

(* DialogueAgent.respond goes on with the LLM's decision, a reply of one   *)
(* or more sentences is spoken.                                            *)
LlmDecides ==
    /\ pc = "llm"
    /\ \/ /\ Checkin /\ pc' = "start" /\ moved_on' = TRUE
          /\ UNCHANGED <<since_chat, speakerVars>>
       \/ /\ Chat /\ pc' = "report" /\ moved_on' = FALSE
          /\ since_chat' = asked
          /\ \E sentences \in 1..MaxTexts : Speak(sentences)
       \/ /\ Ignore /\ pc' = "report"
          /\ UNCHANGED <<since_chat, moved_on, speakerVars>>
    /\ UNCHANGED <<queue, mic, buffer, quiet_run, turn, streak>>

(* VoiceStartClient.start: only not_available is answered aloud, by the    *)
(* two sentences of BUSY_MESSAGE.                                          *)
StartAnswers == {"accepted", "not_available", "rate_limited", "server_error",
                 "timeout", "connection_error"}

StartAnswered ==
    /\ pc = "start"
    /\ \E answer \in StartAnswers :
          IF answer = "not_available" THEN Speak(2) ELSE UNCHANGED speakerVars
    /\ pc' = "report"
    /\ UNCHANGED <<queue, mic, buffer, quiet_run, turn, streak, since_chat, moved_on,
                   dialogueVars>>

(* turn_reporter.report returns whatever happens; the streak starts anew.  *)
Report ==
    /\ pc = "report"
    /\ pc' = "listen" /\ turn' = NoTurn /\ streak' = 0
    /\ UNCHANGED <<queue, mic, buffer, quiet_run, since_chat, moved_on, speakerVars,
                   dialogueVars>>

-----------------------------------------------------------------------------
(* The other threads *)

SpeakerThreads ==
    /\ Running
    /\ SynthOnce \/ PlayBegins \/ PlayEnds
    /\ UNCHANGED <<voiceVars, dialogueVars>>

(* The progress thread reads out the guidance or an error, which this      *)
(* module takes to come at any time.                                       *)
Announce ==
    /\ Running
    /\ Speak(1)
    /\ UNCHANGED <<voiceVars, dialogueVars>>

CheckinLoop ==
    \/ ReadChunk \/ CloseUtterance \/ NoUtterance \/ TranscribeRaises \/ Discard
    \/ KeywordStart \/ AskLlm \/ LlmDecides \/ StartAnswered \/ Report

(* The process has ended, and its other threads with it.                   *)
Exited == pc = "exited" /\ UNCHANGED allVars

VoiceNext ==
    \/ Tick \/ MicrophoneLost \/ CheckinLoop \/ SpeakerThreads \/ Announce
    \/ Exited

VoiceSpec == VoiceInit /\ [][VoiceNext]_allVars

(* The loop runs and each of its calls returns; the speaker plays.         *)
VoiceFairSpec ==
    /\ VoiceSpec
    /\ WF_allVars(CheckinLoop) /\ WF_allVars(SpeakerThreads)

-----------------------------------------------------------------------------
(* Properties *)

Acts == pc = "stt" /\ pc' \in {"start", "llm"}

(* The robot does not answer itself: an utterance with its own voice in it *)
(* that is cut as soon as it is spoken goes neither to the keywords nor to *)
(* the LLM, though the VAD waits for silence before it cuts                *)
(* (was_speaking_during, run_turn_once).                                   *)
OwnVoiceDiscarded == [][Acts => ~(turn.own /\ turn.behind = 0)]_allVars

(* A visitor who waits until the robot has spoken and the guard is over,   *)
(* and whom it does not interrupt, is not taken for its echo.              *)
VisitorNotEcho ==
    pc = "stt" /\ turn.behind = 0 /\ ~turn.guarded => ~turn.echo

(* What the LLM is sent along belongs to the visitor who asks: nothing     *)
(* from before a start, nothing from before a pause of IdleReset, which    *)
(* background chatter does not shorten (DialogueAgent.respond, reset).     *)
PromptOfThisVisitor ==
    [][AskLlm /\ history' > 0 => since_chat < IdleReset /\ ~moved_on]_allVars

(* A process whose microphone is gone ends.                                *)
MicLossEndsProcess == mic = "gone" ~> pc = "exited"

(* docs/superpowers/specs/2026-09-29-voice-dialogue-design.md: an          *)
(* utterance that overlaps the playback "is discarded, passed neither to   *)
(* the LLM nor to the keyword check".                                      *)
OwnVoiceNeverActedOn == [][Acts => ~turn.own]_allVars
=============================================================================
