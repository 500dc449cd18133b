------------------------------ MODULE Speaker ------------------------------
(***************************************************************************)
(* VoicevoxSpeaker (src/voice_ui/tts.py): a queue of sentences, a thread   *)
(* that synthesizes them, a queue of audio and a thread that plays it, and *)
(* was_speaking_during, by which the microphone's side tells its own voice *)
(* from a visitor's.                                                       *)
(*                                                                         *)
(* Of the played intervals only the end of the latest decides: the code    *)
(* asks whether any of them reaches into a window that ends now.           *)
(***************************************************************************)
EXTENDS Naturals

CONSTANTS EchoGuard,       \* echo_guard_seconds, in ticks
          Horizon,         \* ticks after which a playback is long ago
          MaxTexts         \* sentences waiting for synthesis

ASSUME SpeakerAssumption ==
    /\ EchoGuard \in Nat /\ Horizon \in Nat /\ EchoGuard < Horizon
    /\ MaxTexts \in Nat \ {0}

VARIABLES
    texts,     \* how many sentences wait in _texts
    audio,     \* how many wait in _audio
    playing,   \* _playing: "no", "begun" (in this tick), "yes"
    silent     \* ticks since the last playback ended; Horizon: long ago

speakerVars == <<texts, audio, playing, silent>>

SpeakerTypeOK ==
    /\ texts \in 0..MaxTexts /\ audio \in 0..MaxTexts
    /\ playing \in {"no", "begun", "yes"} /\ silent \in 0..Horizon

SpeakerInit == texts = 0 /\ audio = 0 /\ playing = "no" /\ silent = Horizon

(* speak: a queue put per sentence.                                        *)
Speak(sentences) ==
    /\ texts + sentences <= MaxTexts
    /\ texts' = texts + sentences
    /\ UNCHANGED <<audio, playing, silent>>

(* A sentence whose synthesis fails is skipped.                            *)
SynthOnce ==
    /\ texts > 0 /\ audio < MaxTexts
    /\ texts' = texts - 1
    /\ audio' \in {audio, audio + 1}
    /\ UNCHANGED <<playing, silent>>

PlayBegins ==
    /\ audio > 0 /\ playing = "no"
    /\ audio' = audio - 1
    /\ playing' = "begun"
    /\ UNCHANGED <<texts, silent>>

(* The output has taken the audio, which lasts a tick at least, or failed. *)
PlayEnds ==
    /\ playing = "yes"
    /\ playing' = "no" /\ silent' = 0
    /\ UNCHANGED <<texts, audio>>

Playing == playing # "no"

SpeakerTick ==
    /\ silent' = IF silent < Horizon THEN silent + 1 ELSE Horizon
    /\ playing' = IF Playing THEN "yes" ELSE "no"

(* Mutant: only a playback that is still going on counts.                  *)
WasSpeakingDuring_Now(ticks) == Playing

(* Mutant: the guard stretches the window without end.                     *)
WasSpeakingDuring_Wide(ticks) == Playing \/ silent < Horizon

(* Did an utterance of this length that ends now overlap the playback.     *)
WasSpeakingDuring(ticks) == Playing \/ silent <= ticks + EchoGuard

(* Can the microphone hear it in a chunk that begins now.                  *)
Audible == Playing \/ silent < EchoGuard

(* Does the guard cover a chunk that begins now.                           *)
Guarded == Playing \/ silent <= EchoGuard
=============================================================================
