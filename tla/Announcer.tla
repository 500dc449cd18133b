----------------------------- MODULE Announcer -----------------------------
(***************************************************************************)
(* The voice process's second listener: src/voice_ui/progress_announcer.py *)
(* and the loop of src/voice_ui/main.py that reads GET /api/events         *)
(* (src/voice_ui/sse_events.py), breaks off and connects again, next to    *)
(* the state machine whose snapshots it hears.                             *)
(*                                                                         *)
(* Of a snapshot the announcer looks at two things that call for words, so *)
(* a snapshot is the set of those that hold: "guidance" while the entry is *)
(* a voice start, "error" while the phase is error.  A snapshot that       *)
(* repeats the one before it, and a typed event, has it say nothing; they  *)
(* are not published here.                                                 *)
(***************************************************************************)
EXTENDS StateMachine

CONSTANTS MaxInbox,        \* a listener further behind loses its connection
          InitialBackoff,  \* _RECONNECT_INITIAL_BACKOFF
          MaxBackoff       \* _RECONNECT_MAX_BACKOFF

ASSUME AnnouncerAssumption ==
    /\ MaxInbox \in Nat \ {0}
    /\ InitialBackoff \in Nat \ {0}
    /\ MaxBackoff \in Nat /\ InitialBackoff <= MaxBackoff

VARIABLES
    link, inbox,  \* the connection and what is on its way, as in EventStream
    loop,         \* run_progress_loop: in its "stream" or in its "sleep"
    backoff,      \* how long its next sleep is
    heard,        \* _last_entry and _last_phase
    unsaid,       \* history: what has begun on the server and was not said yet
    missed        \* history: what was heard of and whose end was lost

Stream == INSTANCE EventStream

streamVars    == <<link, inbox>>
announcerVars == <<vars, streamVars, loop, backoff, heard, unsaid, missed>>

Cues == {"guidance", "error"}

View == {cue \in Cues :
            \/ cue = "guidance" /\ entry = [source |-> "voice", stage |-> "start"]
            \/ cue = "error" /\ phase = "error"}

AnnouncerTypeOK ==
    /\ TypeOK
    /\ Stream!StreamTypeOK(SUBSET Cues)
    /\ loop \in {"stream", "sleep"}
    /\ backoff \in InitialBackoff..MaxBackoff
    /\ heard \subseteq Cues /\ unsaid \subseteq View /\ missed \subseteq heard

AnnouncerInit ==
    /\ Init
    /\ Stream!StreamInit
    /\ loop = "stream" /\ backoff = InitialBackoff
    /\ heard = {} /\ unsaid = {} /\ missed = {}

(* The history of a snapshot that never gets to the announcer.             *)
Lose(snapshots) ==
    missed' = missed \cup {cue \in heard : \E s \in snapshots : cue \notin s}

Pending == {inbox[i] : i \in DOMAIN inbox}

-----------------------------------------------------------------------------
(* A step of the server, and on_change when it is one the announcer can    *)
(* tell from the last.                                                     *)
ServerStep ==
    /\ Next
    /\ unsaid' = (unsaid \cap View') \cup (View' \ View)
    /\ \/ View' = View /\ UNCHANGED <<streamVars, loop, missed>>
       \/ /\ View' # View
          /\ Stream!Publish(View')
          /\ IF link = "down" THEN Lose({View'}) ELSE UNCHANGED missed
          /\ UNCHANGED loop
       \/ /\ View' # View /\ Len(inbox) = MaxInbox
          /\ Stream!Disconnect
          /\ Lose(Pending \cup {View'})
          /\ loop' = "sleep"
    /\ UNCHANGED <<backoff, heard>>

(* iter_sse_events: the GET gets to the server, which sends a snapshot.    *)
Get ==
    /\ loop = "stream"
    /\ Stream!Subscribe
    /\ UNCHANGED <<vars, loop, backoff, heard, unsaid, missed>>

GetAnswered ==
    /\ loop = "stream"
    /\ Stream!SendSnapshot(View)
    /\ UNCHANGED <<vars, loop, backoff, heard, unsaid, missed>>

(* Mutant: what was heard once is taken to hold for ever.                  *)
HandleSnapshot_Forever(snapshot) ==
    /\ loop = "stream"
    /\ Stream!Arrives(snapshot)
    /\ heard' = heard \cup snapshot
    /\ unsaid' = unsaid \ (snapshot \ heard)
    /\ missed' = missed \cap snapshot
    /\ backoff' = InitialBackoff
    /\ UNCHANGED <<vars, loop>>

(* ProgressAnnouncer.handle_snapshot says what the last snapshot had not;  *)
(* the loop's next sleep is a short one again.                             *)
HandleSnapshot(snapshot) ==
    /\ loop = "stream"
    /\ Stream!Arrives(snapshot)
    /\ heard' = snapshot
    /\ unsaid' = unsaid \ (snapshot \ heard)
    /\ missed' = missed \cap snapshot
    /\ backoff' = InitialBackoff
    /\ UNCHANGED <<vars, loop>>

(* Mutant: an error of the stream ends the thread.                         *)
StreamEnds_Fatal ==
    /\ loop = "stream"
    /\ link' = "down" /\ inbox' = <<>>
    /\ Lose(Pending)
    /\ loop' = "dead"
    /\ UNCHANGED <<vars, backoff, heard, unsaid>>

(* The GET fails or times out, or the stream ends, raises or falls silent  *)
(* for its read timeout.                                                   *)
StreamEnds ==
    /\ loop = "stream"
    /\ link' = "down" /\ inbox' = <<>>
    /\ Lose(Pending)
    /\ loop' = "sleep"
    /\ UNCHANGED <<vars, backoff, heard, unsaid>>

(* Mutant: the sleeps double without limit.                                *)
Sleep_Unbounded ==
    /\ loop = "sleep"
    /\ loop' = "stream"
    /\ backoff' = backoff * 2
    /\ UNCHANGED <<vars, streamVars, heard, unsaid, missed>>

Sleep ==
    /\ loop = "sleep"
    /\ loop' = "stream"
    /\ backoff' = IF backoff * 2 <= MaxBackoff THEN backoff * 2 ELSE MaxBackoff
    /\ UNCHANGED <<vars, streamVars, heard, unsaid, missed>>

AnnouncerNext ==
    \/ ServerStep
    \/ Get \/ GetAnswered
    \/ \E snapshot \in SUBSET Cues : HandleSnapshot(snapshot)
    \/ StreamEnds
    \/ Sleep

(* A sleep is over in the end, and the network lets a connection and what  *)
(* it carries through time and again.  The server is as fair as it is      *)
(* without a listener.                                                     *)
AnnouncerSpec ==
    /\ AnnouncerInit /\ [][AnnouncerNext]_announcerVars
    /\ Fairness
    /\ WF_announcerVars(Sleep)
    /\ SF_announcerVars(Get) /\ SF_announcerVars(GetAnswered)
    /\ SF_announcerVars(\E snapshot \in SUBSET Cues : HandleSnapshot(snapshot))

-----------------------------------------------------------------------------
(* Properties *)

(* An announcer that has taken every event has said what began: it is      *)
(* silent about an error, or a voice start that replaced another entry,    *)
(* only if it had heard of an earlier one whose end was lost with the      *)
(* stream (_last_phase and _last_entry outlive the connection).            *)
SaidUnlessMissed == link = "open" /\ inbox = <<>> => unsaid \subseteq missed

(* However often the stream breaks, an error that stays on the screens is  *)
(* heard of: run_progress_loop never gives up, and each connection begins  *)
(* with a snapshot of now.                                                 *)
ErrorHeard == phase = "error" ~> (phase # "error" \/ "error" \in heard)
=============================================================================
