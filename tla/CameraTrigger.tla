--------------------------- MODULE CameraTrigger ---------------------------
(***************************************************************************)
(* The process beside the camera (src/tools/run_themis_vlm.py): the thread *)
(* of ThemisVideoClient that receives frames, VisualConversationPipeline   *)
(* that asks the VLM about each and posts POST /api/visual/start, and the  *)
(* server that takes or refuses the start.  Frames, VLM answers and posts  *)
(* may fail; a post the camera has given up may still arrive.              *)
(***************************************************************************)
EXTENDS Naturals, Sequences, FiniteSets

CONSTANTS WindowSize,      \* window_size
          YesThreshold,    \* yes_threshold
          Cooldown,        \* cooldown_seconds of the camera, in ticks
          ServerCooldown   \* VISUAL_START_COOLDOWN_SECONDS, in ticks

ASSUME CameraAssumption ==
    /\ WindowSize \in Nat \ {0} /\ YesThreshold \in 1..WindowSize
    /\ Cooldown \in Nat /\ ServerCooldown \in Nat

VARIABLES
    receiver,     \* where the receiving thread is
    connection,   \* its socket: "none", "open", or "dropped" and not yet closed
    shared,       \* is it in self._socket
    main,         \* where the main thread is in stop()
    stop_event,
    window, armed,
    last,         \* ticks since _last_triggered; Cooldown: long ago or never
    now,          \* ticks since the clock was read for this post
    answer,       \* what the post brought
    post,         \* where the post that is waited for is
    late,         \* where the post that was given up last is
    available,    \* would the state machine take an external start
    gate,         \* ticks since the server's gate last accepted
    starts,       \* starts taken since the window was last below its threshold
    unsure        \* is one of its posts of unknown outcome

clientVars   == <<receiver, connection, shared, main, stop_event>>
pipelineVars == <<window, armed, last, now, answer>>
serverVars   == <<post, late, available, gate>>
countVars    == <<starts, unsure>>
vars == <<clientVars, pipelineVars, serverVars, countVars>>

Receivers == {"top", "connect", "store", "check", "recv", "analyze", "decide",
              "post", "close", "ended"}
Mains     == {"running", "read", "close", "join", "stopped"}
Posts     == {"none", "sent", "gated"}
Answers   == {"none", "accepted", "refused", "failed"}

CameraTypeOK ==
    /\ receiver \in Receivers /\ main \in Mains /\ stop_event \in BOOLEAN
    /\ connection \in {"none", "open", "dropped"} /\ shared \in BOOLEAN
    /\ window \in Seq(BOOLEAN) /\ Len(window) <= WindowSize
    /\ armed \in BOOLEAN /\ last \in 0..Cooldown /\ now \in 0..Cooldown
    /\ answer \in Answers /\ post \in Posts /\ late \in Posts
    /\ available \in BOOLEAN /\ gate \in 0..ServerCooldown
    /\ starts \in 0..2 /\ unsure \in BOOLEAN

CameraInit ==
    /\ receiver = "top" /\ connection = "none" /\ shared = FALSE
    /\ main = "running" /\ stop_event = FALSE
    /\ window = <<>> /\ armed = TRUE
    /\ last = Cooldown /\ now = 0 /\ answer = "none"
    /\ post = "none" /\ late = "none"
    /\ available = TRUE /\ gate = ServerCooldown
    /\ starts = 0 /\ unsure = FALSE

-----------------------------------------------------------------------------
(* The receiving thread *)

RunTo(pc) == receiver' = pc
At(pc)    == receiver = pc

LoopTop ==
    /\ At("top")
    /\ RunTo(IF stop_event THEN "ended" ELSE "connect")
    /\ UNCHANGED <<connection, shared, main, stop_event, pipelineVars, serverVars,
                   countVars>>

(* websocket_factory, which may raise.                                     *)
Connect ==
    /\ At("connect")
    /\ \/ connection' = "open" /\ RunTo("store")
       \/ UNCHANGED connection /\ RunTo("close")
    /\ UNCHANGED <<shared, main, stop_event, pipelineVars, serverVars, countVars>>

StoreSocket ==
    /\ At("store")
    /\ shared' = TRUE
    /\ RunTo("check")
    /\ UNCHANGED <<connection, main, stop_event, pipelineVars, serverVars, countVars>>

(* Mutant: the receive loop goes on until its socket fails.                *)
CheckStop_Never ==
    /\ At("check")
    /\ RunTo("recv")
    /\ UNCHANGED <<connection, shared, main, stop_event, pipelineVars, serverVars,
                   countVars>>

CheckStop ==
    /\ At("check")
    /\ RunTo(IF stop_event THEN "close" ELSE "recv")
    /\ UNCHANGED <<connection, shared, main, stop_event, pipelineVars, serverVars,
                   countVars>>

ReceiveFrame ==
    /\ At("recv")
    /\ connection = "open"
    /\ RunTo("analyze")
    /\ UNCHANGED <<connection, shared, main, stop_event, pipelineVars, serverVars,
                   countVars>>

(* A text message is passed over; stop() is looked for again.              *)
ReceiveText ==
    /\ At("recv")
    /\ connection = "open"
    /\ RunTo("check")
    /\ UNCHANGED <<connection, shared, main, stop_event, pipelineVars, serverVars,
                   countVars>>

(* recv raises or returns None: the peer closed, stop() did, or it timed   *)
(* out.                                                                    *)
ReceiveFails ==
    /\ At("recv")
    /\ connection' = "dropped"
    /\ RunTo("close")
    /\ UNCHANGED <<shared, main, stop_event, pipelineVars, serverVars, countVars>>

(* Mutant: the finally clause only forgets the socket.                     *)
CloseSocket_Forgets ==
    /\ At("close")
    /\ shared' = FALSE
    /\ RunTo("top")
    /\ UNCHANGED <<connection, main, stop_event, pipelineVars, serverVars, countVars>>

(* The finally clause, then the wait before the next attempt.              *)
CloseSocket ==
    /\ At("close")
    /\ shared' = FALSE /\ connection' = "none"
    /\ RunTo("top")
    /\ UNCHANGED <<main, stop_event, pipelineVars, serverVars, countVars>>

-----------------------------------------------------------------------------
(* The VLM server and its client *)

(* OpenAICompatibleBackend.ask: anything but a yes or a no is an error.    *)
BackendReplies == {"yes", "no", "garbled", "unreachable"}
Ask(reply)     == IF reply \in {"yes", "no"} THEN reply ELSE "error"

(* POST /analyze.                                                          *)
AnalyzeResponse(key_ok, image_ok, reply) ==
    IF ~key_ok THEN "401"
    ELSE IF ~image_ok THEN "422"
    ELSE IF Ask(reply) = "error" THEN "502" ELSE Ask(reply)

(* VLMClient.analyze raises for every response but a decision.             *)
Decisions == {"yes", "no"}

-----------------------------------------------------------------------------
(* VisualConversationPipeline.process *)

YesVotes(w) == Cardinality({i \in DOMAIN w : w[i]})
Raised(w)   == YesVotes(w) >= YesThreshold

(* Mutant: the window forgets nothing.                                     *)
Slide_Grows(w, decision) == Append(w, decision)

Slide(w, decision) ==
    LET longer == Append(w, decision)
    IN  IF Len(longer) > WindowSize THEN Tail(longer) ELSE longer

(* A frame whose analysis fails is lost with its vote: the window still    *)
(* holds the votes before it.                                              *)
Analyze ==
    /\ At("analyze")
    /\ \E key_ok, image_ok \in BOOLEAN, reply \in BackendReplies :
          LET response == AnalyzeResponse(key_ok, image_ok, reply)
          IN  IF response \in Decisions
              THEN window' = Slide(window, response = "yes") /\ RunTo("decide")
              ELSE UNCHANGED window /\ RunTo("check")
    /\ UNCHANGED <<connection, shared, main, stop_event, armed, last, now, answer,
                   serverVars, countVars>>

(* Below the threshold the trigger is armed for the next approach.         *)
Lull ==
    /\ At("decide") /\ ~Raised(window)
    /\ armed' = TRUE
    /\ starts' = 0 /\ unsure' = (late # "none")
    /\ RunTo("check")
    /\ UNCHANGED <<connection, shared, main, stop_event, window, last, now, answer,
                   serverVars>>

HoldBack ==
    /\ At("decide") /\ Raised(window)
    /\ ~armed \/ last < Cooldown
    /\ RunTo("check")
    /\ UNCHANGED <<connection, shared, main, stop_event, pipelineVars, serverVars,
                   countVars>>

Post ==
    /\ At("decide") /\ Raised(window)
    /\ armed /\ last = Cooldown
    /\ now' = 0
    /\ post' = "sent"
    /\ RunTo("post")
    /\ UNCHANGED <<connection, shared, main, stop_event, window, armed, last, answer,
                   late, available, gate, countVars>>

(* Mutant: a start that was taken leaves the trigger armed.                *)
Accepted_StaysArmed ==
    /\ At("post") /\ answer = "accepted"
    /\ last' = now
    /\ answer' = "none"
    /\ RunTo("check")
    /\ UNCHANGED <<connection, shared, main, stop_event, window, armed, now,
                   serverVars, countVars>>

Accepted ==
    /\ At("post") /\ answer = "accepted"
    /\ last' = now /\ armed' = FALSE
    /\ answer' = "none"
    /\ RunTo("check")
    /\ UNCHANGED <<connection, shared, main, stop_event, window, now, serverVars,
                   countVars>>

(* Mutant: a refusal is the end of this approach.                          *)
NotAccepted_Disarms ==
    /\ At("post") /\ answer = "refused"
    /\ last' = now /\ armed' = FALSE
    /\ answer' = "none"
    /\ RunTo("check")
    /\ UNCHANGED <<connection, shared, main, stop_event, window, now, serverVars,
                   countVars>>

(* 409 or 429: still armed, once the cooldown is over.                     *)
NotAccepted ==
    /\ At("post") /\ answer = "refused"
    /\ last' = now
    /\ answer' = "none"
    /\ RunTo("check")
    /\ UNCHANGED <<connection, shared, main, stop_event, window, armed, now,
                   serverVars, countVars>>

(* VisualTriggerError: neither the cooldown nor the trigger changes, so    *)
(* the next frame posts again.                                             *)
TriggerFails ==
    /\ At("post") /\ answer = "failed"
    /\ answer' = "none"
    /\ RunTo("check")
    /\ UNCHANGED <<connection, shared, main, stop_event, window, armed, last, now,
                   serverVars, countVars>>

-----------------------------------------------------------------------------
(* ThemisVideoClient.stop, called by the main thread *)

StopSet ==
    /\ main = "running"
    /\ stop_event' = TRUE /\ main' = "read"
    /\ UNCHANGED <<receiver, connection, shared, pipelineVars, serverVars, countVars>>

(* The socket is read under the lock and closed after it.                  *)
StopReadsSocket ==
    /\ main = "read"
    /\ main' = IF shared THEN "close" ELSE "join"
    /\ UNCHANGED <<receiver, connection, shared, stop_event, pipelineVars, serverVars,
                   countVars>>

StopCloses ==
    /\ main = "close"
    /\ main' = "join"
    /\ connection' = IF connection = "open" THEN "dropped" ELSE connection
    /\ UNCHANGED <<receiver, shared, stop_event, pipelineVars, serverVars, countVars>>

(* join returns when the thread has ended, or when its timeout is over.    *)
StopJoins ==
    /\ main = "join"
    /\ main' = "stopped"
    /\ UNCHANGED <<receiver, connection, shared, stop_event, pipelineVars, serverVars,
                   countVars>>

-----------------------------------------------------------------------------
(* The server, as the camera meets it (FrontDoor has it in full) *)

Kept    == UNCHANGED <<clientVars, window, armed, last, now>>
OneMore == starts' = IF starts < 2 THEN starts + 1 ELSE 2

PassGate ==
    /\ post = "sent" /\ available /\ gate = ServerCooldown
    /\ post' = "gated" /\ gate' = 0
    /\ Kept /\ UNCHANGED <<answer, late, available, countVars>>

Refuse ==
    /\ \/ post = "sent" /\ (~available \/ gate < ServerCooldown)
       \/ post = "gated" /\ ~available
    /\ post' = "none" /\ answer' = "refused"
    /\ Kept /\ UNCHANGED <<late, available, gate, countVars>>

Take ==
    /\ post = "gated" /\ available
    /\ post' = "none" /\ OneMore
    /\ \/ answer' = "accepted" /\ UNCHANGED unsure
       \/ answer' = "failed" /\ unsure' = TRUE   \* the answer is lost
    /\ Kept /\ UNCHANGED <<late, available, gate>>

(* The request is lost, or its answer is awaited no longer.  One that has  *)
(* passed the gate is in a thread of the server, which goes on.            *)
GiveUp ==
    /\ post' = "none" /\ answer' = "failed" /\ unsure' = TRUE
    /\ \/ post = "sent" /\ UNCHANGED late
       \/ post = "sent" /\ late = "none" /\ late' = "sent"
       \/ post = "gated" /\ late # "gated" /\ late' = "gated"
    /\ Kept /\ UNCHANGED <<available, gate, starts>>

LateArrives ==
    /\ late # "none"
    /\ late' = "none"
    /\ \/ /\ available /\ (late = "gated" \/ gate = ServerCooldown)
          /\ gate' = IF late = "sent" THEN 0 ELSE gate
          /\ OneMore
       \/ (late = "sent" \/ ~available) /\ UNCHANGED <<gate, starts>>
    /\ Kept /\ UNCHANGED <<answer, post, available, unsure>>

(* A cycle begins or ends, somebody uses the kiosk or leaves it.           *)
ServerChanges ==
    /\ available' = ~available
    /\ Kept /\ UNCHANGED <<answer, post, late, gate, countVars>>

UpTo(n, top) == IF n < top THEN n + 1 ELSE top

Tick ==
    /\ last' = UpTo(last, Cooldown)
    /\ now' = IF At("post") THEN UpTo(now, Cooldown) ELSE now
    /\ gate' = UpTo(gate, ServerCooldown)
    /\ UNCHANGED <<clientVars, window, armed, answer, post, late, available, countVars>>

-----------------------------------------------------------------------------
Receiver ==
    \/ LoopTop \/ Connect \/ StoreSocket \/ CheckStop
    \/ ReceiveFrame \/ ReceiveText \/ ReceiveFails \/ CloseSocket
    \/ Analyze \/ Lull \/ HoldBack \/ Post
    \/ Accepted \/ NotAccepted \/ TriggerFails

MainThread == StopSet \/ StopReadsSocket \/ StopCloses \/ StopJoins
Server     == PassGate \/ Refuse \/ Take \/ GiveUp \/ LateArrives \/ ServerChanges

CameraNext == Receiver \/ MainThread \/ Server \/ Tick

CameraSpec == CameraInit /\ [][CameraNext]_vars

(* The thread runs, its calls return within their timeouts, time passes,   *)
(* and a connection, a frame, a VLM answer or a post that is tried again   *)
(* and again succeeds at last.                                             *)
CameraFairSpec ==
    /\ CameraSpec
    /\ WF_vars(Receiver) /\ WF_vars(Tick)
    /\ WF_vars(Refuse \/ Take \/ GiveUp) /\ WF_vars(LateArrives)
    /\ SF_vars(Connect /\ connection' = "open") /\ SF_vars(ReceiveFrame)
    /\ SF_vars(Analyze /\ receiver' = "decide") /\ SF_vars(PassGate)

-----------------------------------------------------------------------------
(* Properties *)

(* Somebody who stays before the camera opens the search once, whatever    *)
(* the cooldowns: a second start in one approach follows a post whose      *)
(* outcome never came (_armed in VisualConversationPipeline.process).      *)
OneStartPerApproach == starts = 2 => unsure

(* A visitor the trigger is armed for opens the search sooner or later, if *)
(* the visitor and the server's leave stay: refusals, failures and VLM     *)
(* errors only put it off.                                                 *)
ApproachReported ==
    armed /\ Raised(window) ~>
        starts > 0 \/ ~Raised(window) \/ ~available \/ stop_event

(* stop() ends the thread, also when it comes between the connection and   *)
(* its storing, where stop() finds no socket to close.                     *)
StopEnds == stop_event ~> receiver = "ended"

(* A thread that has ended, or is about to connect again, holds no socket. *)
SocketsClosed == receiver \in {"ended", "top", "connect"} => connection = "none"
=============================================================================
