---------------------------- MODULE CameraProofs ----------------------------
(***************************************************************************)
(* What TLAPS proves of CameraTrigger for every window, threshold and pair *)
(* of cooldowns.                                                           *)
(***************************************************************************)
EXTENDS CameraTrigger, SequenceTheorems, TLAPS

USE DEF At, RunTo

-----------------------------------------------------------------------------
(* The clocks and the window *)

(* A clock that saturates stays within its bound.                          *)
LEMMA UpToBounded ==
    ASSUME NEW top \in Nat, NEW n \in 0..top
    PROVE  UpTo(n, top) \in 0..top
BY DEF UpTo

(* The deque of the pipeline never holds more than window_size votes       *)
(* (VisualConversationPipeline.process).                                   *)
LEMMA SlideBounded ==
    ASSUME NEW w \in Seq(BOOLEAN), Len(w) <= WindowSize, NEW decision \in BOOLEAN
    PROVE  Slide(w, decision) \in Seq(BOOLEAN) /\ Len(Slide(w, decision)) <= WindowSize
<1> DEFINE longer == Append(w, decision)
<1>1. /\ longer \in Seq(BOOLEAN) /\ longer # <<>>
      /\ Len(longer) = Len(w) + 1 /\ Len(w) \in Nat
  BY AppendProperties, LenProperties
<1>2. Tail(longer) \in Seq(BOOLEAN) /\ Len(Tail(longer)) = Len(longer) - 1
  BY <1>1, HeadTailProperties
<1> HIDE DEF longer
<1>3. Slide(w, decision) = IF Len(longer) > WindowSize THEN Tail(longer) ELSE longer
  BY DEF Slide, longer
<1>4. CASE Len(longer) > WindowSize
  <2>1. Len(longer) - 1 <= WindowSize
    BY <1>1, CameraAssumption
  <2> QED
    BY <1>2, <1>3, <1>4, <2>1, Zenon
<1>5. CASE ~(Len(longer) > WindowSize)
  <2>1. Len(longer) <= WindowSize
    BY <1>1, <1>5, CameraAssumption
  <2> QED
    BY <1>1, <1>3, <1>5, <2>1, Zenon
<1> QED
  BY <1>4, <1>5

-----------------------------------------------------------------------------
(* Type correctness *)

(* The client and the pipeline start with values of their types.           *)
LEMMA CameraTypeInit == CameraInit => CameraTypeOK
<1> SUFFICES ASSUME CameraInit PROVE CameraTypeOK
  OBVIOUS
<1>1. window \in Seq(BOOLEAN) /\ Len(window) <= WindowSize
  BY CameraAssumption, EmptySeq DEF CameraInit
<1>2. last \in 0..Cooldown /\ now \in 0..Cooldown /\ gate \in 0..ServerCooldown
  BY CameraAssumption DEF CameraInit
<1>3. stop_event \in BOOLEAN /\ shared \in BOOLEAN /\ armed \in BOOLEAN
      /\ available \in BOOLEAN /\ unsure \in BOOLEAN
  BY Zenon DEF CameraInit
<1>4. /\ receiver \in Receivers /\ main \in Mains
      /\ connection \in {"none", "open", "dropped"} /\ answer \in Answers
      /\ post \in Posts /\ late \in Posts /\ starts \in 0..2
  BY DEF CameraInit, Receivers, Mains, Posts, Answers
<1> QED
  BY <1>1, <1>2, <1>3, <1>4, Zenon DEF CameraTypeOK

(* No step of the receiving thread breaks the types.                       *)
LEMMA CameraTypeReceiver ==
    ASSUME CameraTypeOK, Receiver
    PROVE  CameraTypeOK'
<1> USE CameraAssumption
    DEF CameraTypeOK, Receivers, pipelineVars, serverVars, countVars, Answers, Posts
<1>1. CASE LoopTop \/ CheckStop
  <2>1. receiver' \in Receivers
    BY <1>1, Zenon DEF LoopTop, CheckStop
  <2>2. UNCHANGED <<connection, shared, main, stop_event, pipelineVars, serverVars,
                   countVars>>
    BY <1>1 DEF LoopTop, CheckStop
  <2> QED
    BY <2>1, <2>2
<1>2. CASE Connect
  BY <1>2 DEF Connect
<1>8. CASE StoreSocket
  <2>1. shared' \in BOOLEAN /\ receiver' \in Receivers
    BY <1>8, Zenon DEF StoreSocket
  <2>2. UNCHANGED <<connection, main, stop_event, pipelineVars, serverVars, countVars>>
    BY <1>8 DEF StoreSocket
  <2> QED
    BY <2>1, <2>2
<1>7. CASE ReceiveFrame \/ ReceiveText
  <2>1. receiver' \in Receivers
    BY <1>7 DEF ReceiveFrame, ReceiveText
  <2>2. UNCHANGED <<connection, shared, main, stop_event, pipelineVars, serverVars,
                   countVars>>
    BY <1>7 DEF ReceiveFrame, ReceiveText
  <2> QED
    BY <2>1, <2>2
<1>9. CASE ReceiveFails \/ CloseSocket
  BY <1>9 DEF ReceiveFails, CloseSocket
<1>3. CASE Analyze
  <2>1. \/ window' = window
        \/ \E decision \in BOOLEAN : window' = Slide(window, decision)
    BY <1>3, Zenon DEF Analyze
  <2>2. window' \in Seq(BOOLEAN) /\ Len(window') <= WindowSize
    BY <2>1, SlideBounded
  <2> QED
    BY <1>3, <2>2 DEF Analyze
<1>4. CASE HoldBack \/ Post
  BY <1>4 DEF HoldBack, Post
<1>6. CASE Lull
  <2>1. armed' \in BOOLEAN /\ unsure' \in BOOLEAN
    BY <1>6, Zenon DEF Lull
  <2>2. /\ receiver' = "check" /\ starts' = 0
        /\ UNCHANGED <<connection, shared, main, stop_event, window, last, now, answer,
                       serverVars>>
    BY <1>6, Zenon DEF Lull
  <2> QED
    BY <2>1, <2>2
<1>5. CASE Accepted \/ NotAccepted \/ TriggerFails
  BY <1>5 DEF Accepted, NotAccepted, TriggerFails
<1> QED
  BY <1>1, <1>2, <1>3, <1>4, <1>5, <1>6, <1>7, <1>8, <1>9 DEF Receiver

(* Nor does stop(), the server, the network or the clock.                  *)
LEMMA CameraTypeOthers ==
    ASSUME CameraTypeOK, MainThread \/ Server \/ Tick
    PROVE  CameraTypeOK'
<1> USE CameraAssumption
    DEF CameraTypeOK, clientVars, pipelineVars, serverVars, countVars, Kept,
        OneMore, Answers, Posts, Mains
<1>1. CASE StopSet
  <2>1. stop_event' \in BOOLEAN /\ main' \in Mains
    BY <1>1, Zenon DEF StopSet
  <2>2. UNCHANGED <<receiver, connection, shared, pipelineVars, serverVars, countVars>>
    BY <1>1 DEF StopSet
  <2> QED
    BY <2>1, <2>2
<1>11. CASE StopJoins
  BY <1>11 DEF StopJoins
<1>10. CASE StopCloses
  BY <1>10 DEF StopCloses
<1>9. CASE StopReadsSocket
  <2>1. main' \in Mains
    BY <1>9, Zenon DEF StopReadsSocket
  <2>2. UNCHANGED <<receiver, connection, shared, stop_event, pipelineVars, serverVars,
                   countVars>>
    BY <1>9 DEF StopReadsSocket
  <2> QED
    BY <2>1, <2>2
<1>2. CASE PassGate
  BY <1>2 DEF PassGate
<1>3. CASE Refuse
  BY <1>3 DEF Refuse
<1>5. CASE Take
  <2>1. answer' \in Answers /\ unsure' \in BOOLEAN
    BY <1>5, Zenon DEF Take
  <2>2. /\ post' = "none" /\ starts' \in 0..2
        /\ UNCHANGED <<clientVars, window, armed, last, now, late, available, gate>>
    BY <1>5 DEF Take
  <2> QED
    BY <2>1, <2>2
<1>6. CASE GiveUp
  BY <1>6 DEF GiveUp
<1>7. CASE LateArrives
  BY <1>7 DEF LateArrives
<1>8. CASE ServerChanges
  BY <1>8 DEF ServerChanges
<1>4. CASE Tick
  BY <1>4, UpToBounded DEF Tick
<1> QED
  BY <1>1, <1>2, <1>3, <1>4, <1>5, <1>6, <1>7, <1>8, <1>9, <1>10, <1>11
  DEF Server, MainThread

(* CameraTypeOK is inductive.                                              *)
LEMMA CameraTypeStep ==
    ASSUME CameraTypeOK, [CameraNext]_vars
    PROVE  CameraTypeOK'
<1>1. CASE UNCHANGED vars
  BY <1>1
  DEF CameraTypeOK, vars, clientVars, pipelineVars, serverVars, countVars
<1> QED
  BY <1>1, CameraTypeReceiver, CameraTypeOthers DEF CameraNext

(* Every field of the client and the pipeline keeps its type; the window   *)
(* never outgrows window_size.                                             *)
THEOREM CameraTypeCorrect == CameraSpec => []CameraTypeOK
BY CameraTypeInit, CameraTypeStep, PTL DEF CameraSpec

-----------------------------------------------------------------------------
(* Sockets *)

(* Wherever stop() comes in between, the thread gives its socket back      *)
(* before it connects again or ends (ThemisVideoClient._run's finally).    *)
THEOREM SocketsClosedCorrect == CameraSpec => []SocketsClosed
<1>1. CameraInit => SocketsClosed
  BY DEF CameraInit, SocketsClosed
<1>2. ASSUME SocketsClosed, [CameraNext]_vars PROVE SocketsClosed'
  <2> USE <1>2 DEF SocketsClosed
  <2>1. CASE LoopTop \/ Connect \/ StoreSocket \/ CheckStop
    BY <2>1 DEF LoopTop, Connect, StoreSocket, CheckStop
  <2>2. CASE ReceiveFrame \/ ReceiveText \/ ReceiveFails \/ CloseSocket
    BY <2>2 DEF ReceiveFrame, ReceiveText, ReceiveFails, CloseSocket
  <2>3. CASE Analyze \/ Lull \/ HoldBack \/ Post \/ Accepted \/ NotAccepted
             \/ TriggerFails
    BY <2>3
    DEF Analyze, Lull, HoldBack, Post, Accepted, NotAccepted, TriggerFails
  <2>4. CASE MainThread
    BY <2>4 DEF MainThread, StopSet, StopReadsSocket, StopCloses, StopJoins
  <2>5. CASE Server \/ Tick \/ UNCHANGED vars
    BY <2>5
    DEF Server, PassGate, Refuse, Take, GiveUp, LateArrives, ServerChanges, Tick,
        vars, Kept, clientVars
  <2> QED
    BY <2>1, <2>2, <2>3, <2>4, <2>5 DEF CameraNext, Receiver
<1> QED
  BY <1>1, <1>2, PTL DEF CameraSpec

-----------------------------------------------------------------------------
(* One start per approach *)

(* The thread waits for at most one post, and only while the trigger is    *)
(* armed; what it waits for is on its way or has been answered, not both.  *)
PostAwaited ==
    /\ At("post") => armed /\ (post = "none" <=> answer # "none")
    /\ ~At("post") => post = "none" /\ answer = "none"

(* As long as the outcome of every post came, a start that was taken has   *)
(* its answer on the way or the trigger disarmed, and no other is on its   *)
(* way.                                                                    *)
StartsCounted ==
    ~unsure =>
        /\ late = "none"
        /\ starts <= 1
        /\ starts = 1 => ~armed \/ answer = "accepted"

Approach == PostAwaited /\ StartsCounted

(* Before the first frame nothing is posted and nothing taken.             *)
LEMMA ApproachInit == CameraInit => Approach
BY DEF CameraInit, Approach, PostAwaited, StartsCounted

(* The receiving thread posts only when it is armed, and disarms with the  *)
(* answer that its start was taken.                                        *)
LEMMA ApproachReceiver ==
    ASSUME CameraTypeOK, Approach, Receiver
    PROVE  Approach'
<1> USE DEF Approach, PostAwaited, StartsCounted, pipelineVars, serverVars, countVars
<1>1. CASE LoopTop \/ Connect \/ StoreSocket \/ CheckStop
  BY <1>1 DEF LoopTop, Connect, StoreSocket, CheckStop
<1>2. CASE ReceiveFrame \/ ReceiveText \/ ReceiveFails \/ CloseSocket
  BY <1>2 DEF ReceiveFrame, ReceiveText, ReceiveFails, CloseSocket
<1>3. CASE Analyze
  BY <1>3 DEF Analyze
<1>4. CASE Lull
  <2>1. /\ receiver' = "check" /\ armed' = TRUE /\ starts' = 0
        /\ UNCHANGED <<answer, post, late>>
    BY <1>4, Zenon DEF Lull
  <2>2. ~unsure' => late = "none"
    BY <1>4, Zenon DEF Lull
  <2> QED
    BY <1>4, <2>1, <2>2 DEF Lull
<1>5. CASE HoldBack
  BY <1>5 DEF HoldBack
<1>6. CASE Post
  BY <1>6 DEF Post
<1>7. CASE Accepted \/ NotAccepted \/ TriggerFails
  BY <1>7 DEF Accepted, NotAccepted, TriggerFails, CameraTypeOK, Posts
<1> QED
  BY <1>1, <1>2, <1>3, <1>4, <1>5, <1>6, <1>7 DEF Receiver

(* The server takes the awaited post once, a given up one only in doubt.   *)
LEMMA ApproachServer ==
    ASSUME CameraTypeOK, Approach, Server
    PROVE  Approach'
<1> USE DEF Approach, PostAwaited, StartsCounted, Kept, clientVars, countVars
<1>1. CASE PassGate
  BY <1>1 DEF PassGate
<1>2. CASE Refuse
  BY <1>2 DEF Refuse
<1>3. CASE Take
  <2>1. starts \in 0..2 /\ (~unsure' => ~unsure /\ starts = 0)
    BY <1>3 DEF Take, CameraTypeOK
  <2> QED
    BY <1>3, <2>1 DEF Take, OneMore
<1>4. CASE GiveUp
  BY <1>4 DEF GiveUp
<1>5. CASE LateArrives
  BY <1>5 DEF LateArrives
<1>6. CASE ServerChanges
  BY <1>6 DEF ServerChanges
<1> QED
  BY <1>1, <1>2, <1>3, <1>4, <1>5, <1>6 DEF Server

(* Approach is inductive.                                                  *)
LEMMA ApproachStep ==
    ASSUME CameraTypeOK, Approach, [CameraNext]_vars
    PROVE  Approach'
<1>1. CASE MainThread \/ Tick \/ UNCHANGED vars
  BY <1>1
  DEF Approach, PostAwaited, StartsCounted, MainThread, StopSet, StopReadsSocket,
      StopCloses, StopJoins, Tick, vars, clientVars, pipelineVars, serverVars,
      countVars
<1> QED
  BY <1>1, ApproachReceiver, ApproachServer DEF CameraNext

(* Whatever the cooldowns, the window and the threshold, one approach      *)
(* opens the search once unless the outcome of a post was lost.            *)
THEOREM OneStartCorrect == CameraSpec => []OneStartPerApproach
<1>1. CameraTypeOK /\ Approach => OneStartPerApproach
  BY DEF CameraTypeOK, Approach, StartsCounted, OneStartPerApproach
<1> QED
  BY <1>1, ApproachInit, ApproachStep, CameraTypeCorrect, PTL DEF CameraSpec

-----------------------------------------------------------------------------
(* No approach is lost                                                     *)

(* The trigger is disarmed by a start that the server took, in this        *)
(* approach and no other: a visitor whose start was refused, or whose post *)
(* failed, is still the trigger's to report.                               *)
DisarmedByStart ==
    /\ ~armed => starts > 0
    /\ answer = "accepted" => starts > 0

(* The trigger is armed at first.                                          *)
LEMMA DisarmedInit == CameraInit => DisarmedByStart
BY DEF CameraInit, DisarmedByStart

(* Only a start that was taken disarms; the count of starts and the        *)
(* trigger are reset together, when no answer is waited for.               *)
LEMMA DisarmedStep ==
    ASSUME CameraTypeOK, Approach, DisarmedByStart, [CameraNext]_vars
    PROVE  DisarmedByStart'
<1> USE DEF DisarmedByStart
<1>1. CASE UNCHANGED <<armed, answer, starts>>
  BY <1>1
<1>2. CASE Lull
  <2>1. armed' = TRUE /\ answer' = answer /\ answer = "none"
    BY <1>2 DEF Lull, Approach, PostAwaited
  <2> QED
    BY <2>1
<1>3. CASE Accepted \/ NotAccepted \/ TriggerFails
  BY <1>3 DEF Accepted, NotAccepted, TriggerFails, countVars
<1>4. CASE Take
  <2>1. starts' > 0
    BY <1>4 DEF Take, OneMore, CameraTypeOK
  <2> QED
    BY <2>1
<1>5. CASE Refuse \/ GiveUp
  BY <1>5 DEF Refuse, GiveUp, Kept, countVars
<1>6. CASE LateArrives
  <2>1. starts' = starts \/ starts' > 0
    BY <1>6 DEF LateArrives, OneMore, CameraTypeOK
  <2> QED
    BY <1>6, <2>1 DEF LateArrives, Kept
<1> QED
  BY <1>1, <1>2, <1>3, <1>4, <1>5, <1>6
  DEF CameraNext, Receiver, LoopTop, Connect, StoreSocket, CheckStop, ReceiveFrame,
      ReceiveText, ReceiveFails, CloseSocket, Analyze, HoldBack, Post, MainThread, StopSet,
      StopReadsSocket, StopCloses, StopJoins, Server, PassGate, ServerChanges, Tick,
      Kept, vars, pipelineVars, countVars

(* The safe half of ApproachReported: whatever is refused, lost or late,   *)
(* the pipeline gives an approach up only for a start that was taken.      *)
THEOREM DisarmedByStartCorrect == CameraSpec => []DisarmedByStart
BY DisarmedInit, DisarmedStep, ApproachInit, ApproachStep, CameraTypeCorrect, PTL
   DEF CameraSpec

-----------------------------------------------------------------------------
(* stop() *)

(* How many steps the receiving thread is from its end at most, once       *)
(* stop() has set the event.                                               *)
StepsLeft(pc) ==
    CASE pc = "ended"   -> 0 [] pc = "top"    -> 1 [] pc = "close" -> 2
      [] pc = "check"   -> 3 [] pc = "store"  -> 4 [] pc = "post"  -> 4
      [] pc = "connect" -> 5 [] pc = "decide" -> 5
      [] pc = "analyze" -> 6 [] pc = "recv"   -> 7

(* The event stays set, and each step the thread takes brings it nearer    *)
(* its end, wherever stop() found it: the measure behind StopEnds.         *)
StopBounds ==
    [][stop_event =>
          /\ stop_event'
          /\ receiver' # receiver => StepsLeft(receiver') < StepsLeft(receiver)]_vars

(* The loop looks at the event at its top and before each recv, and        *)
(* nowhere goes back without.                                              *)
THEOREM StopBoundsCorrect == CameraSpec => StopBounds
<1>1. ASSUME [CameraNext]_vars, stop_event
      PROVE  /\ stop_event'
             /\ receiver' # receiver => StepsLeft(receiver') < StepsLeft(receiver)
  <2> USE DEF RunTo, At
  <2>1. CASE LoopTop \/ Connect \/ StoreSocket \/ CheckStop
    <3>1. /\ stop_event'
          /\ <<receiver, receiver'>> \in {<<"top", "ended">>, <<"connect", "store">>,
                 <<"connect", "close">>, <<"store", "check">>, <<"check", "close">>}
      BY <1>1, <2>1 DEF LoopTop, Connect, StoreSocket, CheckStop
    <3> QED
      BY <3>1 DEF StepsLeft
  <2>2. CASE ReceiveFrame \/ ReceiveText \/ ReceiveFails \/ CloseSocket
    <3>1. /\ stop_event'
          /\ <<receiver, receiver'>> \in
                {<<"recv", "analyze">>, <<"recv", "check">>, <<"recv", "close">>,
                 <<"close", "top">>}
      BY <1>1, <2>2 DEF ReceiveFrame, ReceiveText, ReceiveFails, CloseSocket
    <3> QED
      BY <3>1 DEF StepsLeft
  <2>3. CASE Analyze
    BY <1>1, <2>3 DEF Analyze, StepsLeft
  <2>4. CASE Lull \/ HoldBack \/ Post \/ Accepted \/ NotAccepted \/ TriggerFails
    <3>1. /\ stop_event'
          /\ <<receiver, receiver'>> \in
                {<<"decide", "check">>, <<"decide", "post">>, <<"post", "check">>}
      BY <1>1, <2>4 DEF Lull, HoldBack, Post, Accepted, NotAccepted, TriggerFails
    <3> QED
      BY <3>1 DEF StepsLeft
  <2>5. CASE MainThread \/ Server \/ Tick \/ UNCHANGED vars
    BY <1>1, <2>5
    DEF MainThread, StopSet, StopReadsSocket, StopCloses, StopJoins, Server, PassGate,
        Refuse, Take, GiveUp, LateArrives, ServerChanges, Tick, vars, Kept, clientVars
  <2> QED
    BY <1>1, <2>1, <2>2, <2>3, <2>4, <2>5 DEF CameraNext, Receiver
<1> QED
  BY <1>1, PTL DEF CameraSpec, StopBounds

(* The thread waits in recv only after it has put its socket where stop()  *)
(* finds it and then seen no event; so stop(), which sets the event and    *)
(* then looks, has closed the socket of a thread that waits.               *)
StopHeard ==
    /\ stop_event <=> main # "running"
    /\ receiver \in {"check", "recv", "analyze", "decide", "post"} => shared
    /\ main \in {"join", "stopped"} /\ receiver = "recv" => connection # "open"

(* Once stop() waits for the thread to end, the thread does not wait for a *)
(* frame, although neither holds the lock from its first look to its last. *)
THEOREM StopHeardCorrect == CameraSpec => []StopHeard
<1>1. CameraInit => StopHeard
  BY DEF CameraInit, StopHeard
<1>2. ASSUME StopHeard, [CameraNext]_vars PROVE StopHeard'
  <2> USE <1>2 DEF StopHeard, RunTo, At
  <2>1. CASE LoopTop \/ Connect \/ StoreSocket \/ CheckStop
    BY <2>1 DEF LoopTop, Connect, StoreSocket, CheckStop
  <2>2. CASE ReceiveFrame \/ ReceiveText \/ ReceiveFails \/ CloseSocket
    BY <2>2 DEF ReceiveFrame, ReceiveText, ReceiveFails, CloseSocket
  <2>3. CASE Analyze
    BY <2>3 DEF Analyze
  <2>4. CASE Lull \/ HoldBack \/ Post \/ Accepted \/ NotAccepted \/ TriggerFails
    BY <2>4 DEF Lull, HoldBack, Post, Accepted, NotAccepted, TriggerFails
  <2>5. CASE MainThread
    BY <2>5 DEF MainThread, StopSet, StopReadsSocket, StopCloses, StopJoins
  <2>6. CASE Server \/ Tick \/ UNCHANGED vars
    BY <2>6
    DEF Server, PassGate, Refuse, Take, GiveUp, LateArrives, ServerChanges, Tick,
        vars, Kept, clientVars
  <2> QED
    BY <2>1, <2>2, <2>3, <2>4, <2>5, <2>6 DEF CameraNext, Receiver
<1> QED
  BY <1>1, <1>2, PTL DEF CameraSpec
=============================================================================
