--------------------------- MODULE FrontDoorProofs ---------------------------
(***************************************************************************)
(* What TLAPS proves of FrontDoor for every set of guests, of request      *)
(* threads and of sources, every cooldown and every length of the event    *)
(* queue: the routes and the kiosk's reports use the state machine as it   *)
(* may be used, they leave the entry of a cycle alone, and the page ends   *)
(* up with what the server shows.                                          *)
(***************************************************************************)
EXTENDS FrontDoor, EventOrder, StateMachineProofs

-----------------------------------------------------------------------------
(* The front door and the state machine *)

(* The robots that answer well answer as the state machine expects.        *)
LEMMA RunnerStepIsNext ==
    ASSUME RunnerLocalStep \/ RobotAnswers
    PROVE  Next
BY DEF RobotAnswers, RobotStep, Next

(* A step of the page, the routes, the runner or the clock is a step of    *)
(* the state machine, or none of its: the page confirms a reservation it   *)
(* has, and a source is one the state machine knows.                       *)
LEMMA FrontStepIsNext ==
    ASSUME FrontTypeOK, [FrontNext]_frontVars
    PROVE  [Next]_vars
<1>1. CASE KioskTap \/ FindReservation \/ Receive \/ Connect \/ ConnectionLost
  BY <1>1 DEF KioskTap, FindReservation, Receive, Connect, ConnectionLost
<1>2. ASSUME NEW h \in Handlers, KioskCheckIn(h)
      PROVE  [Next]_vars
  <2>1. selected \in Guests
    BY <1>2 DEF KioskCheckIn, Page!ConfirmTap, FrontTypeOK, Page!PageTypeOK
  <2>2. TryStart(h, selected)
    BY <1>2 DEF KioskCheckIn
  <2> QED
    BY <2>1, <2>2 DEF Next, HandlerStep
<1>3. ASSUME NEW report \in Reports, ReportArrives(report)
      PROVE  [Next]_vars
  BY <1>3 DEF ReportArrives, Next, EntryStep
<1>4. CASE ExternalStartStep
  <2>1. ASSUME NEW source \in Sources, AskAvailable(source) \/ PassGate(source)
                                         \/ PublishStart(source)
        PROVE  UNCHANGED vars
    BY <2>1 DEF AskAvailable, PassGate, PublishStart
  <2>2. ASSUME NEW source \in Sources, Enter(source)
        PROVE  [Next]_vars
    BY <2>2, FrontDoorAssumption DEF Enter, Next, EntryStep
  <2> QED
    BY <1>4, <2>1, <2>2 DEF ExternalStartStep
<1>5. CASE RunnerStep
  BY <1>5, RunnerStepIsNext DEF RunnerStep
<1>6. CASE RequestStep
  BY <1>6 DEF RequestStep, Next, HandlerStep
<1>7. CASE Time
  BY <1>7 DEF Time, Next, EntryStep
<1>8. CASE UNCHANGED frontVars
  BY <1>8 DEF frontVars
<1> QED
  BY <1>1, <1>2, <1>3, <1>4, <1>5, <1>6, <1>7, <1>8 DEF FrontNext

-----------------------------------------------------------------------------
(* Type correctness *)

(* What the server shows is a snapshot the page knows.                     *)
LEMMA ViewIsEvent ==
    ASSUME guest_name \in Guests \cup {None}
    PROVE  View \in Page!Events /\ View.screen \in {"form", "progress", "error"}
BY DEF View, Page!Snapshot, Page!Events

(* Whatever goes through the stream is an event the page knows.            *)
LEMMA FrontStreamTypeStep ==
    ASSUME Page!StreamTypeOK(Page!Events), NEW e \in Page!Events,
           \/ Page!Publish(e) \/ Page!Subscribe \/ Page!SendSnapshot(e)
           \/ Page!Disconnect \/ Page!Arrives(e)
           \/ UNCHANGED streamVars
    PROVE  Page!StreamTypeOK(Page!Events)'
<1> USE DEF Page!StreamTypeOK
<1>1. CASE Page!Publish(e)
  BY <1>1, PublishedLast DEF Page!Publish
<1>2. CASE Page!Subscribe \/ Page!Disconnect \/ UNCHANGED streamVars
  BY <1>2, EmptySeq DEF Page!Subscribe, Page!Disconnect, streamVars
<1>3. CASE Page!SendSnapshot(e)
  BY <1>3, SnapshotFirst DEF Page!SendSnapshot
<1>4. CASE Page!Arrives(e)
  BY <1>4, ArrivedFirst DEF Page!Arrives
<1> QED
  BY <1>1, <1>2, <1>3, <1>4

(* Taps, the answers of a search and events keep the page's types.         *)
LEMMA FrontPageTypeStep ==
    ASSUME Page!PageTypeOK, Page!StreamTypeOK(Page!Events)',
           \/ Page!TapStart \/ Page!TapBackToStart \/ Page!TapBackToSearch
           \/ \E g \in Guests : Page!SearchAnswer({g})
           \/ Page!ConfirmTap
           \/ \E event \in Page!Events : Page!OnMessage(event)
           \/ UNCHANGED pageVars
    PROVE  Page!PageTypeOK'
<1> USE DEF Page!PageTypeOK, Page!ShowStage, Page!ResetFlow, Page!SelectReservation
<1>1. CASE Page!TapStart \/ Page!TapBackToStart \/ Page!TapBackToSearch
  BY <1>1 DEF Page!TapStart, Page!TapBackToStart, Page!TapBackToSearch
<1>2. ASSUME NEW g \in Guests, Page!SearchAnswer({g})
      PROVE  Page!PageTypeOK'
  BY <1>2 DEF Page!SearchAnswer, Page!pageVars
<1>3. CASE Page!ConfirmTap
  BY <1>3 DEF Page!ConfirmTap
<1>4. ASSUME NEW event \in Page!Events, Page!OnMessage(event)
      PROVE  Page!PageTypeOK'
  BY <1>4
  DEF Page!OnMessage, Page!StartCheckinAction, Page!RenderError, Page!RenderProgress,
      Page!RenderForm, Page!Events
<1>5. CASE UNCHANGED pageVars
  BY <1>5 DEF pageVars
<1> QED
  BY <1>1, <1>2, <1>3, <1>4, <1>5

(* The front door begins well typed.                                       *)
LEMMA FrontTypeInit == FrontInit => FrontTypeOK
<1> SUFFICES ASSUME FrontInit PROVE FrontTypeOK
  OBVIOUS
<1>1. TypeOK
  BY TypeInit DEF FrontInit
<1>2. Page!StreamTypeOK(Page!Events)
  BY EmptySeq DEF FrontInit, Page!StreamInit, Page!StreamTypeOK
<1>3. Page!PageTypeOK
  BY <1>2 DEF FrontInit, Page!PageInit, Page!PageTypeOK
<1>4. reports \in [Reports -> 0..MaxReports]
  BY FrontDoorAssumption DEF FrontInit
<1>5. caller \in [Sources -> CallerPCs] /\ gate \in [Sources -> 0..Cooldown]
  BY FrontDoorAssumption DEF FrontInit, CallerPCs
<1> QED
  BY <1>1, <1>3, <1>4, <1>5 DEF FrontTypeOK

(* A report is counted in when it is sent and out when it arrives.         *)
LEMMA ReportsTypeStep ==
    ASSUME FrontTypeOK, NEW report \in Reports,
           \/ Send(report)
           \/ /\ reports[report] > 0
              /\ reports' = [reports EXCEPT ![report] = @ - 1]
    PROVE  reports' \in [Reports -> 0..MaxReports]
BY FrontDoorAssumption DEF FrontTypeOK, Send

(* The request thread and the gate of a source.                            *)
LEMMA StartTypeStep ==
    ASSUME FrontTypeOK, ExternalStartStep \/ Time
    PROVE  /\ caller' \in [Sources -> CallerPCs]
           /\ gate' \in [Sources -> 0..Cooldown]
<1> USE FrontDoorAssumption DEF FrontTypeOK, Move, CallerPCs
<1>1. ASSUME NEW source \in Sources,
             \/ AskAvailable(source) \/ PassGate(source)
             \/ Enter(source) \/ PublishStart(source)
      PROVE  /\ caller' \in [Sources -> CallerPCs]
             /\ gate' \in [Sources -> 0..Cooldown]
  BY <1>1 DEF AskAvailable, PassGate, Enter, PublishStart
<1>2. CASE Time
  BY <1>2 DEF Time
<1> QED
  BY <1>1, <1>2 DEF ExternalStartStep

(* Every step of the page, the routes, the stream and the server keeps the *)
(* types.                                                                  *)
LEMMA FrontTypeStep ==
    ASSUME FrontTypeOK, [FrontNext]_frontVars
    PROVE  FrontTypeOK'
<1>0. TypeOK' /\ TypeOK /\ Page!PageTypeOK /\ Page!StreamTypeOK(Page!Events)
  BY FrontStepIsNext, TypeStep DEF FrontTypeOK, Page!PageTypeOK
<1>v. /\ View \in Page!Events /\ View' \in Page!Events
      /\ Page!OpenSearch \in Page!Events
  BY <1>0, ViewIsEvent DEF TypeOK, View, Page!Snapshot, Page!Events, Page!OpenSearch
(* The stream.                                                             *)
<1>s. Page!StreamTypeOK(Page!Events)'
  <2>1. ASSUME UNCHANGED streamVars
        PROVE  Page!StreamTypeOK(Page!Events)'
    BY <1>0, <1>v, <2>1, FrontStreamTypeStep
  <2>2. ASSUME Announce
        PROVE  Page!StreamTypeOK(Page!Events)'
    BY <1>0, <1>v, <2>2, FrontStreamTypeStep DEF Announce
  <2>3. CASE KioskTap \/ FindReservation \/ Time \/ UNCHANGED frontVars
             \/ \E report \in Reports : ReportArrives(report)
    BY <2>1, <2>3
    DEF KioskTap, FindReservation, Time, ReportArrives, frontVars, pageAll
  <2>4. CASE RunnerStep \/ RequestStep \/ \E h \in Handlers : KioskCheckIn(h)
    BY <2>2, <2>4 DEF RunnerStep, RequestStep, KioskCheckIn
  <2>5. CASE Receive \/ Connect \/ ConnectionLost
    BY <1>0, <1>v, <2>5, FrontStreamTypeStep DEF Receive, Connect, ConnectionLost
  <2>6. CASE ExternalStartStep
    <3>1. \/ Page!Publish(Page!OpenSearch)
          \/ UNCHANGED streamVars
      BY <2>6
      DEF ExternalStartStep, AskAvailable, PassGate, Enter, PublishStart, pageAll
    <3> QED
      BY <1>0, <1>v, <2>1, <3>1, FrontStreamTypeStep
  <2> QED
    BY <2>3, <2>4, <2>5, <2>6 DEF FrontNext
(* The page.                                                               *)
<1>p. Page!PageTypeOK'
  <2>1. \/ Page!TapStart \/ Page!TapBackToStart \/ Page!TapBackToSearch
        \/ \E g \in Guests : Page!SearchAnswer({g})
        \/ Page!ConfirmTap
        \/ \E event \in Page!Events : Page!OnMessage(event)
        \/ UNCHANGED pageVars
    BY DEF FrontNext, KioskTap, FindReservation, KioskCheckIn, ReportArrives, Receive,
           Connect, ConnectionLost, ExternalStartStep, AskAvailable, PassGate, Enter,
           PublishStart, RunnerStep, RequestStep, Time, frontVars, pageAll
  <2> QED
    BY <1>0, <1>s, <2>1, FrontPageTypeStep
(* The reports and the starts.                                             *)
<1>r. reports' \in [Reports -> 0..MaxReports]
  <2>1. \/ \E report \in Reports :
             \/ Send(report)
             \/ /\ reports[report] > 0
                /\ reports' = [reports EXCEPT ![report] = @ - 1]
        \/ UNCHANGED reports
    BY DEF FrontNext, KioskTap, FindReservation, KioskCheckIn, ReportArrives, Receive,
           Connect, ConnectionLost, ExternalStartStep, AskAvailable, PassGate, Enter,
           PublishStart, RunnerStep, RequestStep, Time, frontVars, Reports
  <2> QED
    BY <2>1, ReportsTypeStep DEF FrontTypeOK
<1>c. /\ caller' \in [Sources -> CallerPCs]
      /\ gate' \in [Sources -> 0..Cooldown]
  <2>1. ExternalStartStep \/ Time \/ UNCHANGED startVars
    BY DEF FrontNext, KioskTap, FindReservation, KioskCheckIn, ReportArrives, Receive,
           Connect, ConnectionLost, RunnerStep, RequestStep, frontVars
  <2> QED
    BY <2>1, StartTypeStep DEF FrontTypeOK, startVars
<1> QED
  BY <1>0, <1>p, <1>r, <1>c DEF FrontTypeOK

(* The state machine behind the routes, the page and its stream, the       *)
(* reports in flight and the starts under way keep their types.            *)
THEOREM FrontTypeCorrect == FrontSpec => []FrontTypeOK
BY FrontTypeInit, FrontTypeStep, PTL DEF FrontSpec

(* Whatever the page reports and in whatever order, and whoever calls the  *)
(* start routes: the state machine behind them only does what StateMachine *)
(* says, so every theorem of StateMachineProofs holds behind the front     *)
(* door.                                                                   *)
THEOREM FrontImplementsStateMachine == FrontSpec => Spec
<1>1. FrontInit => Init
  BY DEF FrontInit
<1>2. FrontTypeOK /\ [FrontNext]_frontVars => [Next]_vars
  BY FrontStepIsNext
<1> QED
  BY <1>1, <1>2, FrontTypeCorrect, PTL DEF FrontSpec, Spec

-----------------------------------------------------------------------------
(* The entry of a cycle *)

(* While an entry is a cycle's, the server is past the start step: so no   *)
(* route finds it awaiting a check-in, not even when a reset has landed in *)
(* a running cycle.                                                        *)
CheckinPastStart == entry.stage = "checkin" => step # "awaiting_checkin"

(* No step of the state machine makes an entry a cycle's at the start      *)
(* step, or touches a cycle's entry before the start step comes back.      *)
LEMMA CheckinPastStartStep ==
    ASSUME TypeOK, CheckinPastStart, [Next]_vars
    PROVE  /\ CheckinPastStart'
           /\ entry.stage = "checkin" => entry' = entry \/ AwaitingCheckin'
<1> USE DEF CheckinPastStart
<1>1. CASE UNCHANGED vars
  BY <1>1 DEF vars, cycleVars, entryVars
<1>2. CASE EntryStep
  BY <1>2
  DEF EntryStep, StartExternalEntry, RecordKioskStage, ClearEntry, Tick, SetEntry,
      ExternalStartAvailable, AwaitingCheckin, KioskStages, NoEntry, cycleVars
<1>3. ASSUME NEW h \in Handlers, HandlerStep(h)
      PROVE  /\ CheckinPastStart'
             /\ entry.stage = "checkin" => entry' = entry \/ AwaitingCheckin'
  BY <1>3
  DEF HandlerStep, HandlerFinish, TryStart, BeginCycle, BeginFields, SetEntry, TryReset,
      SkipPending, SkipResume, PutStart, PutResume, PutWork, ApplyReset, ToWaitingStep0,
      AwaitingCheckin, NoEntry, cycleVars, entryVars
<1>4. CASE RunnerLocalStep
  BY <1>4
  DEF RunnerLocalStep, GetWork, ResumeAfterLoadDrink, EnterPollingR2Ready, EnterStep,
      EnterSendingLoadDrink, CheckSkip, EnterPollingR2Active, JudgeR2Active,
      EnterNotifyingPFPlaced, FinishCycle, ToWaitingStep0, Fail, AwaitingCheckin,
      NoEntry, cycleVars, entryVars
<1>5. CASE RobotStep
  BY <1>5
  DEF RobotStep, PollPFReady, PollR2Ready, PollR2Active, SendLoadDrink, NotifyPFPlaced,
      ClientRaises, cycleVars, entryVars
<1> QED
  BY <1>1, <1>2, <1>3, <1>4, <1>5 DEF Next

(* The entry a cycle began with stays until the server awaits a check-in   *)
(* again: no late or doubled report of the page (record_kiosk_stage,       *)
(* clear_entry) and no start that was available a moment ago               *)
(* (start_external_entry) touches it, with resets at any moment.           *)
THEOREM EntryOfCycleKeptCorrect == FrontSpec => EntryOfCycleKept
<1>1. FrontInit => CheckinPastStart
  BY DEF FrontInit, Init, NoEntry, CheckinPastStart
<1>2. ASSUME FrontTypeOK, CheckinPastStart, [FrontNext]_frontVars
      PROVE  /\ CheckinPastStart'
             /\ entry.stage = "checkin" => entry' = entry \/ AwaitingCheckin'
  BY <1>2, FrontStepIsNext, CheckinPastStartStep DEF FrontTypeOK
<1> QED
  BY <1>1, <1>2, FrontTypeCorrect, PTL DEF FrontSpec, EntryOfCycleKept

-----------------------------------------------------------------------------
(* The page shows what the server does *)

(* The last snapshot a connection carries is of the server as it is now,   *)
(* or the page shows that already; until its own first snapshot is read a  *)
(* connection may carry none.                                              *)
FrontFollows ==
    /\ link = "down" => inbox = <<>>
    /\ link = "subscribed" => Silent(inbox) \/ EndsWith(inbox, View.screen)
    /\ link = "open" =>
          \/ EndsWith(inbox, View.screen)
          \/ Silent(inbox) /\ screen = View.screen

(* Before the first connection there is nothing to follow.                 *)
LEMMA FrontFollowsInit == FrontInit => FrontFollows
BY DEF FrontInit, Page!StreamInit, FrontFollows

(* Every publish, connection, break and event taken keeps FrontFollows.    *)
LEMMA FrontFollowsStep ==
    ASSUME FrontTypeOK, FrontTypeOK', FrontFollows, [FrontNext]_frontVars
    PROVE  FrontFollows'
<1> USE DEF FrontFollows
<1>0. /\ inbox \in Seq(Page!Events) /\ link \in {"down", "subscribed", "open"}
      /\ View \in Page!Events /\ View.screen \in {"form", "progress", "error"}
  BY ViewIsEvent DEF FrontTypeOK, TypeOK, Page!PageTypeOK, Page!StreamTypeOK
<1>n. View' \in Page!Events
  BY DEF FrontTypeOK, TypeOK, View, Page!Snapshot, Page!Events
(* Only the phase, the step and the guest show on the page.                *)
<1>v. ASSUME UNCHANGED vars \/ UNCHANGED cycleVars
      PROVE  View' = View
  BY <1>v DEF vars, cycleVars, View, AwaitingCheckin
<1>a. ASSUME Announce, UNCHANGED screen
      PROVE  FrontFollows'
  <2>1. CASE View' = View /\ UNCHANGED streamVars
    BY <1>a, <2>1 DEF streamVars
  <2>2. CASE Page!Publish(View')
    <3>1. CASE link = "down"
      BY <2>2, <3>1 DEF Page!Publish
    <3>2. CASE link # "down"
      <4>1. EndsWith(inbox', View'.screen)
        BY <1>0, <1>n, <2>2, <3>2, PublishedLast DEF Page!Publish
      <4> QED
        BY <1>0, <2>2, <3>2, <4>1 DEF Page!Publish
    <3> QED
      BY <3>1, <3>2
  <2> QED
    BY <1>a, <2>1, <2>2 DEF Announce
<1>1. CASE KioskTap \/ FindReservation \/ UNCHANGED frontVars
  <2>1. UNCHANGED <<vars, link, inbox, screen>>
    BY <1>1
    DEF KioskTap, FindReservation, Page!TapStart, Page!TapBackToStart,
        Page!TapBackToSearch, Page!SearchAnswer, Page!SelectReservation, Page!pageVars,
        frontVars, pageAll, pageVars, streamVars
  <2> QED
    BY <1>v, <2>1
<1>2. CASE Time \/ \E report \in Reports : ReportArrives(report)
  <2>1. UNCHANGED <<link, inbox, screen>> /\ (UNCHANGED vars \/ UNCHANGED cycleVars)
    BY <1>2
    DEF Time, Tick, ReportArrives, RecordKioskStage, ClearEntry, pageAll, pageVars,
        streamVars
  <2> QED
    BY <1>v, <2>1
<1>3. CASE RunnerStep \/ RequestStep \/ \E h \in Handlers : KioskCheckIn(h)
  BY <1>3, <1>a DEF RunnerStep, RequestStep, KioskCheckIn, Page!ConfirmTap, pageVars
<1>4. CASE Receive
  <2>1. PICK event \in Page!Events : Page!Arrives(event) /\ Page!OnMessage(event)
    BY <1>4 DEF Receive
  <2>2. /\ link = "open" /\ link' = "open" /\ View' = View
        /\ inbox # <<>> /\ event = Head(inbox) /\ inbox' = Tail(inbox)
    BY <1>4, <1>v, <2>1 DEF Receive, Page!Arrives
  <2>3. /\ event.screen = "ui_action" => screen' = screen
        /\ event.screen # "ui_action" => screen' = event.screen
    BY <2>1
    DEF Page!OnMessage, Page!StartCheckinAction, Page!RenderError, Page!RenderProgress,
        Page!RenderForm
  <2>4. CASE EndsWith(inbox, View.screen)
    <3>1. \/ EndsWith(inbox', View.screen)
          \/ event.screen = View.screen /\ Silent(inbox')
      BY <1>0, <2>2, <2>4, ArrivedFirst
    <3> QED
      BY <1>0, <2>2, <2>3, <3>1
  <2>5. CASE Silent(inbox) /\ screen = View.screen
    <3>1. event.screen = "ui_action" /\ Silent(inbox')
      BY <1>0, <2>2, <2>5, ArrivedFirst
    <3> QED
      BY <2>2, <2>3, <2>5, <3>1
  <2> QED
    BY <2>2, <2>4, <2>5
<1>5. CASE Connect \/ ConnectionLost
  <2>1. View' = View /\ screen' = screen
    BY <1>5, <1>v DEF Connect, ConnectionLost, pageVars
  <2>2. CASE Page!Subscribe
    BY <2>1, <2>2 DEF Page!Subscribe, Silent
  <2>3. CASE Page!Disconnect
    BY <2>3 DEF Page!Disconnect
  <2>4. CASE Page!SendSnapshot(View)
    <3>1. EndsWith(inbox', View.screen)
      BY <1>0, <2>4, SnapshotFirst DEF Page!SendSnapshot
    <3> QED
      BY <2>1, <2>4, <3>1 DEF Page!SendSnapshot
  <2> QED
    BY <1>5, <2>2, <2>3, <2>4 DEF Connect, ConnectionLost
<1>6. CASE ExternalStartStep
  <2>1. /\ UNCHANGED screen /\ (UNCHANGED vars \/ UNCHANGED cycleVars)
        /\ Page!Publish(Page!OpenSearch) \/ UNCHANGED streamVars
    BY <1>6
    DEF ExternalStartStep, AskAvailable, PassGate, Enter, StartExternalEntry,
        PublishStart, pageAll, pageVars
  <2>2. View' = View
    BY <1>v, <2>1
  <2>3. Page!OpenSearch \in Page!Events /\ Page!OpenSearch.screen = "ui_action"
    BY DEF Page!OpenSearch, Page!Events
  <2>4. CASE UNCHANGED streamVars \/ link = "down"
    BY <2>1, <2>2, <2>4 DEF streamVars, Page!Publish
  <2>5. CASE Page!Publish(Page!OpenSearch) /\ link # "down"
    <3>1. /\ Silent(inbox) => Silent(inbox')
          /\ EndsWith(inbox, View.screen) => EndsWith(inbox', View.screen)
      BY <1>0, <2>3, <2>5, PublishedLast DEF Page!Publish
    <3> QED
      BY <2>1, <2>2, <2>5, <3>1 DEF Page!Publish
  <2> QED
    BY <2>1, <2>4, <2>5
<1> QED
  BY <1>1, <1>2, <1>3, <1>4, <1>5, <1>6 DEF FrontNext

(* Every change of the state machine that shows reaches a connected page,  *)
(* and in its order, whatever else is published in between: a page that    *)
(* has taken every event shows what the server does.                       *)
THEOREM PageShowsServerCorrect == FrontSpec => []PageShowsServer
<1>1. FrontFollows => PageShowsServer
  BY DEF FrontFollows, PageShowsServer, EndsWith
<1>2. FrontTypeOK /\ FrontFollows /\ [FrontNext]_frontVars => FrontFollows'
  BY FrontTypeStep, FrontFollowsStep
<1> QED
  BY <1>1, <1>2, FrontTypeCorrect, FrontFollowsInit, PTL DEF FrontSpec
=============================================================================
