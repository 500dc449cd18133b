----------------------------- MODULE FrontDoor -----------------------------
(***************************************************************************)
(* How a check-in is begun: the kiosk page (Kiosk) with its reports to     *)
(* POST and DELETE /api/entry, the camera's and the voice's POST           *)
(* /api/visual/start and /api/voice/start (src/app/routes/                 *)
(* external_start.py, src/app/visual_trigger.py), the state machine that   *)
(* records the entry (StateMachine) and the event stream back to the page. *)
(*                                                                         *)
(* The page's reports are fetches nobody waits for: they overtake each     *)
(* other and get lost.  Searches and confirmations are answered at once    *)
(* here (KioskCheckin has their delays), and the robots answer well at     *)
(* once or not at all (StateMachine has their other answers).              *)
(***************************************************************************)
EXTENDS StateMachine

CONSTANTS Sources,      \* who may call: the camera's process, the voice's
          Cooldown,     \* VISUAL_START_COOLDOWN_SECONDS, in ticks
          MaxReports,   \* reports of the page in flight at once
          MaxInbox

ASSUME FrontDoorAssumption ==
    /\ Sources \subseteq ExternalSources
    /\ Cooldown \in Nat \ {0}
    /\ MaxReports \in Nat \ {0}
    /\ MaxInbox \in Nat \ {0}

VARIABLES
    stage, screen, last, selected, detail, found, my_guest, label,
    confirm_error, link, inbox,   \* the page and its stream, as in Kiosk
    reports,   \* how many of each report are in flight
    caller,    \* per source, where its request thread is
    gate       \* per source, ticks since the gate last accepted (to Cooldown)

Page == INSTANCE Kiosk

pageVars   == <<stage, screen, last, selected, detail, found, my_guest, label,
                confirm_error>>
streamVars == <<link, inbox>>
pageAll    == <<pageVars, streamVars>>
startVars  == <<caller, gate>>
frontVars  == <<vars, pageAll, reports, startVars>>

Reports   == {"start", "select", "clear"}
CallerPCs == {"idle", "gate", "enter", "publish"}

FrontTypeOK ==
    /\ TypeOK
    /\ Page!PageTypeOK
    /\ reports \in [Reports -> 0..MaxReports]
    /\ caller \in [Sources -> CallerPCs]
    /\ gate \in [Sources -> 0..Cooldown]

FrontInit ==
    /\ Init
    /\ Page!PageInit /\ Page!StreamInit
    /\ reports = [r \in Reports |-> 0]
    /\ caller = [s \in Sources |-> "idle"]
    /\ gate = [s \in Sources |-> Cooldown]

View ==
    Page!Snapshot(CASE phase = "error" -> "error"
                    [] phase # "error" /\ step = "awaiting_checkin" -> "form"
                    [] OTHER -> "progress",
                  IF step = "awaiting_checkin" THEN "awaiting" ELSE "busy",
                  guest_name)

(* Mutant: an error is stored and not published.                           *)
Announce_NoErrors ==
    IF View' = View \/ phase' = "error"
    THEN UNCHANGED streamVars ELSE Page!Publish(View')

(* on_change.  A snapshot that looks the same to the page changes nothing  *)
(* on it (KioskCheckin's SameAgain) and is left out.                       *)
Announce ==
    IF View' = View THEN UNCHANGED streamVars ELSE Page!Publish(View')

-----------------------------------------------------------------------------
(* The kiosk *)

Send(report) ==
    /\ reports[report] < MaxReports
    /\ reports' = [reports EXCEPT ![report] = @ + 1]

KioskTap ==
    /\ \/ Page!TapStart /\ Send("start")
       \/ Page!TapBackToSearch /\ Send("start")
       \/ Page!TapBackToStart /\ Send("clear")
    /\ UNCHANGED <<vars, streamVars, startVars>>

FindReservation ==
    /\ screen = "form" /\ stage = "search"
    /\ \E g \in Guests : Page!SearchAnswer({g})
    /\ Send("select")
    /\ UNCHANGED <<vars, streamVars, startVars>>

KioskCheckIn(h) ==
    /\ Page!ConfirmTap
    /\ TryStart(h, selected)
    /\ Announce
    /\ UNCHANGED <<reports, startVars>>

(* Mutant: the stage of a report is not looked at.                         *)
ReportArrives_AnyStage(report) ==
    /\ reports[report] > 0
    /\ reports' = [reports EXCEPT ![report] = @ - 1]
    /\ RecordKioskStage(report) \/ UNCHANGED vars
    /\ UNCHANGED <<pageAll, startVars>>

(* A report arrives, in any order; in a cycle it is refused.               *)
ReportArrives(report) ==
    /\ reports[report] > 0
    /\ reports' = [reports EXCEPT ![report] = @ - 1]
    /\ \/ report \in KioskStages /\ RecordKioskStage(report)
       \/ report = "clear" /\ ClearEntry
       \/ UNCHANGED vars   \* refused, nothing to clear, or lost on the way
    /\ UNCHANGED <<pageAll, startVars>>

Receive ==
    /\ \E event \in Page!Events : Page!Arrives(event) /\ Page!OnMessage(event)
    /\ UNCHANGED <<vars, reports, startVars>>

Connect ==
    /\ Page!Subscribe \/ Page!SendSnapshot(View)
    /\ UNCHANGED <<vars, pageVars, reports, startVars>>

ConnectionLost ==
    /\ Page!Disconnect
    /\ UNCHANGED <<vars, pageVars, reports, startVars>>

-----------------------------------------------------------------------------
(* POST /api/visual/start, POST /api/voice/start *)

At(source, pc)   == caller[source] = pc
Move(source, pc) == caller' = [caller EXCEPT ![source] = pc]

(* The first look at the state machine; refused is 409.                    *)
AskAvailable(source) ==
    /\ At(source, "idle")
    /\ ExternalStartAvailable
    /\ Move(source, "gate")
    /\ UNCHANGED <<vars, pageAll, reports, gate>>

(* VisualStartGate.accept; refused is 429.  It counts from the last start  *)
(* it let through, whether or not that one was taken after it.             *)
PassGate(source) ==
    /\ At(source, "gate")
    /\ \/ /\ gate[source] < Cooldown
          /\ Move(source, "idle") /\ UNCHANGED gate
       \/ /\ gate[source] = Cooldown
          /\ Move(source, "enter") /\ gate' = [gate EXCEPT ![source] = 0]
    /\ UNCHANGED <<vars, pageAll, reports>>

(* Mutant: the first look is trusted.                                      *)
Enter_Trusting(source) ==
    /\ At(source, "enter")
    /\ SetEntry(source, "start")
    /\ Move(source, "publish")
    /\ UNCHANGED <<cycleVars, queue, handler, runner, localVars, reset_in_cycle,
                   pageAll, reports, gate>>

(* start_external_entry looks again; refused is 409.                       *)
Enter(source) ==
    /\ At(source, "enter")
    /\ \/ StartExternalEntry(source) /\ Move(source, "publish")
       \/ ~ExternalStartAvailable /\ Move(source, "idle") /\ UNCHANGED vars
    /\ UNCHANGED <<pageAll, reports, gate>>

(* Mutant: the start is recorded and the page is not told.                 *)
PublishStart_Silent(source) ==
    /\ At(source, "publish")
    /\ Move(source, "idle")
    /\ UNCHANGED <<vars, pageAll, reports, gate>>

(* The ui_action goes out after the locks are released; then 202.          *)
PublishStart(source) ==
    /\ At(source, "publish")
    /\ Page!Publish(Page!OpenSearch)
    /\ Move(source, "idle")
    /\ UNCHANGED <<vars, pageVars, reports, gate>>

ExternalStartStep ==
    \E source \in Sources :
        AskAvailable(source) \/ PassGate(source) \/ Enter(source) \/ PublishStart(source)

-----------------------------------------------------------------------------
(* The server's cycle and the clock *)

RobotAnswers ==
    \/ \E r \in PFStatusReplies :
          PollPFReady(r) /\ GetGuideRobotStatus(r) = "ready"
    \/ \E r \in R2StatusReplies :
          (PollR2Ready(r) \/ PollR2Active(r)) /\ GetStatus(r) = [outcome |-> "completed",
                                                                request_id |-> rid]
    \/ \E r \in R2PostReplies   : SendLoadDrink(r) /\ PostLoadDrink(r) = "accepted"
    \/ \E r \in PFPlacedReplies : NotifyPFPlaced(r) /\ PostDrinkPlaced(r)
    \/ ClientRaises

RunnerStep ==
    /\ RunnerLocalStep \/ RobotAnswers
    /\ Announce
    /\ UNCHANGED <<pageVars, reports, startVars>>

(* Resets, and check-ins of another browser.                               *)
RequestStep ==
    /\ \E h \in Handlers :
          \/ \E g \in Guests : TryStart(h, g)
          \/ TryReset(h) \/ HandlerFinish(h)
    /\ Announce
    /\ UNCHANGED <<pageVars, reports, startVars>>

Time ==
    /\ Tick \/ (~(EntryInProgress /\ entry_age < EntryIdle) /\ UNCHANGED vars)
    /\ gate' = [s \in Sources |-> IF gate[s] < Cooldown THEN gate[s] + 1
                                                            ELSE Cooldown]
    /\ UNCHANGED <<pageAll, reports, caller>>

FrontNext ==
    \/ KioskTap \/ FindReservation
    \/ \E h \in Handlers : KioskCheckIn(h)
    \/ \E report \in Reports : ReportArrives(report)
    \/ Receive \/ Connect \/ ConnectionLost
    \/ ExternalStartStep
    \/ RunnerStep \/ RequestStep \/ Time

FrontSpec == FrontInit /\ [][FrontNext]_frontVars

(* The browser takes its events and Flask finishes what it has begun.      *)
FrontFairSpec ==
    /\ FrontSpec
    /\ WF_frontVars(Receive) /\ WF_frontVars(Connect)
    /\ \A source \in Sources :
          WF_frontVars(Enter(source)) /\ WF_frontVars(PublishStart(source))

-----------------------------------------------------------------------------
(* Properties *)

(* The entry a cycle began with is the cycle's until it is over: no late   *)
(* report of the page and no start that was available a moment ago touches *)
(* it (record_kiosk_stage, clear_entry, start_external_entry).             *)
EntryOfCycleKept ==
    [][entry.stage = "checkin" => entry' = entry \/ AwaitingCheckin']_frontVars

(* A start that was taken opens the search on a page that waits at its     *)
(* start stage, unless the connection breaks or a cycle begins first.      *)
StartReachesKiosk ==
    \A s \in Sources :
        caller[s] = "publish" ~> (stage # "start" \/ screen # "form" \/ link # "open")

(* A page that has taken every event shows what the server does: each      *)
(* change of the state machine is published, and in its order.             *)
PageShowsServer ==
    link = "open" /\ inbox = <<>> => screen = View.screen

(* docs/superpowers/specs/2026-09-29-checkin-entry-design.md: whichever    *)
(* the entry, "the result is the same and the kiosk changes to the search  *)
(* screen".  So a start taken over an abandoned entry finds the page where *)
(* it can open the search: at its start stage or at the search already.    *)
TakenStartOpensSearch ==
    [][\A s \in Sources :
          /\ caller[s] = "enter" /\ caller'[s] = "publish"
          /\ entry.stage = "select" /\ reports = [r \in Reports |-> 0]
          => stage \in {"start", "search"}]_frontVars
=============================================================================
