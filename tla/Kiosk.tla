------------------------------- MODULE Kiosk -------------------------------
(***************************************************************************)
(* src/app/static/app.js: the page a guest checks in on.  An action is one *)
(* run of a JavaScript callback: a tap, an event of /api/events, or the    *)
(* answer of a fetch.  The page remembers nothing of which search or which *)
(* confirmation an answer belongs to.                                      *)
(*                                                                         *)
(* A reservation is its guest's name.  The texts of the progress steps and *)
(* of the search errors are left out.                                      *)
(***************************************************************************)
EXTENDS FiniteSets, EventStream

CONSTANTS Guests, None

ASSUME KioskAssumption == None \notin Guests

VARIABLES
    stage,          \* the visible one of the form's four stages
    screen,         \* which of form-view, progress-view, error-view is shown
    last,           \* lastStep: "none", "awaiting" (awaiting_checkin) or "busy"
    selected,       \* selectedReservation
    detail,         \* whose reservation the confirm stage shows
    found,          \* the buttons of the candidate list
    my_guest,       \* sessionStorage's myGuestName
    label,          \* the progress text names the guest's own cycle or another's
    confirm_error   \* the text under the confirm button

pageVars == <<stage, screen, last, selected, detail, found, my_guest, label,
              confirm_error>>

(* What the page makes of a snapshot: the view its phase and step choose,  *)
(* and whether its step is awaiting_checkin, which lastStep keeps.  And    *)
(* the other event it knows.                                               *)
Snapshot(s, at, g) == [screen |-> s, step |-> at, guest |-> g]
OpenSearch         == [screen |-> "ui_action", step |-> "none", guest |-> None]
Events == [screen : {"form", "progress", "error", "ui_action"},
           step   : {"none", "awaiting", "busy"},
           guest  : Guests \cup {None}]

PageTypeOK ==
    /\ stage \in {"start", "search", "select", "confirm"}
    /\ screen \in {"form", "progress", "error"}
    /\ last \in {"none", "awaiting", "busy"}
    /\ selected \in Guests \cup {None} /\ detail \in Guests \cup {None}
    /\ found \subseteq Guests
    /\ my_guest \in Guests \cup {None}
    /\ label \in {"own", "other"}
    /\ confirm_error \in {"none", "busy", "failed"}
    /\ StreamTypeOK(Events)

(* index.html before the first event.                                      *)
PageInit ==
    /\ stage = "start" /\ screen = "form" /\ last = "none"
    /\ selected = None /\ detail = None /\ found = {}
    /\ my_guest = None /\ label = "other" /\ confirm_error = "none"

ShowStage(s) == stage' = s /\ confirm_error' = "none"

ResetFlow ==
    /\ selected' = None
    /\ found' = {} /\ detail' = None
    /\ ShowStage("start")

-----------------------------------------------------------------------------
(* Taps *)

TapStart ==
    /\ screen = "form" /\ stage = "start"
    /\ ShowStage("search")
    /\ UNCHANGED <<screen, last, selected, detail, found, my_guest, label>>

(* Mutant: the detail is rendered once and not again.                      *)
SelectReservation_StaleDetail(g) ==
    /\ selected' = g
    /\ ShowStage("confirm")
    /\ detail' = IF detail = None THEN g ELSE detail
    /\ UNCHANGED <<screen, last, found, my_guest, label>>

SelectReservation(g) ==
    /\ selected' = g /\ detail' = g
    /\ ShowStage("confirm")
    /\ UNCHANGED <<screen, last, found, my_guest, label>>

TapCandidate(g) ==
    /\ screen = "form" /\ stage = "select"
    /\ g \in found
    /\ SelectReservation(g)

TapBackToStart ==
    /\ screen = "form" /\ stage = "search"
    /\ ResetFlow
    /\ UNCHANGED <<screen, last, my_guest, label>>

TapBackToSearch ==
    /\ screen = "form" /\ stage \in {"select", "confirm"}
    /\ ShowStage("search")
    /\ UNCHANGED <<screen, last, selected, detail, found, my_guest, label>>

(* Mutant: the first match is taken without looking whether there is one.  *)
SearchAnswer_First(matches) ==
    \/ matches = {} /\ selected' = "undefined" /\ detail' = "undefined"
       /\ ShowStage("confirm")
       /\ UNCHANGED <<screen, last, found, my_guest, label>>
    \/ \E g \in matches : SelectReservation(g)

(* The answer of a search, whatever the page shows by then.                *)
SearchAnswer(matches) ==
    \/ matches = {} /\ UNCHANGED pageVars
    \/ \E g \in Guests : matches = {g} /\ SelectReservation(g)
    \/ /\ Cardinality(matches) > 1
       /\ found' = matches
       /\ ShowStage("select")
       /\ UNCHANGED <<screen, last, selected, detail, my_guest, label>>

ConfirmTap ==
    /\ screen = "form" /\ stage = "confirm"
    /\ selected # None
    /\ confirm_error' = "none"
    /\ UNCHANGED <<stage, screen, last, selected, detail, found, my_guest, label>>

(* POST /api/checkin answers; the reservation the answer is about is read  *)
(* again from selectedReservation, and null raises into catch.             *)
ConfirmAnswer(outcome) ==
    /\ \/ /\ outcome = "accepted" /\ selected # None
          /\ my_guest' = selected /\ UNCHANGED confirm_error
       \/ /\ outcome = "accepted" /\ selected = None
          /\ confirm_error' = "failed" /\ UNCHANGED my_guest
       \/ outcome = "refused" /\ confirm_error' = "busy" /\ UNCHANGED my_guest
       \/ outcome = "lost" /\ confirm_error' = "failed" /\ UNCHANGED my_guest
    /\ UNCHANGED <<stage, screen, last, selected, detail, found, label>>

-----------------------------------------------------------------------------
(* Events *)

(* An error keeps its step: awaiting_checkin, where a reset came between.  *)
RenderError(at) ==
    /\ screen' = "error" /\ last' = at
    /\ UNCHANGED <<stage, selected, detail, found, my_guest, label, confirm_error>>

RenderProgress(g) ==
    /\ screen' = "progress" /\ last' = "busy"
    /\ label' = IF g = my_guest THEN "own" ELSE "other"
    /\ UNCHANGED <<stage, selected, detail, found, my_guest, confirm_error>>

(* Mutant: only an error, not a finished cycle, resets the form.           *)
RenderForm_AfterError ==
    /\ screen' = "form" /\ last' = "awaiting"
    /\ \/ screen = "error" /\ ResetFlow
       \/ screen # "error" /\ UNCHANGED <<stage, selected, detail, found, confirm_error>>
    /\ UNCHANGED <<my_guest, label>>

RenderForm ==
    /\ screen' = "form" /\ last' = "awaiting"
    /\ \/ last # "awaiting" /\ ResetFlow
       \/ last = "awaiting" /\ UNCHANGED <<stage, selected, detail, found, confirm_error>>
    /\ UNCHANGED <<my_guest, label>>

(* ui_action start_checkin: only the start stage is left.                  *)
StartCheckinAction ==
    /\ \/ stage = "start" /\ ShowStage("search")
       \/ stage # "start" /\ UNCHANGED <<stage, confirm_error>>
    /\ UNCHANGED <<screen, last, selected, detail, found, my_guest, label>>

OnMessage(event) ==
    \/ event.screen = "ui_action" /\ StartCheckinAction
    \/ event.screen = "error" /\ RenderError(event.step)
    \/ event.screen = "progress" /\ RenderProgress(event.guest)
    \/ event.screen = "form" /\ RenderForm
=============================================================================
