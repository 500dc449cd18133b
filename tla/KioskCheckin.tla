---------------------------- MODULE KioskCheckin ----------------------------
(***************************************************************************)
(* The kiosk page (Kiosk) at work: guests search, choose and confirm on it *)
(* while another browser checks in too, and it hears of the server through *)
(* the event stream (EventStream).  Of the server only what DrinkService   *)
(* promises matters here; StateMachine is shown to implement it.           *)
(*                                                                         *)
(* Searches and confirmations are in flight for as long as they like;      *)
(* their answers may be lost.  The button of a confirmation in flight is   *)
(* disabled, the one that goes back is not.                                *)
(***************************************************************************)
EXTENDS Kiosk, Reservations

CONSTANT MaxSearches   \* searches in flight at once

ASSUME MaxSearchesAssumption == MaxSearches \in Nat \ {0}

(* A reservation is known by its guest: two of one name are one guest to   *)
(* the page, which compares names.                                         *)
ASSUME RecordAssumption == DOMAIN Record = Guests

VARIABLES
    service, guest,   \* the server, as in DrinkService
    searches,         \* POST /api/reservations/search in flight
    confirm,          \* POST /api/checkin in flight: where it is, and for whom
    \* history
    owner,            \* who began the server's cycle: "other", the "page", or
                      \* the "told" page, which has had the answer; or "nobody"
    due               \* the form holds something since a cycle ended, and the
                      \* connection that was open at that end still is

serverVars == <<service, guest>>
fetchVars  == <<searches, confirm>>
history    == <<owner, due>>
kioskVars  == <<pageVars, streamVars, serverVars, fetchVars, history>>

Server == INSTANCE DrinkService

NoConfirm == [state |-> "none", res |-> None]

KioskTypeOK ==
    /\ PageTypeOK
    /\ service \in {"idle", "serving", "served", "failed"}
    /\ guest \in Guests \cup {None}
    /\ searches \in 0..MaxSearches
    /\ confirm \in [state : {"none", "sent", "accepted", "refused", "lost"},
                    res   : Guests \cup {None}]
    /\ owner \in {"nobody", "other", "page", "told"}
    /\ due \in BOOLEAN

KioskInit ==
    /\ PageInit /\ StreamInit /\ Server!Init
    /\ searches = 0 /\ confirm = NoConfirm
    /\ owner = "nobody" /\ due = FALSE

Answers == {Matches(query) : query \in Queries}

ScreenOf(s) == CASE s = "idle" -> "form" [] s = "failed" -> "error"
                 [] OTHER -> "progress"

View == Snapshot(ScreenOf(service), IF service = "idle" THEN "awaiting" ELSE "busy",
                 guest)

(* A form at its start, with nobody's reservation on it.                   *)
Blank == stage = "start" /\ selected = None /\ found = {}

(* A tap or an event may clear what the form has held since.               *)
Forget == due' = (due /\ ~Blank')

-----------------------------------------------------------------------------
(* The page *)

Tap ==
    /\ \/ TapStart \/ TapBackToStart \/ TapBackToSearch
       \/ \E g \in Guests : TapCandidate(g)
    /\ Forget
    /\ UNCHANGED <<streamVars, serverVars, fetchVars, owner>>

Search ==
    /\ screen = "form" /\ stage = "search"
    /\ searches < MaxSearches
    /\ searches' = searches + 1
    /\ UNCHANGED <<pageVars, streamVars, serverVars, confirm, history>>

SearchDone ==
    /\ searches > 0
    /\ searches' = searches - 1
    /\ \E matches \in Answers : SearchAnswer(matches)
    /\ UNCHANGED <<streamVars, serverVars, confirm, history>>

Confirm ==
    /\ confirm.state = "none"
    /\ ConfirmTap
    /\ confirm' = [state |-> "sent", res |-> selected]
    /\ UNCHANGED <<streamVars, serverVars, searches, history>>

ConfirmDone ==
    /\ confirm.state \in {"accepted", "refused", "lost"}
    /\ ConfirmAnswer(confirm.state)
    /\ confirm' = NoConfirm
    /\ owner' = IF owner = "page" /\ confirm.state = "accepted" THEN "told" ELSE owner
    /\ UNCHANGED <<streamVars, serverVars, searches, due>>

Receive ==
    /\ \E event \in Events : Arrives(event) /\ OnMessage(event)
    /\ Forget
    /\ UNCHANGED <<serverVars, fetchVars, owner>>

Connect ==
    /\ Subscribe \/ SendSnapshot(View)
    /\ UNCHANGED <<pageVars, serverVars, fetchVars, history>>

ConnectionLost ==
    /\ Disconnect
    /\ due' = FALSE
    /\ UNCHANGED <<pageVars, serverVars, fetchVars, owner>>

-----------------------------------------------------------------------------
(* The server *)

Announce == Publish(View')

(* The check-in the page sent is taken, refused or lost on the way; the    *)
(* answer of a taken or a refused one may be lost too.                     *)
HandleConfirm ==
    /\ confirm.state = "sent"
    /\ \/ /\ Server!CheckIn /\ guest' = confirm.res
          /\ Announce
          /\ \E s \in {"accepted", "lost"} : confirm' = [confirm EXCEPT !.state = s]
          /\ owner' = "page"
       \/ /\ service # "idle"
          /\ \E s \in {"refused", "lost"} : confirm' = [confirm EXCEPT !.state = s]
          /\ UNCHANGED <<streamVars, serverVars, owner>>
       \/ /\ confirm' = [confirm EXCEPT !.state = "lost"]
          /\ UNCHANGED <<streamVars, serverVars, owner>>
    /\ UNCHANGED <<pageVars, searches, due>>

OtherCheckIn ==
    /\ Server!CheckIn
    /\ Announce
    /\ owner' = "other"
    /\ UNCHANGED <<pageVars, fetchVars, due>>

(* The end of a cycle, its failure and what an operator does about it.     *)
ServerStep ==
    /\ \/ Server!Finish \/ Server!Break \/ Server!Resume \/ Server!Reset
    /\ Announce
    /\ IF service' = "idle"
       THEN owner' = "nobody" /\ due' = (link = "open" /\ ~Blank)
       ELSE UNCHANGED history
    /\ UNCHANGED <<pageVars, fetchVars>>

(* PF took drink/placed: nothing is published.                             *)
Placed ==
    /\ Server!Place
    /\ UNCHANGED <<pageVars, streamVars, fetchVars, history>>

(* A snapshot that differs only in what the page does not show: the next   *)
(* step of the cycle, a robot's status, a recorded entry.                  *)
SameAgain ==
    /\ service # "failed"
    /\ UNCHANGED <<pageVars, serverVars, fetchVars, history>>
    /\ Announce

(* A camera or a voice start was accepted.                                 *)
ExternalStart ==
    /\ service = "idle"
    /\ Publish(OpenSearch)
    /\ UNCHANGED <<pageVars, serverVars, fetchVars, history>>

KioskNext ==
    \/ Tap \/ Search \/ SearchDone \/ Confirm \/ ConfirmDone \/ Receive
    \/ Connect \/ ConnectionLost
    \/ HandleConfirm \/ OtherCheckIn \/ ServerStep \/ Placed \/ SameAgain
    \/ ExternalStart

KioskSpec == KioskInit /\ [][KioskNext]_kioskVars

(* The browser runs its callbacks and connects again, Flask serves the     *)
(* connection.                                                             *)
KioskFairSpec ==
    /\ KioskSpec
    /\ WF_kioskVars(Receive)
    /\ WF_kioskVars(Connect)

-----------------------------------------------------------------------------
(* Properties *)

(* A page that has taken every event shows what the server is doing: no    *)
(* snapshot is lost between subscribe() and the first snapshot(), and what *)
(* was queued behind a newer snapshot is overtaken again (events.py).      *)
PageCurrent ==
    link = "open" /\ inbox = <<>> => screen = ScreenOf(service)

(* What a guest confirms is what the guest reads: the confirm stage shows  *)
(* the reservation that POST /api/checkin would carry, whichever late      *)
(* answer, tap or event came before (selectReservation, resetFlow).        *)
ConfirmsWhatIsShown ==
    /\ detail = selected
    /\ stage = "confirm" => selected # None

(* Whichever query is on its way, it finds by a guest's full name that     *)
(* guest and nobody unrelated (Reservations, search_reservations).         *)
SearchFindsItsOwn == searches > 0 => FullNameFindsItsOwn

(* A page whose connection was open when a cycle ended and has held since  *)
(* forgets, by the time it has taken every event, the stage, the           *)
(* reservation and the candidates that were on its form at that end:       *)
(* whatever it had rendered by then and whatever was queued, some snapshot *)
(* it takes tells it of the cycle before another tells it of the idle      *)
(* server (render, resetFlow).  A page that was away at the end is not     *)
(* promised anything: one that saw nothing of the cycle keeps its form.    *)
NextGuestFresh == inbox = <<>> => ~due

(* An error that stays is shown, however often the connection breaks       *)
(* before, once it holds (EventSource, stream_events).                     *)
ErrorShown ==
    <>[](link # "down" /\ service = "failed") => <>[](screen = "error")

(* docs/superpowers/specs/2026-09-13-venue-ui-design.md: the page stores   *)
(* the name it checked in as myGuestName, and tells by it whether a cycle  *)
(* is the guest's own.  So once the page has the answer of its check-in,   *)
(* the stored name is the name of the cycle.                               *)
OwnNameSaved == owner = "told" => my_guest = guest
=============================================================================
