----------------------------- MODULE KioskProofs -----------------------------
(***************************************************************************)
(* What TLAPS proves of KioskCheckin for every set of guests, every        *)
(* directory and every length of the event queue: the page shows what the  *)
(* server does, confirms what it shows, and forgets a guest whose cycle's  *)
(* end it was connected to.                                                *)
(***************************************************************************)
EXTENDS KioskCheckin, EventOrder, FiniteSetTheorems, WellFoundedInduction

-----------------------------------------------------------------------------
(* Type correctness *)

(* An answer of a search names guests of the directory.                    *)
LEMMA AnswersAreGuests ==
    ASSUME NEW matches \in Answers
    PROVE  matches \subseteq Guests
BY RecordAssumption DEF Answers, Matches

(* The page begins well typed.                                             *)
LEMMA KioskTypeInit == KioskInit => KioskTypeOK
<1> SUFFICES ASSUME KioskInit PROVE KioskTypeOK
  OBVIOUS
<1>1. StreamTypeOK(Events)
  BY DEF KioskInit, StreamInit, StreamTypeOK
<1>2. PageTypeOK
  BY <1>1 DEF KioskInit, PageInit, PageTypeOK
<1>3. searches \in 0..MaxSearches
  BY MaxSearchesAssumption DEF KioskInit
<1> QED
  BY <1>2, <1>3 DEF KioskInit, KioskTypeOK, Server!Init, NoConfirm

(* Taps, answers and events keep the page's types.                         *)
LEMMA PageTypeStep ==
    ASSUME PageTypeOK, StreamTypeOK(Events)',
           \/ Tap
           \/ \E matches \in Answers : SearchAnswer(matches)
           \/ ConfirmTap
           \/ \E outcome \in {"accepted", "refused", "lost"} : ConfirmAnswer(outcome)
           \/ \E event \in Events : OnMessage(event)
    PROVE  PageTypeOK'
<1> USE DEF PageTypeOK, ShowStage, ResetFlow, SelectReservation
<1>1. CASE Tap
  BY <1>1 DEF Tap, TapStart, TapBackToStart, TapBackToSearch, TapCandidate
<1>2. ASSUME NEW matches \in Answers, SearchAnswer(matches)
      PROVE  PageTypeOK'
  BY <1>2, AnswersAreGuests DEF SearchAnswer, pageVars
<1>3. CASE ConfirmTap
  BY <1>3 DEF ConfirmTap
<1>4. ASSUME NEW outcome \in {"accepted", "refused", "lost"}, ConfirmAnswer(outcome)
      PROVE  PageTypeOK'
  BY <1>4 DEF ConfirmAnswer
<1>5. ASSUME NEW event \in Events, OnMessage(event)
      PROVE  PageTypeOK'
  BY <1>5 DEF OnMessage, StartCheckinAction, RenderError, RenderProgress, RenderForm, Events
<1> QED
  BY <1>1, <1>2, <1>3, <1>4, <1>5

(* Whatever goes through the stream is an event the page knows.            *)
LEMMA StreamTypeStep ==
    ASSUME StreamTypeOK(Events), NEW e \in Events,
           \/ Publish(e) \/ Subscribe \/ SendSnapshot(e) \/ Disconnect \/ Arrives(e)
           \/ UNCHANGED streamVars
    PROVE  StreamTypeOK(Events)'
<1> USE DEF StreamTypeOK
<1>1. CASE Publish(e)
  BY <1>1, PublishedLast DEF Publish
<1>2. CASE Subscribe \/ Disconnect \/ UNCHANGED streamVars
  BY <1>2, EmptySeq DEF Subscribe, Disconnect, streamVars
<1>3. CASE SendSnapshot(e)
  BY <1>3, SnapshotFirst DEF SendSnapshot
<1>4. CASE Arrives(e)
  BY <1>4, ArrivedFirst DEF Arrives
<1> QED
  BY <1>1, <1>2, <1>3, <1>4

(* A snapshot of the server is an event a connection may carry.            *)
LEMMA SnapshotIsEvent ==
    ASSUME NEW s \in {"idle", "serving", "served", "failed"}, NEW g \in Guests \cup {None}
    PROVE  LET seen == Snapshot(ScreenOf(s), IF s = "idle" THEN "awaiting" ELSE "busy", g)
           IN  /\ seen \in Events /\ seen.screen = ScreenOf(s)
               /\ seen.screen \in {"form", "progress", "error"}
               /\ seen.screen = "error" => seen.step = "busy"
BY DEF Snapshot, ScreenOf, Events

(* Every step of the page, the stream and the server keeps the types.      *)
LEMMA KioskTypeStep ==
    ASSUME KioskTypeOK, [KioskNext]_kioskVars
    PROVE  KioskTypeOK'
<1> USE DEF KioskTypeOK
<1>s. PageTypeOK /\ UNCHANGED pageVars /\ StreamTypeOK(Events)' => PageTypeOK'
  BY DEF PageTypeOK, pageVars
<1>0. PageTypeOK /\ StreamTypeOK(Events)
  BY DEF PageTypeOK
<1>1. CASE Tap
  <2>1. StreamTypeOK(Events)'
    BY <1>0, <1>1 DEF Tap, StreamTypeOK, streamVars
  <2> QED
    BY <1>1, <2>1, PageTypeStep DEF Tap, serverVars, fetchVars, Forget
<1>2. CASE Search
  <2>1. StreamTypeOK(Events)'
    BY <1>0, <1>2 DEF Search, StreamTypeOK, streamVars
  <2>2. searches' \in 0..MaxSearches
    BY <1>2, MaxSearchesAssumption DEF Search
  <2> QED
    BY <1>s, <1>2, <2>1, <2>2 DEF Search, serverVars, history
<1>3. CASE SearchDone
  <2>1. StreamTypeOK(Events)'
    BY <1>0, <1>3 DEF SearchDone, StreamTypeOK, streamVars
  <2>2. searches' \in 0..MaxSearches
    BY <1>3, MaxSearchesAssumption DEF SearchDone
  <2> QED
    BY <1>3, <2>1, <2>2, PageTypeStep DEF SearchDone, serverVars, history
<1>4. CASE Confirm
  <2>1. StreamTypeOK(Events)'
    BY <1>0, <1>4 DEF Confirm, StreamTypeOK, streamVars
  <2>2. confirm' \in [state : {"none", "sent", "accepted", "refused", "lost"},
                      res   : Guests \cup {None}]
    BY <1>4 DEF Confirm, PageTypeOK
  <2> QED
    BY <1>4, <2>1, <2>2, PageTypeStep DEF Confirm, serverVars, history
<1>5. CASE ConfirmDone
  <2>1. StreamTypeOK(Events)'
    BY <1>0, <1>5 DEF ConfirmDone, StreamTypeOK, streamVars
  <2>2. PageTypeOK'
    BY <1>5, <2>1, PageTypeStep DEF ConfirmDone
  <2> QED
    BY <1>5, <2>2 DEF ConfirmDone, serverVars, NoConfirm
<1>6. CASE Receive
  <2>1. PICK event \in Events : Arrives(event) /\ OnMessage(event)
    BY <1>6 DEF Receive
  <2>2. StreamTypeOK(Events)'
    BY <1>0, <2>1, StreamTypeStep
  <2> QED
    BY <1>6, <2>1, <2>2, PageTypeStep DEF Receive, serverVars, fetchVars, Forget
<1>7. CASE Connect \/ ConnectionLost
  <2>1. View \in Events
    BY SnapshotIsEvent DEF View
  <2>2. StreamTypeOK(Events)'
    BY <1>0, <1>7, <2>1, StreamTypeStep DEF Connect, ConnectionLost
  <2> QED
    BY <1>s, <1>7, <2>2 DEF Connect, ConnectionLost, serverVars, fetchVars, history
<1>8. CASE HandleConfirm \/ OtherCheckIn \/ ServerStep \/ Placed \/ SameAgain \/ ExternalStart
  <2>1. service' \in {"idle", "serving", "served", "failed"} /\ guest' \in Guests \cup {None}
    BY <1>8
    DEF HandleConfirm, OtherCheckIn, ServerStep, Placed, SameAgain, ExternalStart,
        serverVars, Server!CheckIn, Server!Finish, Server!Break, Server!Resume,
        Server!Reset, Server!Place
  <2>2. View' \in Events /\ OpenSearch \in Events
    BY <2>1, SnapshotIsEvent DEF View, OpenSearch, Events
  <2>3. \/ Publish(View') \/ Publish(OpenSearch)
        \/ UNCHANGED streamVars
    BY <1>8
    DEF HandleConfirm, OtherCheckIn, ServerStep, Placed, SameAgain, ExternalStart, Announce
  <2>4. StreamTypeOK(Events)'
    BY <1>0, <2>2, <2>3, StreamTypeStep
  <2>5. UNCHANGED <<pageVars, searches>>
    BY <1>8
    DEF HandleConfirm, OtherCheckIn, ServerStep, Placed, SameAgain, ExternalStart, fetchVars
  <2>6. confirm' \in [state : {"none", "sent", "accepted", "refused", "lost"},
                      res   : Guests \cup {None}]
    BY <1>8
    DEF HandleConfirm, OtherCheckIn, ServerStep, Placed, SameAgain, ExternalStart, fetchVars
  <2>7. owner' \in {"nobody", "other", "page", "told"} /\ due' \in BOOLEAN
    BY <1>8
    DEF HandleConfirm, OtherCheckIn, ServerStep, Placed, SameAgain, ExternalStart, history
  <2> QED
    BY <1>s, <2>1, <2>4, <2>5, <2>6, <2>7
<1>9. CASE UNCHANGED kioskVars
  BY <1>9
  DEF kioskVars, pageVars, streamVars, serverVars, fetchVars, history, PageTypeOK, StreamTypeOK
<1> QED
  BY <1>1, <1>2, <1>3, <1>4, <1>5, <1>6, <1>7, <1>8, <1>9 DEF KioskNext

(* The page, its stream and the server keep their types.                   *)
THEOREM KioskTypeCorrect == KioskSpec => []KioskTypeOK
BY KioskTypeInit, KioskTypeStep, PTL DEF KioskSpec

-----------------------------------------------------------------------------
(* The page shows what the server does *)

(* What a connection carries always ends with what the server shows now,   *)
(* except that a page with nothing new on the way shows it already; and    *)
(* until its first snapshot is read a connection may carry no snapshot.    *)
PageFollows ==
    /\ link = "down" => inbox = <<>>
    /\ link = "subscribed" => Silent(inbox) \/ EndsWith(inbox, ScreenOf(service))
    /\ link = "open" =>
          \/ EndsWith(inbox, ScreenOf(service))
          \/ Silent(inbox) /\ screen = ScreenOf(service)

(* Before the first connection there is nothing to follow.                 *)
LEMMA PageFollowsInit == KioskInit => PageFollows
BY DEF KioskInit, StreamInit, PageFollows

(* Every publish, connection, break and event taken keeps PageFollows.     *)
LEMMA PageFollowsStep ==
    ASSUME KioskTypeOK, PageFollows, [KioskNext]_kioskVars
    PROVE  PageFollows'
<1> USE DEF PageFollows
<1>0. inbox \in Seq(Events) /\ link \in {"down", "subscribed", "open"}
  BY DEF KioskTypeOK, PageTypeOK, StreamTypeOK
<1>s. /\ ScreenOf(service) \in {"form", "progress", "error"}
      /\ View \in Events /\ View.screen = ScreenOf(service)
  BY SnapshotIsEvent DEF KioskTypeOK, View
(* A published snapshot shows what the server does from now on.            *)
<1>p. ASSUME Publish(View'), KioskTypeOK'
      PROVE  PageFollows'
  <2>1. View' \in Events /\ View'.screen = ScreenOf(service')
    BY <1>p, SnapshotIsEvent DEF KioskTypeOK, View
  <2>2. CASE link = "down"
    BY <1>p, <2>2 DEF Publish
  <2>3. CASE link # "down"
    <3>1. EndsWith(inbox', ScreenOf(service'))
      BY <1>0, <1>p, <2>1, <2>3, PublishedLast DEF Publish
    <3> QED
      BY <1>0, <1>p, <2>3, <3>1 DEF Publish
  <2> QED
    BY <2>2, <2>3
<1>t. KioskTypeOK'
  BY KioskTypeStep
<1>1. CASE Tap \/ Search \/ SearchDone \/ Confirm \/ ConfirmDone \/ UNCHANGED kioskVars
  <2>1. UNCHANGED <<link, inbox, service, screen>>
    BY <1>1
    DEF Tap, TapStart, TapBackToStart, TapBackToSearch, TapCandidate, SelectReservation,
        Search, SearchDone, SearchAnswer, Confirm, ConfirmTap, ConfirmDone,
        ConfirmAnswer, kioskVars, pageVars, streamVars, serverVars
  <2> QED
    BY <2>1
<1>2. CASE Receive
  <2>1. PICK event \in Events : Arrives(event) /\ OnMessage(event)
    BY <1>2 DEF Receive
  <2>2. /\ link = "open" /\ link' = "open" /\ service' = service
        /\ inbox # <<>> /\ event = Head(inbox) /\ inbox' = Tail(inbox)
    BY <1>2, <2>1 DEF Receive, Arrives, serverVars
  <2>3. /\ event.screen = "ui_action" => screen' = screen
        /\ event.screen # "ui_action" => screen' = event.screen
    BY <2>1 DEF OnMessage, StartCheckinAction, RenderError, RenderProgress, RenderForm
  <2>4. CASE EndsWith(inbox, ScreenOf(service))
    <3>1. \/ EndsWith(inbox', ScreenOf(service))
          \/ event.screen = ScreenOf(service) /\ Silent(inbox')
      BY <1>0, <2>2, <2>4, ArrivedFirst
    <3> QED
      BY <1>s, <2>2, <2>3, <3>1
  <2>5. CASE Silent(inbox) /\ screen = ScreenOf(service)
    <3>1. event.screen = "ui_action" /\ Silent(inbox')
      BY <1>0, <2>2, <2>5, ArrivedFirst
    <3> QED
      BY <2>2, <2>3, <2>5, <3>1
  <2> QED
    BY <2>2, <2>4, <2>5
<1>3. CASE Connect \/ ConnectionLost
  <2>1. service' = service /\ screen' = screen
    BY <1>3 DEF Connect, ConnectionLost, serverVars, pageVars
  <2>2. CASE Subscribe
    BY <2>1, <2>2 DEF Subscribe, Silent
  <2>3. CASE Disconnect
    BY <2>3 DEF Disconnect
  <2>4. CASE SendSnapshot(View)
    <3>1. EndsWith(inbox', ScreenOf(service))
      BY <1>0, <1>s, <2>4, SnapshotFirst DEF SendSnapshot
    <3> QED
      BY <2>1, <2>4, <3>1 DEF SendSnapshot
  <2> QED
    BY <1>3, <2>2, <2>3, <2>4 DEF Connect, ConnectionLost
<1>4. CASE HandleConfirm
  <2>1. CASE Announce
    BY <1>p, <1>t, <2>1 DEF Announce
  <2>2. CASE UNCHANGED <<streamVars, serverVars>>
    BY <1>4, <2>2 DEF HandleConfirm, streamVars, serverVars, pageVars
  <2> QED
    BY <1>4, <2>1, <2>2 DEF HandleConfirm
<1>5. CASE OtherCheckIn \/ ServerStep \/ SameAgain
  BY <1>5, <1>p, <1>t DEF OtherCheckIn, ServerStep, SameAgain, Announce
<1>6. CASE Placed
  <2>1. ScreenOf(service') = ScreenOf(service) /\ UNCHANGED <<link, inbox, screen>>
    BY <1>6 DEF Placed, Server!Place, ScreenOf, streamVars, pageVars
  <2> QED
    BY <2>1
<1>7. CASE ExternalStart
  <2>1. OpenSearch \in Events /\ OpenSearch.screen = "ui_action"
    BY DEF OpenSearch, Events
  <2>2. UNCHANGED <<service, screen>> /\ Publish(OpenSearch)
    BY <1>7 DEF ExternalStart, serverVars, pageVars
  <2>3. CASE link = "down"
    BY <2>2, <2>3 DEF Publish
  <2>4. CASE link # "down"
    <3>1. /\ Silent(inbox) => Silent(inbox')
          /\ EndsWith(inbox, ScreenOf(service)) => EndsWith(inbox', ScreenOf(service))
      BY <1>0, <2>1, <2>2, <2>4, PublishedLast DEF Publish
    <3> QED
      BY <2>2, <2>4, <3>1 DEF Publish
  <2> QED
    BY <2>3, <2>4
<1> QED
  BY <1>1, <1>2, <1>3, <1>4, <1>5, <1>6, <1>7 DEF KioskNext

(* No snapshot is lost to a page for good: whenever it has taken all that  *)
(* was sent, it shows what the server is doing, however many events were   *)
(* queued before its first snapshot and however often it connected.        *)
THEOREM PageCurrentCorrect == KioskSpec => []PageCurrent
<1>1. PageFollows => PageCurrent
  BY DEF PageFollows, PageCurrent, EndsWith
<1> QED
  BY <1>1, KioskTypeInit, KioskTypeStep, PageFollowsInit, PageFollowsStep, PTL DEF KioskSpec

(* While the server stays in an error and the connection holds, a step     *)
(* leaves the stream as it is, opens it, or takes an event from it:        *)
(* nothing is published, so what is before the page only becomes less.     *)
ErrorDrains ==
    [][/\ service = "failed" /\ service' = "failed"
       /\ link # "down" /\ link' # "down"
       => \/ UNCHANGED streamVars
          \/ link = "subscribed" /\ link' = "open"
          \/ link' = link /\ Len(inbox') < Len(inbox)]_kioskVars

(* The measure behind ErrorShown: the events before an error that stays    *)
(* run out, and a page without any shows the error (EventSource,           *)
(* stream_events).                                                         *)
THEOREM ErrorDrainsCorrect ==
    KioskSpec => /\ ErrorDrains
                 /\ [](link = "open" /\ inbox = <<>> /\ service = "failed"
                         => screen = "error")
<1>1. ASSUME KioskTypeOK, [KioskNext]_kioskVars, service = "failed", service' = "failed",
             link # "down", link' # "down"
      PROVE  \/ UNCHANGED streamVars
             \/ link = "subscribed" /\ link' = "open"
             \/ link' = link /\ Len(inbox') < Len(inbox)
  <2>1. CASE Receive
    <3>1. inbox \in Seq(Events)
      BY <1>1 DEF KioskTypeOK, PageTypeOK, StreamTypeOK
    <3>2. inbox # <<>> /\ inbox' = Tail(inbox) /\ link' = link
      BY <2>1 DEF Receive, Arrives
    <3> QED
      BY <3>1, <3>2
  <2>2. CASE Connect \/ ConnectionLost
    BY <1>1, <2>2 DEF Connect, ConnectionLost, Subscribe, SendSnapshot, Disconnect
  <2>3. CASE Tap \/ Search \/ SearchDone \/ Confirm \/ ConfirmDone \/ UNCHANGED kioskVars
    BY <2>3 DEF Tap, Search, SearchDone, Confirm, ConfirmDone, kioskVars
  <2>4. CASE HandleConfirm \/ Placed
    BY <1>1, <2>4 DEF HandleConfirm, Server!CheckIn, Placed
  <2>5. ~OtherCheckIn /\ ~ServerStep /\ ~SameAgain /\ ~ExternalStart
    BY <1>1
    DEF OtherCheckIn, ServerStep, SameAgain, ExternalStart, Server!CheckIn, Server!Finish,
        Server!Break, Server!Resume, Server!Reset
  <2> QED
    BY <1>1, <2>1, <2>2, <2>3, <2>4, <2>5 DEF KioskNext
<1>2. PageCurrent => (link = "open" /\ inbox = <<>> /\ service = "failed" => screen = "error")
  BY DEF PageCurrent, ScreenOf
<1> QED
  BY <1>1, <1>2, KioskTypeCorrect, PageCurrentCorrect, PTL DEF KioskSpec, ErrorDrains

-----------------------------------------------------------------------------
(* What the form holds *)

(* The page begins with nothing selected.                                  *)
LEMMA ConfirmsWhatIsShownInit == KioskInit => ConfirmsWhatIsShown
BY DEF KioskInit, PageInit, ConfirmsWhatIsShown

(* The page's variables change by a tap, an answer or an event only.       *)
LEMMA PageSteps ==
    ASSUME [KioskNext]_kioskVars
    PROVE  \/ TapStart \/ TapBackToStart \/ TapBackToSearch
           \/ \E g \in Guests : TapCandidate(g)
           \/ \E matches \in Answers : SearchAnswer(matches)
           \/ ConfirmTap
           \/ ConfirmAnswer(confirm.state)
           \/ Receive /\ \E event \in Events : OnMessage(event)
           \/ UNCHANGED pageVars
BY DEF KioskNext, Tap, Search, SearchDone, Confirm, ConfirmDone, Receive, Connect,
       ConnectionLost, HandleConfirm, OtherCheckIn, ServerStep, Placed, SameAgain,
       ExternalStart, kioskVars

(* Every tap, answer and event keeps ConfirmsWhatIsShown.                  *)
LEMMA ConfirmsWhatIsShownStep ==
    ASSUME ConfirmsWhatIsShown, [KioskNext]_kioskVars
    PROVE  ConfirmsWhatIsShown'
<1> USE KioskAssumption DEF ConfirmsWhatIsShown, ShowStage, ResetFlow, SelectReservation
<1>1. CASE \/ TapStart \/ TapBackToStart \/ TapBackToSearch
           \/ \E g \in Guests : TapCandidate(g)
  BY <1>1 DEF TapStart, TapBackToStart, TapBackToSearch, TapCandidate
<1>2. CASE \E matches \in Answers : SearchAnswer(matches)
  BY <1>2 DEF SearchAnswer, pageVars
<1>3. CASE ConfirmTap \/ ConfirmAnswer(confirm.state) \/ UNCHANGED pageVars
  BY <1>3 DEF ConfirmTap, ConfirmAnswer, pageVars
<1>4. CASE \E event \in Events : OnMessage(event)
  BY <1>4 DEF OnMessage, StartCheckinAction, RenderError, RenderProgress, RenderForm
<1> QED
  BY <1>1, <1>2, <1>3, <1>4, PageSteps

(* A guest confirms what the page shows, whichever late answer, tap or     *)
(* event came before.                                                      *)
THEOREM ConfirmsWhatIsShownCorrect == KioskSpec => []ConfirmsWhatIsShown
BY ConfirmsWhatIsShownInit, ConfirmsWhatIsShownStep, PTL DEF KioskSpec

-----------------------------------------------------------------------------
(* What the form forgets *)

(* The form is out of view only on a page that was last told of a cycle or *)
(* an error, and no error on its way is of an idle server.                 *)
OutOfView ==
    /\ screen # "form" => last = "busy"
    /\ \A i \in DOMAIN inbox : inbox[i].screen = "error" => inbox[i].step = "busy"

(* Some snapshot on its way to the page will reset its form: one of the    *)
(* idle server that it takes after one of a cycle or an error.             *)
Reminded ==
    \E j \in DOMAIN inbox :
        /\ inbox[j].screen = "form"
        /\ \/ last # "awaiting"
           \/ \E i \in DOMAIN inbox : i < j /\ inbox[i].screen \in {"progress", "error"}

(* What is due to be forgotten is followed by what makes the page do so.   *)
DueReminded == due => link = "open" /\ Reminded

(* The queue changes by what publishing, connecting and taking an event do *)
(* to it.                                                                  *)
LEMMA QueueSteps ==
    ASSUME [KioskNext]_kioskVars
    PROVE  \/ UNCHANGED <<streamVars, screen, last>>
           \/ /\ UNCHANGED <<screen, last>>
              /\ \/ Publish(View') \/ Publish(OpenSearch)
                 \/ Subscribe \/ SendSnapshot(View)
                 \/ (Disconnect /\ ~due')
           \/ Forget /\ \E event \in Events : Arrives(event) /\ OnMessage(event)
<1>1. CASE Tap \/ Search \/ SearchDone \/ Confirm \/ ConfirmDone \/ UNCHANGED kioskVars
  BY <1>1
  DEF Tap, TapStart, TapBackToStart, TapBackToSearch, TapCandidate, SelectReservation,
      Search, SearchDone, SearchAnswer, Confirm, ConfirmTap, ConfirmDone, ConfirmAnswer,
      pageVars, kioskVars
<1>2. CASE Receive
  BY <1>2 DEF Receive
<1>3. CASE \/ Connect \/ HandleConfirm \/ OtherCheckIn \/ ServerStep
           \/ Placed \/ SameAgain \/ ExternalStart
  BY <1>3
  DEF Connect, HandleConfirm, OtherCheckIn, ServerStep, Placed, SameAgain,
      ExternalStart, Announce, pageVars
<1>4. CASE ConnectionLost
  BY <1>4, Zenon DEF ConnectionLost, pageVars
<1> QED
  BY <1>1, <1>2, <1>3, <1>4 DEF KioskNext

(* The page begins with its form in view.                                  *)
LEMMA OutOfViewInit == KioskInit => OutOfView
BY DEF KioskInit, PageInit, StreamInit, OutOfView

(* Every tap, answer and event, and all that is sent, keeps OutOfView.     *)
LEMMA OutOfViewStep ==
    ASSUME KioskTypeOK, KioskTypeOK', OutOfView, [KioskNext]_kioskVars
    PROVE  OutOfView'
<1> USE DEF OutOfView
<1>0. inbox \in Seq(Events)
  BY DEF KioskTypeOK, PageTypeOK, StreamTypeOK
<1>1. /\ View \in Events /\ View' \in Events /\ OpenSearch \in Events
      /\ View.screen = "error" => View.step = "busy"
      /\ View'.screen = "error" => View'.step = "busy"
      /\ OpenSearch.screen # "error"
  BY SnapshotIsEvent DEF KioskTypeOK, View, OpenSearch, Events
<1>2. CASE UNCHANGED <<streamVars, screen, last>>
  BY <1>2 DEF streamVars
<1>3. CASE UNCHANGED <<screen, last>> /\ (Publish(View') \/ Publish(OpenSearch))
  <2>1. PICK e \in Events : Publish(e) /\ (e.screen = "error" => e.step = "busy")
    BY <1>1, <1>3
  <2>2. inbox' = inbox \/ inbox' = Append(inbox, e)
    BY <2>1 DEF Publish
  <2>3. \A i \in DOMAIN Append(inbox, e) : i \in DOMAIN inbox \/ i = Len(inbox) + 1
    BY <1>0, AppendAt
  <2> QED
    BY <1>0, <1>3, <2>1, <2>2, <2>3, AppendAt
<1>4. CASE UNCHANGED <<screen, last>> /\ (Subscribe \/ Disconnect)
  BY <1>4 DEF Subscribe, Disconnect
<1>5. CASE UNCHANGED <<screen, last>> /\ SendSnapshot(View)
  <2>1. inbox' = <<View>> \o inbox
    BY <1>5 DEF SendSnapshot
  <2>2. \A i \in DOMAIN (<<View>> \o inbox) :
           i = 1 \/ (i - 1 \in DOMAIN inbox /\ i = 1 + (i - 1))
    BY <1>0, <1>1, PrependAt
  <2>3. /\ (<<View>> \o inbox)[1] = View
        /\ \A i \in DOMAIN inbox : (<<View>> \o inbox)[1 + i] = inbox[i]
    BY <1>0, <1>1, PrependAt
  <2>4. ASSUME NEW i \in DOMAIN inbox', inbox'[i].screen = "error"
        PROVE  inbox'[i].step = "busy"
    <3>1. CASE i = 1
      BY <1>1, <2>1, <2>3, <2>4, <3>1
    <3>2. CASE i # 1
      BY <2>1, <2>2, <2>3, <2>4, <3>2
    <3> QED
      BY <3>1, <3>2
  <2> QED
    BY <1>5, <2>4
<1>6. CASE \E event \in Events : Arrives(event) /\ OnMessage(event)
  <2>1. PICK event \in Events : Arrives(event) /\ OnMessage(event)
    BY <1>6
  <2>2. inbox # <<>> /\ event = inbox[1] /\ 1 \in DOMAIN inbox /\ inbox' = Tail(inbox)
    BY <1>0, <2>1, TailAt DEF Arrives
  <2>3. screen' # "form" => last' = "busy"
    BY <2>1, <2>2
    DEF OnMessage, StartCheckinAction, RenderError, RenderProgress, RenderForm
  <2>4. \A i \in DOMAIN inbox' : i + 1 \in DOMAIN inbox /\ inbox'[i] = inbox[i + 1]
    BY <1>0, <2>2, TailAt
  <2> QED
    BY <2>3, <2>4
<1> QED
  BY <1>2, <1>3, <1>4, <1>5, <1>6, QueueSteps

(* Nothing is due before the first cycle.                                  *)
LEMMA DueRemindedInit == KioskInit => DueReminded
BY DEF KioskInit, DueReminded

(* What is published behind a reminder leaves it where it is.              *)
LEMMA RemindedStays ==
    ASSUME inbox \in Seq(Events), NEW e \in Events, Reminded,
           inbox' = Append(inbox, e), last' = last
    PROVE  Reminded'
<1>1. PICK j \in DOMAIN inbox :
        /\ inbox[j].screen = "form"
        /\ \/ last # "awaiting"
           \/ \E i \in DOMAIN inbox : i < j /\ inbox[i].screen \in {"progress", "error"}
  BY DEF Reminded
<1>2. \A i \in DOMAIN inbox : i \in DOMAIN inbox' /\ inbox'[i] = inbox[i]
  BY AppendAt
<1> QED
  BY <1>1, <1>2 DEF Reminded

(* The event that is taken resets the form, or leaves a reminder.          *)
LEMMA RemindedByTheRest ==
    ASSUME inbox \in Seq(Events), NEW event \in Events, Arrives(event), OnMessage(event),
           OutOfView, Reminded
    PROVE  Blank' \/ Reminded'
<1>1. PICK j \in DOMAIN inbox :
        /\ inbox[j].screen = "form"
        /\ \/ last # "awaiting"
           \/ \E i \in DOMAIN inbox : i < j /\ inbox[i].screen \in {"progress", "error"}
  BY DEF Reminded
<1>2. /\ inbox # <<>> /\ event = inbox[1] /\ 1 \in DOMAIN inbox
      /\ DOMAIN inbox \subseteq Nat \ {0}
      /\ \A i \in DOMAIN inbox : i # 1 => i - 1 \in DOMAIN inbox'
                                         /\ inbox'[i - 1] = inbox[i]
  <2>1. inbox # <<>> /\ event = Head(inbox) /\ inbox' = Tail(inbox)
    BY DEF Arrives
  <2>2. /\ Head(inbox) = inbox[1] /\ Len(inbox) \in Nat \ {0}
        /\ DOMAIN inbox = 1..Len(inbox) /\ DOMAIN Tail(inbox) = 1..(Len(inbox) - 1)
        /\ \A i \in DOMAIN Tail(inbox) : Tail(inbox)[i] = inbox[i + 1]
    BY <2>1, TailAt
  <2>3. \A i \in DOMAIN inbox : i # 1 => i - 1 \in DOMAIN Tail(inbox) /\ (i - 1) + 1 = i
    BY <2>2
  <2> QED
    BY <2>1, <2>2, <2>3
<1>3. CASE event.screen = "form"
  <2>1. RenderForm
    BY <1>3 DEF OnMessage
  <2>2. CASE last # "awaiting"
    BY <2>1, <2>2 DEF RenderForm, ResetFlow, ShowStage, Blank
  <2>3. CASE last = "awaiting"
    <3>1. PICK i \in DOMAIN inbox : i < j /\ inbox[i].screen \in {"progress", "error"}
      BY <1>1, <2>3
    <3>2. i # 1 /\ j # 1 /\ i - 1 < j - 1
      BY <1>2, <1>3, <3>1
    <3> QED
      BY <1>1, <1>2, <3>1, <3>2 DEF Reminded
  <2> QED
    BY <2>2, <2>3
<1>4. CASE event.screen \in {"progress", "error"}
  <2>1. last' = "busy"
    BY <1>2, <1>4 DEF OnMessage, RenderError, RenderProgress, OutOfView
  <2>2. j # 1
    BY <1>1, <1>2, <1>4
  <2> QED
    BY <1>1, <1>2, <2>1, <2>2 DEF Reminded
<1>5. CASE event.screen = "ui_action"
  <2>1. last' = last
    BY <1>5 DEF OnMessage, StartCheckinAction
  <2>2. j # 1
    BY <1>1, <1>2, <1>5
  <2>3. CASE last # "awaiting"
    BY <1>1, <1>2, <2>1, <2>2, <2>3 DEF Reminded
  <2>4. CASE last = "awaiting"
    <3>1. PICK i \in DOMAIN inbox : i < j /\ inbox[i].screen \in {"progress", "error"}
      BY <1>1, <2>4
    <3>2. i # 1 /\ i - 1 < j - 1
      BY <1>2, <1>5, <3>1
    <3> QED
      BY <1>1, <1>2, <2>2, <3>1, <3>2 DEF Reminded
  <2> QED
    BY <2>3, <2>4
<1> QED
  BY <1>3, <1>4, <1>5 DEF Events

(* A connection that is open when a cycle ends has carried the cycle.      *)
LEMMA EndReminds ==
    ASSUME KioskTypeOK, KioskTypeOK', PageFollows, OutOfView, ServerStep, service' = "idle",
           link = "open"
    PROVE  Reminded'
<1>0. inbox \in Seq(Events) /\ View' \in Events /\ View'.screen = "form"
  BY SnapshotIsEvent DEF KioskTypeOK, PageTypeOK, StreamTypeOK, View, ScreenOf
<1>1. inbox' = Append(inbox, View') /\ last' = last
  BY DEF ServerStep, Announce, Publish, pageVars
<1>2. ScreenOf(service) \in {"progress", "error"}
  BY DEF ServerStep, Server!Finish, Server!Break, Server!Resume, Server!Reset, ScreenOf
<1>3. /\ Len(inbox) \in Nat /\ DOMAIN inbox = 1..Len(inbox)
      /\ DOMAIN inbox' = 1..(Len(inbox) + 1)
      /\ inbox'[Len(inbox) + 1] = View'
      /\ \A i \in DOMAIN inbox : inbox'[i] = inbox[i]
  BY <1>0, <1>1, AppendAt
<1>4. CASE EndsWith(inbox, ScreenOf(service))
  <2>1. PICK i \in DOMAIN inbox : inbox[i].screen = ScreenOf(service)
    BY <1>4 DEF EndsWith
  <2>2. /\ i < Len(inbox) + 1 /\ i \in DOMAIN inbox'
        /\ inbox'[i].screen \in {"progress", "error"}
    BY <1>2, <1>3, <2>1
  <2>3. Len(inbox) + 1 \in DOMAIN inbox' /\ inbox'[Len(inbox) + 1].screen = "form"
    BY <1>0, <1>3
  <2> QED
    BY <2>2, <2>3 DEF Reminded
<1>5. CASE screen = ScreenOf(service)
  <2>1. last' = "busy"
    BY <1>1, <1>2, <1>5 DEF OutOfView
  <2>2. Len(inbox) + 1 \in DOMAIN inbox' /\ inbox'[Len(inbox) + 1].screen = "form"
    BY <1>0, <1>3
  <2> QED
    BY <2>1, <2>2 DEF Reminded
<1> QED
  BY <1>4, <1>5 DEF PageFollows

(* Every step keeps DueReminded.                                           *)
LEMMA DueRemindedStep ==
    ASSUME KioskTypeOK, KioskTypeOK', PageFollows, OutOfView, DueReminded,
           [KioskNext]_kioskVars
    PROVE  DueReminded'
<1> SUFFICES ASSUME due'
             PROVE  link' = "open" /\ Reminded'
  BY DEF DueReminded
<1>0. inbox \in Seq(Events)
  BY DEF KioskTypeOK, PageTypeOK, StreamTypeOK
<1>1. CASE ServerStep /\ service' = "idle"
  <2>1. link = "open" /\ link' = link
    BY <1>1, Zenon DEF ServerStep, Announce, Publish
  <2> QED
    BY <1>1, <2>1, EndReminds
<1>2. CASE ~(ServerStep /\ service' = "idle")
  <2>1. due
    BY <1>2, Zenon
    DEF KioskNext, Tap, Search, SearchDone, Confirm, ConfirmDone, Receive, Connect,
        ConnectionLost, HandleConfirm, OtherCheckIn, ServerStep, Placed, SameAgain,
        ExternalStart, Forget, history, kioskVars
  <2>2. link = "open" /\ Reminded
    BY <2>1 DEF DueReminded
  <2>3. CASE UNCHANGED <<streamVars, screen, last>>
    BY <2>2, <2>3 DEF Reminded, streamVars
  <2>4. CASE UNCHANGED <<screen, last>> /\ (Publish(View') \/ Publish(OpenSearch))
    <3>1. View' \in Events /\ OpenSearch \in Events
      BY SnapshotIsEvent DEF KioskTypeOK, View, OpenSearch, Events
    <3>2. PICK e \in Events : inbox' = Append(inbox, e) /\ link' = link
      BY <2>2, <2>4, <3>1 DEF Publish
    <3> QED
      BY <1>0, <2>2, <2>4, <3>2, RemindedStays
  <2>5. CASE Forget /\ \E event \in Events : Arrives(event) /\ OnMessage(event)
    <3>1. PICK event \in Events : Arrives(event) /\ OnMessage(event)
      BY <2>5
    <3>2. ~Blank'
      BY <2>5, Zenon DEF Forget
    <3> QED
      BY <1>0, <2>2, <3>1, <3>2, RemindedByTheRest DEF Arrives
  <2>6. CASE Subscribe \/ SendSnapshot(View) \/ (Disconnect /\ ~due')
    BY <2>2, <2>6 DEF Subscribe, SendSnapshot
  <2> QED
    BY <2>3, <2>4, <2>5, <2>6, QueueSteps
<1> QED
  BY <1>1, <1>2

(* A page whose connection holds from the end of a cycle on has forgotten  *)
(* what its form held once it has taken every event.                       *)
THEOREM NextGuestFreshCorrect == KioskSpec => []NextGuestFresh
<1>1. DueReminded => NextGuestFresh
  BY DEF DueReminded, Reminded, NextGuestFresh
<1> QED
  BY <1>1, KioskTypeCorrect, PageFollowsInit, PageFollowsStep, OutOfViewInit, OutOfViewStep,
     DueRemindedInit, DueRemindedStep, PTL DEF KioskSpec

-----------------------------------------------------------------------------
(* The server beside the page *)

(* What the page is checked against is the service the state machine is    *)
(* proved to implement: between the page's check-in, its answer, the other *)
(* browser and the stream, the server takes DrinkService's steps or none.  *)
THEOREM KioskServerIsDrinkService == KioskSpec => Server!Spec
<1>1. KioskInit => Server!Init
  BY DEF KioskInit
<1>2. ASSUME [KioskNext]_kioskVars
      PROVE  [Server!Next]_(Server!vars)
  <2>1. CASE HandleConfirm \/ OtherCheckIn \/ ServerStep \/ Placed
    BY <2>1
    DEF HandleConfirm, OtherCheckIn, ServerStep, Placed, Server!Next, Server!vars, serverVars
  <2>2. CASE \/ Tap \/ Search \/ SearchDone \/ Confirm \/ ConfirmDone \/ Receive
             \/ Connect \/ ConnectionLost \/ SameAgain \/ ExternalStart
             \/ UNCHANGED kioskVars
    BY <2>2
    DEF Tap, Search, SearchDone, Confirm, ConfirmDone, Receive, Connect, ConnectionLost,
        SameAgain, ExternalStart, kioskVars, serverVars, Server!vars
  <2> QED
    BY <1>2, <2>1, <2>2 DEF KioskNext
<1> QED
  BY <1>1, <1>2, PTL DEF KioskSpec, Server!Spec

-----------------------------------------------------------------------------
(* The stored name, where the selection is held                            *)

(* Nothing selects anew, and nothing resets the form, while a check-in is  *)
(* in flight: what the page does not see to (confirmReservation).          *)
SelectionHeld == [][confirm.state # "none" => UNCHANGED selected]_kioskVars

(* A check-in is of the reservation that is selected when its answer       *)
(* comes; one that was taken is the server's cycle until that ends, and    *)
(* the page does not have its answer yet.                                  *)
NameFollows ==
    /\ confirm.state # "none" => selected # None /\ confirm.res = selected
    /\ confirm.state = "accepted" => owner # "told"
    /\ confirm.state = "accepted" /\ owner = "page" => guest = confirm.res
    /\ OwnNameSaved

(* Nothing is in flight when the page opens.                               *)
LEMMA NameFollowsInit == KioskInit => NameFollows
BY DEF KioskInit, NoConfirm, NameFollows, OwnNameSaved

(* No step that holds the selection lets the stored name and the cycle     *)
(* part.                                                                   *)
LEMMA NameFollowsStep ==
    KioskTypeOK /\ NameFollows /\ [KioskNext]_kioskVars
        /\ [confirm.state # "none" => UNCHANGED selected]_kioskVars => NameFollows'
<1> SUFFICES ASSUME KioskTypeOK, NameFollows, [KioskNext]_kioskVars,
                    [confirm.state # "none" => UNCHANGED selected]_kioskVars
             PROVE  NameFollows'
  OBVIOUS
<1> USE DEF NameFollows, OwnNameSaved
<1>1. CASE UNCHANGED kioskVars
  BY <1>1 DEF kioskVars, pageVars, serverVars, fetchVars, history
<1> SUFFICES ASSUME KioskNext, confirm.state # "none" => UNCHANGED selected
             PROVE  NameFollows'
  BY <1>1
<1>2. ASSUME UNCHANGED <<guest, confirm, owner, my_guest>>
      PROVE  NameFollows'
  BY <1>2
<1>3. CASE Tap \/ SearchDone \/ Receive
  <2>1. UNCHANGED <<guest, confirm, owner, my_guest>>
    BY <1>3 DEF Tap, TapStart, TapBackToStart, TapBackToSearch, TapCandidate, SelectReservation,
                ResetFlow, SearchDone, SearchAnswer, Receive, OnMessage, StartCheckinAction,
                RenderError, RenderProgress, RenderForm, serverVars, fetchVars,
                pageVars, history
  <2> QED
    BY <1>2, <2>1
<1>4. CASE Search \/ Connect \/ ConnectionLost \/ Placed \/ SameAgain \/ ExternalStart
  <2>1. UNCHANGED <<guest, confirm, owner, my_guest, selected>>
    BY <1>4 DEF Search, Connect, ConnectionLost, Placed, SameAgain, ExternalStart, Server!Place,
                pageVars, serverVars, fetchVars, history
  <2> QED
    BY <1>2, <2>1
<1>5. CASE Confirm
  BY <1>5 DEF Confirm, ConfirmTap, serverVars, history
<1>6. CASE ConfirmDone
  <2>1. UNCHANGED <<guest, selected>> /\ confirm'.state = "none"
    BY <1>6 DEF ConfirmDone, ConfirmAnswer, NoConfirm, serverVars
  <2>2. CASE confirm.state = "accepted"
    <3>1. my_guest' = selected
      BY <1>6, <2>2 DEF ConfirmDone, ConfirmAnswer
    <3>2. owner' = IF owner = "page" THEN "told" ELSE owner
      BY <1>6, <2>2 DEF ConfirmDone
    <3> QED
      BY <2>1, <2>2, <3>1, <3>2
  <2>3. CASE confirm.state # "accepted"
    <3>1. UNCHANGED <<my_guest, owner>>
      BY <1>6, <2>3 DEF ConfirmDone, ConfirmAnswer
    <3> QED
      BY <2>1, <3>1
  <2> QED
    BY <2>2, <2>3
<1>7. CASE HandleConfirm
  <2>1. UNCHANGED <<my_guest, selected>> /\ confirm.state = "sent"
    BY <1>7 DEF HandleConfirm, pageVars
  <2>2. confirm'.state \in {"accepted", "refused", "lost"} /\ confirm'.res = confirm.res
    BY <1>7 DEF HandleConfirm, KioskTypeOK
  <2>3. \/ owner' = "page" /\ guest' = confirm.res
        \/ UNCHANGED <<owner, guest>> /\ confirm'.state # "accepted"
    BY <1>7 DEF HandleConfirm, KioskTypeOK, serverVars, history
  <2> QED
    BY <2>1, <2>2, <2>3
<1>8. CASE OtherCheckIn
  BY <1>8 DEF OtherCheckIn, pageVars, fetchVars
<1>9. CASE ServerStep
  <2>1. \/ owner' = "nobody"
        \/ UNCHANGED <<owner, guest>>
    BY <1>9 DEF ServerStep, Server!Finish, Server!Reset, Server!Break, Server!Resume, history
  <2>2. UNCHANGED <<my_guest, selected, confirm>>
    BY <1>9 DEF ServerStep, pageVars, fetchVars
  <2> QED
    BY <2>1, <2>2
<1> QED
  BY <1>3, <1>4, <1>5, <1>6, <1>7, <1>8, <1>9 DEF KioskNext

(* Once the page has the answer of its check-in, the name it stored is the *)
(* name of the cycle, in every behaviour in which what is selected stays   *)
(* while the check-in is in flight.  A confirmReservation that kept the    *)
(* reservation it sent would see to that (app.js, confirmReservation).     *)
THEOREM HeldSelectionSavesOwnName == KioskSpec /\ SelectionHeld => []OwnNameSaved
<1>1. NameFollows => OwnNameSaved
  BY DEF NameFollows
<1> QED
  BY <1>1, KioskTypeCorrect, NameFollowsInit, NameFollowsStep, PTL
     DEF KioskSpec, SelectionHeld

-----------------------------------------------------------------------------
(* The search *)

(* A nonempty set of numbers has a least one: the induction of the lemmas  *)
(* below is about the least number for which one of them fails.            *)
LEMMA LeastNumber ==
    ASSUME NEW T, T \subseteq Nat, T # {}
    PROVE  \E m \in T : \A k \in T : m <= k
<1> DEFINE R == {ss \in Nat \X Nat : ss[1] < ss[2]}
<1>1. OpToRel(<, Nat) = R
  BY DEF OpToRel
<1>2. IsWellFoundedOn(R, Nat)
  BY <1>1, NatLessThanWellFounded
<1>3. \A k, m \in Nat : k < m => <<k, m>> \in R
  OBVIOUS
<1> HIDE DEF R
<1>4. PICK m \in T : \A k \in T : ~(<<k, m>> \in R)
  BY <1>2, WFMin
<1>5. ASSUME NEW k \in T PROVE m <= k
  <2>1. k \in Nat /\ m \in Nat
    OBVIOUS
  <2>2. ~(k < m)
    BY <1>3, <1>4, <2>1
  <2> QED
    BY <2>1, <2>2
<1> QED
  BY <1>5

(* What Kept has made of each beginning of the text, up to the m-th        *)
(* character.                                                              *)
Keeping(kept, text, chars, m) ==
    kept = [n \in 0..m |->
              IF n = 0 THEN <<>>
              ELSE IF text[n] \in chars THEN Append(kept[n - 1], text[n])
              ELSE kept[n - 1]]

(* There is such a function, for every length.                             *)
LEMMA KeepingExists ==
    ASSUME NEW text, NEW chars, NEW m \in Nat
    PROVE  \E kept : Keeping(kept, text, chars, m)
<1> DEFINE T == {k \in Nat : ~\E kept : Keeping(kept, text, chars, k)}
<1> SUFFICES ASSUME T # {} PROVE FALSE
  OBVIOUS
<1>1. PICK k \in T : \A l \in T : k <= l
  BY LeastNumber
<1>2. CASE k = 0
  <2>1. Keeping([n \in 0..0 |-> <<>>], text, chars, 0)
    BY DEF Keeping
  <2> QED
    BY <1>1, <1>2, <2>1
<1>3. CASE k # 0
  <2>1. k \in Nat /\ k - 1 \in Nat /\ ~(k <= k - 1)
    BY <1>3
  <2>2. PICK kept : Keeping(kept, text, chars, k - 1)
    BY <1>1, <2>1
  <2> DEFINE final == IF text[k] \in chars THEN Append(kept[k - 1], text[k])
                      ELSE kept[k - 1]
             more == [n \in 0..k |-> IF n = k THEN final ELSE kept[n]]
  <2>3. \A n \in 0..(k - 1) :
           kept[n] = IF n = 0 THEN <<>>
                     ELSE IF text[n] \in chars THEN Append(kept[n - 1], text[n])
                     ELSE kept[n - 1]
    BY <2>2 DEF Keeping
  <2>4. \A n \in 0..k : n # k => n \in 0..(k - 1)
    BY <2>1
  <2>5. \A n \in 0..k : n # 0 => n - 1 \in 0..k /\ n - 1 # k
    BY <2>1
  <2>6. ASSUME NEW n \in 0..k
        PROVE  more[n] = IF n = 0 THEN <<>>
                         ELSE IF text[n] \in chars THEN Append(more[n - 1], text[n])
                         ELSE more[n - 1]
    <3>1. CASE n = k
      BY <1>3, <2>5, <3>1
    <3>2. CASE n # k
      BY <2>3, <2>4, <2>5, <3>2
    <3> QED
      BY <3>1, <3>2
  <2> HIDE DEF final
  <2>7. Keeping(more, text, chars, k)
    BY <2>6 DEF Keeping
  <2> QED
    BY <1>1, <2>7
<1> QED
  BY <1>2, <1>3

(* Texts that begin alike are kept alike as far as they do.                *)
LEMMA KeepingAlike ==
    ASSUME NEW chars, NEW k1, NEW t1, NEW m1 \in Nat, Keeping(k1, t1, chars, m1),
           NEW k2, NEW t2, NEW m2 \in Nat, Keeping(k2, t2, chars, m2),
           m1 <= m2, \A i \in 1..m1 : t1[i] = t2[i]
    PROVE  k1[m1] = k2[m1]
<1> DEFINE T == {n \in 0..m1 : k1[n] # k2[n]}
<1>1. CASE T # {}
  <2>1. PICK n \in T : \A l \in T : n <= l
    <3>1. T \subseteq Nat
      OBVIOUS
    <3> HIDE DEF T
    <3> QED
      BY <1>1, <3>1, LeastNumber
  <2>2. n \in 0..m1 /\ n \in 0..m2 /\ k1[n] # k2[n]
    OBVIOUS
  <2>3. n # 0
    BY <2>2 DEF Keeping
  <2>4. /\ n \in 1..m1 /\ n - 1 \in 0..m1 /\ ~(n <= n - 1)
    BY <2>2, <2>3
  <2>5. k1[n - 1] = k2[n - 1]
    BY <2>1, <2>4
  <2>6. k1[n] = IF t1[n] \in chars THEN Append(k1[n - 1], t1[n]) ELSE k1[n - 1]
    BY <2>2, <2>3 DEF Keeping
  <2>7. k2[n] = IF t2[n] \in chars THEN Append(k2[n - 1], t2[n]) ELSE k2[n - 1]
    BY <2>2, <2>3 DEF Keeping
  <2>8. t1[n] = t2[n]
    BY <2>4
  <2> QED
    BY <2>2, <2>5, <2>6, <2>7, <2>8, Zenon
<1> QED
  BY <1>1

(* Kept goes through a text as _normalize_number's join does.              *)
LEMMA KeptIsKeeping ==
    ASSUME NEW S, NEW text \in Seq(S), NEW chars
    PROVE  \E kept : /\ Keeping(kept, text, chars, Len(text))
                     /\ Kept(text, chars) = kept[Len(text)]
<1> DEFINE kept == CHOOSE f : Keeping(f, text, chars, Len(text))
<1>1. Keeping(kept, text, chars, Len(text))
  <2>1. Len(text) \in Nat
    OBVIOUS
  <2> QED
    BY <2>1, KeepingExists
<1>2. Kept(text, chars) = kept[Len(text)]
  BY DEF Kept, Keeping
<1> QED
  BY <1>1, <1>2

(* Of nothing nothing is kept.                                             *)
LEMMA KeptEmpty == \A chars : Kept(<<>>, chars) = <<>>
<1> TAKE chars
<1>1. PICK kept : Keeping(kept, <<>>, chars, 0) /\ Kept(<<>>, chars) = kept[0]
  <2>1. <<>> \in Seq({}) /\ Len(<<>>) = 0
    BY EmptySeq
  <2> QED
    BY <2>1, KeptIsKeeping
<1>2. kept[0] = <<>>
  BY <1>1 DEF Keeping
<1> QED
  BY <1>1, <1>2

(* A character more is kept or left out.                                   *)
LEMMA KeptAppend ==
    ASSUME NEW S, NEW text \in Seq(S), NEW ch \in S, NEW chars
    PROVE  Kept(Append(text, ch), chars) =
             IF ch \in chars THEN Append(Kept(text, chars), ch) ELSE Kept(text, chars)
<1> DEFINE longer == Append(text, ch)
<1>1. /\ longer \in Seq(S) /\ Len(longer) = Len(text) + 1 /\ longer[Len(text) + 1] = ch
      /\ \A i \in 1..Len(text) : text[i] = longer[i]
      /\ Len(text) \in Nat
  BY AppendProperties
<1> DEFINE m == Len(text)
<1> HIDE DEF longer
<1>2. PICK k1 : Keeping(k1, text, chars, Len(text)) /\ Kept(text, chars) = k1[Len(text)]
  BY KeptIsKeeping
<1>3. PICK k2 : Keeping(k2, longer, chars, Len(longer))
                /\ Kept(longer, chars) = k2[Len(longer)]
  BY <1>1, KeptIsKeeping
<1>4. m \in Nat /\ m <= m + 1 /\ m + 1 \in Nat
  BY <1>1
<1> HIDE DEF m
<1>5. k1[m] = k2[m]
  BY <1>1, <1>2, <1>3, <1>4, KeepingAlike DEF m
<1>6. m + 1 \in 0..(m + 1) /\ m + 1 # 0 /\ (m + 1) - 1 = m
  BY <1>4
<1>7. k2[m + 1] = IF longer[m + 1] \in chars THEN Append(k2[m], longer[m + 1]) ELSE k2[m]
  BY <1>1, <1>3, <1>6 DEF Keeping, m
<1>8. longer[m + 1] = ch /\ Kept(longer, chars) = k2[m + 1] /\ Kept(text, chars) = k1[m]
  BY <1>1, <1>2, <1>3 DEF m
<1> QED
  BY <1>5, <1>7, <1>8, Zenon DEF longer

(* Keeping some and then fewer characters is keeping the fewer.            *)
LEMMA KeptTwice ==
    ASSUME NEW S, NEW text \in Seq(S), NEW some, NEW fewer, fewer \cap S \subseteq some
    PROVE  Kept(text, some) \in Seq(S) /\ Kept(Kept(text, some), fewer) = Kept(text, fewer)
<1> DEFINE Good(t) == /\ Kept(t, some) \in Seq(S)
                      /\ Kept(Kept(t, some), fewer) = Kept(t, fewer)
           T == {n \in Nat : \E t \in Seq(S) : Len(t) = n /\ ~Good(t)}
<1>1. CASE T # {}
  <2>1. PICK n \in T : \A l \in T : n <= l
    <3>1. T \subseteq Nat
      OBVIOUS
    <3> HIDE DEF T
    <3> QED
      BY <1>1, <3>1, LeastNumber
  <2>2. PICK t \in Seq(S) : Len(t) = n /\ ~Good(t)
    OBVIOUS
  <2>3. t # <<>>
    <3>1. Good(<<>>)
      BY KeptEmpty, EmptySeq
    <3> QED
      BY <2>2, <3>1
  <2>4. PICK u \in Seq(S), ch \in S : t = Append(u, ch)
    BY <2>3, SequenceEmptyOrAppend
  <2>5. Len(u) \in Nat /\ ~(n <= Len(u))
    BY <2>2, <2>4, AppendProperties
  <2>6. Good(u)
    BY <2>1, <2>5
  <2>7. /\ Kept(t, some) = IF ch \in some THEN Append(Kept(u, some), ch) ELSE Kept(u, some)
        /\ Kept(t, fewer) =
             IF ch \in fewer THEN Append(Kept(u, fewer), ch) ELSE Kept(u, fewer)
    BY <2>4, KeptAppend
  <2>8. Kept(t, some) \in Seq(S)
    BY <2>6, <2>7
  <2>9. CASE ch \in some
    <3> DEFINE v == Kept(u, some)
    <3>1. v \in Seq(S) /\ Kept(t, some) = Append(v, ch)
      BY <2>6, <2>7, <2>9
    <3> HIDE DEF v
    <3>2. Kept(Append(v, ch), fewer) =
            IF ch \in fewer THEN Append(Kept(v, fewer), ch) ELSE Kept(v, fewer)
      BY <3>1, KeptAppend
    <3>3. Kept(v, fewer) = Kept(u, fewer)
      BY <2>6 DEF v
    <3> QED
      BY <2>2, <2>7, <2>8, <3>1, <3>2, <3>3, Zenon
  <2>10. CASE ch \notin some
    BY <2>2, <2>6, <2>7, <2>8, <2>10
  <2> QED
    BY <2>9, <2>10
<1>2. CASE T = {}
  <2>1. Len(text) \in Nat
    OBVIOUS
  <2>2. Good(text)
    BY <1>2, <2>1
  <2> QED
    BY <2>2
<1> QED
  BY <1>1, <1>2

(* Texts with one name key have one number key and one phone key: what the *)
(* name key leaves out is neither letter nor digit.                        *)
LEMMA NameDecides ==
    ASSUME NEW text \in Seq(DOMAIN Fold), NEW other \in Seq(DOMAIN Fold),
           NormalizeName(text) = NormalizeName(other)
    PROVE  /\ NormalizeNumber(text) = NormalizeNumber(other)
           /\ NormalizePhone(text) = NormalizePhone(other)
<1> DEFINE shown == FoldedChars \ Spaces
<1>1. /\ (Letters \cup Digits) \cap FoldedChars \subseteq shown
      /\ Digits \cap FoldedChars \subseteq shown
  BY DirectoryAssumption
<1>2. ASSUME NEW t \in Seq(DOMAIN Fold)
      PROVE  /\ NormalizeNumber(t) = Kept(NormalizeName(t), Letters \cup Digits)
             /\ NormalizePhone(t) = Kept(NormalizeName(t), Digits)
  <2>1. Folded(t) \in Seq(FoldedChars)
    BY DEF Folded, FoldedChars
  <2> HIDE DEF shown
  <2>2. /\ Kept(Kept(Folded(t), shown), Letters \cup Digits) =
             Kept(Folded(t), Letters \cup Digits)
        /\ Kept(Kept(Folded(t), shown), Digits) = Kept(Folded(t), Digits)
    BY <1>1, <2>1, KeptTwice
  <2> QED
    BY <2>2, Zenon DEF NormalizeName, NormalizeNumber, NormalizePhone, shown
<1> QED
  BY <1>2

(* A text that is missing has only empty keys.                             *)
LEMMA MissingText ==
    NormalizeName(<<>>) = <<>> /\ NormalizeNumber(<<>>) = <<>> /\ NormalizePhone(<<>>) = <<>>
<1>1. Folded(<<>>) = <<>>
  BY DEF Folded
<1> QED
  BY <1>1, KeptEmpty DEF NormalizeName, NormalizeNumber, NormalizePhone

(* A full name finds its guest and nobody unrelated.                       *)
LEMMA FullNameFinds ==
    ASSUME NoNameHoldsAPhone
    PROVE  FullNameFindsItsOwn
<1> SUFFICES ASSUME NEW query \in Queries, NEW g \in DOMAIN Record,
                    NormalizeName(query) # <<>>, NormalizeName(query) \in NamesOf(g)
             PROVE  /\ g \in Matches(query)
                    /\ \A other \in Matches(query) : Related(other, query)
  BY Zenon DEF FullNameFindsItsOwn
<1>1. /\ query \in Seq(DOMAIN Fold)
      /\ \A r \in DOMAIN Record : \A field \in Fields : Record[r][field] \in Seq(DOMAIN Fold)
  BY DirectoryAssumption
<1>2. MatchesExactly(g, query)
  BY DEF MatchesExactly
<1>3. Matches(query) = {r \in DOMAIN Record : MatchesExactly(r, query)}
  BY <1>2 DEF Matches
<1>4. PICK own \in {"name", "kana"} : NormalizeName(Record[g][own]) = NormalizeName(query)
  BY DEF NamesOf
<1>5. NormalizePhone(Record[g][own]) = NormalizePhone(query)
  BY <1>1, <1>4, NameDecides DEF Fields
<1>6. ASSUME NEW other \in DOMAIN Record, MatchesExactly(other, query)
      PROVE  Related(other, query)
  <2>1. CASE /\ NormalizeNumber(query) # <<>>
             /\ NormalizeNumber(Record[other].number) = NormalizeNumber(query)
    <3>1. Record[other]["number"] # <<>>
      BY <2>1, MissingText
    <3> QED
      BY <2>1, <3>1 DEF Related, Fields
  <2>2. ~(/\ NormalizePhone(query) # <<>>
          /\ NormalizePhone(Record[other].phone) = NormalizePhone(query))
    BY <1>5 DEF NoNameHoldsAPhone
  <2>3. CASE NormalizeName(query) \in NamesOf(other)
    <3>1. PICK field \in {"name", "kana"} :
            NormalizeName(Record[other][field]) = NormalizeName(query)
      BY <2>3 DEF NamesOf
    <3>2. NormalizeNumber(Record[other][field]) = NormalizeNumber(query)
      BY <1>1, <3>1, NameDecides DEF Fields
    <3>3. Record[other][field] # <<>>
      BY <3>1, MissingText
    <3> QED
      BY <3>2, <3>3 DEF Related, Fields
  <2> QED
    BY <1>6, <2>1, <2>2, <2>3 DEF MatchesExactly
<1> QED
  BY <1>2, <1>3, <1>6

(* Whichever search is on its way, a full name finds its guest and drags   *)
(* nobody in, in every directory in which no name holds a phone number.    *)
THEOREM SearchFindsItsOwnCorrect ==
    ASSUME NoNameHoldsAPhone
    PROVE  KioskSpec => []SearchFindsItsOwn
<1>1. SearchFindsItsOwn
  BY FullNameFinds DEF SearchFindsItsOwn
<1> QED
  BY <1>1, PTL
=============================================================================
