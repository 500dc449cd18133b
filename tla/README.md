# A TLA+ model of the dBF2026 robot

At the dBF2026 stand a guest checks in, a guide robot fetches the guest's drink from a
second robot, and brings it to the table. This directory models the software of this
repository that makes it happen: the app server and its state machine, the kiosk page, the
camera's process, the voice process and the page an operator watches. TLC checks the modules
on small instances; TLAPS proves their safety for every number of guests, order ids, request
threads and turns, every queue length, window, cooldown, backoff and guard: every safety
invariant and safety action property of the runs, that the server with its robots, its pages
and its listeners is the state machine alone, and that the state machine implements an
abstract service.

    tlc -workers 2 -config state_machine.cfg MCStateMachine     # a run: see "Runs"
    for m in *Proofs.tla EventOrder.tla; do tlapm $m; done      # the proofs

## 1. The system

Three processes, two robots, browsers:

    camera, VLM ──> Themis client ── POST /api/visual/start ──┐
    microphone ───> voice UI ─────── POST /api/voice/start ───┤
    kiosk page ─── POST /api/checkin, POST DELETE /api/entry ─┼─> app server ── PF (guide robot)
         ▲                                                    │      │   └───── R2 (loads drinks)
         └──────────────── GET /api/events (SSE) ─────────────┴──────┘

| Component | State | Operations | Interacts with |
|---|---|---|---|
| **State machine** `app/state_machine.py` | phase, step, guest, request id, error, `_load_drink_skipped`, kiosk entry and when it was touched; all under one lock | `try_start`, `try_reset`, `try_skip_load_drink`, `record_kiosk_stage`, `clear_entry`, `start_external_entry`, `update`, `fail` | request threads call it; publishes a snapshot on every change |
| **Cycle runner** (same file) | a work queue; the place in its code | one thread: poll PF, poll R2, send load-drink, poll R2, notify PF | the state machine, the two clients |
| **PF and R2 clients** `app/clients` | none | one HTTP call each, its reply turned into an outcome | the robots |
| **R2, PF mocks** `mocks/` | R2: its last order and its phase | `load-drink`, `status`, `drink/placed` | called by the clients |
| **Routes** `app/routes` | none | check-in, reset, skip, entry, external start | one thread per request |
| **Trigger gate** `app/visual_trigger.py` | when it last accepted | `allow` | external start route |
| **Event stream** `app/sse.py`, `routes/events.py` | a queue per connected page | subscribe, first snapshot, publish, unsubscribe | state machine → pages |
| **Kiosk page** `static/app.js` | stage, selected reservation, last step, `myGuestName` | taps, fetch answers, stream events | server, stream |
| **Themis client and pipeline** `themis_video/` | socket, stop event; window of votes, armed flag, last trigger | receive a frame, analyse, post; `stop()` | camera, VLM, `/api/visual/start` |
| **Voice UI** `voice_ui/` | microphone queue, VAD buffer, speaker's two queues, conversation, silence count | cut, transcribe, ask the LLM, start, speak | microphone, speaker, LLM, `/api/voice/start` |
| **Progress announcer** `voice_ui/progress_announcer.py`, `sse_events.py`, `main.py` | last entry, last phase; the backoff of its next sleep | read the stream, say what is new, break off, sleep, connect again | event stream, speaker |
| **Reservations** `app/reservations.py` | none after the load | search by name, kana, number, phone | kiosk page |
| **Turn log and debug page** `voice_ui/turn_reporter.py`, `app/voice_turns.py`, `routes/voice_turns.py`, `static/debug.js` | the newest turns, on the server and in the page's table | report, log, publish; load once, then follow the stream | voice UI, event stream |
| **Mocks of camera and VLM, tools, settings, wiring** | constants | not modelled (section 7) | |

### What is hard about it, and what must be right

- **One guest at a time.** Check-ins, resets and skips run in threads of their own. `try_start`
  and `try_skip_load_drink` decide under the lock and queue the work after it; `try_reset`
  checks under the lock and acts in a second critical section. Must hold: exactly one holder
  per cycle, nothing published that mixes two cycles, an error that stays until somebody
  clears it.
- **Robots behind an unreliable network.** A POST that timed out may have been handled, may
  still arrive, in this cycle or the next. R2 goes on saying "completed" of the last order.
  Must hold: each drink loaded once, reported once, only after it was loaded.
- **A page behind an event stream.** Answers and events come late, reordered, or not at all;
  taps come meanwhile. Must hold: the page shows the server's state, confirms the reservation
  it shows, and, if it was connected when a cycle ended and has been since, forgets the guest
  on its form. A page that was away is not covered: section 3 says what it keeps.
- **Four ways to start.** Page, camera, voice and other browsers race for the one start step;
  entries of guests who left expire by a clock. Must hold: nobody touches the entry of a
  running cycle, a start the server took is seen.
- **A trigger in front of a crowd.** Two cooldowns with their own clocks, a vote window, an
  armed flag, and posts whose answer is lost. Must hold: one approach, one start; and a start
  at all; and a `stop()` that ends, wherever the thread is.
- **A robot that hears itself.** Audio arrives in real time, the loop that reads it does not
  run in real time. Must hold: the robot never answers its own voice, always the visitor's;
  no visitor who comes after a start or a pause of `IdleReset` inherits a conversation, which
  one who comes sooner does; a dead microphone ends the process.
- **A listener that outlives its connections.** The announcer says what changed since the last
  snapshot it heard, and that memory survives the breaks of the stream. Must hold: it is silent
  about something new only if it missed the end of something old, and an error that stays is
  heard of however often the stream breaks.
- **A table with two sources.** The debug page takes the log from one request and the turns
  from the stream, and loads the log once. Must hold: apart from the breaks and overlaps that
  `ShowsLog` names, it shows the log.
- **A search that is the identity check.** Three normalised keys, exact before partial, fields
  that may be missing. Must hold: a guest who types the full name is found, and drags nobody
  in who merely contains it.

The list `hazards` of PROJECT.json names each of these at its line, with the properties that
would catch it.

## 2. Modules

`A ──> B` reads "A extends or instantiates B".

    MCStateMachine ──> StateMachine ──> RobotClients
                           └──> DrinkService (refined)
    MCDrinkCycle ──> DrinkCycle ──> StateMachine, R2Robot
    MCKiosk ──> KioskCheckin ──> Kiosk ──> EventStream
                    └──> Reservations, DrinkService
    Announcer ──> StateMachine, EventStream
    DebugPage ──> EventStream
    FrontDoor ──> StateMachine, Kiosk
    CameraTrigger
    VoiceUi ──> Speaker, Dialogue

    StateMachineProofs ──> StateMachine
    DrinkCycleProofs   ──> DrinkCycle, StateMachineProofs
    KioskProofs        ──> KioskCheckin, EventOrder
    FrontDoorProofs    ──> FrontDoor, EventOrder, StateMachineProofs
    AnnouncerProofs    ──> Announcer, EventOrder, StateMachineProofs
    CameraProofs       ──> CameraTrigger
    VoiceProofs        ──> VoiceUi, DebugPage, EventOrder

| Module | Models | How it corresponds |
|---|---|---|
| `RobotClients` | `clients/pf_client.py`, `clients/r2_client.py` | A reply (timeout, transport error, code and body) to the outcome the runner branches on: `GetGuideRobotStatus`, `GetStatus`, ... |
| `DrinkService` | the abstract promise | `idle → serving → served → idle`, or `failed`, left by an operator |
| `StateMachine` | `state_machine.py`, with `routes/checkin.py` and `entry.py` as its callers | One action per critical section of the lock and per access outside it. `handler[h]` is what a request thread still has to do after releasing the lock, `runner` where the runner thread is |
| `R2Robot` | `mocks/r2_mock.py` | The remembered order; a phase moves on when somebody asks |
| `DrinkCycle` | all of the above with `mocks/pf_mock.py` and a network | Each call is one exchange that may be lost before or after the robot handled it; `LateArrival` is a timed-out POST that arrives |
| `EventStream` | `sse.py`, `routes/events.py`, EventSource | `Subscribe`, `SendSnapshot`, `Publish`, `Disconnect` of one page's connection |
| `Kiosk` | `static/app.js` | One action per callback |
| `Reservations` | `app/reservations.py` | `NormalizeName`, `NormalizeNumber`, `NormalizePhone`, and `Matches` for `search`, over texts of a few characters |
| `KioskCheckin` | page + stream + reservations + abstract server + other browser | Searches and the confirmation are in flight for any time; an answer to a search is one `Matches` can give |
| `FrontDoor` | page + stream + `StateMachine` + external starts + gate | `caller[source]` is the request thread between its looks at the state machine (`AskAvailable`, `PassGate`, `Enter`, `PublishStart`) |
| `CameraTrigger` | `themis_video/client.py`, `pipeline.py`, `vlm.py`, `vlm_server/`, `tools/run_themis_vlm.py` | `receiver` is the thread's place, `main` the place in `stop()`; `ReceiveText` is a frame the loop passes over; `Analyze`, `Post`, `Accepted`, ... are `process()` |
| `Speaker` | `voice_ui/tts.py` | Two queues, two threads, `was_speaking_during` |
| `Dialogue` | `voice_ui/dialogue.py` | Exchanges kept, when they are forgotten |
| `VoiceUi` | `mic.py`, `vad_segmenter.py`, `pipeline.py`, `main.py`'s check-in loop | `pc` is the step of `run_turn_once` that takes its own time |
| `Announcer` | `progress_announcer.py`, `sse_events.py`, the progress loop of `main.py`, next to `StateMachine` | `loop` is where the thread is: in its stream or in its sleep. `HandleSnapshot` is `handle_snapshot`; `StreamEnds` every way out of the stream |
| `DebugPage` | `turn_reporter.py`, `voice_turns.py` and its routes, `debug.js`'s table of turns | `AddTurn` and `PublishTurn` are the two halves of `add_turn`, `ListTurns` and `LoadDone` the two ends of the page's load |
| `StateMachineProofs`, `DrinkCycleProofs`, `KioskProofs`, `FrontDoorProofs`, `AnnouncerProofs`, `CameraProofs`, `VoiceProofs` | | theorems and proofs (section 5); `VoiceProofs` has those of `DebugPage` too, the last step of a turn of the voice process |
| `EventOrder` | | lemmas about a queue of events, for every listener's proofs |

A definition named `X_Something` beside `X` is `X` with a plausible bug (`BeginCycle_KeepsSkip`,
`CheckStop_Never`). No specification uses them. PROJECT.json pairs each property with one of
them that breaks it.

### Abstractions

- *StateMachine* leaves out the last robot statuses and their times, `entry_at`, all sleeps
  (every other thread may act between two steps of the runner). A robot call and the critical
  section that records its outcome are one action, since nothing shared is read between. The
  monotonic clock is `entry_age`, saturating at the idle limit. Messages are kinds.
- *EventStream* takes a publish as one step; its header says why no page can tell.
- *KioskCheckin* knows one confirmation in flight (the button is disabled) and an abstract
  server, which `StateMachine` implements. Of a snapshot it keeps what the page reads: the view
  its phase and step lead to, whether the step is `awaiting_checkin` (what `lastStep` keeps),
  and the guest.
- *FrontDoor* has the delays of reports, starts and the stream, and leaves those of searches
  and confirmations to *KioskCheckin*, the robots' other answers to *StateMachine*.
- *CameraTrigger* does not start a client again after `stop()`: no program here does. Frames
  are what the VLM makes of them.
- *VoiceUi*: a tick is a chunk of audio. Reading a chunk takes less than one, so the
  microphone's queue grows only while the loop transcribes, asks, starts or reports. What is
  heard is the visitor, the robot, or quiet. A transcription may raise, which ends the process
  (`TranscribeRaises`); the LLM, the start client and the reporter catch what they raise. Announcements come at any time; which ones do is
  *Announcer*'s.
- *Announcer*: a snapshot is the set of what calls for words, a voice start and an error. A
  snapshot equal to the one before it, and typed events, have the announcer say nothing and are
  not published. A listener more than `MaxInbox` behind loses its connection (the server's
  queue has no limit; a connection may break at any time anyway).
- *Reservations*: a character is folded by a table (`Fold`) as NFKC and `casefold` fold it; a
  missing field is the empty text. What a normalisation keeps is told by a set of folded
  characters (`Kept`), as `isalnum` and `isdigit` tell it. A reservation is known by its guest, so the page's model has
  no two reservations of one name, which the example directory has: what the page stores of
  both (`myGuestName`) is the same text. The phone mask is left out.
- *DebugPage*: a turn is its number. The voice process posts one turn at a time, but a post it
  gave up may be handled later, so posts overtake each other.

## 3. Runs

| Run | Specification and bounds | Shows |
|---|---|---|
| `state_machine` | `Spec`; 2 guests, 2 request threads, 2 ids, `EntryIdle` 2, queue ≤ 2; symmetric in threads and ids | `OneOwner`, `SnapshotCoherent`, `SkipOnlyThisCycle`, `ErrorHeld`: who holds a cycle, what may be published of it, whose skip counts, who may clear an error |
| `drink_cycle` | `DrinkFairSpec`; 3 ids: the initial one and two cycles | `OnceAGuest`, `PlacedAfterLoaded`, `TimeoutsAreRetried`, `NoSpuriousMismatch`, `DrinkCycleEnds`: each drink loaded and reported once and in this order, over a network that loses and delays |
| `kiosk` | `KioskFairSpec`; 2 guests, ≤ 2 events under way, ≤ 1 search; queries of ≤ 3 of 8 characters | `PageCurrent`, `ConfirmsWhatIsShown`, `SearchFindsItsOwn`, `NextGuestFresh`, `ErrorShown`: the page agrees with the server and with the reservation the guest chose, and forgets it after a cycle whose end it was connected to |
| `front_door` | `FrontFairSpec`; one guest, thread, source; `EntryIdle` 2, `Cooldown` 1, 1 report of each kind, 1 event under way | `PageShowsServer`, `EntryOfCycleKept`, `StartReachesKiosk`: starts from outside against a page in use |
| `camera` | `CameraFairSpec`; window 3, threshold 2, cooldowns 2 and 2 | `OneStartPerApproach`, `SocketsClosed`, `ApproachReported`, `StopEnds` |
| `voice` | `VoiceFairSpec`; guard 1, idle reset 5, utterance ≤ 2 chunks, silence 1, backlog ≤ 2, 2 sentences, exit at 2 | `VisitorNotEcho`, `OwnVoiceDiscarded`, `PromptOfThisVisitor`, `MicLossEndsProcess` |
| `announcer` | `AnnouncerSpec`; 1 guest, 1 request thread, 2 ids, `EntryIdle` 2, ≤ 2 snapshots under way, backoff 1 to 3 | `SaidUnlessMissed`, `ErrorHeard` of the listener; `SkipUnblocks`, `AbandonedKioskReleased`, `ImplementsService` of the server it hears |
| `debug_page` | `DebugSpec`; 4 turns, a table of 2, ≤ 2 events under way | `ShowsLog`: the page's table against the server's log |

Each also checks its type invariant.

The bounds and what they let happen:

- *Two request threads* are the fewest that race. The theorems of section 5 hold for any
  number. Two guests tell "my cycle" from "another's". `QueueBound` cuts behaviours with more
  than two pieces of work queued, which only a reset that landed in a cycle makes; every
  property is conditioned on no such reset, and without one `Coherent` says the queue holds
  one at most.
- *Two cycles* are enough for an answer, a POST or a skip of one cycle to reach the next.
  The mock R2 remembers one order, so a third says nothing new.
- *Two events under way*: one that is stale and one that overtakes it. In `front_door`, one,
  since a snapshot and a `ui_action` in any order are the case and `kiosk` has the longer queue.
- *Window 3, threshold 2*: a vote can enter, count and leave; *cooldowns of 2* are at their
  limit, under it, and over. Camera's and server's are equal numbers on clocks that start at
  different moments, as in the default settings.
- *Announcer*: two ids are two cycles, so an error can be missed and followed by another; two
  snapshots under way are a beginning and its end. A backoff of 1, 2, 3 passes its limit once
  (4 is cut to 3). One request thread: `ImplementsService` needs it (section 5, point 5).
- *Debug page*: four turns fill a table of two and push two out, with another page opened
  meanwhile.
- *Reservations*: one name is part of the other's, one record lacks its kana, one its phone; a
  query can be each full name, a part, spaced, a number in either case and with its sign left
  out, a phone, nothing but a sign, or empty. `MCKiosk` holds the records.
- *Voice*: an utterance is longer than the guard, and the limits (idle reset, horizon, exit
  threshold, queues) are reached and passed.

Deadlock is checked in every run. Where the voice process exits, `VoiceUi` says so with a
stuttering disjunct (`Exited`); a stopped camera leaves a server and a clock that go on.

### Violations

Each shows a disagreement between the code and what the repository says of it. PROJECT.json
quotes both.

| Run | Property | What TLC finds |
|---|---|---|
| `reset_race` | `OneGuestAtATime` | Two operators reset the same error, and a check-in comes between one's check and its effect (`state_machine.py:198-201`). The new cycle is forgotten while its work is still queued; the server takes another guest. |
| `own_name` | `OwnNameSaved` | The back buttons stay enabled while a check-in is in flight. The page reads `selectedReservation` again when the answer comes (`app.js:175`) and stores the name of a reservation chosen meanwhile. |
| `abandoned_kiosk` | `TakenStartOpensSearch` | The page opens the search only from its start stage (`app.js:259`). After a guest left it elsewhere the server takes a start (202) that the page ignores. |
| `own_voice` | `OwnVoiceNeverActedOn` | `was_speaking_during` reckons back from now. An utterance that waited in the microphone's queue while the loop asked the LLM is compared with the wrong window, and the robot answers itself. `voice` shows that the check is right when the loop keeps up (`OwnVoiceDiscarded`). |

Behaviour worth knowing that contradicts no document, and that the models show:

- A skip answered "pending" while POST load-drink is in flight does not count if R2 refuses
  that POST (`state_machine.py:302-310`): the cycle fails and the operator skips a second time,
  from the error. `SkipUnblocks` promises no more than that.
- "A full name never drags in unrelated guests" (`search`, `reservations.py:84`) holds of the
  example directory and not of every one: a query is also taken for a phone number, of which only
  the digits count. Were somebody's kana `c12` and another's phone `1-2`, the first guest's full
  name would find both (TLC's counterexample to `SearchFindsItsOwn` over such a directory).
  `NoNameHoldsAPhone` excludes it, and the proof needs nothing else of the directory.
- Disabling the back buttons would not be enough to mend `own_name`: of two searches in flight
  the first answer leads to the confirmation, and the second, which comes while it is in flight,
  selects another guest. `HeldSelectionSavesOwnName` says what is enough.
- The announcer is silent about an error that follows one whose end it did not hear, and about
  a voice start that follows an abandoned voice start: nothing changed in what it compares.
- The debug page loads its log once. A turn published while its stream is down never appears
  until the page is reloaded; one that was logged before the load was answered is shown twice
  if its event comes after the load, and one that arrives before a load answered earlier is
  wiped by it.

- "A finished (or reset) cycle puts the kiosk back to the start screen" (`app.js:202`) holds of
  a page that hears of the cycle. One whose stream was down from before a cycle until after it
  goes from one `awaiting_checkin` to the next: `lastStep` tells it nothing, and it keeps the
  form, the reservation at its confirm stage included, for the next guest. `NextGuestFresh` is
  about the other pages: it counts from an end that met an open connection, as long as that
  connection holds. Nor does it count what comes after the reset: a search answered only then
  selects its guest again (`SearchAnswer` asks for no stage). The model has both behaviours.

What the conditions in the properties leave out: a property that begins with a history variable
claims nothing of the behaviours it excludes. `OneOwner`, `SnapshotCoherent` and what follows
from them end with a reset that landed in a cycle (`reset_in_cycle`; `reset_race` shows what
happens then). The half of `OnceAGuest` about R2 and `NoSpuriousMismatch` end with a POST that
reached R2 a cycle late (`overtaken`). `OneStartPerApproach` ends with a post whose outcome
never came (`unsure`). `OwnVoiceDiscarded` and `VisitorNotEcho` are about utterances taken up as
they end (`behind = 0`; `own_voice` shows one that is not). `ShowsLog` is about a page whose load
met no break and no overlap (`calm`), `NextGuestFresh` about the ends that make `due`.

## 4. Liveness and its fairness

Fairness is assumed of what the code or its platform does by itself, never of people.

- **Threads go on** (weak): a request thread past its critical section, the runner, the loop of
  the voice process, the speaker's threads, the camera's receiver. Clocks advance (weak).
- **The stream** (weak): the browser takes an event that has arrived, and EventSource
  reconnects by itself.
- **Robots and network** (strong): a call repeated without end is in the end answered with
  something that moves the cycle on. The runner repeats without limit and without giving up
  (`state_machine.py:272-341`), so nothing weaker gives progress. POST load-drink is exempt in
  `Fairness`: a cycle may stay in `sending_load_drink` for ever, and `SkipUnblocks`
  says that a skip, once taken, gets it out of that step, onward or into an error.
  `DrinkFairSpec` adds an R2 that answers, and then `DrinkCycleEnds`.
- **The announcer**: its sleep is over in the end (weak); the network lets its connection, the
  first snapshot and the events after it through time and again (strong), since each may be
  broken off at any time before it is done.
- **Camera** (strong): connections, frames and VLM answers succeed time and again, and so does
  the look at the server's gate; `ApproachReported` needs somebody who stays.
- No fairness on guests, operators, starts, resets, faults, the loss of connections or the
  microphone.

## 5. Proofs

Every proof is checked by tlapm to the last leaf (SMT, Zenon, and PTL for the temporal
steps). The safety specifications are what is proved about; fairness is used nowhere.

### Assumptions

They are the ASSUMEs of the modules, which TLC evaluates in the runs. All sets of guests, ids,
request threads and sources are arbitrary, infinite ones included.

| Assumption | Says | In the code |
|---|---|---|
| `NoneAssumption`, `StateMachineAssumption`, `KioskAssumption` | `None` is neither an id nor a guest; the idle limit is a positive number | `None` and `null` are no strings |
| `InitialIdAssumption` | R2 remembers some order from the start | `r2_mock.py:11`: the id "none" |
| `RecordAssumption`, `MaxSearchesAssumption` | guests are those of the directory | section 2, abstractions |
| `DirectoryAssumption` | `Fold` folds every character that is written or typed; a space is neither letter nor digit | `unicodedata.normalize` is total; no character of `_WHITESPACE` is `isalnum` |
| `MaxInboxAssumption`, `FrontDoorAssumption`, `AnnouncerAssumption`, `DebugAssumption` | bounds are positive; a source is a source; the first backoff is not beyond the last | the constants of `main.py:31-32`, `max_turns` of `voice_turns.py:20` |
| `CameraAssumption` | the threshold is at most the window | `pipeline.py:35` refuses anything else |
| `SpeakerAssumption`, `DialogueAssumption`, `VoiceAssumption` | bounds are positive; the saturating clock reaches beyond the longest utterance and the guard | `Horizon` is the model's own: a clock that saturates must tell apart what the code compares |

Three theorems have a hypothesis of their own besides `Spec`: `ImplementsServiceCorrect` (no
reset lands in a cycle), `HeldSelectionSavesOwnName` (what is selected stays while a check-in is
in flight), and `SearchFindsItsOwnCorrect` (`NoNameHoldsAPhone`, which is about the data and
which `MCKiosk` states of its own directory). Section 3 shows what happens without each. The
theorems named `Serial...` and `AnnouncerImplementsService` are about one request thread.

### The state machine (`StateMachineProofs`)

1. `TypeCorrect`: `TypeOK` is inductive. One lemma per group of actions, one step per action.
2. `CoherentCorrect`: the inductive invariant. None of the properties is inductive:
   that the runner alone holds the cycle depends on the queue being empty then, on no request
   thread being about to put, and on the shared step being the one the runner's place belongs
   to. `Coherent` joins these: `Exclusive` (at most one of threads, queue, runner holds work),
   `WorkOfStep` (what is held belongs to the phase and step), `SnapshotCoherent`,
   `RunnerInStep` and `SkipOnlyThisCycle`, all as long as no reset has landed in a cycle
   (`~reset_in_cycle`). `RunnerInStep` and `EndsPlacedOrReset` are proved and in no run of
   their own.
3. From it: `OneOwnerCorrect`, `SnapshotCorrect`, `RunnerInStepCorrect`,
   `SkipOnlyThisCycleCorrect`, and the action properties `ErrorHeldCorrect`,
   `EndsPlacedOrResetCorrect` and `CycleInOrderCorrect`: a cycle takes its steps in order, with
   one guest and one request id, and a skip or a resumption leaves none of them out.
4. `ImplementsServiceCorrect`: with `ServiceState` as the refinement mapping, every step is a
   step of `DrinkService` or a stutter, in every behaviour in which no reset lands in a cycle.
5. `SerialImplementsService`: with one request thread none ever does (a reset's check and
   effect have no check-in between them), so the refinement holds outright. This is what makes
   a server that handles its requests one after another, or a `try_reset` under one lock,
   right; `reset_race` is what happens otherwise, and `SerialOneGuestAtATime` says that the
   property it breaks then holds.

### What the other modules take over from it

`DrinkImplementsStateMachine`, `FrontImplementsStateMachine`, `AnnouncerImplementsStateMachine`:
each composition, with robots and a network, with a page, routes and a gate, with a listener,
is a behaviour of `StateMachine`. Every theorem above holds in it, and the proofs below use
them. The front door needs its type invariant for this: the page confirms only a reservation
it has. `AnnouncerImplementsService` states the consequence that the run `announcer` checks.
`KioskServerIsDrinkService`: the abstract server of `KioskCheckin` takes steps of
`DrinkService` only. So page and state machine meet in that service.

### The drink (`DrinkCycleProofs`)

`DrinkInv` holds together four parts that need each other and `Coherent`.

- `SkipMeant`: who resumes a cycle, wherever it is held, does so by an operator's skip of this
  very order. Without it a resumed cycle could report a drink nobody skipped.
- `Reported`: `PlacedAfterLoaded` and the half of `OnceAGuest` about PF, with what the runner
  knows on the way: from the judgement on, its order is loaded or skipped; after the
  notification it is at the end of the cycle or in the error. Here it matters that
  `NotifyPFPlaced` is not repeated.
- `OneOrder`: from POST load-drink on R2 is free or has this order, so a resend is recognised
  (`OnceAGuest`) and no answer is another's (`NoSpuriousMismatch`). It is where "no POST reached
  R2 a cycle late" is needed (`Undisturbed`): R2 remembers one order.
- `OnlyLate`: as long as robots are only ever late, R2 has not failed and no step can fail but
  the last (`TimeoutsAreRetried`).

### The listeners (`KioskProofs`, `FrontDoorProofs`, `AnnouncerProofs`, `VoiceProofs`)

What has arrived says nothing by itself; each invariant is about what is on its way.

- `PageFollows` and `FrontFollows` (for `PageCurrent`, `PageShowsServer`): the last snapshot in
  the queue is of the server as it is, or none is queued and the page shows it. A connection
  between its subscription and its first snapshot may carry none; a first snapshot put in front
  of newer ones does no harm. `EventOrder` has the lemmas about appending, prepending and taking.
- `ErrorDrains`, the measure behind `ErrorShown`: while the server stays in an error nothing is
  published, so on a connection that holds the events run out, and `PageCurrent` says what a page
  without any shows.
- `DueReminded` (for `NextGuestFresh`; `ConfirmsWhatIsShown` is inductive): as long as the form
  holds what it should forget, the connection that saw the cycle end is open and the page is
  reminded (`Reminded`): the next form resets it, because the page last saw a cycle or because
  a snapshot of one is queued before it. `EndReminds` is the step that matters: when a cycle
  ends, `PageFollows` says that a connected page shows it already or has it queued. `OutOfView`
  says that a page that shows a cycle or its error remembers it in `lastStep`.
- `CheckinPastStart` (for `EntryOfCycleKept`): an entry is a cycle's only past the start step.
  It needs no condition on resets, unlike `Coherent`.
- `Follows` (for `SaidUnlessMissed`): the announcer knows the present, or has it last in its
  queue, or missed the end of what it still believes; and what it has not said is new to it,
  has its end queued before it, or was missed.
- `WillShowLog` (for `ShowsLog`): the table reaches the log through the events on their way,
  one after another. The tables in between are a function over the queue (`LeadsToLog`), which
  the proof carries along: pushed at its end by a publish, dropped at its start by an arrival.
  Duplicates and turns pushed out of the table are decided on each of them.

### The stored name (`KioskProofs`)

`own_name` is violated because the page reads what is selected again when the answer comes.
`HeldSelectionSavesOwnName` is its counterpart: where nothing selects anew and nothing resets the
form while a check-in is in flight, the stored name is the cycle's. `NameFollows` is the
invariant: what is in flight is what is selected; a check-in that was taken is the server's cycle
as long as that lasts, and the page is told of it only by this answer.

### The search (`KioskProofs`)

A full name finds its guest because two texts of one normalised name have one normalised number
and one normalised phone (`NameDecides`): the spaces go first, and what is kept of what is kept is
what both keep (`KeptTwice`). That is an induction over the text. `LeastNumber`, from the library's
theorem that `<` is well-founded, says that a set of numbers has a least element, and the proofs
look at the least length of a text that would refute them. `KeptIsKeeping` ties the recursive
function inside `Kept` to the set of equations it satisfies: there is one (`KeepingExists`), and
only one (`KeepingAlike`). What is exact then has the query's number, the query's phone, or the
query's name; the phone is where `NoNameHoldsAPhone` is needed.

### The camera (`CameraProofs`)

`SocketsClosed` is inductive. `OneStartPerApproach` needs `Approach`: the thread waits for one
post, only while armed, and either it is on its way or its answer is (`PostAwaited`); a start
that was taken has its answer coming or has disarmed the trigger, unless the outcome of a post
never came (`StartsCounted`). Neither cooldown is used: one approach is one start because of the
armed flag, and the cooldowns only put off the next.

Behind the liveness TLC checks there are three theorems. `DisarmedByStart`: the trigger gives an
approach up only for a start that the server took (`ApproachReported`). `StopBounds`: once the
event is set, each step of the thread brings it nearer its end (`StopEnds`). `StopHeard`: `stop()`
sets the event and then looks for a socket, the thread stores its socket and then looks at the
event, so one of them sees the other, and no thread is left waiting on an open socket.

### The voice (`VoiceProofs`)

- `VoiceTyped`: types, and `SpeechEnds`: speech queued still fits the VAD's buffer. It bounds
  the utterance, on which the clock's reach (`Horizon`) rests.
- `EchoInv`: for every chunk in the queue and for the buffer, how long ago it was recorded
  (`Since`, `Held`) against the speaker's clock. A chunk recorded away from the robot's voice
  lies in a silence at least that long (`GuardKnows`); a chunk with the robot's voice lies within
  the guard of it (`OwnRecent`). The verdict at the cut follows in both directions:
  `VisitorNotEcho` and `OwnVoiceDiscarded`.
- `HistoryIsRecent` (for `PromptOfThisVisitor`): what is kept was said at the last chat, since
  when nothing was asked of the server.
- `MicLossCountsDown`, the measure behind `MicLossEndsProcess`: once the microphone is gone, the
  chunks it left, and with their number unchanged what `Remaining` counts, only become fewer.

Only model-checked:

- all liveness (`DrinkCycleEnds`, `ErrorShown`, `StartReachesKiosk`, `ApproachReported`,
  `StopEnds`, `MicLossEndsProcess`, `SkipUnblocks`, `AbandonedKioskReleased`, `ErrorHeard`):
  fairness and ENABLED are out of the prover's reach; of four of them the measure or the safe
  half is proved (`ErrorShown`, `ApproachReported`, `StopEnds`, `MicLossEndsProcess`, above);
- the four violations, which are counterexamples.

## 6. Plan

Done, in the order of importance: `RobotClients`, `StateMachine`, `DrinkService`, their proofs,
`R2Robot`, `DrinkCycle`, `EventStream`, `Kiosk`, `KioskCheckin`, `FrontDoor`, `CameraTrigger`,
`Speaker`, `Dialogue`, `VoiceUi`, `Reservations`, `Announcer`, `DebugPage`; then the proofs of
every module that has a run, each after TLC had checked its inductive invariant.

Each violation but `abandoned_kiosk` has its counterpart, what holds and under which condition:
`SerialOneGuestAtATime` of `reset_race`, `HeldSelectionSavesOwnName` of `own_name`,
`OwnVoiceDiscarded` of `own_voice`.

Next:

1. A counterpart of `abandoned_kiosk`. The server's entry and the page's stage agree only as far
   as reports arrive, and reports may be lost, so the condition has to be about the network.
2. A measure behind `DrinkCycleEnds`, as `StopBounds` is behind `StopEnds`, from `CycleInOrder`
   and R2's phases.
3. Shorter proofs of the steps of `DrinkCycle` and `VoiceUi`, where one frame lemma could stand
   for several actions.

## 7. What is not modelled, and why

- *The phone mask and the public fields of a reservation*: functions of one record, without
  state; a unit test says all there is to say.
- *The debug page's display of the state and its skip button*: the display shows the last
  snapshot as the kiosk's does, the button is one request, the skip of `StateMachine`.
- *App factory, configuration, page routes, settings, frames, start-up of the processes*: they
  run once and wire the rest together; values are constants.
- *Camera and VLM mocks, tools*: stateless or one-shot; the model takes any frame and answer.
- *Validation of request bodies, proxy headers, logging, texts, layout, audio and images*: no
  property is about them.
- *`HistoryTurns` = 0*, where `history[:-0]` cuts nothing: excluded by an assumption.
- *Short pauses of the microphone*: `VoiceUi` knows audio that comes and audio that has ended,
  not a device that stops for a second and goes on.
- *The speaker's cache of sentences made in advance, its probe of the engine and the output
  device; the Themis client's counters and health report*: they change how fast a sentence is
  ready or what a status line says, and no decision of the process.
- *A camera client stopped while its thread is still in a call, then started again*: no program
  here does it.
