---------------------------- MODULE StateMachine ----------------------------
(***************************************************************************)
(* src/app/state_machine.py: the StateMachine object every thread of the   *)
(* app server shares, and StateMachineRunner, the one thread that walks a  *)
(* guest's cycle through PF and R2.                                        *)
(*                                                                         *)
(* An action is one critical section of StateMachine._lock, or one access  *)
(* the code makes outside it (the queue, the unlocked read of              *)
(* _load_drink_skipped).  A call of a robot and the critical section that  *)
(* records its outcome are one action: nothing shared is read in between.  *)
(* The sleeps (_wait_before_step, the poll interval) are no actions: every *)
(* other thread may act between any two actions of the runner.             *)
(*                                                                         *)
(* Each robot call takes the reply as a parameter.  Here the reply is any  *)
(* reply; DrinkCycle conjoins the robots that give them.                   *)
(***************************************************************************)
EXTENDS Naturals, Sequences, RobotClients

CONSTANTS Guests,     \* the guest names of the reservations
          Handlers,   \* the server's request threads
          EntryIdle   \* _entry_idle_seconds, in ticks of the monotonic clock

ASSUME StateMachineAssumption ==
    /\ None \notin Guests
    /\ EntryIdle \in Nat \ {0}

VARIABLES
    phase, step, guest_name, request_id, error_message,
    skipped,       \* _load_drink_skipped
    entry,         \* [source, stage]: _entry_source and _entry_stage
    entry_age,     \* _monotonic() - _entry_touched, saturating at EntryIdle
    queue,         \* StateMachineRunner._start_signal: the work to run
    handler,       \* what each request thread does after releasing the lock
    runner,        \* where the runner thread is
    rid,           \* the request_id argument of the runner's current cycle
    result,        \* the R2 result _poll_r2_active is looking at
    message,       \* the error message the runner is about to store
    reset_in_cycle \* history: some reset was applied while a cycle was running

cycleVars  == <<phase, step, guest_name, request_id, error_message, skipped>>
entryVars  == <<entry, entry_age>>
localVars  == <<rid, result, message>>
vars == <<cycleVars, entryVars, queue, handler, runner, localVars,
          reset_in_cycle>>

Phases == {"waiting", "active", "error"}
Steps  == {"awaiting_checkin", "polling_pf_ready", "polling_r2_ready",
           "sending_load_drink", "polling_r2_active", "notifying_pf_placed"}
ExternalSources == {"visual", "voice"}
KioskStages     == {"start", "select"}
NoEntry  == [source |-> "none", stage |-> "none"]
NoResult == [outcome |-> "timeout", request_id |-> None]
Messages == {"none", "pf_status", "r2_status", "load_drink", "request_id",
             "placed", "internal"}
RunnerPCs == {"idle", "resume", "poll_pf", "pf_ready", "poll_r2", "r2_ready",
              "send", "post", "loaded", "poll_active", "judge", "served",
              "notify", "placed", "fail"}
HandlerPCs == {"free", "put_start", "put_resume", "reset"}

TypeOK ==
    /\ phase \in Phases
    /\ step \in Steps
    /\ guest_name \in Guests \cup {None}
    /\ request_id \in OptionalIds
    /\ error_message \in Messages
    /\ skipped \in BOOLEAN
    /\ entry \in [source : ExternalSources \cup {"screen", "none"},
                  stage  : KioskStages \cup {"checkin", "none"}]
    /\ entry_age \in 0..EntryIdle
    /\ queue \in Seq({"start", "resume"})
    /\ handler \in [Handlers -> HandlerPCs]
    /\ runner \in RunnerPCs
    /\ rid \in OptionalIds
    /\ result \in R2Results
    /\ message \in Messages
    /\ reset_in_cycle \in BOOLEAN

Init ==
    /\ phase = "waiting" /\ step = "awaiting_checkin"
    /\ guest_name = None /\ request_id = None /\ error_message = "none"
    /\ skipped = FALSE
    /\ entry = NoEntry /\ entry_age = 0
    /\ queue = <<>>
    /\ handler = [h \in Handlers |-> "free"]
    /\ runner = "idle" /\ rid = None /\ result = NoResult /\ message = "none"
    /\ reset_in_cycle = FALSE

-----------------------------------------------------------------------------
(* How a check-in was entered: the kiosk, a camera or a voice start *)

AwaitingCheckin == phase = "waiting" /\ step = "awaiting_checkin"

InCycle == phase # "error" /\ step # "awaiting_checkin"

EntryInProgress == entry.stage \in KioskStages

KioskSource == IF EntryInProgress THEN entry.source ELSE "screen"

(* Mutant: an entry once begun blocks external starts whatever its age.    *)
ExternalStartAvailable_NoIdle == AwaitingCheckin /\ ~EntryInProgress

ExternalStartAvailable ==
    AwaitingCheckin /\ (EntryInProgress => entry_age >= EntryIdle)

SetEntry(source, stage) ==
    /\ entry' = [source |-> source, stage |-> stage]
    /\ entry_age' = 0

StartExternalEntry(source) ==
    /\ ExternalStartAvailable
    /\ SetEntry(source, "start")
    /\ UNCHANGED <<cycleVars, queue, handler, runner, localVars,
                   reset_in_cycle>>

RecordKioskStage(stage) ==
    /\ AwaitingCheckin
    /\ SetEntry(KioskSource, stage)
    /\ UNCHANGED <<cycleVars, queue, handler, runner, localVars,
                   reset_in_cycle>>

ClearEntry ==
    /\ AwaitingCheckin
    /\ entry.source # "none"
    /\ entry' = NoEntry /\ entry_age' = 0
    /\ UNCHANGED <<cycleVars, queue, handler, runner, localVars,
                   reset_in_cycle>>

(* The clock matters to an entry in progress only: the other stages are    *)
(* never asked how old they are.                                           *)
Tick ==
    /\ EntryInProgress
    /\ entry_age < EntryIdle
    /\ entry_age' = entry_age + 1
    /\ UNCHANGED <<cycleVars, entry, queue, handler, runner,
                   localVars, reset_in_cycle>>

-----------------------------------------------------------------------------
(* The request threads: check-in, reset, skip load-drink *)

BeginFields(guest) ==
    /\ phase' = "waiting"
    /\ step' = "polling_pf_ready"
    /\ guest_name' = guest
    /\ request_id' = None
    /\ error_message' = "none"
    /\ SetEntry(KioskSource, "checkin")

(* Mutant: the skip of an earlier cycle is not cleared.                    *)
BeginCycle_KeepsSkip(guest) == BeginFields(guest) /\ UNCHANGED skipped

BeginCycle(guest) == BeginFields(guest) /\ skipped' = FALSE

(* Mutant: a check-in is taken whatever the server is doing.               *)
TryStart_Anytime(h, guest) ==
    /\ handler[h] = "free"
    /\ BeginCycle(guest)
    /\ handler' = [handler EXCEPT ![h] = "put_start"]
    /\ UNCHANGED <<queue, runner, localVars, reset_in_cycle>>

TryStart(h, guest) ==
    /\ handler[h] = "free"
    /\ AwaitingCheckin
    /\ BeginCycle(guest)
    /\ handler' = [handler EXCEPT ![h] = "put_start"]
    /\ UNCHANGED <<queue, runner, localVars, reset_in_cycle>>

PutWork(h, work, pc) ==
    /\ handler[h] = pc
    /\ queue' = Append(queue, work)
    /\ handler' = [handler EXCEPT ![h] = "free"]
    /\ UNCHANGED <<cycleVars, entryVars, runner, localVars,
                   reset_in_cycle>>

PutStart(h)  == PutWork(h, "start", "put_start")
PutResume(h) == PutWork(h, "resume", "put_resume")

(* try_reset looks at the phase under the lock and releases it ...         *)
TryReset(h) ==
    /\ handler[h] = "free"
    /\ phase = "error"
    /\ handler' = [handler EXCEPT ![h] = "reset"]
    /\ UNCHANGED <<cycleVars, entryVars, queue, runner, localVars,
                   reset_in_cycle>>

(* Mutant: the old request id stays in the snapshot.                       *)
ToWaitingStep0_KeepsId ==
    /\ phase' = "waiting"
    /\ step' = "awaiting_checkin"
    /\ guest_name' = None
    /\ error_message' = "none"
    /\ entry' = NoEntry /\ entry_age' = 0
    /\ UNCHANGED <<skipped, request_id>>

(* _load_drink_skipped is not among the fields.                            *)
ToWaitingStep0 ==
    /\ phase' = "waiting"
    /\ step' = "awaiting_checkin"
    /\ guest_name' = None
    /\ request_id' = None
    /\ error_message' = "none"
    /\ entry' = NoEntry /\ entry_age' = 0
    /\ UNCHANGED skipped

(* ... and changes the state in a second critical section.                 *)
ApplyReset(h) ==
    /\ handler[h] = "reset"
    /\ ToWaitingStep0
    /\ handler' = [handler EXCEPT ![h] = "free"]
    /\ reset_in_cycle' = (reset_in_cycle \/ InCycle)
    /\ UNCHANGED <<queue, runner, localVars>>

SkipPending(h) ==
    /\ handler[h] = "free"
    /\ step = "sending_load_drink" /\ phase # "error"
    /\ skipped' = TRUE
    /\ UNCHANGED <<phase, step, guest_name, request_id, error_message,
                   entryVars, queue, handler, runner, localVars,
                   reset_in_cycle>>

(* Mutant: the cycle is queued again although its runner is still in it.   *)
SkipResume_Always(h) ==
    /\ handler[h] = "free"
    /\ step = "sending_load_drink"
    /\ skipped' = TRUE
    /\ phase' = "waiting"
    /\ error_message' = "none"
    /\ handler' = [handler EXCEPT ![h] = "put_resume"]
    /\ UNCHANGED <<step, guest_name, request_id, entryVars, queue, runner, localVars,
                   reset_in_cycle>>

SkipResume(h) ==
    /\ handler[h] = "free"
    /\ step = "sending_load_drink" /\ phase = "error"
    /\ skipped' = TRUE
    /\ phase' = "waiting"
    /\ error_message' = "none"
    /\ handler' = [handler EXCEPT ![h] = "put_resume"]
    /\ UNCHANGED <<step, guest_name, request_id, entryVars, queue,
                   runner, localVars, reset_in_cycle>>

HandlerFinish(h) == PutStart(h) \/ PutResume(h) \/ ApplyReset(h)

HandlerStep(h) ==
    \/ \E guest \in Guests : TryStart(h, guest)
    \/ TryReset(h)
    \/ SkipPending(h)
    \/ SkipResume(h)
    \/ HandlerFinish(h)

-----------------------------------------------------------------------------
(* The runner thread *)

RunnerAt(pc) == runner = pc
Goto(pc)     == runner' = pc

RunnerFrame == UNCHANGED <<queue, handler, reset_in_cycle>>

GetWork ==
    /\ RunnerAt("idle")
    /\ queue # <<>>
    /\ Goto(IF Head(queue) = "start" THEN "poll_pf" ELSE "resume")
    /\ queue' = Tail(queue)
    /\ UNCHANGED <<cycleVars, entryVars, handler, localVars,
                   reset_in_cycle>>

ResumeAfterLoadDrink ==
    /\ RunnerAt("resume")
    /\ rid' = request_id
    /\ Goto("loaded")
    /\ UNCHANGED <<cycleVars, entryVars, result, message>>
    /\ RunnerFrame

(* _update(step=...): the step moves on, nothing else does.                *)
EnterStep(s) ==
    /\ step' = s
    /\ UNCHANGED <<phase, guest_name, error_message, skipped,
                   entryVars, result, message>>
    /\ RunnerFrame

(* What the runner does with an outcome: go on, call again, or fail.       *)
Branch(outcome, proceed, retry, next, again, msg) ==
    \/ outcome \in proceed /\ Goto(next) /\ UNCHANGED message
    \/ outcome \in retry /\ Goto(again) /\ UNCHANGED message
    \/ outcome \notin proceed \cup retry /\ Goto("fail") /\ message' = msg

PollPFReady(r) ==
    /\ RunnerAt("poll_pf")
    /\ Branch(GetGuideRobotStatus(r), {"ready"}, {"initializing", "timeout", "retryable_error"},
              "pf_ready", "poll_pf", "pf_status")
    /\ UNCHANGED <<cycleVars, entryVars, rid, result>>
    /\ RunnerFrame

EnterPollingR2Ready ==
    /\ RunnerAt("pf_ready")
    /\ EnterStep("polling_r2_ready")
    /\ Goto("poll_r2")
    /\ UNCHANGED <<request_id, rid>>

PollR2Ready(r) ==
    /\ RunnerAt("poll_r2")
    /\ Branch(GetStatus(r).outcome, {"completed"}, {"loading", "returning", "timeout"},
              "r2_ready", "poll_r2", "r2_status")
    /\ UNCHANGED <<cycleVars, entryVars, rid, result>>
    /\ RunnerFrame

EnterSendingLoadDrink(id) ==
    /\ RunnerAt("r2_ready")
    /\ rid' = id
    /\ request_id' = id
    /\ EnterStep("sending_load_drink")
    /\ Goto("send")

(* Mutant: the flag is not looked at between two attempts.                 *)
CheckSkip_Never ==
    /\ RunnerAt("send")
    /\ Goto("post")
    /\ UNCHANGED <<cycleVars, entryVars, localVars>>
    /\ RunnerFrame

(* The flag is read without the lock, then the POST goes out.              *)
CheckSkip ==
    /\ RunnerAt("send")
    /\ Goto(IF skipped THEN "loaded" ELSE "post")
    /\ UNCHANGED <<cycleVars, entryVars, localVars>>
    /\ RunnerFrame

(* Mutant: a timeout is taken for a refusal.                               *)
SendLoadDrink_NoRetry(r) ==
    /\ RunnerAt("post")
    /\ Branch(PostLoadDrink(r), {"accepted"}, {}, "loaded", "send", "load_drink")
    /\ UNCHANGED <<cycleVars, entryVars, rid, result>>
    /\ RunnerFrame

SendLoadDrink(r) ==
    /\ RunnerAt("post")
    /\ Branch(PostLoadDrink(r), {"accepted"}, {"timeout"}, "loaded", "send",
              "load_drink")
    /\ UNCHANGED <<cycleVars, entryVars, rid, result>>
    /\ RunnerFrame

EnterPollingR2Active ==
    /\ RunnerAt("loaded")
    /\ phase' = "active"
    /\ step' = "polling_r2_active"
    /\ Goto("poll_active")
    /\ UNCHANGED <<guest_name, request_id, error_message, skipped,
                   entryVars, localVars>>
    /\ RunnerFrame

PollR2Active(r) ==
    /\ RunnerAt("poll_active")
    /\ result' = GetStatus(r)
    /\ Goto("judge")
    /\ UNCHANGED <<cycleVars, entryVars, rid, message>>
    /\ RunnerFrame

(* Mutant: R2 is held to an order it was never given.                      *)
RequestIdMismatch_Always == result.request_id # None /\ result.request_id # rid

RequestIdMismatch ==
    ~skipped /\ result.request_id # None /\ result.request_id # rid

(* Mutant: an order R2 has only begun counts as served.                    *)
JudgeR2Active_Early ==
    /\ RunnerAt("judge")
    /\ \/ /\ RequestIdMismatch
          /\ Goto("fail") /\ message' = "request_id"
       \/ /\ ~RequestIdMismatch
          /\ Branch(result.outcome, {"loading", "returning", "completed"}, {"timeout"},
                    "served", "poll_active", "r2_status")
    /\ result' = NoResult
    /\ UNCHANGED <<cycleVars, entryVars, rid>>
    /\ RunnerFrame

JudgeR2Active ==
    /\ RunnerAt("judge")
    /\ \/ /\ RequestIdMismatch
          /\ Goto("fail") /\ message' = "request_id"
       \/ /\ ~RequestIdMismatch
          /\ Branch(result.outcome, {"returning", "completed"}, {"loading", "timeout"},
                    "served", "poll_active", "r2_status")
    /\ result' = NoResult
    /\ UNCHANGED <<cycleVars, entryVars, rid>>
    /\ RunnerFrame

EnterNotifyingPFPlaced ==
    /\ RunnerAt("served")
    /\ EnterStep("notifying_pf_placed")
    /\ Goto("notify")
    /\ UNCHANGED <<request_id, rid>>

NotifyPFPlaced(r) ==
    /\ RunnerAt("notify")
    /\ \/ PostDrinkPlaced(r) /\ Goto("placed") /\ UNCHANGED message
       \/ ~PostDrinkPlaced(r) /\ Goto("fail") /\ message' = "placed"
    /\ UNCHANGED <<cycleVars, entryVars, rid, result>>
    /\ RunnerFrame

FinishCycle ==
    /\ RunnerAt("placed")
    /\ ToWaitingStep0
    /\ Goto("idle")
    /\ rid' = None
    /\ UNCHANGED <<result, message>>
    /\ RunnerFrame

(* Mutant: the runner reports the failure and goes on with the cycle.      *)
Fail_GoesOn ==
    /\ RunnerAt("fail")
    /\ phase' = "error"
    /\ error_message' = message
    /\ Goto("loaded")
    /\ message' = "none"
    /\ UNCHANGED <<step, guest_name, request_id, skipped, entryVars, rid, result>>
    /\ RunnerFrame

(* Mutant: the runner gives up on the cycle without saying so.             *)
Fail_Silent ==
    /\ RunnerAt("fail")
    /\ Goto("idle")
    /\ rid' = None /\ message' = "none"
    /\ UNCHANGED <<cycleVars, entryVars, result>>
    /\ RunnerFrame

Fail ==
    /\ RunnerAt("fail")
    /\ phase' = "error"
    /\ error_message' = message
    /\ Goto("idle")
    /\ rid' = None /\ message' = "none"
    /\ UNCHANGED <<step, guest_name, request_id, skipped, entryVars,
                   result>>
    /\ RunnerFrame

(* A client call raises something other than a RequestException: the last  *)
(* resort guard of run_forever turns it into an error.                     *)
ClientRaises ==
    /\ runner \in {"poll_pf", "poll_r2", "post", "poll_active", "notify"}
    /\ Goto("fail") /\ message' = "internal"
    /\ UNCHANGED <<cycleVars, entryVars, rid, result>>
    /\ RunnerFrame

(* The steps that wait for no robot.                                       *)
RunnerLocalStep ==
    \/ GetWork \/ ResumeAfterLoadDrink
    \/ EnterPollingR2Ready
    \/ \E id \in RequestIds : EnterSendingLoadDrink(id)
    \/ CheckSkip \/ EnterPollingR2Active \/ JudgeR2Active
    \/ EnterNotifyingPFPlaced \/ FinishCycle \/ Fail

RobotStep ==
    \/ \E r \in PFStatusReplies : PollPFReady(r)
    \/ \E r \in R2StatusReplies : PollR2Ready(r) \/ PollR2Active(r)
    \/ \E r \in R2PostReplies   : SendLoadDrink(r)
    \/ \E r \in PFPlacedReplies : NotifyPFPlaced(r)
    \/ ClientRaises

EntryStep ==
    \/ \E source \in ExternalSources : StartExternalEntry(source)
    \/ \E stage \in KioskStages : RecordKioskStage(stage)
    \/ ClearEntry
    \/ Tick

Next ==
    \/ EntryStep
    \/ \E h \in Handlers : HandlerStep(h)
    \/ RunnerLocalStep
    \/ RobotStep

Spec == Init /\ [][Next]_vars

(* A request thread that released the lock goes on; the runner goes on and *)
(* every call of a robot returns, if only by its timeout; time passes; and *)
(* a robot that is asked again and again eventually gives a decisive       *)
(* status.  Nothing is assumed of POST load-drink: R2 may let it time out  *)
(* for ever.                                                               *)
PFDecides ==
    \E r \in PFStatusReplies : PollPFReady(r) /\ runner' # "poll_pf"
R2ReadyDecides ==
    \E r \in R2StatusReplies : PollR2Ready(r) /\ runner' # "poll_r2"
R2ActiveDecides ==
    \E r \in R2StatusReplies :
        PollR2Active(r) /\ result'.outcome \notin {"loading", "timeout"}

Fairness ==
    /\ \A h \in Handlers : WF_vars(HandlerFinish(h))
    /\ WF_vars(RunnerLocalStep)
    /\ WF_vars(RobotStep)
    /\ WF_vars(Tick)
    /\ SF_vars(PFDecides) /\ SF_vars(R2ReadyDecides) /\ SF_vars(R2ActiveDecides)

FairSpec == Spec /\ Fairness

-----------------------------------------------------------------------------
(* Properties                                                              *)
(*                                                                         *)
(* try_reset gives up the lock between its check and its effect, so a      *)
(* reset can land in a cycle that started in between: reset_in_cycle.      *)
(* Up to such a reset the properties below hold; what one does to them is  *)
(* shown by the run reset_race.                                            *)

(* The threads that hold the cycle: a request thread about to queue it, an *)
(* entry of the work queue, the runner.                                    *)
Owners ==
    {<<"handler", h>> : h \in {x \in Handlers : handler[x] \in {"put_start", "put_resume"}}}
    \cup {<<"queue", i>> : i \in 1..Len(queue)}
    \cup (IF RunnerAt("idle") THEN {} ELSE {<<"runner", 0>>})

(* A guest's cycle is never lost and never run twice: while one is under   *)
(* way exactly one of the request threads, the queue and the runner holds  *)
(* it, and none holds anything while the server awaits a check-in or shows *)
(* an error (request_checkin, request_skip_load_drink, run_forever).       *)
OneOwner ==
    ~reset_in_cycle =>
        IF InCycle THEN \E o \in Owners : Owners = {o} ELSE Owners = {}

(* Every snapshot the screens get is of one moment of one cycle: the guest *)
(* and the check-in stage are there exactly outside the start step, the    *)
(* request id exactly from load-drink on, the error text exactly in an     *)
(* error, and "active" only once R2 has the order (try_start, _update).    *)
SnapshotCoherent ==
    ~reset_in_cycle =>
        /\ guest_name = None <=> AwaitingCheckin
        /\ entry.stage = "checkin" <=> ~AwaitingCheckin
        /\ entry.source = "none" <=> entry.stage = "none"
        /\ request_id = None <=>
             step \in {"awaiting_checkin", "polling_pf_ready", "polling_r2_ready"}
        /\ error_message = "none" <=> phase # "error"
        /\ step = "awaiting_checkin" => phase = "waiting"
        /\ InCycle => (phase = "active" <=>
                         step \in {"polling_r2_active", "notifying_pf_placed"})

(* Where the runner is in its own code is what the shared step says, and   *)
(* the request id it sends and compares is the one the screens show        *)
(* (run_started_cycle, resume_after_load_drink, _run_after_load_drink).    *)
StepAt(pc) ==
    CASE pc \in {"poll_pf", "pf_ready"} -> "polling_pf_ready"
      [] pc \in {"poll_r2", "r2_ready"} -> "polling_r2_ready"
      [] pc \in {"resume", "send", "post", "loaded"} -> "sending_load_drink"
      [] pc \in {"poll_active", "judge", "served"} -> "polling_r2_active"
      [] pc \in {"notify", "placed"} -> "notifying_pf_placed"
      [] OTHER -> step

RunnerInStep ==
    ~reset_in_cycle =>
        /\ step = StepAt(runner)
        /\ runner \in {"send", "post", "loaded", "poll_active", "judge", "served",
                       "notify", "placed"} => rid = request_id /\ rid # None

(* A skip of load-drink is good for the cycle it was given in:             *)
(* _load_drink_skipped survives the end of the cycle and every reset, yet  *)
(* no later cycle starts with it (try_start).                              *)
SkipOnlyThisCycle ==
    ~reset_in_cycle /\ skipped =>
        step \notin {"polling_pf_ready", "polling_r2_ready"}

(* An error is left by an operator only: _run_after_load_drink and         *)
(* _to_waiting_step0 set the phase whatever it is, but no runner step ever *)
(* meets an error on the screen.                                           *)
ErrorHeld ==
    [][phase = "error" /\ ~reset_in_cycle /\ phase' # "error" =>
          runner = "idle" /\ \E h \in Handlers : handler[h] # handler'[h]]_vars

(* The server goes back to its start step in one of two ways: PF accepted  *)
(* drink/placed for the guest of this cycle, or the cycle had failed and   *)
(* an operator reset it.                                                   *)
EndsPlacedOrReset ==
    [][~AwaitingCheckin /\ AwaitingCheckin' /\ ~reset_in_cycle' =>
          \/ phase = "error" /\ UNCHANGED runner
          \/ step = "notifying_pf_placed" /\ runner = "placed"]_vars

(* The runner repeats POST load-drink without limit; an operator's skip    *)
(* gets a cycle out of that step, onward or into an error, whatever R2     *)
(* does (try_skip_load_drink, _send_load_drink).                           *)
SkipUnblocks ==
    (skipped /\ step = "sending_load_drink") ~>
        (step # "sending_load_drink" \/ phase = "error")

(* An abandoned kiosk does not block visual and voice starts for ever: if  *)
(* from some point on nobody touches the entry again, a start is           *)
(* available again and again, unless a check-in holds the server           *)
(* (_external_start_available_locked).                                     *)
AbandonedKioskReleased ==
    (<>[][entry_age' = entry_age + 1]_entryVars)
        => []<>(ExternalStartAvailable \/ ~AwaitingCheckin)

(* What the server is doing in DrinkService's terms: the guest is served   *)
(* from PF's acceptance to the step that shows it.                         *)
ServiceState ==
    IF phase = "error" THEN "failed"
    ELSE IF step = "awaiting_checkin" THEN "idle"
    ELSE IF runner = "placed" THEN "served" ELSE "serving"

Service == INSTANCE DrinkService WITH service <- ServiceState, guest <- guest_name

(* The state machine implements DrinkService: it serves one guest at a     *)
(* time, and is done with a guest only when PF has accepted drink/placed   *)
(* or an operator has reset a failed cycle.                                *)
ImplementsService == Service!Spec

(* The strengthening that makes OneOwner, SnapshotCoherent, RunnerInStep   *)
(* and SkipOnlyThisCycle inductive: the holders of a cycle exclude each    *)
(* other, and the work they hold is the work of the shared step.           *)
Holding(h) == handler[h] \in {"put_start", "put_resume"}

Exclusive ==
    /\ \A h, g \in Handlers : Holding(h) /\ Holding(g) => h = g
    /\ Len(queue) <= 1
    /\ queue # <<>> => \A h \in Handlers : ~Holding(h)
    /\ runner # "idle" => queue = <<>> /\ \A h \in Handlers : ~Holding(h)
    /\ InCycle <=> \/ \E h \in Handlers : Holding(h)
                   \/ queue # <<>>
                   \/ runner # "idle"

WorkOfStep ==
    /\ \A h \in Handlers :
          /\ handler[h] = "put_start" => step = "polling_pf_ready"
          /\ handler[h] = "put_resume" => step = "sending_load_drink"
    /\ queue # <<>> => step = IF Head(queue) = "start" THEN "polling_pf_ready"
                                                       ELSE "sending_load_drink"
    /\ runner = "fail" => message # "none"

Coherent ==
    /\ ~reset_in_cycle => Exclusive /\ WorkOfStep
    /\ SnapshotCoherent
    /\ RunnerInStep
    /\ SkipOnlyThisCycle

-----------------------------------------------------------------------------
(* What the documents say and the code does not keep                       *)

(* "1回に1組客のみ": one guest at a time, docs/superpowers/specs/          *)
(* 2026-09-13-distributed-robot-platform-design.md; two cycles are never   *)
(* held at once.                                                           *)
OneGuestAtATime == \A a, b \in Owners : a = b
=============================================================================
