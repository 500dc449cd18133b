----------------------------- MODULE DrinkCycle -----------------------------
(***************************************************************************)
(* A guest's drink end to end: the state machine and its runner            *)
(* (StateMachine), R2 (R2Robot), PF, and the network between them.  A call *)
(* the client gives up on (requests' timeout, or another transport error)  *)
(* may have been handled by the robot, may never reach it, and a POST      *)
(* load-drink that timed out may still arrive later.                       *)
(*                                                                         *)
(* Each behaviour draws its faults once: none, timeouts alone, or          *)
(* everything (timeouts, transport errors, robots that refuse or fail).    *)
(***************************************************************************)
EXTENDS StateMachine, R2Robot, FiniteSets

VARIABLES
    faults,        \* the faults this behaviour may show
    late,          \* ids of the timed-out POSTs that may still reach R2
    issued,        \* ids request_id_factory has handed out
    \* history
    loads,         \* how often R2 began to load each order (counted to 2)
    loaded,        \* the orders R2 has finished loading
    placed,        \* how often PF accepted drink/placed for each order (to 2)
    skipped_ids,   \* the orders an operator skipped
    overtaken      \* a late POST arrived after its own cycle was over

envVars  == <<r2Vars, faults, late, issued>>
histVars == <<loads, loaded, placed, skipped_ids, overtaken>>
cycleAll == <<vars, envVars, histVars>>

FaultKinds == {"timeout", "down", "refuse"}

DrinkTypeOK ==
    /\ TypeOK
    /\ R2TypeOK
    /\ faults \in SUBSET FaultKinds
    /\ late \subseteq RequestIds /\ issued \subseteq RequestIds
    /\ loads \in [RequestIds -> 0..2] /\ placed \in [RequestIds -> 0..2]
    /\ loaded \subseteq RequestIds /\ skipped_ids \subseteq OptionalIds
    /\ overtaken \in BOOLEAN

DrinkInit ==
    /\ Init /\ R2Init
    /\ faults \in {{}, {"timeout"}, FaultKinds}
    /\ late = {} /\ issued = {InitialId}
    /\ loads = [id \in RequestIds |-> 0] /\ placed = [id \in RequestIds |-> 0]
    /\ loaded = {} /\ skipped_ids = {}
    /\ overtaken = FALSE

(* The client gives up on the call.                                        *)
GivesUp(r) == r.net \in faults

-----------------------------------------------------------------------------
(* R2 *)

R2History ==
    /\ loads' = IF r2'.status = "loading" /\ r2 # r2'
                THEN [loads EXCEPT ![r2'.request_id] = IF @ < 2 THEN @ + 1 ELSE 2]
                ELSE loads
    /\ loaded' = IF r2'.status \in {"returning", "completed"}
                 THEN loaded \cup {r2'.request_id} ELSE loaded

R2Unmoved == UNCHANGED <<r2Vars, loads, loaded>>

(* R2 handles the GET and the reply arrives or is lost; or it never gets it.*)
ExchangeStatus(r) ==
    \/ /\ \E failing \in BOOLEAN :
            (failing => "refuse" \in faults) /\ LoadDrinkStatus(failing)
       /\ R2History
       /\ r = StatusReply(r2') \/ GivesUp(r)
    \/ R2Unmoved /\ GivesUp(r)

PollR2 ==
    /\ \E r \in R2StatusReplies :
          (PollR2Ready(r) \/ PollR2Active(r)) /\ ExchangeStatus(r)
    /\ UNCHANGED <<faults, late, issued, placed, skipped_ids, overtaken>>

R2Handles(id, code) ==
    \/ \E failing \in BOOLEAN :
          (failing => "refuse" \in faults) /\ LoadDrink(id, code, failing)
    \/ "refuse" \in faults /\ code \in {422, 500} /\ UNCHANGED r2Vars

ExchangeLoadDrink(id, r) ==
    \/ /\ \E code \in Codes :
            R2Handles(id, code) /\ (r = PostReply(code) \/ GivesUp(r))
       /\ R2History
       /\ UNCHANGED late
    \/ R2Unmoved /\ GivesUp(r) /\ UNCHANGED late
    \/ R2Unmoved /\ GivesUp(r) /\ r.net = "timeout" /\ late' = late \cup {id}

PostR2 ==
    /\ \E r \in R2PostReplies : SendLoadDrink(r) /\ ExchangeLoadDrink(rid, r)
    /\ UNCHANGED <<faults, issued, placed, skipped_ids, overtaken>>

(* A POST its client has given up on reaches R2; nobody reads the answer.  *)
LateArrival ==
    /\ \E id \in late :
          /\ late' = late \ {id}
          /\ \E code \in Codes : R2Handles(id, code)
          /\ overtaken' = (overtaken \/ request_id # id)
    /\ R2History
    /\ UNCHANGED <<vars, faults, issued, placed, skipped_ids>>

R2Time == R2Elapse /\ UNCHANGED <<vars, faults, late, issued, histVars>>

-----------------------------------------------------------------------------
(* PF *)

PollPF ==
    /\ \E r \in PFStatusReplies :
          /\ PollPFReady(r)
          /\ \/ GivesUp(r)
             \/ r.net = "ok" /\ r.code = 200 /\ r.body \in {"Ready", "Initializing"}
             \/ r.net = "ok" /\ r.code # 200 /\ "refuse" \in faults
    /\ UNCHANGED <<envVars, histVars>>

CountPlaced(id) == placed' = [placed EXCEPT ![id] = IF @ < 2 THEN @ + 1 ELSE 2]

(* PF accepts and its answer arrives or is lost; it refuses; the call      *)
(* never reaches it.                                                       *)
ExchangePlaced(r) ==
    \/ CountPlaced(rid) /\ (r = [net |-> "ok", code |-> 200, body |-> "accepted"]
                            \/ GivesUp(r))
    \/ r.net = "ok" /\ r.body # "accepted" /\ "refuse" \in faults /\ UNCHANGED placed
    \/ GivesUp(r) /\ UNCHANGED placed

NotifyPF ==
    /\ \E r \in PFPlacedReplies : NotifyPFPlaced(r) /\ ExchangePlaced(r)
    /\ UNCHANGED <<envVars, loads, loaded, skipped_ids, overtaken>>

-----------------------------------------------------------------------------
(* The server's own steps *)

(* Ids are timestamps in milliseconds: every cycle has a new one.          *)
IssueId ==
    /\ \E id \in RequestIds \ issued :
          EnterSendingLoadDrink(id) /\ issued' = issued \cup {id}
    /\ UNCHANGED <<r2Vars, faults, late, histVars>>

(* Bound: as many cycles as there are ids.                                 *)
CheckIn(h) ==
    /\ \E guest \in Guests : TryStart(h, guest)
    /\ RequestIds \ issued # {}
    /\ UNCHANGED <<envVars, histVars>>

SkipLoadDrink(h) ==
    /\ SkipPending(h) \/ SkipResume(h)
    /\ skipped_ids' = skipped_ids \cup {request_id}
    /\ UNCHANGED <<envVars, loads, loaded, placed, overtaken>>

ServerStep ==
    /\ \/ \E h \in Handlers : TryReset(h) \/ HandlerFinish(h)
       \/ GetWork \/ ResumeAfterLoadDrink \/ EnterPollingR2Ready \/ CheckSkip
       \/ EnterPollingR2Active \/ JudgeR2Active \/ EnterNotifyingPFPlaced
       \/ FinishCycle \/ Fail
       \/ "refuse" \in faults /\ ClientRaises
    /\ UNCHANGED <<envVars, histVars>>

KioskStep == EntryStep /\ UNCHANGED <<envVars, histVars>>

DrinkNext ==
    \/ PollR2 \/ PostR2 \/ LateArrival \/ R2Time
    \/ PollPF \/ NotifyPF
    \/ IssueId \/ ServerStep \/ KioskStep
    \/ \E h \in Handlers : CheckIn(h) \/ SkipLoadDrink(h)

DrinkSpec == DrinkInit /\ [][DrinkNext]_cycleAll

(* The threads go on, R2's time passes, PF is ready in the end, and of the *)
(* calls that are made again and again some are answered.                  *)
AnsweredPollR2 ==
    /\ \E r \in R2StatusReplies :
          /\ PollR2Ready(r) \/ PollR2Active(r)
          /\ LoadDrinkStatus(FALSE)
          /\ r = StatusReply(r2')
    /\ R2History
    /\ UNCHANGED <<faults, late, issued, placed, skipped_ids, overtaken>>

DrinkFairness ==
    /\ WF_cycleAll(ServerStep) /\ WF_cycleAll(IssueId) /\ WF_cycleAll(R2Time)
    /\ WF_cycleAll(NotifyPF)
    /\ SF_cycleAll(PollPF /\ runner' # "poll_pf")
    /\ SF_cycleAll(AnsweredPollR2)
    /\ SF_cycleAll(PostR2 /\ runner' # "send")

DrinkFairSpec == DrinkSpec /\ DrinkFairness

-----------------------------------------------------------------------------
(* Properties                                                              *)

(* The conditions of those below: no reset landed in a running cycle, and  *)
(* no POST of one cycle reached R2 in a later one (R2 remembers one order: *)
(* it would take it for a new one).                                        *)
Undisturbed == ~reset_in_cycle /\ ~overtaken

(* A guest's drink is loaded once and reported once.  R2 may miss or take  *)
(* any of the POSTs, and their answers be lost or late: the retry of       *)
(* _send_load_drink has the id of the first attempt, and load_drink        *)
(* answers a known id without loading.  drink/placed carries no id, so it  *)
(* is not retried even when its answer is lost (_notify_pf_placed).        *)
OnceAGuest ==
    /\ Undisturbed => \A id \in RequestIds : loads[id] <= 1
    /\ ~reset_in_cycle => \A id \in RequestIds : placed[id] <= 1

(* PF is told "placed" of a drink only once R2 has put it on the tray, or  *)
(* an operator gave up on R2 for that guest (_poll_r2_active,              *)
(* _notify_pf_placed, try_skip_load_drink).                                *)
PlacedAfterLoaded ==
    ~reset_in_cycle =>
        \A id \in RequestIds : placed[id] > 0 => id \in loaded \cup skipped_ids

(* With robots that only ever answer late no step but the last fails: each *)
(* timeout is retried, and the retry is never refused for what the lost    *)
(* attempt did (_poll_pf_ready, _poll_r2_ready, _send_load_drink,          *)
(* _poll_r2_active).                                                       *)
TimeoutsAreRetried ==
    Undisturbed /\ faults \subseteq {"timeout"} /\ phase = "error" =>
        error_message = "placed" /\ "timeout" \in faults

(* The check that R2 speaks of our order never stops a cycle that went     *)
(* right: once R2 took the order, and also when an operator skipped it, no *)
(* answer of R2 counts as another's (_poll_r2_active).                     *)
NoSpuriousMismatch == Undisturbed => error_message # "request_id"

(* Every guest's cycle ends, given robots that answer now and then and an  *)
(* R2 whose phases take finite time.                                       *)
DrinkCycleEnds == InCycle ~> ~InCycle
=============================================================================
