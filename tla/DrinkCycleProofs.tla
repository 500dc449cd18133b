-------------------------- MODULE DrinkCycleProofs --------------------------
(***************************************************************************)
(* What TLAPS proves of DrinkCycle for every set of guests, request        *)
(* threads and request ids: the server with its robots keeps what the      *)
(* server alone keeps (StateMachineProofs), and each drink is loaded once, *)
(* reported once, and only after it was loaded.                            *)
(***************************************************************************)
EXTENDS DrinkCycle, StateMachineProofs

-----------------------------------------------------------------------------
(* The composition is a behaviour of the state machine *)

(* A step with robots and network is a step of the server, or one that the *)
(* server does not see.                                                    *)
LEMMA ServerSide ==
    ASSUME [DrinkNext]_cycleAll
    PROVE  [Next]_vars
<1>1. CASE PollR2
  BY <1>1 DEF PollR2, Next, RobotStep
<1>2. CASE PostR2
  BY <1>2 DEF PostR2, Next, RobotStep
<1>3. CASE LateArrival \/ R2Time \/ UNCHANGED cycleAll
  BY <1>3 DEF LateArrival, R2Time, cycleAll
<1>4. CASE PollPF
  BY <1>4 DEF PollPF, Next, RobotStep
<1>5. CASE NotifyPF
  BY <1>5 DEF NotifyPF, Next, RobotStep
<1>6. CASE IssueId
  BY <1>6 DEF IssueId, Next, RunnerLocalStep
<1>7. CASE ServerStep
  BY <1>7 DEF ServerStep, Next, HandlerStep, RunnerLocalStep, RobotStep
<1>8. CASE KioskStep
  BY <1>8 DEF KioskStep, Next
<1>9. ASSUME NEW h \in Handlers, CheckIn(h) \/ SkipLoadDrink(h)
      PROVE  Next
  BY <1>9 DEF CheckIn, SkipLoadDrink, Next, HandlerStep
<1> QED
  BY <1>1, <1>2, <1>3, <1>4, <1>5, <1>6, <1>7, <1>8, <1>9 DEF DrinkNext

(* The server keeps every promise of StateMachine with these robots and    *)
(* this network: whatever they do is something the state machine was       *)
(* already proved to bear.                                                 *)
THEOREM DrinkImplementsStateMachine == DrinkSpec => Spec
<1>1. DrinkInit => Init
  BY DEF DrinkInit
<1>2. [DrinkNext]_cycleAll => [Next]_vars
  BY ServerSide
<1> QED
  BY <1>1, <1>2, PTL DEF DrinkSpec, Spec

(* ... its type and its coherence among them.                              *)
LEMMA DrinkCoherent == DrinkSpec => [](TypeOK /\ Coherent)
BY DrinkImplementsStateMachine, TypeCorrect, CoherentCorrect, PTL

-----------------------------------------------------------------------------
(* R2 *)

(* What a request does to R2: nothing to its order, but the phase may move *)
(* on; or a new order begins.                                              *)
MovesOn == /\ r2'.request_id = r2.request_id
           /\ r2' # r2 => r2'.status # "loading"

Begins(id) == /\ r2' = [request_id |-> id, status |-> "loading"]
              /\ id # r2.request_id

(* A GET status finds R2 in its phase or one further on.                   *)
LEMMA FindMovesOn ==
    ASSUME R2TypeOK, NEW failing \in BOOLEAN, Find(failing)
    PROVE  /\ R2TypeOK' /\ MovesOn
           /\ ~failing /\ r2.status # "failed" => r2'.status # "failed"
<1> USE DEF R2TypeOK, R2Statuses, Find, CurrentStatus, R2Timed, MovesOn
<1>1. PICK status \in CurrentStatus(failing) :
        /\ r2' = [r2 EXCEPT !.status = status]
        /\ r2_elapsed' = (r2_elapsed /\ status = r2.status)
  BY Zenon DEF Find
<1>2. /\ status \in R2Statuses
      /\ status = r2.status \/ status # "loading"
      /\ ~failing /\ r2.status # "failed" => status # "failed"
  OBVIOUS
<1>3. /\ r2'.request_id = r2.request_id /\ r2'.status = status
      /\ r2' \in [request_id : RequestIds, status : R2Statuses]
      /\ status = r2.status => r2' = r2
  BY <1>1, <1>2
<1>4. r2_elapsed' \in BOOLEAN
  BY <1>1, Zenon
<1> QED
  BY <1>2, <1>3, <1>4

(* POST load-drink: an accepted order is R2's order; a refused one is      *)
(* another than R2's, which is not completed.                              *)
LEMMA LoadDrinkMoves ==
    ASSUME R2TypeOK, NEW id \in RequestIds, NEW code \in Codes,
           NEW failing \in BOOLEAN, LoadDrink(id, code, failing)
    PROVE  /\ R2TypeOK'
           /\ MovesOn \/ Begins(id)
           /\ code = 200 => r2'.request_id = id
           /\ r2.status = "completed" => r2' = r2 \/ Begins(id)
           /\ r2.status = "completed" \/ r2.request_id = id => code = 200
           /\ ~failing /\ r2.status # "failed" => r2'.status # "failed"
<1>1. CASE id = r2.request_id /\ code = 200 /\ UNCHANGED r2Vars
  BY <1>1 DEF r2Vars, MovesOn, R2TypeOK
<1>2. CASE id # r2.request_id /\ CurrentStatus(failing) # {"completed"} /\ code = 500
           /\ Find(failing)
  <2>1. r2.status # "completed"
    BY <1>2 DEF CurrentStatus, R2Timed
  <2>2. /\ R2TypeOK' /\ MovesOn
        /\ ~failing /\ r2.status # "failed" => r2'.status # "failed"
    BY <1>2, FindMovesOn, Zenon
  <2> QED
    BY <1>2, <2>1, <2>2
<1>3. CASE /\ id # r2.request_id /\ code = 200
           /\ r2' = [request_id |-> id, status |-> "loading"] /\ r2_elapsed' = FALSE
  BY <1>3 DEF Begins, R2TypeOK, R2Statuses
<1> QED
  BY <1>1, <1>2, <1>3 DEF LoadDrink

(* What R2History counts.                                                  *)
HistoryTypeOK == loads \in [RequestIds -> 0..2] /\ loaded \subseteq RequestIds

(* Loading goes on: no order is begun, and one that is ready is counted.   *)
LEMMA HistoryOfMove ==
    ASSUME R2TypeOK, HistoryTypeOK, MovesOn, R2History, R2TypeOK'
    PROVE  /\ loads' = loads /\ loaded \subseteq loaded' /\ HistoryTypeOK'
           /\ r2'.status \in {"returning", "completed"} => r2.request_id \in loaded'
BY DEF R2TypeOK, HistoryTypeOK, MovesOn, R2History

(* An order begins: its own count grows, and no other.                     *)
LEMMA HistoryOfOrder ==
    ASSUME R2TypeOK, HistoryTypeOK, NEW id \in RequestIds, Begins(id), R2History
    PROVE  /\ loaded' = loaded /\ HistoryTypeOK'
           /\ loads[id] = 0 => loads'[id] = 1
           /\ \A other \in RequestIds \ {id} : loads'[other] = loads[other]
<1>1. r2'.status = "loading" /\ r2'.request_id = id /\ r2 # r2'
  BY DEF Begins
<1>2. loads' = [loads EXCEPT ![id] = IF @ < 2 THEN @ + 1 ELSE 2] /\ loaded' = loaded
  BY <1>1 DEF R2History
<1> QED
  BY <1>2 DEF HistoryTypeOK

(* A GET status exchange: what the runner is told is what R2 is doing, or  *)
(* nothing at all.                                                         *)
LEMMA StatusExchanged ==
    ASSUME R2TypeOK, HistoryTypeOK, faults \subseteq FaultKinds,
           NEW r \in R2StatusReplies, ExchangeStatus(r)
    PROVE  /\ R2TypeOK' /\ HistoryTypeOK' /\ MovesOn
           /\ loads' = loads /\ loaded \subseteq loaded'
           /\ GetStatus(r).request_id \in {None, r2.request_id}
           /\ GetStatus(r).outcome \in {"returning", "completed"} =>
                 GetStatus(r).request_id \in loaded'
           /\ GetStatus(r).outcome = "completed" => r2'.status = "completed"
           /\ faults \subseteq {"timeout"} /\ r2.status # "failed" =>
                 /\ r2'.status # "failed"
                 /\ GetStatus(r).outcome \in {"loading", "returning", "completed", "timeout"}
<1>1. ASSUME GivesUp(r)
      PROVE  /\ GetStatus(r).request_id = None
             /\ GetStatus(r).outcome \in {"timeout", "fatal_error"}
             /\ faults \subseteq {"timeout"} => GetStatus(r).outcome = "timeout"
  BY <1>1 DEF GivesUp, FaultKinds, GetStatus
<1>2. CASE R2Unmoved /\ GivesUp(r)
  BY <1>1, <1>2 DEF R2Unmoved, r2Vars, R2TypeOK, HistoryTypeOK, MovesOn
<1>3. ASSUME NEW failing \in BOOLEAN, failing => "refuse" \in faults, Find(failing),
             R2History
      PROVE  /\ R2TypeOK' /\ HistoryTypeOK' /\ MovesOn
             /\ loads' = loads /\ loaded \subseteq loaded'
             /\ r2'.status \in {"returning", "completed"} => r2.request_id \in loaded'
             /\ faults \subseteq {"timeout"} /\ r2.status # "failed" => r2'.status # "failed"
  <2>1. /\ R2TypeOK' /\ MovesOn
        /\ ~failing /\ r2.status # "failed" => r2'.status # "failed"
    BY <1>3, FindMovesOn, Zenon
  <2>2. failing => ~(faults \subseteq {"timeout"})
    BY <1>3
  <2> QED
    BY <1>3, <2>1, <2>2, HistoryOfMove
<1>4. ASSUME r = StatusReply(r2'), R2TypeOK', r2'.request_id = r2.request_id
      PROVE  /\ GetStatus(r).request_id = r2.request_id
             /\ GetStatus(r).outcome = r2'.status
  BY <1>4 DEF StatusReply, GetStatus, R2TypeOK, R2Statuses
<1> QED
  BY <1>1, <1>2, <1>3, <1>4 DEF ExchangeStatus, LoadDrinkStatus, MovesOn, R2TypeOK, R2Statuses

(* A POST that reaches R2, in time or late.                                *)
OrderMoves(id) ==
    /\ R2TypeOK' /\ HistoryTypeOK' /\ loaded \subseteq loaded'
    /\ \/ MovesOn /\ loads' = loads
       \/ /\ Begins(id)
          /\ loads[id] = 0 => loads'[id] = 1
          /\ \A other \in RequestIds \ {id} : loads'[other] = loads[other]
    /\ r2.status = "completed" => r2' = r2 \/ Begins(id)

(* R2 handles it: an accepted order is R2's order, and only a refusal that *)
(* the environment may draw keeps the order that R2 has, or is ready for,  *)
(* from being accepted.                                                    *)
LEMMA OrderHandled ==
    ASSUME R2TypeOK, HistoryTypeOK, NEW id \in RequestIds, NEW code \in Codes,
           R2Handles(id, code), R2History
    PROVE  /\ OrderMoves(id)
           /\ code = 200 => r2'.request_id = id
           /\ faults \subseteq {"timeout"} =>
                /\ r2.status # "failed" => r2'.status # "failed"
                /\ r2.status = "completed" \/ r2.request_id = id => code = 200
<1>1. ASSUME NEW failing \in BOOLEAN, failing => "refuse" \in faults,
             LoadDrink(id, code, failing)
      PROVE  /\ OrderMoves(id)
             /\ code = 200 => r2'.request_id = id
             /\ faults \subseteq {"timeout"} =>
                  /\ r2.status # "failed" => r2'.status # "failed"
                  /\ r2.status = "completed" \/ r2.request_id = id => code = 200
  <2>1. /\ R2TypeOK' /\ (MovesOn \/ Begins(id))
        /\ code = 200 => r2'.request_id = id
        /\ r2.status = "completed" => r2' = r2 \/ Begins(id)
        /\ r2.status = "completed" \/ r2.request_id = id => code = 200
        /\ ~failing /\ r2.status # "failed" => r2'.status # "failed"
    BY <1>1, LoadDrinkMoves
  <2>4. faults \subseteq {"timeout"} => ~failing
    BY <1>1
  <2>2. CASE MovesOn
    BY <1>1, <2>1, <2>2, <2>4, HistoryOfMove DEF OrderMoves
  <2>3. CASE Begins(id)
    BY <1>1, <2>1, <2>3, <2>4, HistoryOfOrder DEF OrderMoves
  <2> QED
    BY <2>1, <2>2, <2>3
<1>2. CASE "refuse" \in faults /\ code \in {422, 500} /\ UNCHANGED r2Vars
  <2>1. R2TypeOK' /\ MovesOn /\ r2' = r2
    BY <1>2 DEF r2Vars, R2TypeOK, MovesOn
  <2> QED
    BY <1>2, <2>1, HistoryOfMove DEF OrderMoves
<1> QED
  BY <1>1, <1>2 DEF R2Handles

(* A POST exchange as the client sees it: "accepted" means that R2 has     *)
(* this order, and where robots only answer late the client is never told  *)
(* anything worse than "timeout" of an order that R2 has or can take.      *)
LEMMA OrderExchanged ==
    ASSUME R2TypeOK, HistoryTypeOK, faults \subseteq FaultKinds,
           NEW id \in RequestIds, NEW r \in R2PostReplies, ExchangeLoadDrink(id, r)
    PROVE  /\ OrderMoves(id)
           /\ late' = late \/ late' = late \cup {id}
           /\ PostLoadDrink(r) = "accepted" => r2'.request_id = id
           /\ faults \subseteq {"timeout"} =>
                /\ r2.status # "failed" => r2'.status # "failed"
                /\ r2.status = "completed" \/ r2.request_id = id =>
                     PostLoadDrink(r) \in {"accepted", "timeout"}
<1>1. ASSUME GivesUp(r)
      PROVE  /\ PostLoadDrink(r) \in {"timeout", "server_error"}
             /\ faults \subseteq {"timeout"} => PostLoadDrink(r) = "timeout"
  BY <1>1 DEF GivesUp, FaultKinds, PostLoadDrink
<1>2. ASSUME NEW code \in Codes, r = PostReply(code)
      PROVE  PostLoadDrink(r) = "accepted" <=> code = 200
  BY <1>2 DEF PostReply, PostLoadDrink, Codes
<1>3. ASSUME NEW code \in Codes, R2Handles(id, code), R2History,
             r = PostReply(code) \/ GivesUp(r), UNCHANGED late
      PROVE  /\ OrderMoves(id)
             /\ PostLoadDrink(r) = "accepted" => r2'.request_id = id
             /\ faults \subseteq {"timeout"} =>
                  /\ r2.status # "failed" => r2'.status # "failed"
                  /\ r2.status = "completed" \/ r2.request_id = id =>
                       PostLoadDrink(r) \in {"accepted", "timeout"}
  BY <1>1, <1>2, <1>3, OrderHandled
<1>4. CASE R2Unmoved /\ GivesUp(r) /\ (late' = late \/ late' = late \cup {id})
  <2>1. /\ R2TypeOK' /\ HistoryTypeOK' /\ MovesOn /\ r2' = r2
        /\ loads' = loads /\ loaded' = loaded
    BY <1>4 DEF R2Unmoved, r2Vars, R2TypeOK, HistoryTypeOK, MovesOn
  <2> QED
    BY <1>1, <1>4, <2>1 DEF OrderMoves
<1> QED
  BY <1>3, <1>4 DEF ExchangeLoadDrink

-----------------------------------------------------------------------------
(* Types, and the ids that are about *)

(* Every id that is held somewhere was issued, R2 has begun and PF has     *)
(* been told of issued ones only: what makes a new id new.                 *)
IdsKnown ==
    /\ late \subseteq issued
    /\ {request_id, rid} \subseteq issued \cup {None}
    /\ runner \in {"send", "post"} => rid # None
    /\ \A id \in RequestIds \ issued : loads[id] = 0 /\ placed[id] = 0

DrinkTyped == DrinkTypeOK /\ IdsKnown

(* The server starts with no order, R2 with an old one.                    *)
LEMMA DrinkTypedInit == DrinkInit => DrinkTyped
<1> SUFFICES ASSUME DrinkInit PROVE DrinkTyped
  OBVIOUS
<1>1. TypeOK
  BY TypeInit DEF DrinkInit
<1>2. R2TypeOK
  BY InitialIdAssumption DEF DrinkInit, R2Init, R2TypeOK, R2Statuses
<1>3. IdsKnown
  BY DEF DrinkInit, Init, IdsKnown
<1>4. faults \in SUBSET FaultKinds
  BY DEF DrinkInit, FaultKinds
<1>5. loads \in [RequestIds -> 0..2] /\ placed \in [RequestIds -> 0..2]
  BY DEF DrinkInit
<1>6. /\ late \subseteq RequestIds /\ issued \subseteq RequestIds
      /\ loaded \subseteq RequestIds /\ skipped_ids \subseteq OptionalIds
  BY InitialIdAssumption DEF DrinkInit
<1>7. overtaken \in BOOLEAN
  BY Zenon DEF DrinkInit
<1> QED
  BY <1>1, <1>2, <1>3, <1>4, <1>5, <1>6, <1>7 DEF DrinkTyped, DrinkTypeOK

(* Every step of the server, the robots and the network keeps the types,   *)
(* and only _run_before_load_drink brings a new id in.                     *)
LEMMA DrinkTypedStep ==
    ASSUME DrinkTyped, [DrinkNext]_cycleAll
    PROVE  DrinkTyped'
<1> USE NoneAssumption DEF DrinkTyped, DrinkTypeOK, OptionalIds
<1>0. TypeOK'
  BY ServerSide, TypeStep
<1>h. HistoryTypeOK
  BY DEF HistoryTypeOK
<1>1. CASE PollR2
  <2>1. PICK r \in R2StatusReplies :
          (PollR2Ready(r) \/ PollR2Active(r)) /\ ExchangeStatus(r)
    BY <1>1, Zenon DEF PollR2
  <2>2. R2TypeOK' /\ HistoryTypeOK' /\ loads' = loads
    BY <1>h, <2>1, StatusExchanged
  <2>3. UNCHANGED <<request_id, rid>> /\ runner' \notin {"send", "post"}
    BY <2>1
    DEF PollR2Ready, PollR2Active, RunnerAt, Goto, Branch, cycleVars
  <2>4. UNCHANGED <<faults, late, issued, placed, skipped_ids, overtaken>>
    BY <1>1 DEF PollR2
  <2> QED
    BY <1>0, <2>2, <2>3, <2>4 DEF IdsKnown, HistoryTypeOK
<1>2. CASE PostR2
  <2>1. PICK r \in R2PostReplies : SendLoadDrink(r) /\ ExchangeLoadDrink(rid, r)
    BY <1>2, Zenon DEF PostR2
  <2>2. UNCHANGED <<request_id, rid>> /\ runner = "post"
    BY <2>1 DEF SendLoadDrink, RunnerAt, cycleVars
  <2>3. rid \in RequestIds /\ rid \in issued
    BY <2>2 DEF IdsKnown, TypeOK
  <2>4. OrderMoves(rid) /\ (late' = late \/ late' = late \cup {rid})
    BY <1>h, <2>1, <2>3, OrderExchanged
  <2>5. UNCHANGED <<faults, issued, placed, skipped_ids, overtaken>>
    BY <1>2 DEF PostR2
  <2>6. \A id \in RequestIds \ issued : loads'[id] = 0
    BY <2>3, <2>4 DEF OrderMoves, IdsKnown
  <2> QED
    BY <1>0, <2>2, <2>3, <2>4, <2>5, <2>6 DEF IdsKnown, HistoryTypeOK, OrderMoves
<1>3. CASE LateArrival
  <2>1. PICK id \in late :
          /\ late' = late \ {id}
          /\ \E code \in Codes : R2Handles(id, code)
          /\ overtaken' = (overtaken \/ request_id # id)
    BY <1>3, Zenon DEF LateArrival
  <2>2. id \in RequestIds /\ id \in issued
    BY DEF IdsKnown
  <2>3. OrderMoves(id)
    BY <1>h, <1>3, <2>1, <2>2, OrderHandled DEF LateArrival
  <2>4. UNCHANGED <<request_id, rid, runner, faults, issued, placed, skipped_ids>>
    BY <1>3 DEF LateArrival, vars, cycleVars, localVars
  <2>5. \A other \in RequestIds \ issued : loads'[other] = 0
    BY <2>2, <2>3 DEF OrderMoves, IdsKnown
  <2>6. overtaken' \in BOOLEAN
    BY <2>1, Zenon
  <2> QED
    BY <1>0, <2>1, <2>2, <2>3, <2>4, <2>5, <2>6 DEF IdsKnown, HistoryTypeOK, OrderMoves
<1>4. CASE R2Time
  BY <1>0, <1>4
  DEF R2Time, R2Elapse, R2TypeOK, histVars, vars, cycleVars, localVars, IdsKnown
<1>5. CASE PollPF
  BY <1>0, <1>5
  DEF PollPF, PollPFReady, RunnerAt, Goto, Branch, envVars, r2Vars, histVars, cycleVars,
      R2TypeOK, IdsKnown
<1>6. CASE NotifyPF
  <2>1. PICK r \in PFPlacedReplies : NotifyPFPlaced(r) /\ ExchangePlaced(r)
    BY <1>6, Zenon DEF NotifyPF
  <2>2. UNCHANGED <<request_id, rid>> /\ runner' \notin {"send", "post"}
    BY <2>1 DEF NotifyPFPlaced, Goto, cycleVars
  <2>3. CountPlaced(rid) \/ placed' = placed
    BY <2>1 DEF ExchangePlaced
  <2>4. /\ placed' \in [RequestIds -> 0..2]
        /\ \A id \in RequestIds \ {rid} : placed'[id] = placed[id]
    BY <2>3 DEF CountPlaced
  <2>5. UNCHANGED <<r2, r2_elapsed, faults, late, issued, loads, loaded, skipped_ids,
                    overtaken>>
    BY <1>6 DEF NotifyPF, envVars, r2Vars
  <2>6. \A id \in RequestIds \ issued : placed'[id] = 0
    BY <2>4 DEF IdsKnown
  <2> QED
    BY <1>0, <2>2, <2>4, <2>5, <2>6 DEF IdsKnown, R2TypeOK
<1>7. CASE IssueId
  <2>1. PICK id \in RequestIds \ issued :
          EnterSendingLoadDrink(id) /\ issued' = issued \cup {id}
    BY <1>7, Zenon DEF IssueId
  <2>2. rid' = id /\ request_id' = id
    BY <2>1 DEF EnterSendingLoadDrink
  <2> QED
    BY <1>0, <1>7, <2>1, <2>2 DEF IssueId, IdsKnown, R2TypeOK, r2Vars, histVars
<1>8. CASE ServerStep
  <2>1. /\ request_id' \in {request_id, None} /\ rid' \in {rid, request_id, None}
        /\ runner' \in {"send", "post"} => rid' = rid /\ runner \in {"send", "post"}
    <3> USE DEF RunnerAt, Goto, RunnerFrame, cycleVars, localVars
    <3>1. ASSUME NEW h \in Handlers, TryReset(h) \/ HandlerFinish(h)
          PROVE  request_id' \in {request_id, None} /\ UNCHANGED <<rid, runner>>
      BY <3>1
      DEF TryReset, HandlerFinish, PutStart, PutResume, PutWork, ApplyReset,
          ToWaitingStep0
    <3>2. CASE GetWork \/ ResumeAfterLoadDrink \/ EnterPollingR2Ready \/ CheckSkip
      BY <3>2
      DEF GetWork, ResumeAfterLoadDrink, EnterPollingR2Ready, CheckSkip
    <3>3. CASE EnterPollingR2Active \/ JudgeR2Active \/ EnterNotifyingPFPlaced
      BY <3>3 DEF EnterPollingR2Active, JudgeR2Active, EnterNotifyingPFPlaced, Branch
    <3>4. CASE FinishCycle \/ Fail \/ ClientRaises
      BY <3>4 DEF FinishCycle, Fail, ClientRaises, ToWaitingStep0
    <3> QED
      BY <1>8, <3>1, <3>2, <3>3, <3>4 DEF ServerStep
  <2> QED
    BY <1>0, <1>8, <2>1 DEF ServerStep, envVars, r2Vars, histVars, IdsKnown, R2TypeOK
<1>9. CASE KioskStep \/ UNCHANGED cycleAll
  <2>1. UNCHANGED <<request_id, rid, runner>>
    BY <1>9
    DEF KioskStep, EntryStep, StartExternalEntry, RecordKioskStage, ClearEntry, Tick,
        cycleAll, vars, cycleVars, localVars
  <2> QED
    BY <1>0, <1>9, <2>1
    DEF KioskStep, cycleAll, envVars, r2Vars, histVars, IdsKnown, R2TypeOK
<1>10. ASSUME NEW h \in Handlers, CheckIn(h)
       PROVE  DrinkTyped'
  <2>1. request_id' = None /\ UNCHANGED <<rid, runner>>
    BY <1>10 DEF CheckIn, TryStart, BeginCycle, BeginFields, localVars
  <2> QED
    BY <1>0, <1>10, <2>1 DEF CheckIn, envVars, r2Vars, histVars, IdsKnown, R2TypeOK
<1>11. ASSUME NEW h \in Handlers, SkipLoadDrink(h)
       PROVE  DrinkTyped'
  <2>1. UNCHANGED <<request_id, rid, runner>>
    BY <1>11 DEF SkipLoadDrink, SkipPending, SkipResume, localVars
  <2>2. request_id \in OptionalIds
    BY DEF TypeOK
  <2> QED
    BY <1>0, <1>11, <2>1, <2>2 DEF SkipLoadDrink, envVars, r2Vars, IdsKnown, R2TypeOK
<1> QED
  BY <1>1, <1>2, <1>3, <1>4, <1>5, <1>6, <1>7, <1>8, <1>9, <1>10, <1>11 DEF DrinkNext

(* R2, PF, the network and the counts keep their types with the server's.  *)
THEOREM DrinkTypeCorrect == DrinkSpec => []DrinkTypeOK
<1>1. DrinkTyped => DrinkTypeOK
  BY DEF DrinkTyped
<1> QED
  BY <1>1, DrinkTypedInit, DrinkTypedStep, PTL DEF DrinkSpec

-----------------------------------------------------------------------------
(* What a step starts from *)

(* Nothing that disturbs a cycle is forgotten.                             *)
LEMMA Remembered ==
    ASSUME DrinkTyped, [DrinkNext]_cycleAll
    PROVE  /\ reset_in_cycle => reset_in_cycle'
           /\ overtaken => overtaken'
           /\ faults' = faults
<1> USE DEF envVars, histVars
<1>1. CASE PollR2 \/ PostR2 \/ R2Time \/ PollPF \/ NotifyPF
  BY <1>1
  DEF PollR2, PollR2Ready, PollR2Active, PostR2, SendLoadDrink, R2Time, PollPF,
      PollPFReady, NotifyPF, NotifyPFPlaced, RunnerFrame, vars
<1>2. CASE LateArrival
  BY <1>2, Zenon DEF LateArrival, vars
<1>3. CASE IssueId \/ KioskStep \/ UNCHANGED cycleAll
  BY <1>3
  DEF IssueId, EnterSendingLoadDrink, EnterStep, RunnerFrame, KioskStep, EntryStep,
      StartExternalEntry, RecordKioskStage, ClearEntry, Tick, cycleAll, vars
<1>4. ASSUME NEW h \in Handlers, CheckIn(h) \/ SkipLoadDrink(h)
      PROVE  UNCHANGED <<reset_in_cycle, overtaken, faults>>
  BY <1>4 DEF CheckIn, TryStart, SkipLoadDrink, SkipPending, SkipResume
<1>5. CASE ServerStep
  <2>1. UNCHANGED <<overtaken, faults>>
    BY <1>5 DEF ServerStep
  <2>2. ASSUME NEW h \in Handlers, TryReset(h) \/ HandlerFinish(h)
        PROVE  reset_in_cycle => reset_in_cycle'
    <3>1. CASE ApplyReset(h)
      BY <3>1, Zenon DEF ApplyReset
    <3> QED
      BY <2>2, <3>1 DEF TryReset, HandlerFinish, PutStart, PutResume, PutWork
  <2>3. CASE \/ GetWork \/ ResumeAfterLoadDrink \/ EnterPollingR2Ready \/ CheckSkip
             \/ EnterPollingR2Active \/ JudgeR2Active \/ EnterNotifyingPFPlaced
             \/ FinishCycle \/ Fail \/ ClientRaises
    <3>1. UNCHANGED reset_in_cycle
      BY <2>3
      DEF GetWork, ResumeAfterLoadDrink, EnterPollingR2Ready, EnterStep, CheckSkip,
          EnterPollingR2Active, JudgeR2Active, EnterNotifyingPFPlaced, FinishCycle, Fail,
          ClientRaises, RunnerFrame
    <3> QED
      BY <2>1, <3>1, Zenon
  <2> QED
    BY <1>5, <2>1, <2>2, <2>3 DEF ServerStep
<1> QED
  BY <1>1, <1>2, <1>3, <1>4, <1>5 DEF DrinkNext

(* Where nothing has disturbed it, a cycle that somebody holds is in no    *)
(* error, and its only holder is the runner once the runner has it.        *)
LEMMA RunnerHolds ==
    ASSUME Coherent, ~reset_in_cycle, runner # "idle"
    PROVE  /\ phase # "error" /\ queue = <<>>
           /\ \A h \in Handlers : ~Holding(h)
           /\ runner \in {"send", "post", "loaded", "poll_active", "judge", "served",
                          "notify", "placed"} => rid = request_id /\ rid # None
BY DEF Coherent, Exclusive, InCycle, RunnerInStep

(* At the start step, and in an error, no thread, no work in the queue and *)
(* no place of the runner is a cycle's.                                    *)
LEMMA NobodyHolds ==
    ASSUME Coherent, ~reset_in_cycle, ~InCycle
    PROVE  runner = "idle" /\ queue = <<>> /\ \A h \in Handlers : ~Holding(h)
BY DEF Coherent, Exclusive

-----------------------------------------------------------------------------
(* A skip belongs to an order *)

(* Whoever resumes a cycle does so because an operator skipped it, and the *)
(* flag never stands for an order the operator did not skip.               *)
SkipMeant ==
    ~reset_in_cycle =>
        /\ \A h \in Handlers : handler[h] = "put_resume" => skipped
        /\ queue # <<>> /\ Head(queue) = "resume" => skipped
        /\ runner = "resume" => skipped
        /\ skipped /\ request_id # None => request_id \in skipped_ids

(* A skip is recorded, and used, for the cycle it was meant for.           *)
LEMMA SkipMeantStep ==
    ASSUME DrinkTyped, Coherent, SkipMeant, [DrinkNext]_cycleAll
    PROVE  SkipMeant'
<1> SUFFICES ASSUME ~reset_in_cycle' PROVE SkipMeant'
  BY DEF SkipMeant
<1>0. ~reset_in_cycle
  BY Remembered
<1> USE <1>0 DEF SkipMeant, cycleVars, entryVars, localVars, envVars, histVars, RunnerAt,
        Goto, RunnerFrame
<1>t. handler \in [Handlers -> HandlerPCs] /\ queue \in Seq({"start", "resume"})
  BY DEF DrinkTyped, DrinkTypeOK, TypeOK
<1>1. ASSUME UNCHANGED <<skipped, request_id, queue, handler>>, skipped_ids' = skipped_ids,
             runner' = "resume" => runner = "resume"
      PROVE  SkipMeant'
  BY <1>1
<1>2. CASE PollR2 \/ PostR2 \/ PollPF \/ NotifyPF
  <2>1. /\ UNCHANGED <<skipped, request_id, queue, handler>> /\ skipped_ids' = skipped_ids
        /\ runner' # "resume"
    BY <1>2
    DEF PollR2, PollR2Ready, PollR2Active, PostR2, SendLoadDrink, PollPF, PollPFReady,
        NotifyPF, NotifyPFPlaced, Branch
  <2> QED
    BY <1>1, <2>1
<1>3. CASE LateArrival \/ R2Time \/ KioskStep \/ UNCHANGED cycleAll
  <2>1. /\ UNCHANGED <<skipped, request_id, queue, handler, runner>>
        /\ skipped_ids' = skipped_ids
    BY <1>3
    DEF LateArrival, R2Time, KioskStep, EntryStep, StartExternalEntry, RecordKioskStage,
        ClearEntry, Tick, cycleAll, vars
  <2> QED
    BY <1>1, <2>1
<1>4. CASE IssueId
  <2>1. ~skipped
    BY <1>4 DEF IssueId, EnterSendingLoadDrink, Coherent, RunnerInStep, StepAt,
                SkipOnlyThisCycle
  <2>2. UNCHANGED <<skipped, queue, handler>> /\ runner' = "send"
    BY <1>4 DEF IssueId, EnterSendingLoadDrink, EnterStep
  <2> QED
    BY <2>1, <2>2
<1>5. ASSUME NEW h \in Handlers, CheckIn(h)
      PROVE  SkipMeant'
  <2>1. ~InCycle /\ handler' = [handler EXCEPT ![h] = "put_start"]
        /\ request_id' = None /\ UNCHANGED <<queue, runner>>
    BY <1>5 DEF CheckIn, TryStart, AwaitingCheckin, InCycle, BeginCycle, BeginFields
  <2>2. runner = "idle" /\ queue = <<>> /\ \A g \in Handlers : handler[g] # "put_resume"
    BY <2>1, NobodyHolds DEF Holding
  <2> QED
    BY <1>t, <2>1, <2>2
<1>6. ASSUME NEW h \in Handlers, SkipLoadDrink(h)
      PROVE  SkipMeant'
  BY <1>6 DEF SkipLoadDrink, SkipPending, SkipResume
<1>7. ASSUME NEW h \in Handlers, TryReset(h) \/ HandlerFinish(h),
             UNCHANGED <<envVars, histVars>>
      PROVE  SkipMeant'
  <2>1. CASE TryReset(h)
    BY <1>t, <1>7, <2>1 DEF TryReset
  <2>2. CASE ApplyReset(h)
    <3>1. ~InCycle
      BY <2>2, Zenon DEF ApplyReset
    <3>2. queue = <<>> /\ runner = "idle" /\ \A g \in Handlers : handler[g] # "put_resume"
      BY <3>1, NobodyHolds DEF Holding
    <3> QED
      BY <1>t, <1>7, <2>2, <3>2 DEF ApplyReset, ToWaitingStep0
  <2>3. ASSUME NEW work \in {"start", "resume"}, NEW pc \in {"put_start", "put_resume"},
               PutWork(h, work, pc), work = "resume" => skipped
        PROVE  SkipMeant'
    <3>1. queue = <<>>
      BY <2>3 DEF PutWork, Coherent, Exclusive, Holding
    <3>2. Head(queue') = work
      BY <2>3, <3>1, AppendToEmpty DEF PutWork
    <3> QED
      BY <1>t, <1>7, <2>3, <3>2 DEF PutWork
  <2>4. CASE PutStart(h)
    BY <2>3, <2>4 DEF PutStart
  <2>5. CASE PutResume(h)
    BY <2>3, <2>5 DEF PutResume, PutWork
  <2> QED
    BY <1>7, <2>1, <2>2, <2>4, <2>5 DEF HandlerFinish
<1>8. CASE GetWork /\ UNCHANGED histVars
  <2>1. queue' = <<>> /\ Head(queue) \in {"start", "resume"}
    BY <1>t, <1>8, OneEntry DEF GetWork, Coherent, Exclusive
  <2> QED
    BY <1>8, <2>1 DEF GetWork
<1>9. CASE /\ \/ ResumeAfterLoadDrink \/ EnterPollingR2Ready \/ CheckSkip
              \/ EnterPollingR2Active \/ JudgeR2Active \/ EnterNotifyingPFPlaced
              \/ Fail \/ ClientRaises
           /\ UNCHANGED histVars
  <2>1. UNCHANGED <<skipped, request_id, queue, handler, skipped_ids>> /\ runner' # "resume"
    BY <1>9
    DEF ResumeAfterLoadDrink, EnterPollingR2Ready, EnterStep, CheckSkip,
        EnterPollingR2Active, JudgeR2Active, Branch, EnterNotifyingPFPlaced, Fail,
        ClientRaises
  <2> QED
    BY <1>1, <2>1
<1>10. CASE FinishCycle /\ UNCHANGED histVars
  BY <1>10 DEF FinishCycle, ToWaitingStep0
<1> QED
  BY <1>2, <1>3, <1>4, <1>5, <1>6, <1>7, <1>8, <1>9, <1>10 DEF DrinkNext, ServerStep

-----------------------------------------------------------------------------
(* PF is told once, and only of a drink that is there *)

(* The two promises of PlacedAfterLoaded and OnceAGuest about PF, with     *)
(* what the runner knows on the way there: it is past the judgement only   *)
(* with a drink that was loaded or skipped, and past the notification at   *)
(* most once for each order.                                               *)
Reported ==
    ~reset_in_cycle =>
        /\ \A id \in RequestIds : placed[id] <= 1
        /\ \A id \in RequestIds : placed[id] > 0 => id \in loaded \cup skipped_ids
        /\ request_id # None /\ placed[request_id] > 0 =>
             /\ step = "notifying_pf_placed"
             /\ runner \in {"placed", "fail"} \/ phase = "error"
        /\ runner = "judge" /\ result.outcome \in {"returning", "completed"} =>
             result.request_id \in loaded
        /\ runner \in {"served", "notify"} => rid \in loaded \cup skipped_ids

(* A step that tells PF nothing, leaves the cycle where it is or ends it,  *)
(* and makes no judgement.                                                 *)
LEMMA ReportedKept ==
    ASSUME ~reset_in_cycle, Reported,
           placed' = placed, loaded \subseteq loaded', skipped_ids \subseteq skipped_ids',
           \/ request_id' = None
           \/ /\ request_id' = request_id
              /\ placed[request_id] = 0 \/ UNCHANGED <<step, runner, phase>>
           \/ request_id' \in RequestIds /\ placed[request_id'] = 0,
           runner' \in {"judge", "served", "notify"} =>
              UNCHANGED <<runner, result, rid>>
    PROVE  Reported'
BY DEF Reported

(* Nothing but the runner's last call reports a drink as placed, and it    *)
(* comes to that call with a drink that was loaded or skipped.             *)
LEMMA ReportedStep ==
    ASSUME DrinkTyped, Coherent, SkipMeant, Reported, [DrinkNext]_cycleAll
    PROVE  Reported'
<1> SUFFICES ASSUME ~reset_in_cycle' PROVE Reported'
  BY DEF Reported
<1>0. ~reset_in_cycle
  BY Remembered
<1> USE <1>0, NoneAssumption DEF cycleVars, entryVars, localVars, envVars, histVars,
        RunnerAt, Goto, RunnerFrame
<1>t. /\ request_id \in RequestIds \cup {None} /\ rid \in RequestIds \cup {None}
      /\ loads \in [RequestIds -> 0..2] /\ placed \in [RequestIds -> 0..2]
      /\ loaded \subseteq RequestIds /\ R2TypeOK /\ HistoryTypeOK
  BY DEF DrinkTyped, DrinkTypeOK, TypeOK, OptionalIds, HistoryTypeOK
(* Before the notification PF has not been told of the cycle's order.      *)
<1>n. ASSUME runner \notin {"idle", "placed", "fail"}
      PROVE  request_id = None \/ placed[request_id] = 0
  BY <1>n, <1>t, RunnerHolds DEF Reported
<1>1. CASE PollR2
  <2>1. PICK r \in R2StatusReplies :
          (PollR2Ready(r) \/ PollR2Active(r)) /\ ExchangeStatus(r)
    BY <1>1, Zenon DEF PollR2
  <2>2. /\ loaded \subseteq loaded'
        /\ GetStatus(r).outcome \in {"returning", "completed"} =>
             GetStatus(r).request_id \in loaded'
    BY <1>t, <2>1, StatusExchanged DEF DrinkTyped, DrinkTypeOK
  <2>3. UNCHANGED <<placed, skipped_ids, request_id, step, phase, rid>>
    BY <1>1, <2>1 DEF PollR2, PollR2Ready, PollR2Active
  <2>4. CASE PollR2Ready(r)
    <3>1. runner' \notin {"judge", "served", "notify"} /\ runner = "poll_r2"
      BY <2>4 DEF PollR2Ready, Branch
    <3> QED
      BY <1>n, <2>2, <2>3, <3>1, ReportedKept
  <2>5. CASE PollR2Active(r)
    <3>1. runner' = "judge" /\ runner = "poll_active" /\ result' = GetStatus(r)
      BY <2>5 DEF PollR2Active
    <3> QED
      BY <1>n, <1>t, <2>2, <2>3, <3>1 DEF Reported
  <2> QED
    BY <2>1, <2>4, <2>5
<1>2. CASE PostR2
  <2>1. PICK r \in R2PostReplies : SendLoadDrink(r) /\ ExchangeLoadDrink(rid, r)
    BY <1>2, Zenon DEF PostR2
  <2>2. runner = "post" /\ runner' \notin {"judge", "served", "notify"}
    BY <2>1 DEF SendLoadDrink, Branch
  <2>3. rid \in RequestIds
    BY <1>t, <2>2 DEF DrinkTyped, IdsKnown
  <2>4. loaded \subseteq loaded'
    BY <1>t, <2>1, <2>3, OrderExchanged DEF DrinkTyped, DrinkTypeOK, OrderMoves
  <2>5. UNCHANGED <<placed, skipped_ids, request_id>>
    BY <1>2, <2>1 DEF PostR2, SendLoadDrink
  <2> QED
    BY <1>n, <2>2, <2>4, <2>5, ReportedKept
<1>3. CASE LateArrival
  <2>1. PICK id \in late : \E code \in Codes : R2Handles(id, code)
    BY <1>3, Zenon DEF LateArrival
  <2>2. id \in RequestIds /\ R2History
    BY <1>3 DEF DrinkTyped, DrinkTypeOK, LateArrival
  <2>3. loaded \subseteq loaded'
    BY <1>t, <2>1, <2>2, OrderHandled DEF OrderMoves
  <2> QED
    BY <1>3, <2>3, ReportedKept DEF LateArrival, vars
<1>4. CASE R2Time \/ KioskStep \/ UNCHANGED cycleAll
  <2>1. UNCHANGED <<request_id, step, phase, runner, result, rid, placed, loaded, skipped_ids>>
    BY <1>4
    DEF R2Time, KioskStep, EntryStep, StartExternalEntry, RecordKioskStage, ClearEntry,
        Tick, cycleAll, vars
  <2> QED
    BY <2>1, ReportedKept
<1>5. CASE PollPF
  BY <1>5, <1>n, ReportedKept DEF PollPF, PollPFReady, Branch
<1>6. CASE NotifyPF
  <2>1. PICK r \in PFPlacedReplies : NotifyPFPlaced(r) /\ ExchangePlaced(r)
    BY <1>6, Zenon DEF NotifyPF
  <2>2. /\ runner = "notify" /\ runner' \in {"placed", "fail"}
        /\ UNCHANGED <<request_id, step, phase, rid>>
    BY <2>1 DEF NotifyPFPlaced
  <2>3. /\ rid = request_id /\ rid \in RequestIds /\ placed[rid] = 0
        /\ step = "notifying_pf_placed"
    BY <1>n, <1>t, <2>2, RunnerHolds DEF Coherent, RunnerInStep, StepAt
  <2>4. CountPlaced(rid) \/ placed' = placed
    BY <2>1 DEF ExchangePlaced
  <2>5. /\ placed'[rid] \in {0, 1} /\ DOMAIN placed' = RequestIds
        /\ \A id \in RequestIds \ {rid} : placed'[id] = placed[id]
    BY <1>t, <2>3, <2>4 DEF CountPlaced
  <2> QED
    BY <1>6, <2>2, <2>3, <2>5 DEF NotifyPF, Reported
<1>7. CASE IssueId
  <2>1. PICK id \in RequestIds \ issued : EnterSendingLoadDrink(id)
    BY <1>7, Zenon DEF IssueId
  <2>2. placed[id] = 0
    BY <2>1 DEF DrinkTyped, IdsKnown
  <2> QED
    BY <1>7, <2>1, <2>2, ReportedKept DEF IssueId, EnterSendingLoadDrink
<1>8. ASSUME NEW h \in Handlers, CheckIn(h) \/ SkipLoadDrink(h)
      PROVE  Reported'
  <2>1. CASE CheckIn(h)
    <3>1. request_id' = None /\ UNCHANGED <<runner, result, rid, placed, loaded, skipped_ids>>
      BY <2>1 DEF CheckIn, TryStart, BeginCycle, BeginFields
    <3> QED
      BY <3>1, ReportedKept
  <2>2. CASE SkipLoadDrink(h)
    <3>1. /\ step = "sending_load_drink"
          /\ UNCHANGED <<request_id, runner, result, rid, placed, loaded>>
          /\ skipped_ids \subseteq skipped_ids'
      BY <2>2 DEF SkipLoadDrink, SkipPending, SkipResume
    <3>2. request_id = None \/ placed[request_id] = 0
      BY <1>t, <3>1 DEF Reported
    <3> QED
      BY <3>1, <3>2, ReportedKept
  <2> QED
    BY <1>8, <2>1, <2>2
<1>9. ASSUME NEW h \in Handlers, TryReset(h) \/ HandlerFinish(h),
             UNCHANGED <<envVars, histVars>>
      PROVE  Reported'
  <2>1. /\ UNCHANGED <<runner, result, rid, placed, loaded, skipped_ids>>
        /\ request_id' = None \/ UNCHANGED <<request_id, step, phase>>
    BY <1>9
    DEF TryReset, HandlerFinish, PutStart, PutResume, PutWork, ApplyReset, ToWaitingStep0
  <2> QED
    BY <2>1, ReportedKept
<1>10. CASE /\ GetWork \/ ResumeAfterLoadDrink \/ EnterPollingR2Ready \/ CheckSkip
            /\ UNCHANGED <<envVars, histVars>>
  <2>1. /\ runner \in {"idle", "resume", "pf_ready", "send"}
        /\ runner' \notin {"judge", "served", "notify"}
        /\ UNCHANGED <<request_id, placed, loaded, skipped_ids>>
    BY <1>10 DEF GetWork, ResumeAfterLoadDrink, EnterPollingR2Ready, EnterStep, CheckSkip
  <2>2. request_id = None \/ placed[request_id] = 0
    <3>1. CASE GetWork
      <4>1. InCycle /\ step # "notifying_pf_placed"
        BY <3>1 DEF GetWork, Coherent, Exclusive, WorkOfStep
      <4> QED
        BY <1>t, <4>1 DEF Reported
    <3>2. CASE ~GetWork
      BY <1>10, <1>n, <3>2 DEF ResumeAfterLoadDrink, EnterPollingR2Ready, CheckSkip
    <3> QED
      BY <3>1, <3>2
  <2> QED
    BY <2>1, <2>2, ReportedKept
<1>11. CASE (EnterPollingR2Active \/ ClientRaises) /\ UNCHANGED <<envVars, histVars>>
  BY <1>11, <1>n, ReportedKept DEF EnterPollingR2Active, ClientRaises
<1>12. CASE JudgeR2Active /\ UNCHANGED <<envVars, histVars>>
  <2>1. /\ runner = "judge" /\ runner' \in {"poll_active", "fail", "served"}
        /\ UNCHANGED <<request_id, rid>>
        /\ runner' = "served" =>
             ~RequestIdMismatch /\ result.outcome \in {"returning", "completed"}
    BY <1>12 DEF JudgeR2Active, Branch
  <2>2. runner' = "served" => rid \in loaded \cup skipped_ids
    <3> SUFFICES ASSUME runner' = "served" PROVE rid \in loaded \cup skipped_ids
      OBVIOUS
    <3>1. result.request_id \in loaded /\ rid = request_id /\ rid # None
      BY <2>1, RunnerHolds DEF Reported
    <3> QED
      BY <1>t, <2>1, <3>1 DEF RequestIdMismatch, SkipMeant
  <2> QED
    BY <1>12, <1>n, <1>t, <2>1, <2>2 DEF Reported
<1>13. CASE EnterNotifyingPFPlaced /\ UNCHANGED <<envVars, histVars>>
  BY <1>13, <1>n, <1>t DEF EnterNotifyingPFPlaced, EnterStep, Reported
<1>14. CASE FinishCycle /\ UNCHANGED <<envVars, histVars>>
  BY <1>14, ReportedKept DEF FinishCycle, ToWaitingStep0
<1>15. CASE Fail /\ UNCHANGED <<envVars, histVars>>
  BY <1>15, <1>t DEF Fail, Reported
<1> QED
  BY <1>1, <1>2, <1>3, <1>4, <1>5, <1>6, <1>7, <1>8, <1>9, <1>10, <1>11, <1>12, <1>13,
     <1>14, <1>15
  DEF DrinkNext, ServerStep

-----------------------------------------------------------------------------
(* R2 has one order at a time, and it is the cycle's *)

(* From the POST on R2 is either free for the order of the cycle or has    *)
(* it, so that no order is begun twice and no answer is another's.         *)
OneOrder ==
    Undisturbed =>
        /\ \A id \in RequestIds : loads[id] <= 1
        /\ request_id # None /\ loads[request_id] > 0 => r2.request_id = request_id
        /\ runner = "r2_ready" => r2.status = "completed"
        /\ runner \in {"send", "post"} => r2.status = "completed" \/ r2.request_id = rid
        /\ runner \in {"loaded", "poll_active", "judge"} => skipped \/ r2.request_id = rid
        /\ runner = "judge" => skipped \/ result.request_id \in {None, rid}
        /\ message # "request_id" /\ error_message # "request_id"

(* Where the runner relies on what R2 has.                                 *)
R2PCs == {"r2_ready", "send", "post", "loaded", "poll_active", "judge"}

(* A step that leaves R2 alone and brings the runner nowhere new in its    *)
(* dealings with R2.                                                       *)
LEMMA OneOrderKept ==
    ASSUME Undisturbed, OneOrder, r2' = r2, loads' = loads,
           request_id' \in {request_id, None},
           message' = message \/ message' # "request_id",
           error_message' \in {error_message, message, "none"},
           runner' \in R2PCs =>
              UNCHANGED <<runner, result, rid>> /\ (skipped => skipped')
    PROVE  OneOrder'
BY DEF OneOrder, R2PCs

(* The order of the cycle reaches R2, in time or late: for the first time, *)
(* or R2 has it already.                                                   *)
LEMMA OrderOnce ==
    ASSUME DrinkTyped, Undisturbed, OneOrder, request_id \in RequestIds,
           OrderMoves(request_id)
    PROVE  /\ \A id \in RequestIds : loads'[id] <= 1
           /\ loads'[request_id] > 0 => r2'.request_id = request_id
           /\ r2.request_id = request_id => r2'.request_id = request_id
           /\ r2.status = "completed" =>
                r2'.status = "completed" \/ r2'.request_id = request_id
<1>1. \/ loads[request_id] = 0
      \/ loads[request_id] = 1 /\ r2.request_id = request_id
  <2>1. loads[request_id] \in 0..2
    BY DEF DrinkTyped, DrinkTypeOK
  <2>2. loads[request_id] <= 1 /\ (loads[request_id] > 0 => r2.request_id = request_id)
    BY NoneAssumption DEF OneOrder
  <2> QED
    BY <2>1, <2>2
<1>2. \A id \in RequestIds : loads[id] <= 1
  BY DEF OneOrder
<1>3. CASE MovesOn /\ loads' = loads
  BY <1>1, <1>2, <1>3 DEF OrderMoves, MovesOn, Begins
<1>4. CASE Begins(request_id)
  <2>1. r2.request_id # request_id /\ r2'.request_id = request_id
    BY <1>4 DEF Begins
  <2>2. loads[request_id] = 0
    BY <1>1, <2>1
  <2>3. ~(MovesOn /\ loads' = loads)
    BY <2>1 DEF MovesOn
  <2>4. /\ loads'[request_id] = 1
        /\ \A id \in RequestIds \ {request_id} : loads'[id] = loads[id]
    BY <2>2, <2>3 DEF OrderMoves
  <2> QED
    BY <1>2, <2>1, <2>4
<1> QED
  BY <1>3, <1>4 DEF OrderMoves

(* R2 takes an order once: a resend and a late POST find it taken.         *)
LEMMA OneOrderStep ==
    ASSUME DrinkTyped, Coherent, SkipMeant, OneOrder, [DrinkNext]_cycleAll
    PROVE  OneOrder'
<1> SUFFICES ASSUME Undisturbed' PROVE OneOrder'
  BY DEF OneOrder
<1>0. Undisturbed /\ ~reset_in_cycle
  BY Remembered DEF Undisturbed
<1> USE <1>0, NoneAssumption DEF cycleVars, entryVars, localVars, envVars, histVars,
        r2Vars, RunnerAt, Goto, RunnerFrame, R2PCs
<1>t. /\ request_id \in RequestIds \cup {None} /\ rid \in RequestIds \cup {None}
      /\ loads \in [RequestIds -> 0..2] /\ faults \subseteq FaultKinds
      /\ R2TypeOK /\ HistoryTypeOK
  BY DEF DrinkTyped, DrinkTypeOK, TypeOK, OptionalIds, HistoryTypeOK
<1>1. CASE PollR2
  <2>1. PICK r \in R2StatusReplies :
          (PollR2Ready(r) \/ PollR2Active(r)) /\ ExchangeStatus(r)
    BY <1>1, Zenon DEF PollR2
  <2>2. /\ MovesOn /\ loads' = loads
        /\ GetStatus(r).request_id \in {None, r2.request_id}
        /\ GetStatus(r).outcome = "completed" => r2'.status = "completed"
    BY <1>t, <2>1, StatusExchanged
  <2>3. UNCHANGED <<request_id, rid, error_message, skipped>>
    BY <2>1 DEF PollR2Ready, PollR2Active
  <2>4. CASE PollR2Ready(r)
    <3>1. /\ runner' \in {"r2_ready", "poll_r2", "fail"}
          /\ runner' = "r2_ready" => GetStatus(r).outcome = "completed"
          /\ message' \in {message, "r2_status"}
      BY <2>4 DEF PollR2Ready, Branch
    <3> QED
      BY <2>2, <2>3, <3>1 DEF OneOrder, MovesOn
  <2>5. CASE PollR2Active(r)
    <3>1. /\ runner = "poll_active" /\ runner' = "judge" /\ result' = GetStatus(r)
          /\ message' = message
      BY <2>5 DEF PollR2Active
    <3> QED
      BY <2>2, <2>3, <3>1 DEF OneOrder, MovesOn
  <2> QED
    BY <2>1, <2>4, <2>5
<1>2. CASE PostR2
  <2>1. PICK r \in R2PostReplies : SendLoadDrink(r) /\ ExchangeLoadDrink(rid, r)
    BY <1>2, Zenon DEF PostR2
  <2>2. /\ runner = "post" /\ runner' \in {"loaded", "send", "fail"}
        /\ runner' = "loaded" => PostLoadDrink(r) = "accepted"
        /\ UNCHANGED <<request_id, rid, error_message, skipped>>
        /\ message' \in {message, "load_drink"}
    BY <2>1 DEF SendLoadDrink, Branch
  <2>3. rid \in RequestIds /\ rid = request_id
    BY <1>t, <2>2, RunnerHolds DEF Undisturbed
  <2>4. OrderMoves(request_id) /\ (PostLoadDrink(r) = "accepted" => r2'.request_id = rid)
    BY <1>t, <2>1, <2>3, OrderExchanged
  <2> QED
    BY <2>2, <2>3, <2>4, OrderOnce DEF OneOrder
<1>3. CASE LateArrival
  <2>1. PICK id \in late :
          /\ late' = late \ {id}
          /\ \E code \in Codes : R2Handles(id, code)
          /\ overtaken' = (overtaken \/ request_id # id)
    BY <1>3, Zenon DEF LateArrival
  <2>2. id = request_id /\ id \in RequestIds
    <3>1. ~overtaken'
      BY DEF Undisturbed
    <3>2. request_id = id
      BY <2>1, <3>1, Zenon
    <3> QED
      BY <3>2 DEF DrinkTyped, DrinkTypeOK
  <2>3. OrderMoves(request_id)
    BY <1>3, <1>t, <2>1, <2>2, OrderHandled DEF LateArrival
  <2>4. runner \in R2PCs \ {"r2_ready"} => rid = request_id
    BY RunnerHolds
  <2>5. runner # "r2_ready"
    BY <2>2 DEF Coherent, RunnerInStep, StepAt, SnapshotCoherent
  <2>6. UNCHANGED <<request_id, rid, runner, skipped, result, message, error_message>>
    BY <1>3 DEF LateArrival, vars
  <2> QED
    BY <2>2, <2>3, <2>4, <2>5, <2>6, OrderOnce DEF OneOrder
<1>4. CASE R2Time \/ KioskStep \/ UNCHANGED cycleAll
  <2>1. UNCHANGED <<r2, loads, request_id, message, error_message, runner, result, rid,
                    skipped>>
    BY <1>4
    DEF R2Time, R2Elapse, KioskStep, EntryStep, StartExternalEntry, RecordKioskStage,
        ClearEntry, Tick, cycleAll, vars
  <2> QED
    BY <2>1, OneOrderKept
<1>5. CASE PollPF \/ NotifyPF
  <2>1. /\ UNCHANGED <<r2, loads, request_id, error_message>>
        /\ message' \in {message, "pf_status", "placed"}
        /\ runner' \notin R2PCs
    BY <1>5 DEF PollPF, PollPFReady, NotifyPF, NotifyPFPlaced, Branch
  <2> QED
    BY <2>1, OneOrderKept
<1>6. CASE IssueId
  <2>1. PICK id \in RequestIds \ issued : EnterSendingLoadDrink(id)
    BY <1>6, Zenon DEF IssueId
  <2>2. /\ runner = "r2_ready" /\ runner' = "send" /\ request_id' = id /\ rid' = id
        /\ UNCHANGED <<r2, loads, message, error_message>>
    BY <1>6, <2>1 DEF IssueId, EnterSendingLoadDrink, EnterStep
  <2>3. loads[id] = 0
    BY <2>1 DEF DrinkTyped, IdsKnown
  <2> QED
    BY <2>2, <2>3 DEF OneOrder
<1>7. ASSUME NEW h \in Handlers, CheckIn(h) \/ SkipLoadDrink(h)
      PROVE  OneOrder'
  <2>1. CASE CheckIn(h)
    <3>1. ~InCycle
      BY <2>1 DEF CheckIn, TryStart, AwaitingCheckin, InCycle
    <3>2. runner' = "idle"
      BY <2>1, <3>1, NobodyHolds DEF CheckIn, TryStart
    <3> QED
      BY <2>1, <3>2, OneOrderKept DEF CheckIn, TryStart, BeginCycle, BeginFields
  <2>2. CASE SkipLoadDrink(h)
    BY <2>2, OneOrderKept DEF SkipLoadDrink, SkipPending, SkipResume
  <2> QED
    BY <1>7, <2>1, <2>2
<1>8. ASSUME NEW h \in Handlers, TryReset(h) \/ HandlerFinish(h),
             UNCHANGED <<envVars, histVars>>
      PROVE  OneOrder'
  <2>1. /\ UNCHANGED <<r2, loads, message, runner, result, rid, skipped>>
        /\ request_id' \in {request_id, None}
        /\ error_message' \in {error_message, "none"}
    BY <1>8
    DEF TryReset, HandlerFinish, PutStart, PutResume, PutWork, ApplyReset, ToWaitingStep0
  <2> QED
    BY <2>1, OneOrderKept
<1>9. CASE /\ \/ GetWork \/ EnterPollingR2Ready \/ EnterNotifyingPFPlaced
              \/ FinishCycle \/ Fail \/ ClientRaises
           /\ UNCHANGED <<envVars, histVars>>
  <2>1. /\ UNCHANGED <<r2, loads>> /\ runner' \notin R2PCs
        /\ message' \in {message, "none", "internal"}
        /\ request_id' \in {request_id, None}
        /\ error_message' \in {error_message, message, "none"}
    BY <1>9
    DEF GetWork, EnterPollingR2Ready, EnterStep, EnterNotifyingPFPlaced, FinishCycle,
        ToWaitingStep0, Fail, ClientRaises
  <2> QED
    BY <2>1, OneOrderKept
<1>10. CASE ResumeAfterLoadDrink /\ UNCHANGED <<envVars, histVars>>
  BY <1>10 DEF ResumeAfterLoadDrink, OneOrder, SkipMeant
<1>11. CASE CheckSkip /\ UNCHANGED <<envVars, histVars>>
  <2>1. CASE skipped
    BY <1>11, <2>1 DEF CheckSkip, OneOrder
  <2>2. CASE ~skipped
    BY <1>11, <2>2 DEF CheckSkip, OneOrder
  <2> QED
    BY <2>1, <2>2
<1>12. CASE EnterPollingR2Active /\ UNCHANGED <<envVars, histVars>>
  BY <1>12 DEF EnterPollingR2Active, OneOrder
<1>13. CASE JudgeR2Active /\ UNCHANGED <<envVars, histVars>>
  <2>1. runner = "judge" /\ ~RequestIdMismatch
    BY <1>13 DEF JudgeR2Active, RequestIdMismatch, OneOrder
  <2>2. /\ runner' \in {"served", "poll_active", "fail"} /\ message' \in {message, "r2_status"}
        /\ UNCHANGED <<r2, loads, request_id, rid, skipped, error_message>>
    BY <1>13, <2>1 DEF JudgeR2Active, Branch
  <2> QED
    BY <2>1, <2>2 DEF OneOrder
<1> QED
  BY <1>1, <1>2, <1>3, <1>4, <1>5, <1>6, <1>7, <1>8, <1>9, <1>10, <1>11, <1>12, <1>13
  DEF DrinkNext, ServerStep

-----------------------------------------------------------------------------
(* Where robots only answer late *)

(* R2 never fails, the runner is told nothing worse than a timeout, and    *)
(* only the call that is not repeated can end in an error.                 *)
OnlyLate ==
    Undisturbed /\ faults \subseteq {"timeout"} =>
        /\ r2.status # "failed"
        /\ runner = "judge" =>
             result.outcome \in {"loading", "returning", "completed", "timeout"}
        /\ runner = "fail" => message = "placed" /\ "timeout" \in faults
        /\ phase = "error" => error_message = "placed" /\ "timeout" \in faults

(* A step with no bearing on what the runner fails over.                   *)
LEMMA OnlyLateKept ==
    ASSUME Undisturbed, OnlyLate, faults \subseteq {"timeout"}, faults' = faults,
           r2.status # "failed" => r2'.status # "failed",
           runner' = "judge" => UNCHANGED <<runner, result>>,
           runner' = "fail" => UNCHANGED <<runner, message>>,
           phase' = "error" => UNCHANGED <<phase, error_message>>
    PROVE  OnlyLate'
BY DEF OnlyLate

(* An order that is not this cycle's is with R2 only if its POST came      *)
(* late.                                                                   *)
LEMMA OnlyLateStep ==
    ASSUME DrinkTyped, Coherent, OneOrder, OnlyLate, [DrinkNext]_cycleAll
    PROVE  OnlyLate'
<1> SUFFICES ASSUME Undisturbed', faults' \subseteq {"timeout"} PROVE OnlyLate'
  BY DEF OnlyLate
<1>0. Undisturbed /\ ~reset_in_cycle /\ faults' = faults /\ faults \subseteq {"timeout"}
  BY Remembered DEF Undisturbed
<1> USE <1>0 DEF cycleVars, entryVars, localVars, envVars, histVars, r2Vars, RunnerAt,
        Goto, RunnerFrame
<1>t. /\ request_id \in RequestIds \cup {None} /\ rid \in RequestIds \cup {None}
      /\ faults \subseteq FaultKinds /\ "refuse" \notin faults
      /\ R2TypeOK /\ HistoryTypeOK /\ r2.status # "failed"
  BY DEF DrinkTyped, DrinkTypeOK, TypeOK, OptionalIds, HistoryTypeOK, OnlyLate
<1>1. CASE PollR2
  <2>1. PICK r \in R2StatusReplies :
          (PollR2Ready(r) \/ PollR2Active(r)) /\ ExchangeStatus(r)
    BY <1>1, Zenon DEF PollR2
  <2>2. /\ r2'.status # "failed"
        /\ GetStatus(r).outcome \in {"loading", "returning", "completed", "timeout"}
    BY <1>t, <2>1, StatusExchanged
  <2>3. CASE PollR2Ready(r)
    <3>1. runner' \notin {"judge", "fail"} /\ UNCHANGED <<phase, error_message>>
      BY <2>2, <2>3 DEF PollR2Ready, Branch
    <3> QED
      BY <2>2, <3>1, OnlyLateKept
  <2>4. CASE PollR2Active(r)
    <3>1. runner' = "judge" /\ result' = GetStatus(r) /\ UNCHANGED <<phase, error_message>>
      BY <2>4 DEF PollR2Active
    <3> QED
      BY <2>2, <3>1 DEF OnlyLate
  <2> QED
    BY <2>1, <2>3, <2>4
<1>2. CASE PostR2
  <2>1. PICK r \in R2PostReplies : SendLoadDrink(r) /\ ExchangeLoadDrink(rid, r)
    BY <1>2, Zenon DEF PostR2
  <2>2. runner = "post" /\ UNCHANGED <<phase, error_message>>
    BY <2>1 DEF SendLoadDrink
  <2>3. rid \in RequestIds /\ (r2.status = "completed" \/ r2.request_id = rid)
    BY <1>t, <2>2 DEF DrinkTyped, IdsKnown, OneOrder
  <2>4. r2'.status # "failed" /\ PostLoadDrink(r) \in {"accepted", "timeout"}
    BY <1>t, <2>1, <2>3, OrderExchanged
  <2>5. runner' \notin {"judge", "fail"}
    BY <2>1, <2>4 DEF SendLoadDrink, Branch
  <2> QED
    BY <2>2, <2>4, <2>5, OnlyLateKept
<1>3. CASE LateArrival
  <2>1. PICK id \in late : \E code \in Codes : R2Handles(id, code)
    BY <1>3, Zenon DEF LateArrival
  <2>2. id \in RequestIds /\ R2History
    BY <1>3 DEF DrinkTyped, DrinkTypeOK, LateArrival
  <2>3. r2'.status # "failed"
    BY <1>t, <2>1, <2>2, OrderHandled
  <2> QED
    BY <1>3, <2>3, OnlyLateKept DEF LateArrival, vars
<1>4. CASE R2Time \/ KioskStep \/ UNCHANGED cycleAll
  <2>1. UNCHANGED <<r2, runner, result, message, phase, error_message>>
    BY <1>4
    DEF R2Time, R2Elapse, KioskStep, EntryStep, StartExternalEntry, RecordKioskStage,
        ClearEntry, Tick, cycleAll, vars
  <2> QED
    BY <2>1, OnlyLateKept
<1>5. CASE PollPF
  <2>1. PICK r \in PFStatusReplies :
          /\ PollPFReady(r)
          /\ \/ GivesUp(r)
             \/ r.net = "ok" /\ r.code = 200 /\ r.body \in {"Ready", "Initializing"}
             \/ r.net = "ok" /\ r.code # 200 /\ "refuse" \in faults
    BY <1>5, Zenon DEF PollPF
  <2>2. GetGuideRobotStatus(r) \in {"ready", "initializing", "timeout"}
    BY <1>t, <2>1 DEF GivesUp, GetGuideRobotStatus
  <2>3. runner' \notin {"judge", "fail"} /\ UNCHANGED <<phase, error_message>>
    BY <2>1, <2>2 DEF PollPFReady, Branch
  <2> QED
    BY <1>5, <2>3, OnlyLateKept DEF PollPF
<1>6. CASE NotifyPF
  <2>1. PICK r \in PFPlacedReplies : NotifyPFPlaced(r) /\ ExchangePlaced(r)
    BY <1>6, Zenon DEF NotifyPF
  <2>2. /\ runner = "notify" /\ runner' \in {"placed", "fail"}
        /\ UNCHANGED <<phase, error_message>>
        /\ runner' = "fail" => ~PostDrinkPlaced(r) /\ message' = "placed"
    BY <2>1 DEF NotifyPFPlaced
  <2>3. ~PostDrinkPlaced(r) => "timeout" \in faults
    <3>1. \/ r = [net |-> "ok", code |-> 200, body |-> "accepted"]
          \/ GivesUp(r)
      BY <1>t, <2>1 DEF ExchangePlaced
    <3>2. GivesUp(r) => "timeout" \in faults
      BY DEF GivesUp
    <3> QED
      BY <3>1, <3>2 DEF PostDrinkPlaced
  <2> QED
    BY <1>6, <2>2, <2>3 DEF NotifyPF, OnlyLate
<1>7. CASE IssueId
  BY <1>7, OnlyLateKept DEF IssueId, EnterSendingLoadDrink, EnterStep
<1>8. ASSUME NEW h \in Handlers, CheckIn(h) \/ SkipLoadDrink(h)
      PROVE  OnlyLate'
  BY <1>8, OnlyLateKept
  DEF CheckIn, TryStart, BeginCycle, BeginFields, SkipLoadDrink, SkipPending, SkipResume
<1>9. ASSUME NEW h \in Handlers, TryReset(h) \/ HandlerFinish(h),
             UNCHANGED <<envVars, histVars>>
      PROVE  OnlyLate'
  BY <1>9, OnlyLateKept
  DEF TryReset, HandlerFinish, PutStart, PutResume, PutWork, ApplyReset, ToWaitingStep0
<1>10. CASE /\ \/ GetWork \/ ResumeAfterLoadDrink \/ EnterPollingR2Ready \/ CheckSkip
               \/ EnterPollingR2Active \/ EnterNotifyingPFPlaced \/ FinishCycle
            /\ UNCHANGED <<envVars, histVars>>
  <2>1. /\ UNCHANGED r2 /\ runner' \notin {"judge", "fail"}
        /\ phase' = "error" => UNCHANGED <<phase, error_message>>
    BY <1>10
    DEF GetWork, ResumeAfterLoadDrink, EnterPollingR2Ready, EnterStep, CheckSkip,
        EnterPollingR2Active, EnterNotifyingPFPlaced, FinishCycle, ToWaitingStep0
  <2> QED
    BY <2>1, OnlyLateKept
<1>11. CASE JudgeR2Active /\ UNCHANGED <<envVars, histVars>>
  <2>1. runner = "judge" /\ ~RequestIdMismatch
    BY <1>11 DEF JudgeR2Active, RequestIdMismatch, OneOrder
  <2>2. runner' \in {"served", "poll_active"} /\ UNCHANGED <<r2, phase, error_message>>
    BY <1>11, <2>1 DEF JudgeR2Active, Branch, OnlyLate
  <2> QED
    BY <2>2, OnlyLateKept
<1>12. CASE Fail /\ UNCHANGED <<envVars, histVars>>
  BY <1>12 DEF Fail, OnlyLate
<1> QED
  BY <1>t, <1>1, <1>2, <1>3, <1>4, <1>5, <1>6, <1>7, <1>8, <1>9, <1>10, <1>11, <1>12
  DEF DrinkNext, ServerStep

-----------------------------------------------------------------------------
(* The promises of the drink cycle *)

DrinkInv == DrinkTyped /\ SkipMeant /\ Reported /\ OneOrder /\ OnlyLate

(* All the parts hold before the first guest.                              *)
LEMMA DrinkInvInit == DrinkInit => DrinkInv
<1> SUFFICES ASSUME DrinkInit PROVE DrinkInv
  OBVIOUS
<1>1. \A id \in RequestIds : loads[id] = 0 /\ placed[id] = 0
  BY DEF DrinkInit
<1>2. SkipMeant /\ Reported
  BY <1>1 DEF DrinkInit, Init, SkipMeant, Reported
<1>3. OneOrder /\ OnlyLate
  BY <1>1 DEF DrinkInit, Init, R2Init, OneOrder, OnlyLate
<1> QED
  BY <1>2, <1>3, DrinkTypedInit DEF DrinkInv

(* All the parts hold together, always.                                    *)
LEMMA DrinkInvCorrect == DrinkSpec => []DrinkInv
<1>1. Coherent /\ DrinkInv /\ [DrinkNext]_cycleAll => DrinkInv'
  BY DrinkTypedStep, SkipMeantStep, ReportedStep, OneOrderStep, OnlyLateStep DEF DrinkInv
<1>2. TypeOK /\ Coherent => Coherent
  OBVIOUS
<1> QED
  BY <1>1, <1>2, DrinkInvInit, DrinkCoherent, PTL DEF DrinkSpec

(* A guest's drink is loaded once and reported once, for any number of     *)
(* guests, however the POSTs of load-drink are lost, late or repeated and  *)
(* wherever operators skip it.                                             *)
THEOREM OnceAGuestCorrect == DrinkSpec => []OnceAGuest
<1>1. DrinkInv => OnceAGuest
  BY DEF DrinkInv, Reported, OneOrder, OnceAGuest
<1> QED
  BY <1>1, DrinkInvCorrect, PTL

(* PF hears "placed" only of a drink R2 has put on the tray or an operator *)
(* has skipped, whatever R2 answered and whenever.                         *)
THEOREM PlacedAfterLoadedCorrect == DrinkSpec => []PlacedAfterLoaded
<1>1. DrinkInv => PlacedAfterLoaded
  BY DEF DrinkInv, Reported, PlacedAfterLoaded
<1> QED
  BY <1>1, DrinkInvCorrect, PTL

(* The runner never takes its own order for another's.                     *)
THEOREM NoSpuriousMismatchCorrect == DrinkSpec => []NoSpuriousMismatch
<1>1. DrinkInv => NoSpuriousMismatch
  BY DEF DrinkInv, OneOrder, NoSpuriousMismatch
<1> QED
  BY <1>1, DrinkInvCorrect, PTL

(* Robots that are only late stop a cycle nowhere but at drink/placed.     *)
THEOREM TimeoutsAreRetriedCorrect == DrinkSpec => []TimeoutsAreRetried
<1>1. DrinkInv => TimeoutsAreRetried
  BY DEF DrinkInv, OnlyLate, TimeoutsAreRetried
<1> QED
  BY <1>1, DrinkInvCorrect, PTL
=============================================================================
