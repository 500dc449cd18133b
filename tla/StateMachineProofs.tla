------------------------- MODULE StateMachineProofs -------------------------
(***************************************************************************)
(* What TLAPS proves of StateMachine for every set of guests, request      *)
(* threads and request ids and every idle time.                            *)
(***************************************************************************)
EXTENDS StateMachine, SequenceTheorems, TLAPS

-----------------------------------------------------------------------------
(* The clients *)

(* Whatever R2 sends back, the client hands the state machine an outcome   *)
(* it knows (r2_client.get_status).                                        *)
LEMMA GetStatusType ==
    ASSUME NEW r \in R2StatusReplies
    PROVE  GetStatus(r) \in R2Results
<1>1. GetStatus(r).request_id \in OptionalIds
  BY DEF R2StatusReplies, R2Lost, OptionalIds, GetStatus
<1>2. GetStatus(r).outcome \in R2Outcomes
  BY DEF R2StatusReplies, R2Lost, R2Outcomes, GetStatus
<1> QED
  BY <1>1, <1>2 DEF R2Results, GetStatus

-----------------------------------------------------------------------------
(* Type correctness *)

(* StateMachine.__init__ leaves every field with a value of its type.      *)
LEMMA TypeInit == Init => TypeOK
<1> SUFFICES ASSUME Init PROVE TypeOK
  OBVIOUS
<1>1. <<>> \in Seq({"start", "resume"})
  OBVIOUS
<1>2. entry \in [source : ExternalSources \cup {"screen", "none"},
                 stage  : KioskStages \cup {"checkin", "none"}]
  BY DEF Init, NoEntry
<1>3. result \in R2Results
  BY DEF Init, NoResult, R2Results, R2Outcomes, OptionalIds
<1>4. handler \in [Handlers -> HandlerPCs]
  BY DEF Init, HandlerPCs
<1>5. entry_age \in 0..EntryIdle
  BY StateMachineAssumption DEF Init
<1> QED
  BY <1>1, <1>2, <1>3, <1>4, <1>5
  DEF Init, TypeOK, Phases, Steps, Messages, RunnerPCs, OptionalIds

(* Recording, clearing and ageing a kiosk or external entry keeps the      *)
(* types.                                                                  *)
LEMMA TypeEntryStep ==
    ASSUME TypeOK, EntryStep
    PROVE  TypeOK'
<1> USE StateMachineAssumption DEF TypeOK, cycleVars, localVars
<1>1. ASSUME NEW source \in ExternalSources, StartExternalEntry(source)
      PROVE  TypeOK'
  BY <1>1 DEF StartExternalEntry, SetEntry, KioskStages
<1>2. ASSUME NEW stage \in KioskStages, RecordKioskStage(stage)
      PROVE  TypeOK'
  <2>1. KioskSource \in ExternalSources \cup {"screen", "none"}
    BY DEF KioskSource
  <2> QED
    BY <1>2, <2>1 DEF RecordKioskStage, SetEntry
<1>3. CASE ClearEntry
  BY <1>3 DEF ClearEntry, NoEntry
<1>4. CASE Tick
  BY <1>4 DEF Tick
<1> QED
  BY <1>1, <1>2, <1>3, <1>4 DEF EntryStep

(* Check-in, reset and skip requests keep the types, in each of their      *)
(* critical sections.                                                      *)
LEMMA TypeHandlerStep ==
    ASSUME TypeOK, NEW h \in Handlers, HandlerStep(h)
    PROVE  TypeOK'
<1> USE StateMachineAssumption DEF TypeOK, localVars
<1>1. ASSUME NEW guest \in Guests, TryStart(h, guest)
      PROVE  TypeOK'
  <2>1. KioskSource \in ExternalSources \cup {"screen", "none"}
    BY DEF KioskSource
  <2>2. entry' \in [source : ExternalSources \cup {"screen", "none"},
                    stage  : KioskStages \cup {"checkin", "none"}]
    BY <1>1, <2>1 DEF TryStart, BeginCycle, BeginFields, SetEntry
  <2>3. handler' \in [Handlers -> HandlerPCs]
    BY <1>1 DEF TryStart, HandlerPCs
  <2>4. entry_age' \in 0..EntryIdle
    BY <1>1 DEF TryStart, BeginCycle, BeginFields, SetEntry
  <2> QED
    BY <1>1, <2>2, <2>3, <2>4
    DEF TryStart, BeginCycle, BeginFields, Phases, Steps, Messages, OptionalIds
<1>2. CASE TryReset(h)
  BY <1>2 DEF TryReset, HandlerPCs, cycleVars, entryVars
<1>3. CASE SkipPending(h)
  BY <1>3 DEF SkipPending, entryVars
<1>4. CASE SkipResume(h)
  BY <1>4 DEF SkipResume, entryVars, HandlerPCs, Phases, Messages
<1>5. CASE PutStart(h)
  BY <1>5 DEF PutStart, PutWork, HandlerPCs, cycleVars, entryVars
<1>6. CASE PutResume(h)
  BY <1>6 DEF PutResume, PutWork, HandlerPCs, cycleVars, entryVars
<1>7. CASE ApplyReset(h)
  BY <1>7
  DEF ApplyReset, ToWaitingStep0, HandlerPCs, Phases, Steps, Messages, NoEntry,
      OptionalIds
<1> QED
  BY <1>1, <1>2, <1>3, <1>4, <1>5, <1>6, <1>7 DEF HandlerStep, HandlerFinish

(* The runner's own steps, which wait for no robot, keep the types.        *)
LEMMA TypeRunnerLocalStep ==
    ASSUME TypeOK, RunnerLocalStep
    PROVE  TypeOK'
<1> USE StateMachineAssumption
    DEF TypeOK, RunnerAt, Goto, RunnerFrame, RunnerPCs, OptionalIds
<1>1. CASE GetWork
  <2>1. Tail(queue) \in Seq({"start", "resume"})
    BY <1>1 DEF GetWork
  <2> QED
    BY <1>1, <2>1 DEF GetWork, cycleVars, entryVars, localVars
<1>2. CASE ResumeAfterLoadDrink
  BY <1>2 DEF ResumeAfterLoadDrink, cycleVars, entryVars
<1>3. CASE EnterPollingR2Ready
  BY <1>3 DEF EnterPollingR2Ready, EnterStep, entryVars, Steps
<1>4. ASSUME NEW id \in RequestIds, EnterSendingLoadDrink(id)
      PROVE  TypeOK'
  BY <1>4 DEF EnterSendingLoadDrink, EnterStep, entryVars, Steps
<1>5. CASE CheckSkip
  BY <1>5 DEF CheckSkip, cycleVars, entryVars, localVars
<1>6. CASE EnterPollingR2Active
  BY <1>6 DEF EnterPollingR2Active, entryVars, localVars, Phases, Steps
<1>7. CASE JudgeR2Active
  BY <1>7
  DEF JudgeR2Active, Branch, cycleVars, entryVars, Messages, NoResult, R2Results,
      R2Outcomes
<1>8. CASE EnterNotifyingPFPlaced
  BY <1>8 DEF EnterNotifyingPFPlaced, EnterStep, entryVars, Steps
<1>9. CASE FinishCycle
  BY <1>9 DEF FinishCycle, ToWaitingStep0, Phases, Steps, Messages, NoEntry
<1>10. CASE Fail
  BY <1>10 DEF Fail, entryVars, Phases, Messages
<1> QED
  BY <1>1, <1>2, <1>3, <1>4, <1>5, <1>6, <1>7, <1>8, <1>9, <1>10
  DEF RunnerLocalStep

(* No answer of PF or R2, and no exception of a client, breaks the types.  *)
LEMMA TypeRobotStep ==
    ASSUME TypeOK, RobotStep
    PROVE  TypeOK'
<1> USE DEF TypeOK, RunnerAt, Goto, RunnerFrame, RunnerPCs, cycleVars, entryVars,
        Messages, Branch
<1>1. ASSUME NEW r \in PFStatusReplies, PollPFReady(r)
      PROVE  TypeOK'
  BY <1>1 DEF PollPFReady
<1>2. ASSUME NEW r \in R2StatusReplies, PollR2Ready(r)
      PROVE  TypeOK'
  BY <1>2 DEF PollR2Ready
<1>3. ASSUME NEW r \in R2StatusReplies, PollR2Active(r)
      PROVE  TypeOK'
  BY <1>3, GetStatusType DEF PollR2Active
<1>4. ASSUME NEW r \in R2PostReplies, SendLoadDrink(r)
      PROVE  TypeOK'
  BY <1>4 DEF SendLoadDrink
<1>5. ASSUME NEW r \in PFPlacedReplies, NotifyPFPlaced(r)
      PROVE  TypeOK'
  BY <1>5 DEF NotifyPFPlaced
<1>6. CASE ClientRaises
  BY <1>6 DEF ClientRaises
<1> QED
  BY <1>1, <1>2, <1>3, <1>4, <1>5, <1>6 DEF RobotStep

(* TypeOK is inductive: any step of any thread keeps it.                   *)
LEMMA TypeStep ==
    ASSUME TypeOK, [Next]_vars
    PROVE  TypeOK'
<1>1. CASE UNCHANGED vars
  BY <1>1 DEF TypeOK, vars, cycleVars, entryVars, localVars
<1> QED
  BY <1>1, TypeEntryStep, TypeHandlerStep, TypeRunnerLocalStep, TypeRobotStep DEF Next

(* Every field keeps its type, whoever acts in whatever order.             *)
THEOREM TypeCorrect == Spec => []TypeOK
BY TypeInit, TypeStep, PTL DEF Spec

-----------------------------------------------------------------------------
(* One owner, coherent snapshots: Coherent is inductive *)

(* A queue of one entry: what it holds, and what is left when it is taken. *)
LEMMA OneEntry ==
    ASSUME NEW S, NEW q \in Seq(S), q # <<>>, Len(q) <= 1
    PROVE  Tail(q) = <<>> /\ Head(q) \in S
<1>0. Len(q) \in Nat \ {0}
  BY EmptySeq
<1>1. Len(q) = 1
  BY <1>0
<1>2. Tail(q) \in Seq(S) /\ Len(Tail(q)) = 0 /\ Head(q) \in S
  BY <1>1, HeadTailProperties
<1> QED
  BY <1>2, EmptySeq

(* The work queue after a put into an empty one.                           *)
LEMMA AppendToEmpty ==
    ASSUME NEW w
    PROVE  /\ Append(<<>>, w) # <<>>
           /\ Len(Append(<<>>, w)) = 1
           /\ Head(Append(<<>>, w)) = w
<1>1. Append(<<>>, w) = <<w>>
  OBVIOUS
<1>2. Len(<<w>>) = 1 /\ <<w>> # <<>>
  OBVIOUS
<1>3. Head(<<w>>) = w
  BY <1>2
<1> QED
  BY <1>1, <1>2, <1>3

(* The server starts with no cycle, so nobody holds one.                   *)
LEMMA CoherentInit == Init => Coherent
<1> SUFFICES ASSUME Init PROVE Coherent
  OBVIOUS
<1> USE DEF Init
<1>1. Exclusive
  BY DEF Exclusive, Holding, InCycle
<1>2. WorkOfStep
  BY DEF WorkOfStep
<1>3. SnapshotCoherent
  BY DEF SnapshotCoherent, NoEntry, AwaitingCheckin, InCycle
<1>4. RunnerInStep /\ SkipOnlyThisCycle
  BY DEF RunnerInStep, StepAt, SkipOnlyThisCycle
<1> QED
  BY <1>1, <1>2, <1>3, <1>4 DEF Coherent

(* A step in which no work changes hands and the phase and step stay.      *)
LEMMA CoherentEntryStep ==
    ASSUME TypeOK, Coherent, EntryStep
    PROVE  Coherent'
<1> USE DEF Coherent, AwaitingCheckin, InCycle
<1>1. /\ UNCHANGED <<cycleVars, queue, handler, runner, localVars, reset_in_cycle>>
      /\ entry' # entry => AwaitingCheckin
  BY DEF EntryStep, StartExternalEntry, RecordKioskStage, ClearEntry, Tick,
         ExternalStartAvailable
<1>2. AwaitingCheckin /\ ~reset_in_cycle =>
        entry'.stage # "checkin" /\ (entry'.source = "none" <=> entry'.stage = "none")
  BY DEF EntryStep, StartExternalEntry, RecordKioskStage, ClearEntry, Tick, SetEntry,
         KioskSource, EntryInProgress, KioskStages, ExternalSources, NoEntry,
         SnapshotCoherent
<1>3. SnapshotCoherent'
  BY <1>1, <1>2 DEF SnapshotCoherent, cycleVars
<1>4. /\ (~reset_in_cycle => Exclusive /\ WorkOfStep)'
      /\ RunnerInStep' /\ SkipOnlyThisCycle'
  BY <1>1
  DEF Exclusive, Holding, WorkOfStep, RunnerInStep, StepAt, SkipOnlyThisCycle,
      cycleVars, localVars
<1> QED
  BY <1>3, <1>4

(* A request thread takes, queues, revives or resets a cycle without ever  *)
(* sharing it with another holder, unless its reset lands in a cycle.      *)
LEMMA CoherentHandlerStep ==
    ASSUME TypeOK, Coherent, NEW h \in Handlers, HandlerStep(h)
    PROVE  Coherent'
<1> SUFFICES ASSUME ~reset_in_cycle' PROVE Coherent'
  BY DEF Coherent, SnapshotCoherent, RunnerInStep, SkipOnlyThisCycle
<1>0. ~reset_in_cycle
  BY DEF HandlerStep, HandlerFinish, TryStart, TryReset, SkipPending, SkipResume,
         PutStart, PutResume, PutWork, ApplyReset
<1>t. handler \in [Handlers -> HandlerPCs] /\ queue \in Seq({"start", "resume"})
  BY DEF TypeOK
<1> USE <1>0, <1>t
    DEF Coherent, Exclusive, Holding, WorkOfStep, SnapshotCoherent, RunnerInStep,
        StepAt, SkipOnlyThisCycle, AwaitingCheckin, InCycle
<1>1. ASSUME NEW guest \in Guests, TryStart(h, guest)
      PROVE  Coherent'
  <2> USE <1>1, StateMachineAssumption
      DEF TryStart, BeginCycle, BeginFields, SetEntry, localVars
  <2>1. runner = "idle" /\ queue = <<>> /\ \A g \in Handlers : ~Holding(g)
    OBVIOUS
  <2>2. KioskSource # "none"
    BY DEF KioskSource, EntryInProgress, KioskStages
  <2>3. SnapshotCoherent'
    BY <2>2
  <2>4. Exclusive' /\ WorkOfStep'
    BY <2>1
  <2> QED
    BY <2>1, <2>3, <2>4
<1>2. CASE TryReset(h)
  BY <1>2 DEF TryReset, cycleVars, entryVars, localVars
<1>3. CASE SkipPending(h)
  BY <1>3 DEF SkipPending, entryVars, localVars
<1>4. CASE SkipResume(h)
  BY <1>4 DEF SkipResume, entryVars, localVars
<1>5. CASE PutStart(h)
  <2> USE <1>5 DEF PutStart, PutWork, cycleVars, entryVars, localVars
  <2>1. queue = <<>> /\ runner = "idle" /\ Holding(h)
    OBVIOUS
  <2>2. queue' # <<>> /\ Len(queue') = 1 /\ Head(queue') = "start"
    BY <2>1, AppendToEmpty
  <2>3. Exclusive'
    BY <2>1, <2>2
  <2>4. WorkOfStep'
    BY <2>1, <2>2
  <2> QED
    BY <2>1, <2>3, <2>4
<1>6. CASE PutResume(h)
  <2> USE <1>6 DEF PutResume, PutWork, cycleVars, entryVars, localVars
  <2>1. queue = <<>> /\ runner = "idle" /\ Holding(h)
    OBVIOUS
  <2>2. queue' # <<>> /\ Len(queue') = 1 /\ Head(queue') = "resume"
    BY <2>1, AppendToEmpty
  <2>3. Exclusive'
    BY <2>1, <2>2
  <2>4. WorkOfStep'
    BY <2>1, <2>2
  <2> QED
    BY <2>1, <2>3, <2>4
<1>7. CASE ApplyReset(h)
  <2> USE <1>7 DEF ApplyReset, ToWaitingStep0, NoEntry, localVars
  <2>1. ~InCycle
    BY DEF TypeOK
  <2>2. runner = "idle" /\ queue = <<>> /\ \A g \in Handlers : ~Holding(g)
    BY <2>1
  <2>3. Exclusive' /\ WorkOfStep'
    BY <2>2
  <2> QED
    BY <2>2, <2>3
<1> QED
  BY <1>1, <1>2, <1>3, <1>4, <1>5, <1>6, <1>7 DEF HandlerStep, HandlerFinish

(* The runner takes work from the queue and gives the cycle up in the step *)
(* that ends or fails it.                                                  *)
LEMMA CoherentRunnerLocalStep ==
    ASSUME TypeOK, Coherent, RunnerLocalStep
    PROVE  Coherent'
<1> SUFFICES ASSUME ~reset_in_cycle PROVE Coherent'
  BY DEF Coherent, SnapshotCoherent, RunnerInStep, SkipOnlyThisCycle, RunnerLocalStep,
         GetWork, ResumeAfterLoadDrink, EnterPollingR2Ready, EnterStep,
         EnterSendingLoadDrink, CheckSkip, EnterPollingR2Active, JudgeR2Active,
         EnterNotifyingPFPlaced, FinishCycle, Fail, RunnerFrame
<1>t. handler \in [Handlers -> HandlerPCs] /\ queue \in Seq({"start", "resume"})
  BY DEF TypeOK
<1> USE <1>t, NoneAssumption
    DEF Coherent, Exclusive, Holding, WorkOfStep, SnapshotCoherent, RunnerInStep,
        StepAt, SkipOnlyThisCycle, AwaitingCheckin, InCycle, RunnerAt, Goto, RunnerFrame
<1>1. CASE GetWork
  <2>1. queue' = <<>> /\ Head(queue) \in {"start", "resume"}
    BY <1>1, OneEntry DEF GetWork
  <2> QED
    BY <1>1, <2>1 DEF GetWork, cycleVars, entryVars, localVars
<1>2. CASE ResumeAfterLoadDrink
  BY <1>2 DEF ResumeAfterLoadDrink, cycleVars, entryVars
<1>3. CASE EnterPollingR2Ready
  BY <1>3 DEF EnterPollingR2Ready, EnterStep, entryVars
<1>4. ASSUME NEW id \in RequestIds, EnterSendingLoadDrink(id)
      PROVE  Coherent'
  BY <1>4 DEF EnterSendingLoadDrink, EnterStep, entryVars
<1>5. CASE CheckSkip
  BY <1>5 DEF CheckSkip, cycleVars, entryVars, localVars
<1>6. CASE EnterPollingR2Active
  BY <1>6 DEF EnterPollingR2Active, entryVars, localVars
<1>7. CASE JudgeR2Active
  BY <1>7 DEF JudgeR2Active, Branch, cycleVars, entryVars
<1>8. CASE EnterNotifyingPFPlaced
  BY <1>8 DEF EnterNotifyingPFPlaced, EnterStep, entryVars
<1>9. CASE FinishCycle
  BY <1>9 DEF FinishCycle, ToWaitingStep0, NoEntry
<1>10. CASE Fail
  BY <1>10 DEF Fail, entryVars
<1> QED
  BY <1>1, <1>2, <1>3, <1>4, <1>5, <1>6, <1>7, <1>8, <1>9, <1>10
  DEF RunnerLocalStep

(* Whatever the robots answer, the runner stays in the step it is in.      *)
LEMMA CoherentRobotStep ==
    ASSUME TypeOK, Coherent, RobotStep
    PROVE  Coherent'
<1> USE DEF Coherent, Exclusive, Holding, WorkOfStep, SnapshotCoherent, RunnerInStep,
        StepAt, SkipOnlyThisCycle, AwaitingCheckin, InCycle, RunnerAt, Goto,
        RunnerFrame, Branch, cycleVars, entryVars
<1>1. ASSUME NEW r \in PFStatusReplies, PollPFReady(r)
      PROVE  Coherent'
  BY <1>1 DEF PollPFReady
<1>2. ASSUME NEW r \in R2StatusReplies, PollR2Ready(r)
      PROVE  Coherent'
  BY <1>2 DEF PollR2Ready
<1>3. ASSUME NEW r \in R2StatusReplies, PollR2Active(r)
      PROVE  Coherent'
  BY <1>3 DEF PollR2Active
<1>4. ASSUME NEW r \in R2PostReplies, SendLoadDrink(r)
      PROVE  Coherent'
  BY <1>4 DEF SendLoadDrink
<1>5. ASSUME NEW r \in PFPlacedReplies, NotifyPFPlaced(r)
      PROVE  Coherent'
  BY <1>5 DEF NotifyPFPlaced
<1>6. CASE ClientRaises
  BY <1>6 DEF ClientRaises
<1> QED
  BY <1>1, <1>2, <1>3, <1>4, <1>5, <1>6 DEF RobotStep

(* Coherent is inductive relative to the types.                            *)
LEMMA CoherentStep ==
    ASSUME TypeOK, Coherent, [Next]_vars
    PROVE  Coherent'
<1>1. CASE UNCHANGED vars
  BY <1>1
  DEF vars, cycleVars, entryVars, localVars, Coherent, Exclusive, Holding, WorkOfStep,
      SnapshotCoherent, RunnerInStep, StepAt, SkipOnlyThisCycle, AwaitingCheckin,
      InCycle, RunnerAt
<1> QED
  BY <1>1, CoherentEntryStep, CoherentHandlerStep, CoherentRunnerLocalStep,
     CoherentRobotStep DEF Next

(* The inductive invariant holds of every reachable state: up to a reset   *)
(* that lands in a cycle, request threads, queue and runner exclude each   *)
(* other and hold the work of the shared step.                             *)
THEOREM CoherentCorrect == Spec => []Coherent
BY TypeCorrect, CoherentInit, CoherentStep, PTL DEF Spec

-----------------------------------------------------------------------------
(* The properties of the runs *)

(* While a cycle is under way exactly one of the request threads, the      *)
(* queue and the runner holds it, and otherwise none does: try_start, the  *)
(* queue and run_forever neither lose a guest nor serve one twice.         *)
THEOREM OneOwnerCorrect == Spec => []OneOwner
<1>1. ASSUME TypeOK, Coherent PROVE OneOwner
  <2> SUFFICES ASSUME ~reset_in_cycle
               PROVE  IF InCycle THEN \E o \in Owners : Owners = {o} ELSE Owners = {}
    BY DEF OneOwner
  <2>1. Exclusive /\ queue \in Seq({"start", "resume"})
    BY <1>1 DEF Coherent, TypeOK
  <2>2. Len(queue) = IF queue = <<>> THEN 0 ELSE 1
    <3>1. queue # <<>> => Len(queue) \in Nat \ {0}
      BY <2>1, EmptySeq
    <3>2. Len(<<>>) = 0
      OBVIOUS
    <3>3. Len(queue) <= 1
      BY <2>1 DEF Exclusive
    <3>4. CASE queue = <<>>
      BY <3>2, <3>4
    <3>5. CASE queue # <<>>
      <4>1. Len(queue) = 1
        BY <3>1, <3>3, <3>5
      <4> QED
        BY <3>5, <4>1
    <3> QED
      BY <3>4, <3>5
  <2>3. 1..Len(queue) = IF queue = <<>> THEN {} ELSE {1}
    <3>1. 1..0 = {} /\ 1..1 = {1}
      OBVIOUS
    <3> QED
      BY <2>2, <3>1
  <2>4. CASE ~InCycle
    BY <2>1, <2>3, <2>4 DEF Owners, Exclusive, Holding, RunnerAt
  <2>5. CASE runner # "idle"
    <3>1. Owners = {<<"runner", 0>>}
      BY <2>1, <2>3, <2>5 DEF Owners, Exclusive, Holding, RunnerAt
    <3> QED
      BY <2>1, <2>5, <3>1 DEF Exclusive
  <2>6. CASE runner = "idle" /\ queue # <<>>
    <3>1. Owners = {<<"queue", 1>>}
      BY <2>1, <2>3, <2>6 DEF Owners, Exclusive, Holding, RunnerAt
    <3> QED
      BY <2>1, <2>6, <3>1 DEF Exclusive
  <2>7. CASE InCycle /\ runner = "idle" /\ queue = <<>>
    <3>1. PICK h \in Handlers : Holding(h)
      BY <2>1, <2>7 DEF Exclusive
    <3>2. Owners = {<<"handler", h>>}
      BY <2>1, <2>3, <2>7, <3>1 DEF Owners, Exclusive, Holding, RunnerAt
    <3> QED
      BY <2>7, <3>2
  <2> QED
    BY <2>4, <2>5, <2>6, <2>7
<1> QED
  BY <1>1, TypeCorrect, CoherentCorrect, PTL

(* Every snapshot the screens get is of one moment of one cycle.           *)
THEOREM SnapshotCorrect == Spec => []SnapshotCoherent
<1>1. Coherent => SnapshotCoherent
  BY DEF Coherent
<1> QED
  BY <1>1, CoherentCorrect, PTL

(* The runner's place in its code, its request id and the shared step and  *)
(* request id agree.                                                       *)
THEOREM RunnerInStepCorrect == Spec => []RunnerInStep
<1>1. Coherent => RunnerInStep
  BY DEF Coherent
<1> QED
  BY <1>1, CoherentCorrect, PTL

(* No cycle before load-drink ever carries a skip.                         *)
THEOREM SkipOnlyThisCycleCorrect == Spec => []SkipOnlyThisCycle
<1>1. Coherent => SkipOnlyThisCycle
  BY DEF Coherent
<1> QED
  BY <1>1, CoherentCorrect, PTL

-----------------------------------------------------------------------------
(* What a step may never do *)

(* An error of the server is left by a request thread, never by the runner.*)
THEOREM ErrorHeldCorrect == Spec => ErrorHeld
<1>1. ASSUME TypeOK, Coherent, Next, phase = "error", ~reset_in_cycle, phase' # "error"
      PROVE  runner = "idle" /\ \E h \in Handlers : handler[h] # handler'[h]
  <2>1. runner = "idle" /\ queue = <<>> /\ ~AwaitingCheckin
    BY <1>1 DEF Coherent, Exclusive, InCycle, AwaitingCheckin
  <2>2. ~EntryStep
    BY <1>1, <2>1
    DEF EntryStep, StartExternalEntry, RecordKioskStage, ClearEntry, Tick,
        ExternalStartAvailable, cycleVars
  <2>3. ~RunnerLocalStep /\ ~RobotStep
    BY <2>1
    DEF RunnerLocalStep, GetWork, ResumeAfterLoadDrink, EnterPollingR2Ready,
        EnterSendingLoadDrink, CheckSkip, EnterPollingR2Active, JudgeR2Active,
        EnterNotifyingPFPlaced, FinishCycle, Fail, RobotStep, PollPFReady, PollR2Ready,
        PollR2Active, SendLoadDrink, NotifyPFPlaced, ClientRaises, RunnerAt
  <2>4. PICK h \in Handlers : HandlerStep(h)
    BY <1>1, <2>2, <2>3 DEF Next
  <2>5. handler[h] # handler'[h]
    BY <1>1, <2>1, <2>4
    DEF HandlerStep, HandlerFinish, TryStart, TryReset, SkipPending, SkipResume,
        PutStart, PutResume, PutWork, ApplyReset, cycleVars, TypeOK
  <2> QED
    BY <2>1, <2>5
<1>2. ASSUME TypeOK, Coherent, [Next]_vars
      PROVE  [phase = "error" /\ ~reset_in_cycle /\ phase' # "error" =>
                runner = "idle" /\ \E h \in Handlers : handler[h] # handler'[h]]_vars
  BY <1>1, <1>2
<1> QED
  BY <1>2, TypeCorrect, CoherentCorrect, PTL DEF Spec, ErrorHeld

(* The server is back at its start step only after PF accepted drink/placed*)
(* for the guest, or after an operator reset a failed cycle.               *)
THEOREM EndsPlacedOrResetCorrect == Spec => EndsPlacedOrReset
<1> DEFINE Ends == ~AwaitingCheckin /\ AwaitingCheckin' /\ ~reset_in_cycle'
           Allowed == \/ phase = "error" /\ UNCHANGED runner
                      \/ step = "notifying_pf_placed" /\ runner = "placed"
<1>1. ASSUME TypeOK, Coherent, Next, Ends PROVE Allowed
  <2>1. ~EntryStep
    BY <1>1
    DEF EntryStep, StartExternalEntry, RecordKioskStage, ClearEntry, Tick,
        ExternalStartAvailable, cycleVars, AwaitingCheckin
  <2>2. ASSUME NEW h \in Handlers, HandlerStep(h) PROVE Allowed
    BY <1>1, <2>2
    DEF HandlerStep, HandlerFinish, TryStart, BeginCycle, BeginFields, TryReset,
        SkipPending, SkipResume, PutStart, PutResume, PutWork, ApplyReset, cycleVars,
        TypeOK, AwaitingCheckin, InCycle, Coherent, SnapshotCoherent
  <2>3. RunnerLocalStep => runner = "placed" /\ ~reset_in_cycle
    BY <1>1
    DEF RunnerLocalStep, GetWork, ResumeAfterLoadDrink, EnterPollingR2Ready, EnterStep,
        EnterSendingLoadDrink, CheckSkip, EnterPollingR2Active, JudgeR2Active,
        EnterNotifyingPFPlaced, FinishCycle, Fail, RunnerAt, RunnerFrame, cycleVars,
        AwaitingCheckin
  <2>4. ~RobotStep
    BY <1>1
    DEF RobotStep, PollPFReady, PollR2Ready, PollR2Active, SendLoadDrink,
        NotifyPFPlaced, ClientRaises, cycleVars, AwaitingCheckin
  <2>5. RunnerLocalStep => Allowed
    BY <1>1, <2>3 DEF Coherent, RunnerInStep, StepAt
  <2> QED
    BY <1>1, <2>1, <2>2, <2>4, <2>5 DEF Next
<1>2. ASSUME TypeOK, Coherent, [Next]_vars PROVE [Ends => Allowed]_vars
  BY <1>1, <1>2
<1> QED
  BY <1>2, TypeCorrect, CoherentCorrect, PTL DEF Spec, EndsPlacedOrReset

(* The steps of a cycle in the order of run_started_cycle.                 *)
StepOrder ==
    {<<"awaiting_checkin", "polling_pf_ready">>,
     <<"polling_pf_ready", "polling_r2_ready">>,
     <<"polling_r2_ready", "sending_load_drink">>,
     <<"sending_load_drink", "polling_r2_active">>,
     <<"polling_r2_active", "notifying_pf_placed">>}

(* What one step may do to the step, the guest and the request id.         *)
InOrder ==
    /\ \/ step' \in {step, "awaiting_checkin"}
       \/ <<step, step'>> \in StepOrder
    /\ ~AwaitingCheckin /\ ~AwaitingCheckin' => guest_name' = guest_name
    /\ \/ request_id' = request_id
       \/ request_id' = None /\ step' = "awaiting_checkin"
       \/ request_id = None /\ step # step' /\ step' = "sending_load_drink"

(* A cycle goes through its steps in their order: none is left out,        *)
(* skipped load-drinks included, none comes twice, and until it is over    *)
(* the guest is the one who checked in and the request id the one made on  *)
(* entering load-drink (run_started_cycle, resume_after_load_drink).       *)
CycleInOrder == [][~reset_in_cycle' => InOrder]_vars

(* The runner changes the step from the one its place belongs to, a        *)
(* request thread only from the start step or back to it.                  *)
THEOREM CycleInOrderCorrect == Spec => CycleInOrder
<1>1. ASSUME TypeOK, Coherent, Next, ~reset_in_cycle'
      PROVE  InOrder
  <2> USE DEF InOrder, StepOrder
  <2>1. CASE EntryStep
    BY <2>1
    DEF EntryStep, StartExternalEntry, RecordKioskStage, ClearEntry, Tick, cycleVars
  <2>2. ASSUME NEW h \in Handlers, HandlerStep(h) PROVE InOrder
    <3>1. ASSUME NEW guest \in Guests, TryStart(h, guest) PROVE InOrder
      <4>1. AwaitingCheckin /\ request_id = None
        BY <1>1, <3>1
        DEF TryStart, AwaitingCheckin, Coherent, SnapshotCoherent
      <4> QED
        BY <3>1, <4>1 DEF TryStart, BeginCycle, BeginFields, AwaitingCheckin
    <3>2. CASE ApplyReset(h)
      BY <3>2 DEF ApplyReset, ToWaitingStep0, AwaitingCheckin
    <3>3. CASE \/ TryReset(h) \/ SkipPending(h) \/ SkipResume(h)
               \/ PutStart(h) \/ PutResume(h)
      BY <3>3
      DEF TryReset, SkipPending, SkipResume, PutStart, PutResume, PutWork, cycleVars
    <3> QED
      BY <2>2, <3>1, <3>2, <3>3 DEF HandlerStep, HandlerFinish
  <2>3. CASE RunnerLocalStep
    <3>1. ~reset_in_cycle /\ step = StepAt(runner)
      BY <1>1, <2>3
      DEF RunnerLocalStep, GetWork, ResumeAfterLoadDrink, EnterPollingR2Ready, EnterStep,
          EnterSendingLoadDrink, CheckSkip, EnterPollingR2Active, JudgeR2Active,
          EnterNotifyingPFPlaced, FinishCycle, Fail, RunnerFrame, Coherent, RunnerInStep
    <3>2. CASE GetWork \/ ResumeAfterLoadDrink \/ CheckSkip \/ JudgeR2Active \/ Fail
      BY <3>2
      DEF GetWork, ResumeAfterLoadDrink, CheckSkip, JudgeR2Active, Fail, cycleVars
    <3>3. CASE EnterPollingR2Ready \/ EnterNotifyingPFPlaced
      BY <3>1, <3>3
      DEF EnterPollingR2Ready, EnterNotifyingPFPlaced, EnterStep, RunnerAt, StepAt
    <3>4. CASE \E id \in RequestIds : EnterSendingLoadDrink(id)
      <4>1. step = "polling_r2_ready" /\ request_id = None
        BY <1>1, <3>1, <3>4
        DEF EnterSendingLoadDrink, RunnerAt, StepAt, Coherent, SnapshotCoherent
      <4> QED
        BY <3>4, <4>1 DEF EnterSendingLoadDrink, EnterStep
    <3>5. CASE EnterPollingR2Active
      BY <3>1, <3>5 DEF EnterPollingR2Active, RunnerAt, StepAt
    <3>6. CASE FinishCycle
      BY <3>6 DEF FinishCycle, ToWaitingStep0, AwaitingCheckin
    <3> QED
      BY <2>3, <3>2, <3>3, <3>4, <3>5, <3>6 DEF RunnerLocalStep
  <2>4. CASE RobotStep
    BY <2>4
    DEF RobotStep, PollPFReady, PollR2Ready, PollR2Active, SendLoadDrink,
        NotifyPFPlaced, ClientRaises, cycleVars
  <2> QED
    BY <1>1, <2>1, <2>2, <2>3, <2>4 DEF Next
<1>2. ASSUME TypeOK, Coherent, [Next]_vars PROVE [~reset_in_cycle' => InOrder]_vars
  BY <1>1, <1>2
<1> QED
  BY <1>2, TypeCorrect, CoherentCorrect, PTL DEF Spec, CycleInOrder

-----------------------------------------------------------------------------
(* The abstract service *)

(* As long as no reset lands in a running cycle, every step of the state   *)
(* machine is a step of DrinkService or changes nothing it shows.          *)
LEMMA ServiceStep ==
    ASSUME TypeOK, Coherent, Coherent', [Next]_vars, ~reset_in_cycle'
    PROVE  [Service!Next]_(Service!vars)
<1> USE DEF ServiceState, Service!Next, Service!vars
<1>1. CASE UNCHANGED vars
  BY <1>1 DEF vars, cycleVars
<1>2. CASE EntryStep
  BY <1>2 DEF EntryStep, StartExternalEntry, RecordKioskStage, ClearEntry, Tick, cycleVars
<1>3. ASSUME NEW h \in Handlers, HandlerStep(h)
      PROVE  [Service!Next]_(Service!vars)
  <2>1. ASSUME NEW guest \in Guests, TryStart(h, guest)
        PROVE  Service!CheckIn
    <3>1. runner = "idle"
      BY <2>1 DEF TryStart, AwaitingCheckin, Coherent, Exclusive, InCycle, BeginCycle
    <3> QED
      BY <2>1, <3>1
      DEF TryStart, BeginCycle, BeginFields, AwaitingCheckin, Service!CheckIn
  <2>2. CASE SkipResume(h)
    <3>1. runner = "idle"
      BY <2>2 DEF SkipResume, Coherent, Exclusive, InCycle
    <3> QED
      BY <2>2, <3>1 DEF SkipResume, Service!Resume
  <2>3. CASE ApplyReset(h)
    <3>1. ~reset_in_cycle /\ ~InCycle
      BY <2>3 DEF ApplyReset, TypeOK
    <3>2. CASE phase = "error"
      BY <2>3, <3>2 DEF ApplyReset, ToWaitingStep0, Service!Reset
    <3>3. CASE AwaitingCheckin
      BY <2>3, <3>1, <3>3
      DEF ApplyReset, ToWaitingStep0, AwaitingCheckin, Coherent, SnapshotCoherent
    <3> QED
      BY <3>1, <3>2, <3>3 DEF InCycle, Coherent, SnapshotCoherent, AwaitingCheckin
  <2>4. CASE TryReset(h) \/ PutStart(h) \/ PutResume(h) \/ SkipPending(h)
    BY <2>4 DEF TryReset, PutStart, PutResume, PutWork, SkipPending, cycleVars
  <2> QED
    BY <1>3, <2>1, <2>2, <2>3, <2>4 DEF HandlerStep, HandlerFinish
<1>4. CASE RunnerLocalStep
  <2>1. runner # "placed" /\ runner' # "placed" /\ UNCHANGED <<phase, guest_name>>
        /\ (step = "awaiting_checkin" <=> step' = "awaiting_checkin")
        => UNCHANGED Service!vars
    OBVIOUS
  <2>2. ~reset_in_cycle
    BY <1>4
    DEF RunnerLocalStep, GetWork, ResumeAfterLoadDrink, EnterPollingR2Ready, EnterStep,
        EnterSendingLoadDrink, CheckSkip, EnterPollingR2Active, JudgeR2Active,
        EnterNotifyingPFPlaced, FinishCycle, Fail, RunnerFrame
  <2>3. runner # "idle" => InCycle
    BY <2>2 DEF Coherent, Exclusive
  <2>4. step = StepAt(runner)
    BY <2>2 DEF Coherent, RunnerInStep
  <2>5. CASE FinishCycle
    BY <2>3, <2>5 DEF FinishCycle, ToWaitingStep0, RunnerAt, Goto, InCycle, Service!Finish
  <2>6. CASE Fail
    BY <2>3, <2>6 DEF Fail, RunnerAt, Goto, InCycle, Service!Break
  <2>7. CASE GetWork
    BY <2>7 DEF GetWork, RunnerAt, Goto, cycleVars
  <2>8. CASE EnterPollingR2Active
    BY <2>3, <2>4, <2>8 DEF EnterPollingR2Active, RunnerAt, Goto, StepAt, InCycle
  <2>9. CASE EnterPollingR2Ready \/ EnterNotifyingPFPlaced
    BY <2>3, <2>9
    DEF EnterPollingR2Ready, EnterNotifyingPFPlaced, EnterStep, RunnerAt, Goto, InCycle
  <2>10. ASSUME NEW id \in RequestIds, EnterSendingLoadDrink(id)
         PROVE  UNCHANGED Service!vars
    BY <2>3, <2>10 DEF EnterSendingLoadDrink, EnterStep, RunnerAt, Goto, InCycle
  <2>11. CASE ResumeAfterLoadDrink \/ CheckSkip \/ JudgeR2Active
    BY <2>11
    DEF ResumeAfterLoadDrink, CheckSkip, JudgeR2Active, Branch, RunnerAt, Goto, cycleVars
  <2> QED
    BY <1>4, <2>5, <2>6, <2>7, <2>8, <2>9, <2>10, <2>11 DEF RunnerLocalStep
<1>5. CASE RobotStep
  <2>1. UNCHANGED <<phase, step, guest_name>>
    BY <1>5
    DEF RobotStep, PollPFReady, PollR2Ready, PollR2Active, SendLoadDrink,
        NotifyPFPlaced, ClientRaises, cycleVars
  <2>2. runner # "placed" /\ (runner' = "placed" => runner = "notify")
    BY <1>5
    DEF RobotStep, PollPFReady, PollR2Ready, PollR2Active, SendLoadDrink,
        NotifyPFPlaced, ClientRaises, RunnerAt, Goto, Branch
  <2>3. CASE runner' = "placed"
    <3>1. InCycle
      BY <1>5, <2>2, <2>3
      DEF Coherent, Exclusive, RobotStep, PollPFReady, PollR2Ready, PollR2Active,
          SendLoadDrink, NotifyPFPlaced, ClientRaises, RunnerFrame
    <3> QED
      BY <2>1, <2>2, <2>3, <3>1 DEF InCycle, Service!Place
  <2> QED
    BY <2>1, <2>2, <2>3
<1> QED
  BY <1>1, <1>2, <1>3, <1>4, <1>5 DEF Next

(* The server's first state is DrinkService's.                             *)
LEMMA ServiceInit == Init => Service!Init
BY DEF Init, Service!Init, ServiceState

(* The state machine implements DrinkService in every behaviour in which   *)
(* no reset lands in a running cycle.                                      *)
THEOREM ImplementsServiceCorrect == Spec /\ []~reset_in_cycle => ImplementsService
<1>1. ASSUME TypeOK, Coherent, Coherent', [Next]_vars, ~reset_in_cycle'
      PROVE  [Service!Next]_(Service!vars)
  BY <1>1, ServiceStep
<1> QED
  BY <1>1, ServiceInit, TypeCorrect, CoherentCorrect, PTL
  DEF Spec, ImplementsService, Service!Spec

-----------------------------------------------------------------------------
(* One request thread *)

(* A thread that saw the error still has it before it when the requests    *)
(* come one after another.                                                 *)
ResetInError ==
    ~reset_in_cycle /\ \A h \in Handlers : handler[h] = "reset" => phase = "error"

(* While the request threads are one, a reset that has seen the error      *)
(* still finds it when it acts.                                            *)
LEMMA ResetInErrorStep ==
    ASSUME \A h, g \in Handlers : h = g,
           TypeOK, Coherent, ResetInError, [Next]_vars
    PROVE  ResetInError'
<1> USE DEF ResetInError
<1>1. CASE UNCHANGED vars
  BY <1>1 DEF vars, cycleVars
<1>2. CASE EntryStep
  BY <1>2 DEF EntryStep, StartExternalEntry, RecordKioskStage, ClearEntry, Tick, cycleVars
<1>3. ASSUME NEW h \in Handlers, HandlerStep(h)
      PROVE  ResetInError'
  <2>1. handler \in [Handlers -> HandlerPCs]
    BY DEF TypeOK
  <2>2. \A g \in Handlers : g = h
    OBVIOUS
  <2>3. ASSUME NEW guest \in Guests, TryStart(h, guest) PROVE ResetInError'
    BY <2>1, <2>2, <2>3 DEF TryStart
  <2>4. CASE TryReset(h)
    BY <2>1, <2>2, <2>4 DEF TryReset, cycleVars
  <2>5. CASE SkipPending(h)
    BY <2>2, <2>5 DEF SkipPending
  <2>6. CASE SkipResume(h)
    BY <2>1, <2>2, <2>6 DEF SkipResume
  <2>7. CASE PutStart(h) \/ PutResume(h)
    BY <2>1, <2>2, <2>7 DEF PutStart, PutResume, PutWork
  <2>8. CASE ApplyReset(h)
    BY <2>1, <2>2, <2>8 DEF ApplyReset, InCycle
  <2> QED
    BY <1>3, <2>3, <2>4, <2>5, <2>6, <2>7, <2>8 DEF HandlerStep, HandlerFinish
<1>4. CASE RunnerLocalStep \/ RobotStep
  <2>1. UNCHANGED <<handler, reset_in_cycle>>
    BY <1>4
    DEF RunnerLocalStep, GetWork, ResumeAfterLoadDrink, EnterPollingR2Ready, EnterStep,
        EnterSendingLoadDrink, CheckSkip, EnterPollingR2Active, JudgeR2Active,
        EnterNotifyingPFPlaced, FinishCycle, Fail, RobotStep, PollPFReady, PollR2Ready,
        PollR2Active, SendLoadDrink, NotifyPFPlaced, ClientRaises, RunnerFrame
  <2>2. runner # "idle" \/ queue # <<>>
    BY <1>4
    DEF RunnerLocalStep, GetWork, ResumeAfterLoadDrink, EnterPollingR2Ready,
        EnterSendingLoadDrink, CheckSkip, EnterPollingR2Active, JudgeR2Active,
        EnterNotifyingPFPlaced, FinishCycle, Fail, RobotStep, PollPFReady, PollR2Ready,
        PollR2Active, SendLoadDrink, NotifyPFPlaced, ClientRaises, RunnerAt
  <2>3. phase # "error"
    BY <2>2 DEF Coherent, Exclusive, InCycle
  <2> QED
    BY <2>1, <2>3
<1> QED
  BY <1>1, <1>2, <1>3, <1>4 DEF Next

(* With requests served one at a time a reset's effect follows its check   *)
(* before anything else comes in: none ever lands in a running cycle.      *)
LEMMA SerialResets ==
    ASSUME \A h, g \in Handlers : h = g
    PROVE  Spec => []~reset_in_cycle
<1>1. Init => ResetInError
  BY DEF Init, ResetInError
<1>2. ASSUME TypeOK, Coherent, ResetInError, [Next]_vars PROVE ResetInError'
  BY <1>2, ResetInErrorStep
<1>3. ResetInError => ~reset_in_cycle
  BY DEF ResetInError
<1> QED
  BY <1>1, <1>2, <1>3, TypeCorrect, CoherentCorrect, PTL DEF Spec

(* So the state machine then implements DrinkService outright ...          *)
THEOREM SerialImplementsService ==
    ASSUME \A h, g \in Handlers : h = g
    PROVE  Spec => []~reset_in_cycle /\ ImplementsService
BY SerialResets, ImplementsServiceCorrect, PTL

(* ... and keeps the document's "one guest at a time", which two request   *)
(* threads break.                                                          *)
THEOREM SerialOneGuestAtATime ==
    ASSUME \A h, g \in Handlers : h = g
    PROVE  Spec => []OneGuestAtATime
<1>1. OneOwner /\ ~reset_in_cycle => OneGuestAtATime
  BY DEF OneOwner, OneGuestAtATime
<1> QED
  BY <1>1, SerialResets, OneOwnerCorrect, PTL
=============================================================================
