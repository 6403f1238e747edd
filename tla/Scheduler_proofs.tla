--------------------------- MODULE Scheduler_proofs ---------------------------
(***************************************************************************)
(* The safety of Scheduler for every graph, every limit and any number of  *)
(* operations, with pauses, amendments and restructurings in between.      *)
(*                                                                         *)
(* PendingCountsGoroutines is inductive with the types.  On it rests what  *)
(* makes one goroutine per task: a drain ends when nothing is pending,     *)
(* hence when no goroutine is alive, and only then forgets what it         *)
(* dispatched.  From where each dispatched task is follow what becomes of  *)
(* those that run, and, when no user interferes, that the scheduler        *)
(* implements GraphRun.                                                    *)
(***************************************************************************)
EXTENDS Scheduler, TaskGraph_proofs, FiniteSetTheorems, SequenceTheorems, TLAPS

SchedulerInv == TypeOK /\ PendingCountsGoroutines

(* Tasks are tried in the order of their IDs: one is the next.              *)
LEMMA FirstIsUnique ==
    ASSUME SchedulerInv, NEW t \in First, NEW u \in First
    PROVE  u = t
<1>1. t \in Nat /\ u \in Nat
  BY SchedulerAssumption DEF First, SchedulerInv, TypeOK, ExecuteTypeOK
<1>2. t <= u /\ u <= t
  BY DEF First
<1> QED BY <1>1, <1>2

(* What a graph shows of the nodes, and what is written back, are          *)
(* statuses.                                                               *)
LEMMA WriteType ==
    ASSUME NodesTypeOK, NEW g \in Gens
    PROVE  /\ View(g) \in [Tasks -> Status]
           /\ \A t \in Tasks : Node(g, t) \in Nodes
           /\ \A view \in [Tasks -> Status] : Write(g, view) \in [Nodes -> Status]
  BY DEF NodesTypeOK, View, Node, Nodes, Write

LEMMA InitInv == Init => SchedulerInv
<1> SUFFICES ASSUME Init PROVE SchedulerInv
  OBVIOUS
<1>1. 0 \in Gens
  BY SchedulerAssumption DEF Gens
<1>2. ExecuteTypeOK
  BY <1>1 DEF Init, ExecuteTypeOK, Places, NoRound, NoGate
<1>3. NodesTypeOK
  BY <1>1 DEF Init, NodesTypeOK, Nodes, Status
<1>4. WorkersTypeOK
  BY DEF Init, WorkersTypeOK, WorkerPlaces, Live
<1>5. ControlTypeOK /\ UserTypeOK
  BY <1>1 DEF Init, ControlTypeOK, UserTypeOK, Channel, Open, NoOp, UserSteps
<1>6. Live = {}
  BY DEF Init, Live
<1>7. PendingCountsGoroutines
  BY <1>6, FS_EmptySet DEF Init, PendingCountsGoroutines
<1> QED BY <1>2, <1>3, <1>4, <1>5, <1>7 DEF SchedulerInv, TypeOK, Init

LEMMA NodesUnchanged == NodesTypeOK /\ UNCHANGED <<node, status>> => NodesTypeOK'
  BY DEF NodesTypeOK

LEMMA WorkersUnchanged == WorkersTypeOK /\ UNCHANGED workVars => WorkersTypeOK' /\ Live' = Live
  BY DEF WorkersTypeOK, workVars, Live

LEMMA ControlUnchanged == ControlTypeOK /\ UNCHANGED ctlVars => ControlTypeOK'
  BY DEF ControlTypeOK, ctlVars

LEMMA UserUnchanged == UserTypeOK /\ UNCHANGED <<userVars, envVars>> => UserTypeOK'
  BY DEF UserTypeOK, userVars, envVars

(* A received goroutine leaves the count and the channel together.         *)
LEMMA ReceiveType ==
    ASSUME SchedulerInv, Receive, UNCHANGED <<node, workVars>>, pc \notin {"returned",
        "launch"},
           pc' \notin {"launch"}
    PROVE  /\ pending' \in Nat /\ dispatched' \in SUBSET Tasks /\ doneCh' \in Seq(Tasks)
           /\ NodesTypeOK'
           /\ PendingCountsGoroutines'
<1>1. doneCh \in Seq(Tasks) /\ doneCh # <<>>
  BY DEF SchedulerInv, TypeOK, ExecuteTypeOK, Receive
<1>2. /\ Head(doneCh) \in Tasks /\ Tail(doneCh) \in Seq(Tasks)
      /\ Len(doneCh) \in Nat \ {0} /\ Len(Tail(doneCh)) = Len(doneCh) - 1
  BY <1>1
<1>3. IsFiniteSet(Live) /\ Cardinality(Live) \in Nat
  BY SchedulerAssumption, FS_Subset, FS_CardinalityType DEF Live
<1>4. pending = Cardinality(Live) + Len(doneCh)
  BY <1>3, <1>2 DEF SchedulerInv, PendingCountsGoroutines
<1>5. pending' \in Nat
  BY <1>2, <1>3, <1>4 DEF Receive
<1>6. Live' = Live
  BY DEF Live, workVars
<1>7. PendingCountsGoroutines'
  BY <1>2, <1>3, <1>4, <1>6 DEF PendingCountsGoroutines, Receive
<1>8. /\ View(graph) \in [Tasks -> Status]
      /\ \A view \in [Tasks -> Status] : Write(graph, view) \in [Nodes -> Status]
  BY WriteType DEF SchedulerInv, TypeOK, ExecuteTypeOK
<1>9. FailDependents(Deps, View(graph), Head(doneCh)) \in [Tasks -> Status]
  BY <1>8 DEF FailDependents, Status
<1>10. NodesTypeOK'
  BY <1>8, <1>9 DEF SchedulerInv, TypeOK, NodesTypeOK, Receive
<1>11. dispatched' \in SUBSET Tasks /\ doneCh' \in Seq(Tasks)
  BY <1>2 DEF Receive, SchedulerInv, TypeOK, ExecuteTypeOK
<1> QED BY <1>5, <1>7, <1>10, <1>11

(* A new graph does not touch the count of the goroutines of the old one.  *)
LEMMA TakeGraphType ==
    ASSUME SchedulerInv, TakeGraph, UNCHANGED <<ready, round, gate, node, workVars>>,
        pc \notin {"returned", "launch"}
    PROVE  ExecuteTypeOK' /\ NodesTypeOK' /\ ControlTypeOK' /\ PendingCountsGoroutines'
<1>1. ExecuteTypeOK'
  BY DEF SchedulerInv, TypeOK, ExecuteTypeOK, ControlTypeOK, TakeGraph, GoTo, Places
<1>2. NodesTypeOK'
  BY NodesUnchanged DEF SchedulerInv, TypeOK, TakeGraph
<1>3. 0 \in Gens
  BY SchedulerAssumption DEF Gens
<1>4. ControlTypeOK'
  BY <1>3 DEF SchedulerInv, TypeOK, ControlTypeOK, TakeGraph
<1>5. PendingCountsGoroutines'
  BY DEF SchedulerInv, PendingCountsGoroutines, TakeGraph, GoTo, workVars, Live
<1> QED BY <1>1, <1>2, <1>4, <1>5

LEMMA ExecuteStep == SchedulerInv /\ Execute => SchedulerInv'
<1> SUFFICES ASSUME SchedulerInv, Execute PROVE SchedulerInv'
  OBVIOUS
<1> USE DEF SchedulerInv, TypeOK
<1>1. CASE Loop
  <2>1. ExecuteTypeOK'
    BY <1>1 DEF Loop, ExecuteTypeOK, ControlTypeOK, Channel, GoTo, Return, Places
  <2>2. PendingCountsGoroutines'
    BY <1>1 DEF Loop, PendingCountsGoroutines, GoTo, Return, workVars, Live
  <2> QED BY <1>1, <2>1, <2>2, NodesUnchanged, WorkersUnchanged, ControlUnchanged,
      UserUnchanged DEF Loop
<1>2. CASE Gate
  <2>1. ExecuteTypeOK'
    BY <1>2 DEF Gate, ExecuteTypeOK, ControlTypeOK, Channel, GoTo, Places, NoGate
  <2>2. PendingCountsGoroutines'
    BY <1>2 DEF Gate, PendingCountsGoroutines, GoTo, workVars, Live
  <2> QED BY <1>2, <2>1, <2>2, NodesUnchanged, WorkersUnchanged, ControlUnchanged,
      UserUnchanged DEF Gate
<1>3. CASE Held
  <2>1. ExecuteTypeOK'
    BY <1>3 DEF Held, ExecuteTypeOK, GoTo, Return, Places, NoGate
  <2>2. PendingCountsGoroutines'
    BY <1>3 DEF Held, PendingCountsGoroutines, GoTo, Return, workVars, Live
  <2> QED BY <1>3, <2>1, <2>2, NodesUnchanged, WorkersUnchanged, ControlUnchanged,
      UserUnchanged DEF Held
<1>4. CASE Drain
  <2>1. ExecuteTypeOK'
    BY <1>4 DEF Drain, ExecuteTypeOK, GoTo, Return, Places
  <2>2. PendingCountsGoroutines'
    <3>1. Live' = Live
      BY <1>4 DEF Drain, Live, workVars
    <3>2. Cardinality(Live) \in Nat
      BY SchedulerAssumption, FS_Subset, FS_CardinalityType DEF Live
    <3>3. Len(doneCh) \in Nat /\ (doneCh # <<>> => Len(Tail(doneCh)) = Len(doneCh) - 1)
      BY DEF ExecuteTypeOK
    <3>4. pc = "drain" /\ pc' # "launch" /\ pending = Cardinality(Live) + Len(doneCh)
      BY <1>4, <3>2, <3>3 DEF Drain, PendingCountsGoroutines, ExecuteTypeOK, GoTo, Return
    <3>5. \/ UNCHANGED <<pending, doneCh>>
          \/ doneCh # <<>> /\ doneCh' = Tail(doneCh) /\ pending' = pending - 1
      BY <1>4 DEF Drain
    <3>6. pending' = Cardinality(Live) + Len(doneCh')
      BY <3>2, <3>3, <3>4, <3>5 DEF ExecuteTypeOK
    <3> QED BY <3>1, <3>2, <3>4, <3>6 DEF PendingCountsGoroutines
  <2> QED BY <1>4, <2>1, <2>2, NodesUnchanged, WorkersUnchanged, ControlUnchanged,
      UserUnchanged DEF Drain
<1>5. CASE Swap
  <2>1. CASE TakeGraph
    <3>1. /\ UNCHANGED <<ready, round, gate, node, workVars>>
          /\ UNCHANGED <<userVars, envVars>> /\ pc = "swap"
      BY <1>5, <2>1 DEF Swap, TakeGraph
    <3> QED BY <2>1, <3>1, TakeGraphType, WorkersUnchanged, UserUnchanged
  <2>2. CASE ~TakeGraph
    <3>0. ReadyTasks(Deps, View(graph)) \in SUBSET Tasks
      BY SchedulerAssumption DEF ReadyTasks
    <3>1. ExecuteTypeOK'
      <4>1. ready' \in SUBSET Tasks
        BY <1>5, <2>2, <3>0 DEF Swap
      <4>2. round' \in [ready : BOOLEAN, new : BOOLEAN]
        <5>1. round' = [ready |-> (ready' # {}), new |-> FALSE]
          BY <1>5, <2>2 DEF Swap
        <5>2. (ready' # {}) \in BOOLEAN
          OBVIOUS
        <5> QED BY <5>1, <5>2
      <4>3. pc' = "dispatch" /\ UNCHANGED <<result, graph, pending, dispatched, doneCh,
          gate>>
        BY <1>5, <2>2 DEF Swap, GoTo
      <4> QED BY <4>1, <4>2, <4>3 DEF ExecuteTypeOK, Places
    <3>2. PendingCountsGoroutines'
      BY <1>5, <2>2 DEF Swap, PendingCountsGoroutines, GoTo, workVars, Live
    <3> QED BY <1>5, <2>2, <3>1, <3>2, NodesUnchanged, WorkersUnchanged,
        ControlUnchanged, UserUnchanged DEF Swap
  <2> QED BY <2>1, <2>2
<1>6. CASE Skip
  <2>1. ExecuteTypeOK'
    BY <1>6 DEF Skip, First, ExecuteTypeOK, GoTo, Places
  <2>2. PendingCountsGoroutines'
    BY <1>6 DEF Skip, PendingCountsGoroutines, GoTo, workVars, Live
  <2> QED BY <1>6, <2>1, <2>2, NodesUnchanged, WorkersUnchanged, ControlUnchanged,
      UserUnchanged DEF Skip
<1>7. CASE Dispatch
  <2>1. ExecuteTypeOK'
    <3>1. dispatched' \in SUBSET Tasks
      BY <1>7 DEF Dispatch, First, ExecuteTypeOK
    <3>2. round' \in [ready : BOOLEAN, new : BOOLEAN]
      BY <1>7 DEF Dispatch, ExecuteTypeOK
    <3>3. pc' = "launch" /\ pending' = pending + 1 /\ UNCHANGED <<result, graph, ready,
        doneCh, gate>>
      BY <1>7 DEF Dispatch, GoTo
    <3> QED BY <3>1, <3>2, <3>3 DEF ExecuteTypeOK, Places
  <2>2. NodesTypeOK'
    BY <1>7 DEF Dispatch, NodesTypeOK, Status
  <2>3. PendingCountsGoroutines'
    <3>1. Live' = Live
      BY <1>7 DEF Dispatch, Live, workVars
    <3>2. Cardinality(Live) \in Nat
      BY SchedulerAssumption, FS_Subset, FS_CardinalityType DEF Live
    <3>3. Len(doneCh) \in Nat
      BY DEF ExecuteTypeOK
    <3> QED BY <1>7, <3>1, <3>2, <3>3
        DEF Dispatch, PendingCountsGoroutines, ExecuteTypeOK, GoTo
  <2> QED BY <1>7, <2>1, <2>2, <2>3, WorkersUnchanged, ControlUnchanged,
      UserUnchanged DEF Dispatch
<1>8. CASE Launch
  <2>1. PICK t \in First : /\ at' = [at EXCEPT ![Free] = "run"]
                           /\ job' = [job EXCEPT ![Free] = Node(graph, t)]
                           /\ stopped' = [stopped EXCEPT ![Free] = ctxDone]
                           /\ cancels' = [cancels EXCEPT ![t] = {Free}]
                           /\ ready' = ready \ {t}
    BY <1>8 DEF Launch
  <2>2. Free \in Slots /\ at[Free] = "idle"
    BY <1>8 DEF Launch, Live, Free
  <2>3. t \in Tasks /\ Node(graph, t) \in Nodes
    BY WriteType DEF First, ExecuteTypeOK
  <2>4. Live' = Live \cup {Free} /\ Free \notin Live
    BY <2>1, <2>2 DEF Live, WorkersTypeOK
  <2>5. ExecuteTypeOK'
    BY <1>8, <2>1 DEF Launch, ExecuteTypeOK, GoTo, Places
  <2>6. WorkersTypeOK'
    BY <2>1, <2>2, <2>3, <2>4 DEF WorkersTypeOK, WorkerPlaces, ControlTypeOK
  <2>7. PendingCountsGoroutines'
    <3>1. IsFiniteSet(Live) /\ Cardinality(Live) \in Nat
      BY SchedulerAssumption, FS_Subset, FS_CardinalityType DEF Live
    <3>2. Cardinality(Live') = Cardinality(Live) + 1
      BY <2>4, <3>1, FS_AddElement
    <3>3. Len(doneCh) \in Nat
      BY DEF ExecuteTypeOK
    <3> QED BY <1>8, <3>1, <3>2, <3>3 DEF Launch, PendingCountsGoroutines, GoTo
  <2> QED BY <1>8, <2>5, <2>6, <2>7, NodesUnchanged, ControlUnchanged,
      UserUnchanged DEF Launch
<1>9. CASE Settle
  <2>1. ExecuteTypeOK'
    BY <1>9 DEF Settle, ExecuteTypeOK, GoTo, Return, Places, NoRound
  <2>2. PendingCountsGoroutines'
    BY <1>9 DEF Settle, PendingCountsGoroutines, GoTo, Return, workVars, Live
  <2> QED BY <1>9, <2>1, <2>2, NodesUnchanged, WorkersUnchanged, ControlUnchanged,
      UserUnchanged DEF Settle
<1>10. CASE Wait
  <2>1. CASE TakeGraph
    BY <1>10, <2>1, TakeGraphType, WorkersUnchanged, UserUnchanged DEF Wait
  <2>2. CASE Receive /\ GoTo("more") /\ UNCHANGED <<graph, ctlVars>>
    <3>1. pc' = "more" /\ UNCHANGED <<node, workVars>>
      BY <1>10, <2>2 DEF Wait, GoTo
    <3>2. /\ pending' \in Nat /\ dispatched' \in SUBSET Tasks /\ doneCh' \in Seq(Tasks)
          /\ NodesTypeOK' /\ PendingCountsGoroutines'
      BY <1>10, <2>2, <3>1, ReceiveType DEF Wait
    <3>3. ExecuteTypeOK'
      BY <1>10, <2>2, <3>2 DEF Wait, ExecuteTypeOK, GoTo, Places
    <3> QED BY <1>10, <2>2, <3>2, <3>3, WorkersUnchanged, ControlUnchanged,
        UserUnchanged DEF Wait
  <2>3. CASE Return("cancelled") /\ UNCHANGED <<graph, pending, dispatched, doneCh,
      status, ctlVars>>
    <3>1. ExecuteTypeOK'
      BY <1>10, <2>3 DEF Wait, ExecuteTypeOK, Return, Places
    <3>2. PendingCountsGoroutines'
      BY <2>3 DEF PendingCountsGoroutines, Return
    <3> QED BY <1>10, <2>3, <3>1, <3>2, NodesUnchanged, WorkersUnchanged,
        ControlUnchanged, UserUnchanged DEF Wait
  <2> QED BY <1>10, <2>1, <2>2, <2>3 DEF Wait
<1>11. CASE More
  <2>1. CASE Receive /\ GoTo("more")
    <3>1. pc' = "more" /\ UNCHANGED <<node, workVars>>
      BY <1>11, <2>1 DEF More, GoTo
    <3>2. /\ pending' \in Nat /\ dispatched' \in SUBSET Tasks /\ doneCh' \in Seq(Tasks)
          /\ NodesTypeOK' /\ PendingCountsGoroutines'
      BY <1>11, <2>1, <3>1, ReceiveType DEF More
    <3>3. ExecuteTypeOK'
      BY <1>11, <2>1, <3>2 DEF More, ExecuteTypeOK, GoTo, Places
    <3> QED BY <1>11, <3>2, <3>3, WorkersUnchanged, ControlUnchanged, UserUnchanged DEF More
  <2>2. CASE GoTo("loop") /\ UNCHANGED <<pending, dispatched, doneCh, status>>
    <3>1. ExecuteTypeOK'
      BY <1>11, <2>2 DEF More, ExecuteTypeOK, GoTo, Places
    <3>2. PendingCountsGoroutines'
      BY <1>11, <2>2 DEF More, PendingCountsGoroutines, GoTo, workVars, Live
    <3> QED BY <1>11, <2>2, <3>1, <3>2, NodesUnchanged, WorkersUnchanged,
        ControlUnchanged, UserUnchanged DEF More
  <2> QED BY <1>11, <2>1, <2>2 DEF More
<1> QED BY <1>1, <1>2, <1>3, <1>4, <1>5, <1>6, <1>7, <1>8, <1>9, <1>10, <1>11 DEF Execute

LEMMA ExecuteUnchanged ==
    ASSUME SchedulerInv, UNCHANGED execVars, Live' = Live
    PROVE  ExecuteTypeOK' /\ PendingCountsGoroutines'
  BY DEF SchedulerInv, TypeOK, ExecuteTypeOK, PendingCountsGoroutines, execVars

(* A goroutine that moves on stays alive.                                  *)
LEMMA MoveType ==
    ASSUME WorkersTypeOK, NEW w \in Slots, at[w] # "idle",
           NEW place \in WorkerPlaces, place # "idle",
           Move(w, place), UNCHANGED <<job, stopped, cancels>>
    PROVE  WorkersTypeOK' /\ Live' = Live
<1>1. at' \in [Slots -> WorkerPlaces] /\ Live' = Live
  BY DEF WorkersTypeOK, Move, Live
<1> QED BY <1>1 DEF WorkersTypeOK

LEMMA WorkerStep == ASSUME SchedulerInv, NEW w \in Slots, Worker(w) PROVE SchedulerInv'
<1> USE DEF SchedulerInv, TypeOK
<1>1. at[w] # "idle" => job[w] \in Nodes /\ job[w][1] \in Tasks
  BY DEF WorkersTypeOK, Live, Nodes
<1>2. CASE Deliver(w)
  <2>1. NodesTypeOK'
    BY <1>2, SchedulerAssumption DEF Deliver, NodesTypeOK, Status
  <2>2. WorkersTypeOK' /\ Live' = Live
    BY <1>2, MoveType DEF Deliver, WorkerPlaces
  <2> QED BY <1>2, <2>1, <2>2, ExecuteUnchanged, ControlUnchanged, UserUnchanged DEF Deliver
<1>3. CASE Fail(w)
  <2>1. WorkersTypeOK' /\ Live' = Live
    BY <1>3, MoveType DEF Fail, WorkerPlaces
  <2> QED BY <1>3, <2>1, ExecuteUnchanged, NodesUnchanged, ControlUnchanged,
      UserUnchanged DEF Fail
<1>4. CASE Lose(w)
  <2>1. NodesTypeOK'
    BY <1>4 DEF Lose, NodesTypeOK, Status
  <2>2. WorkersTypeOK' /\ Live' = Live
    BY <1>4, MoveType DEF Lose, WorkerPlaces
  <2>3. UserTypeOK'
    BY <1>4 DEF Lose, UserTypeOK, userVars
  <2> QED BY <1>4, <2>1, <2>2, <2>3, ExecuteUnchanged, ControlUnchanged DEF Lose
<1>5. CASE ReadStatus(w)
  <2>1. WorkersTypeOK' /\ Live' = Live
    BY <1>5, MoveType DEF ReadStatus, WorkerPlaces
  <2> QED BY <1>5, <2>1, ExecuteUnchanged, NodesUnchanged, ControlUnchanged,
      UserUnchanged DEF ReadStatus
<1>6. CASE ReadFlags(w)
  <2>1. NodesTypeOK'
    BY <1>6 DEF ReadFlags, NodesTypeOK, Status
  <2>2. WorkersTypeOK' /\ Live' = Live
    BY <1>6, MoveType DEF ReadFlags, WorkerPlaces
  <2> QED BY <1>6, <2>1, <2>2, ExecuteUnchanged, ControlUnchanged, UserUnchanged
      DEF ReadFlags
<1>7. CASE Check(w)
  <2>1. NodesTypeOK'
    BY <1>7 DEF Check, NodesTypeOK, Status
  <2>2. WorkersTypeOK' /\ Live' = Live
    BY <1>7, MoveType DEF Check, WorkerPlaces
  <2>3. UserTypeOK'
    BY <1>7 DEF Check, UserTypeOK, userVars
  <2> QED BY <1>7, <2>1, <2>2, <2>3, ExecuteUnchanged, ControlUnchanged DEF Check
<1>8. CASE Exit(w)
  <2>1. at[w] = "exit" /\ w \in Live /\ job[w][1] \in Tasks
    BY <1>1, <1>8 DEF Exit, Live
  <2>2. Live' = Live \ {w}
    BY <1>8 DEF Exit, Move, Live, WorkersTypeOK
  <2>3. ExecuteTypeOK'
    BY <1>8, <2>1 DEF Exit, ExecuteTypeOK
  <2>4. WorkersTypeOK'
    <3>1. at' \in [Slots -> WorkerPlaces]
      BY <1>8 DEF Exit, Move, WorkersTypeOK, WorkerPlaces
    <3>2. job' \in [Slots -> Nodes \cup {NoJob}] /\ \A v \in Live' : job'[v] \in Nodes
      BY <1>8, <2>2 DEF Exit, WorkersTypeOK, Live
    <3>3. stopped' \in [Slots -> BOOLEAN] /\ cancels' \in [Tasks -> SUBSET Slots]
      BY <1>8 DEF Exit, WorkersTypeOK
    <3> QED BY <3>1, <3>2, <3>3 DEF WorkersTypeOK
  <2>5. PendingCountsGoroutines'
    <3>1. IsFiniteSet(Live) /\ Cardinality(Live) \in Nat
      BY SchedulerAssumption, FS_Subset, FS_CardinalityType DEF Live
    <3>2. Cardinality(Live') = Cardinality(Live) - 1
      BY <2>1, <2>2, <3>1, FS_RemoveElement
    <3>3. Len(doneCh) \in Nat /\ Len(doneCh') = Len(doneCh) + 1
      BY <1>8, <2>1 DEF Exit, ExecuteTypeOK
    <3> QED BY <1>8, <3>1, <3>2, <3>3 DEF Exit, PendingCountsGoroutines
  <2> QED BY <1>8, <2>3, <2>4, <2>5, NodesUnchanged, ControlUnchanged,
      UserUnchanged DEF Exit
<1> QED BY <1>2, <1>3, <1>4, <1>5, <1>6, <1>7, <1>8 DEF Worker

LEMMA ResetType ==
    ASSUME SchedulerInv, NEW from, NEW to \in Status, Reset(from, to), UNCHANGED node
    PROVE  NodesTypeOK'
<1>1. /\ View(graph) \in [Tasks -> Status]
      /\ \A view \in [Tasks -> Status] : Write(graph, view) \in [Nodes -> Status]
  BY WriteType DEF SchedulerInv, TypeOK, ExecuteTypeOK
<1> QED BY <1>1 DEF Reset, NodesTypeOK, SchedulerInv, TypeOK

LEMMA StopType ==
    ASSUME WorkersTypeOK, NEW slots, Stop(slots), UNCHANGED <<at, job, cancels>>
    PROVE  WorkersTypeOK' /\ Live' = Live
  BY DEF WorkersTypeOK, Stop, Live

LEMMA BeginType ==
    ASSUME UserTypeOK, NEW op, NEW step \in UserSteps, NEW t \in Tasks \cup {0},
           Begin(op, step, t), UNCHANGED envVars
    PROVE  UserTypeOK'
  BY DEF UserTypeOK, Begin, envVars

LEMMA StepType ==
    ASSUME UserTypeOK, NEW from, NEW to \in UserSteps, Step(from, to),
           panicked' \in BOOLEAN, UNCHANGED envVars
    PROVE  UserTypeOK'
  BY DEF UserTypeOK, Step, envVars, NoOp, UserSteps

LEMMA AskStep == ASSUME SchedulerInv, Ask PROVE SchedulerInv'
<1> USE DEF SchedulerInv, TypeOK
<1>1. CASE BeginPause
  <2>1. ControlTypeOK' /\ UserTypeOK'
    BY <1>1, BeginType DEF BeginPause, ControlTypeOK, UserSteps
  <2> QED BY <1>1, <2>1, ExecuteUnchanged, NodesUnchanged, WorkersUnchanged DEF BeginPause
<1>2. CASE BeginResume
  <2>1. ControlTypeOK' /\ UserTypeOK'
    BY <1>2 DEF BeginResume, ControlTypeOK, UserTypeOK, UserSteps, envVars
  <2> QED BY <1>2, <2>1, ExecuteUnchanged, NodesUnchanged, WorkersUnchanged DEF BeginResume
<1>3. CASE BeginCancel
  <2>1. NodesTypeOK' /\ UserTypeOK'
    BY <1>3, BeginType, ResetType DEF BeginCancel, UserSteps, Status
  <2> QED BY <1>3, <2>1, ExecuteUnchanged, WorkersUnchanged, ControlUnchanged
      DEF BeginCancel
<1>4. CASE BeginRestructure
  <2>1. UserTypeOK'
    BY <1>4, BeginType DEF BeginRestructure, UserSteps
  <2> QED BY <1>4, <2>1, ExecuteUnchanged, NodesUnchanged, WorkersUnchanged,
      ControlUnchanged DEF BeginRestructure
<1>5. ASSUME NEW t \in Tasks, BeginAmend(t) PROVE SchedulerInv'
  <2>1. UserTypeOK'
    BY <1>5, BeginType DEF BeginAmend, UserSteps
  <2> QED BY <1>5, <2>1, ExecuteUnchanged, NodesUnchanged, WorkersUnchanged,
      ControlUnchanged DEF BeginAmend
<1> QED BY <1>1, <1>2, <1>3, <1>4, <1>5 DEF Ask

LEMMA AnswerStep == ASSUME SchedulerInv, Answer PROVE SchedulerInv'
<1> USE DEF SchedulerInv, TypeOK
<1>1. CASE ClosePause
  <2>1. ControlTypeOK' /\ panicked' \in BOOLEAN
    BY <1>1 DEF ClosePause, ControlTypeOK, Channel, Close
  <2>2. UserTypeOK'
    BY <1>1, <2>1, StepType DEF ClosePause, UserSteps
  <2> QED BY <1>1, <2>1, <2>2, ExecuteUnchanged, NodesUnchanged, WorkersUnchanged
      DEF ClosePause
<1>2. CASE StopForPause
  <2>1. WorkersTypeOK' /\ Live' = Live
    BY <1>2, StopType DEF StopForPause, CancelAllRunning
  <2>2. UserTypeOK'
    BY <1>2, StepType DEF StopForPause, UserSteps, UserTypeOK
  <2> QED BY <1>2, <2>1, <2>2, ExecuteUnchanged, NodesUnchanged, ControlUnchanged
      DEF StopForPause
<1>3. CASE ResetRunning
  <2>1. NodesTypeOK'
    BY <1>3, ResetType DEF ResetRunning, Status
  <2>2. UserTypeOK'
    BY <1>3, StepType DEF ResetRunning, UserSteps, UserTypeOK
  <2> QED BY <1>3, <2>1, <2>2, ExecuteUnchanged, WorkersUnchanged, ControlUnchanged
      DEF ResetRunning
<1>4. CASE CloseResume
  <2>1. ControlTypeOK' /\ panicked' \in BOOLEAN
    BY <1>4 DEF CloseResume, ControlTypeOK, Channel, Close
  <2>2. UserTypeOK'
    BY <1>4, <2>1, StepType DEF CloseResume, UserSteps
  <2> QED BY <1>4, <2>1, <2>2, ExecuteUnchanged, NodesUnchanged, WorkersUnchanged
      DEF CloseResume
<1>5. CASE RenewPauseCh
  <2>1. ControlTypeOK'
    BY <1>5 DEF RenewPauseCh, ControlTypeOK, Channel, Open
  <2>2. UserTypeOK'
    BY <1>5, StepType DEF RenewPauseCh, UserSteps, UserTypeOK
  <2> QED BY <1>5, <2>1, <2>2, ExecuteUnchanged, NodesUnchanged, WorkersUnchanged
      DEF RenewPauseCh
<1>6. CASE RenewResumeCh
  <2>1. ControlTypeOK'
    BY <1>6 DEF RenewResumeCh, ControlTypeOK, Channel, Open
  <2>2. UserTypeOK'
    BY <1>6, StepType DEF RenewResumeCh, UserSteps, UserTypeOK
  <2> QED BY <1>6, <2>1, <2>2, ExecuteUnchanged, NodesUnchanged, WorkersUnchanged
      DEF RenewResumeCh
<1>7. CASE CancelContext
  <2>1. WorkersTypeOK' /\ Live' = Live
    BY <1>7, StopType DEF CancelContext
  <2>2. ControlTypeOK'
    BY <1>7 DEF CancelContext, ControlTypeOK
  <2>3. UserTypeOK'
    BY <1>7, StepType DEF CancelContext, UserSteps, UserTypeOK
  <2> QED BY <1>7, <2>1, <2>2, <2>3, ExecuteUnchanged, NodesUnchanged DEF CancelContext
<1>8. CASE OpenGate
  <2>1. ControlTypeOK' /\ panicked' \in BOOLEAN
    BY <1>8 DEF OpenGate, ControlTypeOK, Channel, Close
  <2>2. UserTypeOK'
    BY <1>8, <2>1, StepType DEF OpenGate, UserSteps
  <2> QED BY <1>8, <2>1, <2>2, ExecuteUnchanged, NodesUnchanged, WorkersUnchanged
      DEF OpenGate
<1>9. CASE ResetAmended
  <2>1. NodesTypeOK'
    BY <1>9 DEF ResetAmended, NodesTypeOK, Status
  <2>2. UserTypeOK'
    BY <1>9, StepType DEF ResetAmended, UserSteps, UserTypeOK
  <2> QED BY <1>9, <2>1, <2>2, ExecuteUnchanged, WorkersUnchanged, ControlUnchanged
      DEF ResetAmended
<1>10. CASE StopAmended
  <2>1. WorkersTypeOK' /\ Live' = Live
    BY <1>10, StopType DEF StopAmended
  <2>2. UserTypeOK'
    BY <1>10, StepType DEF StopAmended, UserSteps, UserTypeOK
  <2> QED BY <1>10, <2>1, <2>2, ExecuteUnchanged, NodesUnchanged, ControlUnchanged
      DEF StopAmended
<1>11. CASE StopForRestructure
  <2>1. WorkersTypeOK' /\ Live' = Live
    BY <1>11, StopType DEF StopForRestructure, CancelAllRunning
  <2>2. ControlTypeOK'
    BY <1>11 DEF StopForRestructure, ControlTypeOK
  <2>3. UserTypeOK'
    BY <1>11, StepType DEF StopForRestructure, UserSteps, UserTypeOK
  <2> QED BY <1>11, <2>1, <2>2, <2>3, ExecuteUnchanged, NodesUnchanged
      DEF StopForRestructure
<1>12. CASE GiveUpRestructure
  <2>1. UserTypeOK'
    BY <1>12, StepType DEF GiveUpRestructure, UserSteps, UserTypeOK
  <2> QED BY <1>12, <2>1, ExecuteUnchanged, NodesUnchanged, WorkersUnchanged,
      ControlUnchanged DEF GiveUpRestructure
<1>13. CASE BuildGraph
  <2>1. active + 1 \in Gens
    BY <1>13, SchedulerAssumption DEF BuildGraph, ControlTypeOK, Gens
  <2>2. NodesTypeOK'
    BY <1>13, <2>1 DEF BuildGraph, NodesTypeOK, ControlTypeOK
  <2>3. ControlTypeOK'
    BY <1>13, <2>1 DEF BuildGraph, ControlTypeOK
  <2>4. UserTypeOK'
    BY <1>13, StepType DEF BuildGraph, UserSteps, UserTypeOK
  <2> QED BY <1>13, <2>2, <2>3, <2>4, ExecuteUnchanged, WorkersUnchanged DEF BuildGraph
<1>14. CASE ReplaceGraph
  <2>1. ControlTypeOK'
    BY <1>14 DEF ReplaceGraph, ControlTypeOK
  <2>2. UserTypeOK'
    BY <1>14, StepType DEF ReplaceGraph, UserSteps, UserTypeOK
  <2> QED BY <1>14, <2>1, <2>2, ExecuteUnchanged, NodesUnchanged, WorkersUnchanged
      DEF ReplaceGraph
<1> QED BY <1>1, <1>2, <1>3, <1>4, <1>5, <1>6, <1>7, <1>8, <1>9, <1>10, <1>11, <1>12,
    <1>13, <1>14 DEF Answer

(* The inductive invariant: the types, and the count of the goroutines.    *)
THEOREM SchedulerInvariant == Spec => []SchedulerInv
<1>1. SchedulerInv /\ [Next]_vars => SchedulerInv'
  <2> SUFFICES ASSUME SchedulerInv, [Next]_vars PROVE SchedulerInv'
    OBVIOUS
  <2>1. CASE UNCHANGED vars
    BY <2>1, ExecuteUnchanged, NodesUnchanged, WorkersUnchanged, ControlUnchanged,
       UserUnchanged
    DEF SchedulerInv, TypeOK, vars
  <2>2. CASE Next
    BY <2>2, ExecuteStep, WorkerStep, AskStep, AnswerStep DEF Next
  <2> QED BY <2>1, <2>2
<1> QED BY InitInv, <1>1, PTL DEF Spec

(* The variables keep their types; `pending`, which Execute decrements,    *)
(* stays a natural number.                                                 *)
THEOREM TypeCorrect == Spec => []TypeOK
<1>1. SchedulerInv => TypeOK
  BY DEF SchedulerInv
<1> QED BY <1>1, SchedulerInvariant, PTL

(* `pending` counts the goroutines alive or not yet received (Execute,     *)
(* scheduler.go:297-573), through every pause, restructuring and           *)
(* cancellation.                                                           *)
THEOREM Counting == Spec => []PendingCountsGoroutines
<1>1. SchedulerInv => PendingCountsGoroutines
  BY DEF SchedulerInv
<1> QED BY <1>1, SchedulerInvariant, PTL

(* While the first graph is executed a dispatched task is in one place:    *)
(* about to be launched, in a goroutine of its own that can be stopped     *)
(* under the task's ID, or in doneCh.                                      *)
TokenInv == graph = 0 =>
    /\ \A w \in Live : job[w][1] \in dispatched /\ cancels[job[w][1]] = {w}
    /\ \A i \in DOMAIN doneCh : doneCh[i] \in dispatched
    /\ \A i, j \in DOMAIN doneCh : doneCh[i] = doneCh[j] => i = j
    /\ \A i \in DOMAIN doneCh, w \in Live : doneCh[i] # job[w][1]
    /\ pc = "launch" => \A t \in First : /\ t \in dispatched
                                         /\ \A w \in Live : job[w][1] # t
                                         /\ \A i \in DOMAIN doneCh : doneCh[i] # t

LEMMA TokensUnchanged ==
    ASSUME TokenInv, UNCHANGED <<graph, dispatched, doneCh, job, cancels>>, Live' = Live,
           pc' = "launch" => pc = "launch" /\ UNCHANGED ready
    PROVE  TokenInv'
<1>1. ready' = ready => First' = First
  BY DEF First
<1> QED BY <1>1 DEF TokenInv

(* The task received is in no other place, so that it may be dispatched    *)
(* again.                                                                  *)
LEMMA ReceiveTokens ==
    ASSUME SchedulerInv, TokenInv, Receive, UNCHANGED <<graph, workVars>>, pc' # "launch"
    PROVE  TokenInv'
<1> SUFFICES ASSUME graph = 0 PROVE TokenInv'
  BY DEF TokenInv
<1>1. doneCh \in Seq(Tasks) /\ doneCh # <<>>
  BY DEF SchedulerInv, TypeOK, ExecuteTypeOK, Receive
<1>2. /\ Head(doneCh) = doneCh[1] /\ 1 \in DOMAIN doneCh
      /\ \A i \in DOMAIN doneCh' : /\ i + 1 \in DOMAIN doneCh
                                   /\ doneCh'[i] = doneCh[i + 1]
                                   /\ i + 1 # 1 /\ i \in Nat
  BY <1>1 DEF Receive
<1>3. dispatched' = dispatched \ {doneCh[1]} /\ Live' = Live /\ UNCHANGED <<job, cancels>>
  BY <1>2 DEF Receive, workVars, Live
<1>4. \A w \in Live' : job'[w][1] \in dispatched' /\ cancels'[job'[w][1]] = {w}
  BY <1>2, <1>3 DEF TokenInv
<1>5. \A i \in DOMAIN doneCh' : doneCh'[i] \in dispatched'
  BY <1>2, <1>3 DEF TokenInv
<1>6. \A i, j \in DOMAIN doneCh' : doneCh'[i] = doneCh'[j] => i = j
  <2> TAKE i, j \in DOMAIN doneCh'
  <2> HAVE doneCh'[i] = doneCh'[j]
  <2>1. i + 1 = j + 1
    BY <1>2 DEF TokenInv
  <2> QED BY <2>1, <1>2
<1>7. \A i \in DOMAIN doneCh', w \in Live' : doneCh'[i] # job'[w][1]
  BY <1>2, <1>3 DEF TokenInv
<1> QED BY <1>4, <1>5, <1>6, <1>7 DEF TokenInv

LEMMA TakeGraphTokens == ControlTypeOK /\ TakeGraph => TokenInv'
  BY DEF TakeGraph, TokenInv

(* The drain is the step that needs the count: see <2>3 of <1>4.           *)
LEMMA ExecuteTokens == ASSUME SchedulerInv, TokenInv, Execute PROVE TokenInv'
<1>1. CASE Loop
  BY <1>1, TokensUnchanged DEF Loop, workVars, Live, GoTo, Return
<1>2. CASE Gate
  BY <1>2, TokensUnchanged DEF Gate, workVars, Live, GoTo
<1>3. CASE Held
  BY <1>3, TokensUnchanged DEF Held, workVars, Live, GoTo, Return
<1>4. CASE Drain
  <2>1. Live' = Live /\ UNCHANGED <<graph, job, cancels>> /\ pc' # "launch" /\ pc = "drain"
    BY <1>4 DEF Drain, workVars, Live, GoTo, Return
  <2>2. doneCh \in Seq(Tasks) /\ Len(doneCh) \in Nat
    BY DEF SchedulerInv, TypeOK, ExecuteTypeOK
  <2>3. CASE pending = 0 /\ dispatched' = {} /\ UNCHANGED doneCh
    <3>1. IsFiniteSet(Live) /\ Cardinality(Live) \in Nat
      BY SchedulerAssumption, FS_Subset, FS_CardinalityType DEF Live
    <3>2. Cardinality(Live) = 0 /\ Len(doneCh) = 0
      BY <2>1, <2>2, <2>3, <3>1 DEF SchedulerInv, PendingCountsGoroutines
    <3>3. Live = {} /\ DOMAIN doneCh = {}
      BY <2>2, <3>1, <3>2, FS_EmptySet
    <3> QED BY <2>1, <2>3, <3>3 DEF TokenInv
  <2>4. CASE doneCh # <<>> /\ doneCh' = Tail(doneCh) /\ UNCHANGED dispatched
    <3>1. \A i \in DOMAIN doneCh' : /\ i + 1 \in DOMAIN doneCh /\ i \in Nat
                                    /\ doneCh'[i] = doneCh[i + 1]
      BY <2>2, <2>4
    <3>2. ASSUME graph = 0, NEW i \in DOMAIN doneCh', NEW j \in DOMAIN doneCh',
        doneCh'[i] = doneCh'[j]
          PROVE  i = j
      <4>1. i + 1 = j + 1
        BY <3>1, <3>2 DEF TokenInv
      <4> QED BY <3>1, <4>1
    <3> QED BY <2>1, <2>4, <3>1, <3>2 DEF TokenInv
  <2>5. CASE UNCHANGED <<pending, dispatched, doneCh>>
    BY <2>1, <2>5, TokensUnchanged
  <2> QED BY <1>4, <2>3, <2>4, <2>5 DEF Drain
<1>5. CASE Swap
  <2>1. CASE TakeGraph
    BY <2>1, TakeGraphTokens DEF SchedulerInv, TypeOK
  <2>2. CASE ~TakeGraph
    BY <1>5, <2>2, TokensUnchanged DEF Swap, workVars, Live, GoTo
  <2> QED BY <2>1, <2>2
<1>6. CASE Skip
  BY <1>6, TokensUnchanged DEF Skip, workVars, Live, GoTo
<1>7. CASE Dispatch
  <2>1. PICK t \in First \ dispatched : dispatched' = dispatched \cup {t}
    BY <1>7 DEF Dispatch
  <2>2. Live' = Live /\ First' = First /\ UNCHANGED <<graph, doneCh, job, cancels>>
    BY <1>7 DEF Dispatch, workVars, Live, First
  <2>3. \A u \in First : u = t
    BY <2>1, FirstIsUnique
  <2> QED BY <2>1, <2>2, <2>3 DEF TokenInv
<1>8. CASE Launch
  <2>1. PICK t \in First : /\ at' = [at EXCEPT ![Free] = "run"]
                           /\ job' = [job EXCEPT ![Free] = Node(graph, t)]
                           /\ cancels' = [cancels EXCEPT ![t] = {Free}]
    BY <1>8 DEF Launch
  <2>2. Free \in Slots /\ at[Free] = "idle" /\ t \in Tasks
    BY <1>8, <2>1 DEF Launch, Live, Free, First, SchedulerInv, TypeOK, ExecuteTypeOK
  <2>3. Live' = Live \cup {Free} /\ Free \notin Live
    BY <2>1, <2>2 DEF Live, SchedulerInv, TypeOK, WorkersTypeOK
  <2>4. pc = "launch" /\ pc' = "dispatch" /\ UNCHANGED <<graph, dispatched, doneCh>>
    BY <1>8 DEF Launch, GoTo
  <2>5. /\ job'[Free][1] = t /\ cancels'[t] = {Free}
        /\ \A w \in Live : job'[w] = job[w]
        /\ \A w \in Live : job[w][1] # t => cancels'[job[w][1]] = cancels[job[w][1]]
    <3>1. job'[Free] = <<t, node[graph][t]>>
      BY <2>1, <2>2 DEF Node, SchedulerInv, TypeOK, WorkersTypeOK
    <3>2. cancels'[t] = {Free}
      BY <2>1, <2>2 DEF SchedulerInv, TypeOK, WorkersTypeOK
    <3>3. \A w \in Live : w \in Slots /\ job[w][1] \in Tasks
      BY DEF SchedulerInv, TypeOK, WorkersTypeOK, Live, Nodes
    <3>4. \A w \in Live : job'[w] = job[w]
      BY <2>1, <2>3, <3>3 DEF SchedulerInv, TypeOK, WorkersTypeOK
    <3>5. \A w \in Live : job[w][1] # t => cancels'[job[w][1]] = cancels[job[w][1]]
      BY <2>1, <3>3 DEF SchedulerInv, TypeOK, WorkersTypeOK
    <3> QED BY <3>1, <3>2, <3>4, <3>5
  <2> SUFFICES ASSUME graph = 0 PROVE TokenInv'
    BY <2>4 DEF TokenInv
  <2>6. /\ t \in dispatched
        /\ \A w \in Live : job[w][1] # t
        /\ \A i \in DOMAIN doneCh : doneCh[i] # t
    <3>1. \A u \in First : /\ u \in dispatched
                           /\ \A w \in Live : job[w][1] # u
                           /\ \A i \in DOMAIN doneCh : doneCh[i] # u
      BY <2>4 DEF TokenInv
    <3> QED BY <3>1
  <2>7. \A w \in Live' : job'[w][1] \in dispatched' /\ cancels'[job'[w][1]] = {w}
    <3> TAKE w \in Live'
    <3>1. CASE w = Free
      BY <2>4, <2>5, <2>6, <3>1
    <3>2. CASE w \in Live
      BY <2>4, <2>5, <2>6, <3>2 DEF TokenInv
    <3> QED BY <2>3, <3>1, <3>2
  <2>8. \A i \in DOMAIN doneCh, w \in Live' : doneCh[i] # job'[w][1]
    BY <2>3, <2>5, <2>6 DEF TokenInv
  <2> QED BY <2>4, <2>7, <2>8 DEF TokenInv
<1>9. CASE Settle
  BY <1>9, TokensUnchanged DEF Settle, workVars, Live, GoTo, Return
<1>10. CASE Wait
  <2>1. CASE TakeGraph
    BY <2>1, TakeGraphTokens DEF SchedulerInv, TypeOK
  <2>2. CASE Receive /\ GoTo("more") /\ UNCHANGED graph
    BY <1>10, <2>2, ReceiveTokens DEF Wait, GoTo
  <2>3. CASE Return("cancelled") /\ UNCHANGED <<graph, dispatched, doneCh>>
    BY <1>10, <2>3, TokensUnchanged DEF Wait, Return, workVars, Live
  <2> QED BY <1>10, <2>1, <2>2, <2>3 DEF Wait
<1>11. CASE More
  <2>1. CASE Receive /\ GoTo("more")
    BY <1>11, <2>1, ReceiveTokens DEF More, GoTo
  <2>2. CASE GoTo("loop") /\ UNCHANGED <<dispatched, doneCh>>
    BY <1>11, <2>2, TokensUnchanged DEF More, GoTo, workVars, Live
  <2> QED BY <1>11, <2>1, <2>2 DEF More
<1> QED BY <1>1, <1>2, <1>3, <1>4, <1>5, <1>6, <1>7, <1>8, <1>9, <1>10, <1>11 DEF Execute

LEMMA WorkerTokens == ASSUME SchedulerInv, TokenInv, NEW w \in Slots,
    Worker(w) PROVE TokenInv'
<1>1. CASE Exit(w)
  <2> SUFFICES ASSUME graph = 0 PROVE TokenInv'
    BY <1>1 DEF TokenInv, Exit
  <2>1. at[w] = "exit" /\ w \in Live /\ job[w][1] \in Tasks
    BY <1>1 DEF Exit, Live, SchedulerInv, TypeOK, WorkersTypeOK, Nodes
  <2>2. /\ Live' = Live \ {w} /\ First' = First
        /\ UNCHANGED <<pc, graph, dispatched>>
        /\ \A v \in Live' : job'[v] = job[v]
    BY <1>1 DEF Exit, Move, Live, First, SchedulerInv, TypeOK, WorkersTypeOK
  <2>3. \A v \in Live' : job[v][1] # job[w][1]
    BY <2>1, <2>2 DEF TokenInv
  <2>4. \A v \in Live' : cancels'[job[v][1]] = cancels[job[v][1]]
    BY <1>1, <2>2, <2>3 DEF Exit, SchedulerInv, TypeOK, WorkersTypeOK, Nodes
  <2>5. doneCh \in Seq(Tasks) /\ doneCh' = Append(doneCh, job[w][1])
    BY <1>1 DEF Exit, SchedulerInv, TypeOK, ExecuteTypeOK
  <2>6. \A i \in DOMAIN doneCh' : \/ i \in DOMAIN doneCh /\ doneCh'[i] = doneCh[i]
                                  \/ i = Len(doneCh) + 1 /\ doneCh'[i] = job[w][1]
    <3>1. /\ doneCh' \in Seq(Tasks) /\ Len(doneCh') = Len(doneCh) + 1
          /\ \A i \in 1 .. Len(doneCh) : doneCh'[i] = doneCh[i]
          /\ doneCh'[Len(doneCh) + 1] = job[w][1]
      BY <2>1, <2>5, AppendProperties
    <3>2. /\ DOMAIN doneCh = 1 .. Len(doneCh) /\ Len(doneCh) \in Nat
          /\ DOMAIN doneCh' = 1 .. Len(doneCh')
      BY <2>5, <3>1, LenProperties
    <3> QED BY <3>1, <3>2
  <2>7. \A i \in DOMAIN doneCh' : doneCh'[i] \in dispatched
    BY <2>1, <2>6 DEF TokenInv
  <2>8. \A i, j \in DOMAIN doneCh' : doneCh'[i] = doneCh'[j] => i = j
    BY <2>1, <2>6 DEF TokenInv
  <2>9. \A i \in DOMAIN doneCh', v \in Live' : doneCh'[i] # job'[v][1]
    BY <2>2, <2>3, <2>6 DEF TokenInv
  <2>10. \A v \in Live' : job'[v][1] \in dispatched /\ cancels'[job'[v][1]] = {v}
    BY <2>2, <2>4 DEF TokenInv
  <2>11. pc = "launch" => \A t \in First : /\ t \in dispatched
                                           /\ \A v \in Live' : job'[v][1] # t
                                           /\ \A i \in DOMAIN doneCh' : doneCh'[i] # t
    BY <2>1, <2>2, <2>6 DEF TokenInv
  <2> QED BY <2>2, <2>7, <2>8, <2>9, <2>10, <2>11 DEF TokenInv
<1>2. CASE ~Exit(w)
  <2>1. at[w] # "idle" /\ \E place \in WorkerPlaces \ {"idle"} : Move(w, place)
    BY <1>2 DEF Worker, Deliver, Fail, Lose, ReadStatus, ReadFlags, Check, WorkerPlaces
  <2>2. UNCHANGED <<execVars, job, cancels>>
    BY <1>2 DEF Worker, Deliver, Fail, Lose, ReadStatus, ReadFlags, Check
  <2>3. Live' = Live
    BY <2>1 DEF Live, Move, SchedulerInv, TypeOK, WorkersTypeOK
  <2> QED BY <2>2, <2>3, TokensUnchanged DEF execVars
<1> QED BY <1>1, <1>2

LEMMA UserTokens == ASSUME TokenInv, Ask \/ Answer PROVE TokenInv'
<1>1. UNCHANGED <<execVars, at, job, cancels>>
  BY DEF Ask, BeginPause, BeginResume, BeginCancel, BeginRestructure, BeginAmend, Answer,
         ClosePause, StopForPause, ResetRunning, CloseResume, RenewPauseCh, RenewResumeCh,
         CancelContext, OpenGate, ResetAmended, StopAmended, StopForRestructure,
         GiveUpRestructure, BuildGraph, ReplaceGraph, workVars
<1>2. Live' = Live
  BY <1>1 DEF Live
<1> QED BY <1>1, <1>2, TokensUnchanged DEF execVars

(* A dispatched task is in one place.                                      *)
THEOREM Tokens == Spec => []TokenInv
<1>1. Init => TokenInv
  BY DEF Init, TokenInv, Live
<1>2. SchedulerInv /\ TokenInv /\ [Next]_vars => TokenInv'
  <2> SUFFICES ASSUME SchedulerInv, TokenInv, [Next]_vars PROVE TokenInv'
    OBVIOUS
  <2>1. CASE UNCHANGED vars
    BY <2>1, TokensUnchanged DEF vars, execVars, workVars, Live
  <2>2. CASE Next
    BY <2>2, ExecuteTokens, WorkerTokens, UserTokens DEF Next
  <2> QED BY <2>1, <2>2
<1> QED BY <1>1, <1>2, SchedulerInvariant, PTL DEF Spec

(* Until a restructured graph is taken, no task is executed by two         *)
(* goroutines (Execute against Pause, Resume and AmendTask).               *)
THEOREM OneGoroutine == Spec => []OneGoroutinePerTask
<1>1. TokenInv => OneGoroutinePerTask
  BY DEF TokenInv, OneGoroutinePerTask
<1> QED BY <1>1, Tokens, PTL

(* What Execute waits for is what runs, and until a restructured graph is   *)
(* taken each task runs once.                                              *)
THEOREM Counted == Spec => []GoroutinesAreCounted
<1>1. PendingCountsGoroutines /\ OneGoroutinePerTask => GoroutinesAreCounted
  BY DEF GoroutinesAreCounted
<1> QED BY <1>1, Counting, OneGoroutine, PTL

(* Until then, taskCancels holds the cancel function of the goroutine that *)
(* executes the task (registerTaskCancel, unregisterTaskCancel).           *)
THEOREM Stoppable == Spec => []RunningCanBeStopped
<1>1. TokenInv => RunningCanBeStopped
  BY DEF TokenInv, RunningCanBeStopped
<1> QED BY <1>1, Tokens, PTL

-----------------------------------------------------------------------------
(* The limits.  Between the check and the start of a goroutine others may   *)
(* only end.                                                                *)
LimitInv == /\ LimitsHold
            /\ pc = "launch" => \A t \in First : ~AtLimit(AgentOf[t])

LEMMA InFlightIsFinite ==
    \A a : IsFiniteSet(InFlight(a)) /\ Cardinality(InFlight(a)) \in Nat
  BY SchedulerAssumption, FS_Subset, FS_CardinalityType DEF InFlight, Live

LEMMA LimitsUnchanged ==
    ASSUME LimitInv, Live' = Live, UNCHANGED job,
           pc' = "launch" => pc = "launch" /\ UNCHANGED ready
    PROVE  LimitInv'
<1>1. \A a : InFlight(a)' = InFlight(a)
  BY DEF InFlight
<1>2. ready' = ready => First' = First
  BY DEF First
<1> QED BY <1>1, <1>2 DEF LimitInv, LimitsHold, AtLimit

LEMMA LimitStep == ASSUME SchedulerInv, LimitInv, [Next]_vars PROVE LimitInv'
<1>1. CASE Dispatch
  <2>1. PICK t \in First \ dispatched : ~AtLimit(AgentOf[t])
    BY <1>1 DEF Dispatch
  <2>2. Live' = Live /\ First' = First /\ UNCHANGED job
    BY <1>1 DEF Dispatch, workVars, Live, First
  <2>3. \A u \in First : u = t
    BY <2>1, FirstIsUnique
  <2>4. \A a : InFlight(a)' = InFlight(a)
    BY <2>2 DEF InFlight
  <2> QED BY <2>1, <2>2, <2>3, <2>4 DEF LimitInv, LimitsHold, AtLimit
<1>2. CASE Launch
  <2>1. PICK t \in First : /\ at' = [at EXCEPT ![Free] = "run"]
                           /\ job' = [job EXCEPT ![Free] = Node(graph, t)]
    BY <1>2 DEF Launch
  <2>2. Free \in Slots /\ at[Free] = "idle" /\ t \in Tasks
    BY <1>2, <2>1 DEF Launch, Live, Free, First, SchedulerInv, TypeOK, ExecuteTypeOK
  <2>3. Live' = Live \cup {Free} /\ Free \notin Live
    BY <2>1, <2>2 DEF Live, SchedulerInv, TypeOK, WorkersTypeOK
  <2>4. job'[Free][1] = t /\ \A w \in Live : job'[w] = job[w]
    BY <2>1, <2>2, <2>3 DEF Node, SchedulerInv, TypeOK, WorkersTypeOK, Live
  <2>5. \A a : InFlight(a)' = InFlight(a) \cup (IF AgentOf[t] = a THEN {Free} ELSE {})
    BY <2>3, <2>4 DEF InFlight
  <2>6. pc = "launch" /\ pc' = "dispatch"
    BY <1>2 DEF Launch, GoTo
  <2>7. \A a \in Agents : Limit[a] > 0 => Cardinality(InFlight(a)') <= Limit[a]
    <3> SUFFICES ASSUME NEW a \in Agents, Limit[a] > 0
                 PROVE  Cardinality(InFlight(a)') <= Limit[a]
      OBVIOUS
    <3>1. CASE AgentOf[t] = a
      <4>1. ~(Cardinality(InFlight(a)) >= Limit[a])
        BY <2>6, <3>1 DEF LimitInv, AtLimit
      <4>2. Free \notin InFlight(a) /\ InFlight(a)' = InFlight(a) \cup {Free}
        BY <2>3, <2>5, <3>1 DEF InFlight
      <4>3. Cardinality(InFlight(a)') = Cardinality(InFlight(a)) + 1
        BY <4>2, InFlightIsFinite, FS_AddElement
      <4>4. Cardinality(InFlight(a)) \in Nat /\ Limit[a] \in Nat
        BY InFlightIsFinite, SchedulerAssumption
      <4> QED BY <4>1, <4>3, <4>4
    <3>2. CASE AgentOf[t] # a
      <4>1. InFlight(a)' = InFlight(a)
        BY <2>5, <3>2
      <4> QED BY <4>1 DEF LimitInv, LimitsHold
    <3> QED BY <3>1, <3>2
  <2> QED BY <2>6, <2>7 DEF LimitInv, LimitsHold
<1>3. ASSUME NEW w \in Slots, Exit(w) PROVE LimitInv'
  <2>1. /\ Live' = Live \ {w} /\ First' = First /\ pc' = pc
        /\ \A v \in Live' : job'[v] = job[v]
    BY <1>3 DEF Exit, Move, Live, First, SchedulerInv, TypeOK, WorkersTypeOK
  <2>2. \A a : InFlight(a)' \subseteq InFlight(a)
    BY <2>1 DEF InFlight
  <2>3. \A a : /\ Cardinality(InFlight(a)') \in Nat
               /\ Cardinality(InFlight(a)') <= Cardinality(InFlight(a))
    BY <2>2, InFlightIsFinite, FS_Subset, FS_CardinalityType
  <2>4. LimitsHold'
    BY <2>3, InFlightIsFinite, SchedulerAssumption DEF LimitInv, LimitsHold
  <2>5. pc = "launch" => \A t \in First : ~AtLimit(AgentOf[t])'
    <3> SUFFICES ASSUME pc = "launch", NEW t \in First, Limit[AgentOf[t]] > 0
                 PROVE  ~(Cardinality(InFlight(AgentOf[t])') >= Limit[AgentOf[t]])
      BY DEF AtLimit
    <3>1. ~(Cardinality(InFlight(AgentOf[t])) >= Limit[AgentOf[t]])
      BY DEF LimitInv, AtLimit
    <3>2. t \in Tasks /\ Limit[AgentOf[t]] \in Nat
      BY SchedulerAssumption DEF First, SchedulerInv, TypeOK, ExecuteTypeOK
    <3> QED BY <3>1, <3>2, <2>3, InFlightIsFinite
  <2> QED BY <2>1, <2>4, <2>5 DEF LimitInv
<1>4. ASSUME NEW w \in Slots, Worker(w), ~Exit(w) PROVE LimitInv'
  <2>1. at[w] # "idle" /\ \E place \in WorkerPlaces \ {"idle"} : Move(w, place)
    BY <1>4 DEF Worker, Deliver, Fail, Lose, ReadStatus, ReadFlags, Check, WorkerPlaces
  <2>2. UNCHANGED <<execVars, job>>
    BY <1>4 DEF Worker, Deliver, Fail, Lose, ReadStatus, ReadFlags, Check
  <2>3. Live' = Live
    BY <2>1 DEF Live, Move, SchedulerInv, TypeOK, WorkersTypeOK
  <2> QED BY <2>2, <2>3, LimitsUnchanged DEF execVars
<1>5. CASE Ask \/ Answer
  <2>1. UNCHANGED <<execVars, at, job>>
    BY <1>5 DEF Ask, BeginPause, BeginResume, BeginCancel, BeginRestructure,
       BeginAmend, Answer,
         ClosePause, StopForPause, ResetRunning, CloseResume, RenewPauseCh, RenewResumeCh,
         CancelContext, OpenGate, ResetAmended, StopAmended, StopForRestructure,
         GiveUpRestructure, BuildGraph, ReplaceGraph, workVars
  <2> QED BY <2>1, LimitsUnchanged DEF execVars, Live
<1>6. CASE Execute /\ ~Dispatch /\ ~Launch
  <2>1. UNCHANGED workVars /\ pc' # "launch"
    BY <1>6 DEF Execute, Loop, Gate, Held, Drain, Swap, Skip, Settle, Wait, More,
                TakeGraph, GoTo, Return
  <2> QED BY <2>1, LimitsUnchanged DEF workVars, Live
<1>7. CASE UNCHANGED vars
  BY <1>7, LimitsUnchanged DEF vars, execVars, workVars, Live
<1> QED BY <1>1, <1>2, <1>3, <1>4, <1>5, <1>6, <1>7 DEF Next

(* MaxConcurrentTasks of a profile is never exceeded (tryAcquireAgent,     *)
(* releaseAgent), whatever graph is executed.                              *)
THEOREM Limits == Spec => []LimitsHold
<1>1. Init => LimitInv
  <2>1. ASSUME Init PROVE \A a : InFlight(a) = {}
    BY <2>1 DEF Init, InFlight, Live
  <2>2. ASSUME Init PROVE LimitsHold
    <3>1. \A a : Cardinality(InFlight(a)) = 0
      BY <2>1, <2>2, FS_EmptySet
    <3>2. \A a \in Agents : Limit[a] \in Nat
      BY SchedulerAssumption
    <3> QED BY <3>1, <3>2 DEF LimitsHold
  <2>3. Init => pc # "launch"
    BY DEF Init
  <2> QED BY <2>2, <2>3 DEF LimitInv
<1>2. LimitInv => LimitsHold
  BY DEF LimitInv
<1> QED BY <1>1, <1>2, LimitStep, SchedulerInvariant, PTL DEF Spec

-----------------------------------------------------------------------------
(* What runs is executed.  A goroutine that still has to settle what becomes *)
(* of its task is what a running task needs: one that did may be alive.      *)
Settling(w) == at[w] \in {"run", "error", "flags"}

\* Somebody is about to deal with what runs.
Excused == paused \/ user[1] = "resume.reset" \/ restructuring \/ ctxDone

RunningInv ==
    /\ user[1] = "cancel.gate" => ctxDone
    /\ graph <= 1 => \A t \in Tasks : status[Node(graph, t)] = "running" =>
          \/ \E w \in Live : Settling(w) /\ job[w] = Node(graph, t)
          \/ pc = "launch" /\ t \in First
          \/ Excused

(* The graphs are taken in the order they are built.                        *)
GenInv ==
    /\ graph <= active /\ graphReplace <= active
    /\ graphReplace # 0 => graph < graphReplace
    /\ user[1] = "restructure.replace" => graph < active /\ graphReplace < active

\* A step that has no task run, and ends no goroutine that it needs.
LEMMA RunningKept ==
    ASSUME RunningInv, graph <= 1, UNCHANGED graph, node'[graph] = node[graph],
           user'[1] = "cancel.gate" => ctxDone',
           pc = "launch" => pc' = "launch" /\ UNCHANGED ready,
           \A t \in Tasks : status'[Node(graph, t)] = "running" =>
               /\ status[Node(graph, t)] = "running"
               /\ Excused => Excused'
               /\ \/ Excused'
                  \/ \A w \in Live : Settling(w) /\ job[w] = Node(graph, t) =>
                        w \in Live' /\ Settling(w)' /\ job'[w] = job[w]
    PROVE  RunningInv'
<1>1. \A t \in Tasks : Node(graph, t)' = Node(graph, t)
  BY DEF Node
<1>2. UNCHANGED ready => First' = First
  BY DEF First
<1>3. ASSUME NEW t \in Tasks, status'[Node(graph, t)] = "running"
      PROVE  \/ \E w \in Live' : Settling(w)' /\ job'[w] = Node(graph, t)
             \/ pc' = "launch" /\ t \in First'
             \/ Excused'
  <2>1. \/ \E w \in Live : Settling(w) /\ job[w] = Node(graph, t)
        \/ pc = "launch" /\ t \in First
        \/ Excused
    BY <1>3 DEF RunningInv
  <2>2. CASE \E w \in Live : Settling(w) /\ job[w] = Node(graph, t)
    BY <1>3, <2>2
  <2>3. CASE pc = "launch" /\ t \in First
    BY <1>2, <2>3
  <2>4. CASE Excused
    BY <1>3, <2>4
  <2> QED BY <2>1, <2>2, <2>3, <2>4
<1> QED BY <1>1, <1>3 DEF RunningInv

\* Two nodes of a graph are two.
LEMMA NodesDiffer ==
    ASSUME NEW g, NEW t \in Tasks, NEW u \in Tasks, Node(g, t) = Node(g, u)
    PROVE  t = u
  BY DEF Node

\* What is written to the graph at hand.
LEMMA WriteView ==
    ASSUME SchedulerInv, NEW view, status' = Write(graph, view), NEW t \in Tasks
    PROVE  status'[Node(graph, t)] = view[t]
<1>1. Node(graph, t) \in Nodes /\ Node(graph, t)[1] = t
  BY WriteType DEF SchedulerInv, TypeOK, ExecuteTypeOK, Node
<1> QED BY <1>1 DEF Write

\* Whose statuses a reset changes.
LEMMA ResetView ==
    ASSUME SchedulerInv, NEW from, NEW to, Reset(from, to), NEW t \in Tasks
    PROVE  status'[Node(graph, t)] = IF status[Node(graph, t)] \in from THEN to ELSE status[Node(graph, t)]
<1> DEFINE view == [u \in Tasks |-> IF View(graph)[u] \in from THEN to ELSE View(graph)[u]]
<1>1. status' = Write(graph, view)
  BY DEF Reset
<1>2. view[t] = IF status[Node(graph, t)] \in from THEN to ELSE status[Node(graph, t)]
  BY DEF View
<1> HIDE DEF view
<1> QED BY <1>1, <1>2, WriteView

\* No cascade has a task run.
LEMMA ReceiveRunsNothing ==
    ASSUME SchedulerInv, Receive, NEW t \in Tasks, status'[Node(graph, t)] = "running"
    PROVE  status[Node(graph, t)] = "running"
<1>1. CASE UNCHANGED status
  BY <1>1
<1>2. CASE status' = Write(graph, FailDependents(Deps, View(graph), Head(doneCh)))
  <2>1. FailDependents(Deps, View(graph), Head(doneCh))[t] = "running"
    BY <1>2, WriteView
  <2>2. View(graph)[t] = "running"
    BY <2>1 DEF FailDependents, View
  <2> QED BY <2>2 DEF View
<1> QED BY <1>1, <1>2 DEF Receive

\* Execute: Dispatch has a task run, and Launch gives it its goroutine.
LEMMA ExecuteRuns == ASSUME SchedulerInv, RunningInv, Execute, GenInv, graph <= 1, UNCHANGED graph PROVE RunningInv'
<1>0. /\ UNCHANGED <<node, userVars>> /\ user'[1] = user[1] /\ UNCHANGED <<paused, ctxDone>>
  BY DEF Execute, Loop, Gate, Held, Drain, Swap, Skip, Dispatch, Launch, Settle, Wait, More, TakeGraph, ctlVars,
         userVars
<1>1. restructuring => restructuring'
  <2>1. ~TakeGraph
    BY DEF TakeGraph, GenInv, SchedulerInv, TypeOK, ExecuteTypeOK, ControlTypeOK, Gens
  <2> QED BY <2>1 DEF Execute, Loop, Gate, Held, Drain, Swap, Skip, Dispatch, Launch, Settle, Wait, More, ctlVars
<1>2. user'[1] = "cancel.gate" => ctxDone'
  BY <1>0 DEF RunningInv
<1>3. Excused => Excused'
  BY <1>0, <1>1 DEF Excused
<1>4. CASE Dispatch
  <2>1. PICK t \in First : status' = [status EXCEPT ![Node(graph, t)] = "running"]
    BY <1>4 DEF Dispatch
  <2>2. pc' = "launch" /\ First' = First /\ UNCHANGED <<at, job>> /\ Live' = Live /\ pc # "launch"
    BY <1>4 DEF Dispatch, GoTo, First, workVars, Live
  <2>3. ASSUME NEW u \in Tasks, status'[Node(graph, u)] = "running", u # t
        PROVE  \/ \E w \in Live : Settling(w) /\ job[w] = Node(graph, u)
               \/ Excused
    <3>1. t \in Tasks /\ Node(graph, u) # Node(graph, t)
      BY <2>3, NodesDiffer DEF First, SchedulerInv, TypeOK, ExecuteTypeOK
    <3>2. status[Node(graph, u)] = "running"
      BY <2>1, <2>3, <3>1 DEF SchedulerInv, TypeOK, NodesTypeOK
    <3> QED BY <2>2, <3>2 DEF RunningInv
  <2>4. \A u \in Tasks : Node(graph, u)' = Node(graph, u)
    BY <1>0 DEF Node
  <2>5. \A w : Settling(w)' = Settling(w)
    BY <2>2 DEF Settling
  <2> QED BY <1>2, <1>3, <2>2, <2>3, <2>4, <2>5 DEF RunningInv
<1>5. CASE Launch
  <2>0. Free \in Slots /\ at[Free] = "idle"
    BY <1>5 DEF Launch, Live, Free
  <2>1. PICK t \in First, v \in Slots : /\ at[v] = "idle"
                                       /\ at' = [at EXCEPT ![v] = "run"]
                                       /\ job' = [job EXCEPT ![v] = Node(graph, t)]
    BY <1>5, <2>0 DEF Launch
  <2>3. Live' = Live \cup {v} /\ v \notin Live
    BY <2>1 DEF Live, SchedulerInv, TypeOK, WorkersTypeOK
  <2>4. /\ Settling(v)' /\ job'[v] = Node(graph, t)
        /\ \A w \in Live : at'[w] = at[w] /\ job'[w] = job[w]
    BY <2>1, <2>3 DEF Settling, SchedulerInv, TypeOK, WorkersTypeOK, Live
  <2>5. \A u \in First : u = t
    BY <2>1, FirstIsUnique
  <2>6. UNCHANGED status /\ \A u \in Tasks : Node(graph, u)' = Node(graph, u)
    BY <1>0, <1>5 DEF Launch, Node
  <2>7. ASSUME NEW u \in Tasks, status[Node(graph, u)] = "running"
        PROVE  \/ \E w \in Live' : Settling(w)' /\ job'[w] = Node(graph, u)
               \/ Excused'
    <3>1. \/ \E w \in Live : Settling(w) /\ job[w] = Node(graph, u)
          \/ pc = "launch" /\ u \in First
          \/ Excused
      BY <2>7 DEF RunningInv
    <3>2. CASE \E w \in Live : Settling(w) /\ job[w] = Node(graph, u)
      BY <2>3, <2>4, <3>2 DEF Settling
    <3>3. CASE u \in First
      BY <2>3, <2>4, <2>5, <3>3
    <3> QED BY <1>3, <3>1, <3>2, <3>3
  <2> QED BY <1>2, <2>6, <2>7 DEF RunningInv
<1>6. CASE ~Dispatch /\ ~Launch
  <2>1. pc # "launch" /\ UNCHANGED <<at, job>> /\ Live' = Live
    BY <1>6 DEF Execute, Loop, Gate, Held, Drain, Swap, Skip, Settle, Wait, More, workVars, Live
  <2>2. UNCHANGED status \/ Receive
    BY <1>6 DEF Execute, Loop, Gate, Held, Drain, Swap, Skip, Settle, Wait, More, TakeGraph
  <2>3. \A t \in Tasks : status'[Node(graph, t)] = "running" => status[Node(graph, t)] = "running"
    BY <2>2, ReceiveRunsNothing
  <2>4. \A w : Settling(w)' = Settling(w)
    BY <2>1 DEF Settling
  <2> QED BY <1>0, <1>2, <1>3, <2>1, <2>3, <2>4, RunningKept
<1> QED BY <1>4, <1>5, <1>6

\* A goroutine leaves its task running only when somebody else deals with it.
LEMMA WorkerRuns ==
    ASSUME SchedulerInv, RunningInv, NEW w \in Slots, Worker(w), GenInv, graph <= 1, UNCHANGED graph
    PROVE  RunningInv'
<1>1. /\ UNCHANGED <<node, user, pc, ready, ctlVars>> /\ at[w] # "idle"
      /\ \A v \in Slots : v # w => at'[v] = at[v] /\ job'[v] = job[v]
  BY DEF Worker, Deliver, Fail, Lose, ReadStatus, ReadFlags, Check, Exit, Move, execVars, userVars,
         SchedulerInv, TypeOK, WorkersTypeOK
<1>2. /\ user'[1] = "cancel.gate" => ctxDone'
      /\ Excused => Excused'
  BY <1>1 DEF RunningInv, Excused, ctlVars
<1>3. job[w] \in Nodes /\ w \in Live
  BY <1>1 DEF Live, SchedulerInv, TypeOK, WorkersTypeOK
<1>4. ASSUME NEW t \in Tasks, status'[Node(graph, t)] = "running"
      PROVE  /\ status[Node(graph, t)] = "running"
             /\ Excused' \/ (job[w] = Node(graph, t) /\ Settling(w) => Settling(w)' /\ w \in Live' /\ job'[w] = job[w])
  <2>1. CASE Deliver(w) \/ Lose(w) \/ Check(w)
    <3>1. \/ UNCHANGED status /\ ~Settling(w)
          \/ \E s \in {"completed", "failed", "escalated", "pending"} : status' = [status EXCEPT ![job[w]] = s]
      BY <2>1, SchedulerAssumption DEF Deliver, Lose, Check, Settling
    <3>2. Node(graph, t) \in Nodes
      BY WriteType DEF SchedulerInv, TypeOK, ExecuteTypeOK
    <3> QED BY <1>3, <1>4, <3>1, <3>2 DEF SchedulerInv, TypeOK, NodesTypeOK
  <2>2. CASE Fail(w)
    BY <1>3, <1>4, <2>2 DEF Fail, Move, Settling, Live, SchedulerInv, TypeOK, WorkersTypeOK
  <2>3. CASE ReadStatus(w)
    BY <1>3, <1>4, <2>3 DEF ReadStatus, Move, Settling, Live, SchedulerInv, TypeOK, WorkersTypeOK
  <2>4. CASE ReadFlags(w)
    <3>1. CASE restructuring \/ paused
      <4>1. Excused'
        BY <1>1, <3>1 DEF Excused, ctlVars
      <4>2. UNCHANGED status
        BY <2>4, <3>1 DEF ReadFlags
      <4> QED BY <1>4, <4>1, <4>2
    <3>2. CASE ~(restructuring \/ paused)
      <4>1. status' = [status EXCEPT ![job[w]] = "failed"]
        BY <2>4, <3>2 DEF ReadFlags
      <4> QED BY <1>3, <1>4, <4>1 DEF SchedulerInv, TypeOK, NodesTypeOK
    <3> QED BY <3>1, <3>2
  <2>5. CASE Exit(w)
    BY <1>4, <2>5 DEF Exit, Settling
  <2> QED BY <2>1, <2>2, <2>3, <2>4, <2>5 DEF Worker
<1>5. \A v \in Live : v # w => v \in Live' /\ (Settling(v)' <=> Settling(v)) /\ job'[v] = job[v]
  BY <1>1 DEF Live, Settling
<1> QED BY <1>1, <1>2, <1>4, <1>5, RunningKept

\* The user's operations: each excuse outlasts what it excuses.
LEMMA UserRuns ==
    ASSUME SchedulerInv, RunningInv, Ask \/ Answer, GenInv, graph <= 1, UNCHANGED graph
    PROVE  RunningInv'
<1>1. UNCHANGED <<at, job, pc, ready>>
  BY DEF Ask, BeginPause, BeginResume, BeginCancel, BeginRestructure, BeginAmend, Answer,
         ClosePause, StopForPause, ResetRunning, CloseResume, RenewPauseCh, RenewResumeCh,
         CancelContext, OpenGate, ResetAmended, StopAmended, StopForRestructure,
         GiveUpRestructure, BuildGraph, ReplaceGraph, workVars, execVars
<1>2. Live' = Live /\ \A w : Settling(w)' = Settling(w)
  BY <1>1 DEF Live, Settling
<1>3. ctxDone => ctxDone'
  BY DEF Ask, BeginPause, BeginResume, BeginCancel, BeginRestructure, BeginAmend, Answer,
         ClosePause, StopForPause, ResetRunning, CloseResume, RenewPauseCh, RenewResumeCh,
         CancelContext, OpenGate, ResetAmended, StopAmended, StopForRestructure,
         GiveUpRestructure, BuildGraph, ReplaceGraph, ctlVars
<1>4. user'[1] = "cancel.gate" => ctxDone'
  BY DEF Ask, BeginPause, BeginResume, BeginCancel, BeginRestructure, BeginAmend, Begin, Answer, Step, NoOp,
         ClosePause, StopForPause, ResetRunning, CloseResume, RenewPauseCh, RenewResumeCh,
         CancelContext, OpenGate, ResetAmended, StopAmended, StopForRestructure,
         GiveUpRestructure, BuildGraph, ReplaceGraph
<1>5. node'[graph] = node[graph]
  <2>1. CASE BuildGraph
    <3>1. active + 1 # graph
      BY SchedulerAssumption DEF GenInv, SchedulerInv, TypeOK, ExecuteTypeOK, ControlTypeOK, Gens
    <3> QED BY <2>1, <3>1 DEF BuildGraph, SchedulerInv, TypeOK, NodesTypeOK
  <2>2. CASE ~BuildGraph
    BY <2>2 DEF Ask, BeginPause, BeginResume, BeginCancel, BeginRestructure, BeginAmend, Answer,
         ClosePause, StopForPause, ResetRunning, CloseResume, RenewPauseCh, RenewResumeCh,
         CancelContext, OpenGate, ResetAmended, StopAmended, StopForRestructure,
         GiveUpRestructure, ReplaceGraph
  <2> QED BY <2>1, <2>2
<1>6. ASSUME NEW t \in Tasks, status'[Node(graph, t)] = "running"
      PROVE  status[Node(graph, t)] = "running" /\ ~ResetRunning
  <2>1. CASE BeginCancel
    BY <1>6, <2>1, ResetView DEF BeginCancel, Begin, ResetRunning, Step, NoOp
  <2>2. CASE ResetRunning
    BY <1>6, <2>2, ResetView DEF ResetRunning
  <2>3. CASE ResetAmended
    <3>1. status' = [status EXCEPT ![Node(graph, user[2])] = "pending"] /\ ~ResetRunning
      BY <2>3 DEF ResetAmended, ResetRunning, Step
    <3>2. Node(graph, t) \in Nodes
      BY WriteType DEF SchedulerInv, TypeOK, ExecuteTypeOK
    <3> QED BY <1>6, <3>1, <3>2 DEF SchedulerInv, TypeOK, NodesTypeOK
  <2>4. CASE ~BeginCancel /\ ~ResetRunning /\ ~ResetAmended
    BY <1>6, <2>4 DEF Ask, BeginPause, BeginResume, BeginRestructure, BeginAmend, Answer,
         ClosePause, StopForPause, CloseResume, RenewPauseCh, RenewResumeCh,
         CancelContext, OpenGate, StopAmended, StopForRestructure,
         GiveUpRestructure, BuildGraph, ReplaceGraph
  <2> QED BY <2>1, <2>2, <2>3, <2>4
<1>7. Excused /\ ~ResetRunning => Excused'
  <2>1. ASSUME restructuring PROVE restructuring'
    BY <2>1 DEF Ask, BeginPause, BeginResume, BeginCancel, BeginRestructure, BeginAmend, Answer,
         ClosePause, StopForPause, ResetRunning, CloseResume, RenewPauseCh, RenewResumeCh,
         CancelContext, OpenGate, ResetAmended, StopAmended, StopForRestructure,
         GiveUpRestructure, BuildGraph, ReplaceGraph, ctlVars
  <2>2. ASSUME paused PROVE paused' \/ user'[1] = "resume.reset" \/ ctxDone
    <3>1. CASE BeginResume
      BY <3>1 DEF BeginResume
    <3>2. CASE OpenGate
      BY <3>2 DEF OpenGate, Step, RunningInv
    <3>3. CASE ~BeginResume /\ ~OpenGate
      BY <2>2, <3>3 DEF Ask, BeginPause, BeginCancel, BeginRestructure, BeginAmend, Answer,
         ClosePause, StopForPause, ResetRunning, CloseResume, RenewPauseCh, RenewResumeCh,
         CancelContext, ResetAmended, StopAmended, StopForRestructure,
         GiveUpRestructure, BuildGraph, ReplaceGraph, ctlVars
    <3> QED BY <3>1, <3>2, <3>3
  <2>3. ASSUME user[1] = "resume.reset" PROVE ResetRunning
    BY <2>3 DEF Ask, BeginPause, BeginResume, BeginCancel, BeginRestructure, BeginAmend, Begin, Answer, Step, NoOp,
         ClosePause, StopForPause, ResetRunning, CloseResume, RenewPauseCh, RenewResumeCh,
         CancelContext, OpenGate, ResetAmended, StopAmended, StopForRestructure,
         GiveUpRestructure, BuildGraph, ReplaceGraph
  <2> QED BY <1>3, <2>1, <2>2, <2>3 DEF Excused
<1> QED BY <1>1, <1>2, <1>4, <1>5, <1>6, <1>7, RunningKept

-----------------------------------------------------------------------------
(* What the first restructured graph takes over.  Its nodes are fresh, or   *)
(* those of tasks that were completed when it was built: no such task can   *)
(* run before the graph is taken, for it was not ready, and what a later    *)
(* amendment reopens is not looked at until then.                           *)
Kept == {t \in Tasks : active # 0 /\ node[1][t] = 0}

CopyInv == \A t \in Tasks : node[0][t] = 0 /\ (active # 0 => node[1][t] \in {0, 1})

ReadyInv == pc \notin {"dispatch", "launch"} => ready = {}

FirstInv == graph = 0 =>
    /\ \A w \in Live : job[w][2] = 0
    /\ \A n \in Nodes : n[2] # 0 => status[n] = "pending"

DoneInv == graph = 0 =>
    /\ \A t \in ready \ dispatched : status[<<t, 0>>] # "completed"
    /\ pc = "launch" => \A t \in First : status[<<t, 0>>] # "completed"
    /\ \A w \in Live : Settling(w) => status[job[w]] # "completed"

KeptInv == graph = 0 /\ active # 0 =>
    /\ graphReplace # 1 =>
          /\ user[1] = "restructure.replace" /\ active = 1 /\ graphReplace = 0
          /\ \A t \in Kept : status[<<t, 0>>] = "completed"
    /\ \A t \in Kept : status[<<t, 0>>] # "running" /\ t \notin ready \ dispatched

TakeInv == TokenInv /\ GenInv /\ CopyInv /\ ReadyInv /\ FirstInv /\ DoneInv /\ KeptInv

\* Only TakeGraph changes the graph at hand.
LEMMA GraphStep ==
    ASSUME Next
    PROVE  \/ UNCHANGED graph
           \/ /\ Execute /\ TakeGraph /\ UNCHANGED <<node, user, active, ready>>
<1>1. Execute => UNCHANGED graph \/ (TakeGraph /\ UNCHANGED <<node, user, active, ready>>)
  BY DEF Execute, Loop, Gate, Held, Drain, Swap, Skip, Dispatch, Launch, Settle, Wait, More, TakeGraph, userVars
<1>2. Ask \/ Answer => UNCHANGED graph
  BY DEF Ask, BeginPause, BeginResume, BeginCancel, BeginRestructure, BeginAmend, Answer,
         ClosePause, StopForPause, ResetRunning, CloseResume, RenewPauseCh, RenewResumeCh,
         CancelContext, OpenGate, ResetAmended, StopAmended, StopForRestructure,
         GiveUpRestructure, BuildGraph, ReplaceGraph, execVars
<1>3. ASSUME NEW w \in Slots, Worker(w) PROVE UNCHANGED graph
  BY <1>3 DEF Worker, Deliver, Fail, Lose, ReadStatus, ReadFlags, Check, Exit, execVars
<1> QED BY <1>1, <1>2, <1>3 DEF Next

\* What becomes of the graphs and of the graph to be taken.
LEMMA BuildStep ==
    ASSUME Next, UNCHANGED graph, SchedulerInv, GenInv
    PROVE  \/ BuildGraph
           \/ ReplaceGraph
           \/ /\ UNCHANGED <<node, active, graphReplace>>
              /\ user'[1] = "restructure.replace" => user[1] = "restructure.replace"
              /\ user[1] = "restructure.replace" => UNCHANGED user
<1>1. CASE Execute
  <2>1. ~TakeGraph
    BY DEF TakeGraph, GenInv, SchedulerInv, TypeOK, ExecuteTypeOK, ControlTypeOK, Gens
  <2> QED BY <1>1, <2>1
      DEF Execute, Loop, Gate, Held, Drain, Swap, Skip, Dispatch, Launch, Settle, Wait, More, userVars, ctlVars
<1>2. CASE Ask
  BY <1>2 DEF Ask, BeginPause, BeginResume, BeginCancel, BeginRestructure, BeginAmend, Begin, NoOp, ctlVars
<1>3. CASE Answer
  BY <1>3 DEF Answer, Step, NoOp,
         ClosePause, StopForPause, ResetRunning, CloseResume, RenewPauseCh, RenewResumeCh,
         CancelContext, OpenGate, ResetAmended, StopAmended, StopForRestructure,
         GiveUpRestructure, BuildGraph, ReplaceGraph, ctlVars
<1>4. ASSUME NEW w \in Slots, Worker(w)
      PROVE UNCHANGED <<node, active, graphReplace, user>>
  BY <1>4 DEF Worker, Deliver, Fail, Lose, ReadStatus, ReadFlags, Check, Exit, ctlVars, userVars
<1> QED BY <1>1, <1>2, <1>3, <1>4 DEF Next

\* The graphs stay in order.
LEMMA GenStep == ASSUME SchedulerInv, GenInv, [Next]_vars PROVE GenInv'
<1>1. graph \in Nat /\ active \in Nat /\ graphReplace \in Nat
  BY SchedulerAssumption DEF SchedulerInv, TypeOK, ExecuteTypeOK, ControlTypeOK, Gens
<1>2. CASE Next /\ UNCHANGED graph
  <2>1. CASE BuildGraph
    BY <1>1, <1>2, <2>1 DEF GenInv, BuildGraph
  <2>2. CASE ReplaceGraph
    BY <1>1, <1>2, <2>2 DEF GenInv, ReplaceGraph, Step, NoOp
  <2>3. CASE /\ UNCHANGED <<active, graphReplace>>
             /\ user'[1] = "restructure.replace" => user[1] = "restructure.replace"
    BY <1>2, <2>3 DEF GenInv
  <2> QED BY <1>2, <2>1, <2>2, <2>3, BuildStep
<1>3. CASE Next /\ graph' # graph
  <2>1. TakeGraph /\ UNCHANGED <<user, active>>
    BY <1>3, GraphStep
  <2> QED BY <1>1, <2>1 DEF GenInv, TakeGraph
<1>4. CASE UNCHANGED vars
  BY <1>4 DEF vars, execVars, ctlVars, userVars, GenInv
<1> QED BY <1>2, <1>3, <1>4

\* The first graph and the first restructured one keep their nodes.
LEMMA CopyStep == ASSUME SchedulerInv, GenInv, CopyInv, [Next]_vars PROVE CopyInv'
<1>1. active \in Nat
  BY SchedulerAssumption DEF SchedulerInv, TypeOK, ControlTypeOK, Gens
<1>2. CASE BuildGraph
  <2>1. active + 1 \in Gens /\ active + 1 # 0 /\ node \in [Gens -> [Tasks -> Gens]] /\ 0 \in Gens
    BY <1>1, <1>2, SchedulerAssumption DEF BuildGraph, SchedulerInv, TypeOK, NodesTypeOK, Gens
  <2>2. /\ node'[active + 1] = [t \in Tasks |-> IF View(active)[t] = "completed"
                                               THEN node[active][t] ELSE active + 1]
        /\ \A g \in Gens : g # active + 1 => node'[g] = node[g]
    BY <1>2, <2>1 DEF BuildGraph
  <2>3. \A t \in Tasks : node'[0][t] = 0
    BY <2>1, <2>2 DEF CopyInv
  <2>4. CASE active = 0
    <3>1. \A t \in Tasks : node'[1][t] \in {0, 1}
      BY <2>2, <2>4 DEF CopyInv
    <3> QED BY <2>3, <3>1 DEF CopyInv
  <2>5. CASE active # 0
    <3>1. 1 \in Gens /\ 1 # active + 1
      BY <1>1, <2>1, <2>5, SchedulerAssumption DEF Gens
    <3>2. \A t \in Tasks : node'[1][t] \in {0, 1}
      BY <2>2, <2>5, <3>1 DEF CopyInv
    <3> QED BY <2>3, <3>2 DEF CopyInv
  <2> QED BY <2>4, <2>5
<1>3. CASE ~BuildGraph /\ Next
  <2>1. UNCHANGED <<node, active>>
    BY <1>3, GraphStep, BuildStep DEF ReplaceGraph
  <2> QED BY <2>1 DEF CopyInv
<1>4. CASE UNCHANGED vars
  BY <1>4 DEF vars, ctlVars, CopyInv
<1> QED BY <1>2, <1>3, <1>4

\* A task comes to be ready in Swap.
LEMMA ReadyStep ==
    ASSUME SchedulerInv, ReadyInv, [Next]_vars
    PROVE  /\ ReadyInv'
           /\ UNCHANGED graph => \A t \in ready' \ dispatched' :
                 \/ t \in ready \ dispatched
                 \/ graphReplace = 0 /\ status[Node(graph, t)] = "pending" /\ UNCHANGED status
<1>1. CASE Swap
  <2>1. CASE TakeGraph /\ UNCHANGED ready
    BY <1>1, <2>1 DEF Swap, ReadyInv, TakeGraph, GoTo
  <2>2. CASE graphReplace = 0 /\ ready' = ReadyTasks(Deps, View(graph)) /\ GoTo("dispatch") /\ UNCHANGED status
    <3>1. \A t \in ready' : t \in Tasks /\ View(graph)[t] = "pending"
      BY <2>2, SchedulerAssumption DEF ReadyTasks
    <3> QED BY <2>2, <3>1 DEF ReadyInv, GoTo, View
  <2> QED BY <1>1, <2>1, <2>2 DEF Swap
<1>2. CASE Loop \/ Gate \/ Held \/ Drain \/ Wait \/ More
  <2>1. pc \notin {"dispatch", "launch"} /\ UNCHANGED ready
    BY <1>2 DEF Loop, Gate, Held, Drain, Wait, More
  <2> QED BY <2>1 DEF ReadyInv
<1>3. CASE Skip \/ Dispatch \/ Launch \/ Settle
  <2>1. /\ ready' \subseteq ready /\ dispatched \subseteq dispatched'
        /\ pc' \in {"dispatch", "launch"} \/ ready' = {}
    BY <1>3 DEF Skip, Dispatch, Launch, Settle, GoTo, Return
  <2> QED BY <2>1 DEF ReadyInv
<1>4. CASE UNCHANGED <<pc, ready, dispatched>>
  BY <1>4 DEF ReadyInv
<1>5. ASSUME Ask \/ Answer PROVE UNCHANGED <<pc, ready, dispatched>>
  BY <1>5 DEF Ask, BeginPause, BeginResume, BeginCancel, BeginRestructure, BeginAmend, Answer,
         ClosePause, StopForPause, ResetRunning, CloseResume, RenewPauseCh, RenewResumeCh,
         CancelContext, OpenGate, ResetAmended, StopAmended, StopForRestructure,
         GiveUpRestructure, BuildGraph, ReplaceGraph, execVars
<1>6. ASSUME NEW w \in Slots, Worker(w) PROVE UNCHANGED <<pc, ready, dispatched>>
  BY <1>6 DEF Worker, Deliver, Fail, Lose, ReadStatus, ReadFlags, Check, Exit, execVars
<1>7. UNCHANGED vars => UNCHANGED <<pc, ready, dispatched>>
  BY DEF vars, execVars
<1> QED BY <1>1, <1>2, <1>3, <1>4, <1>5, <1>6, <1>7 DEF Next, Execute

-----------------------------------------------------------------------------
(* What a step makes of the first graph: the fresh nodes of a graph that is *)
(* not taken stay as they are, and a task runs by Dispatch, completes in    *)
(* its goroutine, and ceases to be completed by an amendment or because of  *)
(* a goroutine that has still to settle it.                                 *)
StatusStep(t) ==
    \/ status'[<<t, 0>>] = status[<<t, 0>>]
    \/ Dispatch /\ t \in First \ dispatched /\ status'[<<t, 0>>] = "running"
    \/ \E w \in Live : Deliver(w) /\ job[w] = <<t, 0>> /\ status'[<<t, 0>>] = "completed"
    \/ /\ status'[<<t, 0>>] \notin {"running", "completed"}
       /\ status[<<t, 0>>] = "completed" =>
             user[1] = "amend.reset" \/ \E w \in Live : Settling(w) /\ job[w] = <<t, 0>>

OldStep == /\ \A n \in Nodes : n[2] # 0 => status'[n] = status[n]
           /\ \A t \in Tasks : StatusStep(t)

\* The nodes of the first graph.
LEMMA OldNodes ==
    ASSUME SchedulerInv, CopyInv, graph = 0, NEW t \in Tasks
    PROVE  Node(graph, t) = <<t, 0>> /\ <<t, 0>> \in Nodes
<1>1. Node(0, t) = <<t, 0>> /\ 0 \in Gens
  BY DEF Node, CopyInv, SchedulerInv, TypeOK, ExecuteTypeOK
<1> QED BY <1>1 DEF Nodes

\* What is written to the whole graph at hand is written to its nodes alone.
LEMMA OldWrite ==
    ASSUME SchedulerInv, CopyInv, graph = 0, NEW view, status' = Write(graph, view),
           \A t \in Tasks : \/ view[t] = status[<<t, 0>>]
                            \/ /\ view[t] \notin {"running", "completed"}
                               /\ status[<<t, 0>>] # "completed"
    PROVE  OldStep
<1>1. ASSUME NEW n \in Nodes, n[2] # 0 PROVE status'[n] = status[n]
  <2>1. n[1] \in Tasks
    BY DEF Nodes
  <2>2. Node(graph, n[1]) = <<n[1], 0>>
    BY <2>1, OldNodes
  <2>3. n # <<n[1], 0>>
    BY <1>1
  <2> QED BY <2>2, <2>3 DEF Write
<1>2. ASSUME NEW t \in Tasks PROVE StatusStep(t)
  <2>1. status'[<<t, 0>>] = view[t]
    BY OldNodes, WriteView
  <2> QED BY <2>1 DEF StatusStep
<1> QED BY <1>1, <1>2 DEF OldStep

\* The cascade of a failure passes the completed tasks.
LEMMA CascadePassesCompleted ==
    ASSUME SchedulerInv, NEW t \in Tasks, NEW f, View(graph)[t] = "completed"
    PROVE  FailDependents(Deps, View(graph), f)[t] = "completed"
<1> DEFINE open == {u \in DOMAIN Deps : View(graph)[u] \notin {"failed", "completed"}}
<1>1. IsFiniteSet(DOMAIN Deps)
  BY SchedulerAssumption
<1>2. Walk(Deps, open, f) \subseteq open
  <2> HIDE DEF open
  <2> QED BY <1>1, WalkIsClosure
<1>3. t \notin Cascaded(Deps, View(graph), f)
  BY <1>2 DEF Cascaded
<1>4. t \in DOMAIN View(graph)
  BY DEF View
<1> QED BY <1>3, <1>4 DEF FailDependents

\* Receive keeps to StatusStep.
LEMMA ReceiveOld ==
    ASSUME SchedulerInv, CopyInv, graph = 0, Receive
    PROVE  OldStep
<1>1. CASE UNCHANGED status
  BY <1>1 DEF OldStep, StatusStep
<1>2. CASE status' = Write(graph, FailDependents(Deps, View(graph), Head(doneCh)))
  <2> DEFINE view == FailDependents(Deps, View(graph), Head(doneCh))
  <2>1. ASSUME NEW t \in Tasks
        PROVE  \/ view[t] = status[<<t, 0>>]
               \/ view[t] = "failed" /\ status[<<t, 0>>] # "completed"
    <3>1. View(graph)[t] = status[<<t, 0>>] /\ DOMAIN View(graph) = Tasks
      BY OldNodes DEF View
    <3>2. view[t] \in {"failed", View(graph)[t]}
      BY <3>1 DEF FailDependents
    <3>3. View(graph)[t] = "completed" => view[t] = "completed"
      BY CascadePassesCompleted
    <3> HIDE DEF view
    <3> QED BY <3>1, <3>2, <3>3
  <2> HIDE DEF view
  <2>2. status' = Write(graph, view)
    BY <1>2 DEF view
  <2> QED BY <2>1, <2>2, OldWrite
<1> QED BY <1>1, <1>2 DEF Receive

\* A reset concerns neither what completed nor other graphs.
LEMMA ResetOld ==
    ASSUME SchedulerInv, CopyInv, graph = 0, NEW from, NEW to, Reset(from, to),
           "completed" \notin from, to \notin {"running", "completed"}
    PROVE  OldStep
<1> DEFINE view == [t \in Tasks |-> IF View(graph)[t] \in from THEN to ELSE View(graph)[t]]
<1>1. status' = Write(graph, view)
  BY DEF Reset
<1>2. ASSUME NEW t \in Tasks
      PROVE  \/ view[t] = status[<<t, 0>>]
             \/ view[t] \notin {"running", "completed"} /\ status[<<t, 0>>] # "completed"
  <2>1. View(graph)[t] = status[<<t, 0>>]
    BY OldNodes DEF View
  <2> QED BY <2>1
<1> HIDE DEF view
<1> QED BY <1>1, <1>2, OldWrite

\* One status of the first graph is written.
LEMMA OneOld ==
    ASSUME SchedulerInv, NEW u, <<u, 0>> \in Nodes, NEW s, status' = [status EXCEPT ![<<u, 0>>] = s],
           StatusStep(u)
    PROVE  OldStep
<1>1. \A n \in Nodes : n # <<u, 0>> => status'[n] = status[n]
  BY DEF SchedulerInv, TypeOK, NodesTypeOK
<1>2. ASSUME NEW t \in Tasks, t # u PROVE StatusStep(t)
  <2>1. <<t, 0>> \in Nodes /\ <<t, 0>> # <<u, 0>>
    BY <1>2 DEF Nodes
  <2> QED BY <1>1, <2>1 DEF StatusStep
<1> QED BY <1>1, <1>2 DEF OldStep

\* So does every goroutine.
LEMMA WorkerOld ==
    ASSUME SchedulerInv, FirstInv, graph = 0, NEW w \in Slots, Worker(w)
    PROVE  OldStep
<1>1. w \in Live
  BY DEF Worker, Deliver, Fail, Lose, ReadStatus, ReadFlags, Check, Exit, Live
<1>2. PICK u \in Tasks : job[w] = <<u, 0>> /\ <<u, 0>> \in Nodes
  BY <1>1 DEF FirstInv, SchedulerInv, TypeOK, WorkersTypeOK, Nodes
<1>3. DOMAIN status = Nodes
  BY DEF SchedulerInv, TypeOK, NodesTypeOK
<1>4. CASE Deliver(w)
  <2>1. PICK s \in Outcomes : status' = [status EXCEPT ![<<u, 0>>] = s]
    BY <1>2, <1>4 DEF Deliver
  <2>2. s \in {"completed", "failed", "escalated"} /\ status'[<<u, 0>>] = s
    BY <1>2, <1>3, <2>1, SchedulerAssumption
  <2>3. at[w] = "run"
    BY <1>4 DEF Deliver
  <2>4. StatusStep(u)
    BY <1>1, <1>2, <1>4, <2>2, <2>3 DEF StatusStep, Settling
  <2> QED BY <1>2, <2>1, <2>4, OneOld
<1>5. CASE Lose(w) \/ ReadFlags(w) \/ Check(w)
  <2>1. CASE UNCHANGED status
    BY <2>1 DEF OldStep, StatusStep
  <2>2. CASE /\ \E s \in {"pending", "failed"} : status' = [status EXCEPT ![<<u, 0>>] = s]
             /\ status[<<u, 0>>] = "completed" => Settling(w)
    <3>1. PICK s \in {"pending", "failed"} : status' = [status EXCEPT ![<<u, 0>>] = s]
      BY <2>2
    <3>2. status'[<<u, 0>>] = s
      BY <1>2, <1>3, <3>1
    <3>3. StatusStep(u)
      BY <1>1, <1>2, <2>2, <3>2 DEF StatusStep
    <3> QED BY <1>2, <3>1, <3>3, OneOld
  <2> QED BY <1>2, <1>5, <2>1, <2>2 DEF Lose, ReadFlags, Check, Settling
<1>6. CASE Fail(w) \/ ReadStatus(w) \/ Exit(w)
  <2>1. UNCHANGED status
    BY <1>6 DEF Fail, ReadStatus, Exit
  <2> QED BY <2>1 DEF OldStep, StatusStep
<1> QED BY <1>4, <1>5, <1>6 DEF Worker

\* So does every step.
LEMMA StatusOld ==
    ASSUME SchedulerInv, CopyInv, FirstInv, GenInv, Next, graph = 0
    PROVE  OldStep
<1>1. CASE UNCHANGED status
  BY <1>1 DEF OldStep, StatusStep
<1>2. CASE Dispatch
  <2>1. PICK u \in First \ dispatched : status' = [status EXCEPT ![Node(graph, u)] = "running"]
    BY <1>2 DEF Dispatch
  <2>2. u \in Tasks
    BY <2>1 DEF First, SchedulerInv, TypeOK, ExecuteTypeOK
  <2>3. Node(graph, u) = <<u, 0>> /\ <<u, 0>> \in Nodes
    BY <2>2, OldNodes
  <2>4. status'[<<u, 0>>] = "running"
    BY <2>1, <2>3 DEF SchedulerInv, TypeOK, NodesTypeOK
  <2>5. StatusStep(u)
    BY <1>2, <2>1, <2>4 DEF StatusStep
  <2> QED BY <2>1, <2>3, <2>5, OneOld
<1>3. CASE Execute /\ ~Dispatch
  <2>1. UNCHANGED status \/ Receive
    BY <1>3 DEF Execute, Loop, Gate, Held, Drain, Swap, Skip, Launch, Settle, Wait, More, TakeGraph
  <2> QED BY <1>1, <2>1, ReceiveOld
<1>4. CASE Ask
  <2>1. CASE BeginCancel
    BY <2>1, ResetOld DEF BeginCancel
  <2> QED BY <1>1, <1>4, <2>1 DEF Ask, BeginPause, BeginResume, BeginRestructure, BeginAmend
<1>5. CASE Answer
  <2>1. CASE ResetRunning
    BY <2>1, ResetOld DEF ResetRunning
  <2>2. CASE ResetAmended
    <3>1. status' = [status EXCEPT ![Node(graph, user[2])] = "pending"] /\ user[1] = "amend.reset"
      BY <2>2 DEF ResetAmended, Step
    <3>2. CASE user[2] \in Tasks
      <4>1. Node(graph, user[2]) = <<user[2], 0>> /\ <<user[2], 0>> \in Nodes
        BY <3>2, OldNodes
      <4>2. status'[<<user[2], 0>>] = "pending"
        BY <3>1, <4>1 DEF SchedulerInv, TypeOK, NodesTypeOK
      <4>3. StatusStep(user[2])
        BY <3>1, <4>2 DEF StatusStep
      <4> QED BY <3>1, <4>1, <4>3, OneOld
    <3>3. CASE user[2] \notin Tasks
      <4>1. Node(graph, user[2]) \notin Nodes
        BY <3>3 DEF Node, Nodes
      <4>2. UNCHANGED status
        BY <3>1, <4>1 DEF SchedulerInv, TypeOK, NodesTypeOK
      <4> QED BY <1>1, <4>2
    <3> QED BY <3>2, <3>3
  <2> QED BY <1>1, <1>5, <2>1, <2>2 DEF Answer, ClosePause, StopForPause, CloseResume, RenewPauseCh, RenewResumeCh,
         CancelContext, OpenGate, StopAmended, StopForRestructure, GiveUpRestructure, BuildGraph, ReplaceGraph
<1> QED BY <1>2, <1>3, <1>4, <1>5, WorkerOld DEF Next

-----------------------------------------------------------------------------
\* Goroutines come from Launch alone, and then have their task to settle.
LEMMA WorkerJobs ==
    ASSUME SchedulerInv, Next, NEW w \in Slots
    PROVE  /\ w \in Live' =>
                 \/ w \in Live /\ job'[w] = job[w] /\ (Settling(w)' => Settling(w))
                 \/ Launch /\ \E t \in First : job'[w] = Node(graph, t)
           /\ Deliver(w) => ~Settling(w)' /\ \A v \in Slots : v # w => at'[v] = at[v]
<1>0. at \in [Slots -> WorkerPlaces] /\ job \in [Slots -> Nodes \cup {NoJob}]
  BY DEF SchedulerInv, TypeOK, WorkersTypeOK
<1>1. CASE UNCHANGED <<at, job>>
  <2>1. ~Deliver(w)
    BY <1>0, <1>1 DEF Deliver, Move
  <2> QED BY <1>1, <2>1 DEF Live, Settling
<1>2. CASE Launch
  <2>1. PICK free : \E t \in First : /\ at' = [at EXCEPT ![free] = "run"]
                                     /\ job' = [job EXCEPT ![free] = Node(graph, t)]
    BY <1>2 DEF Launch
  <2>2. PICK t \in First : /\ at' = [at EXCEPT ![free] = "run"]
                           /\ job' = [job EXCEPT ![free] = Node(graph, t)]
    BY <2>1
  <2>3. ~Deliver(w)
    BY <1>2 DEF Launch, Deliver, execVars, GoTo
  <2>4. CASE w = free
    BY <1>0, <1>2, <2>2, <2>3, <2>4
  <2>5. CASE w # free
    BY <1>0, <2>2, <2>3, <2>5 DEF Live, Settling
  <2> QED BY <2>4, <2>5
<1>3. ASSUME Execute, ~Launch PROVE UNCHANGED <<at, job>>
  BY <1>3 DEF Execute, Loop, Gate, Held, Drain, Swap, Skip, Dispatch, Settle, Wait, More, workVars
<1>4. ASSUME Ask \/ Answer PROVE UNCHANGED <<at, job>>
  BY <1>4 DEF Ask, BeginPause, BeginResume, BeginCancel, BeginRestructure, BeginAmend, Answer,
         ClosePause, StopForPause, ResetRunning, CloseResume, RenewPauseCh, RenewResumeCh,
         CancelContext, OpenGate, ResetAmended, StopAmended, StopForRestructure,
         GiveUpRestructure, BuildGraph, ReplaceGraph, workVars
<1>5. ASSUME NEW v \in Slots, Worker(v)
      PROVE  /\ w \in Live' => w \in Live /\ job'[w] = job[w] /\ (Settling(w)' => Settling(w))
             /\ Deliver(w) => ~Settling(w)' /\ \A u \in Slots : u # w => at'[u] = at[u]
  <2>1. /\ w # v => at'[w] = at[w] /\ job'[w] = job[w]
        /\ at[v] # "idle"
        /\ Settling(v)' => Settling(v)
        /\ at'[v] # "idle" => job'[v] = job[v]
    BY <1>0, <1>5 DEF Worker, Deliver, Fail, Lose, ReadStatus, ReadFlags, Check, Exit, Move, Settling
  <2>2. Deliver(w) => ~Settling(w)' /\ \A u \in Slots : u # w => at'[u] = at[u]
    BY <1>0 DEF Deliver, Move, Settling
  <2> QED BY <2>1, <2>2 DEF Live, Settling
<1> QED BY <1>1, <1>2, <1>3, <1>4, <1>5 DEF Next

\* A task comes to be launched in Dispatch.
LEMMA LaunchStep ==
    ASSUME Next, pc' = "launch"
    PROVE  First' = First /\ (Dispatch \/ pc = "launch")
<1>1. CASE Execute
  <2>1. Dispatch /\ UNCHANGED ready
    BY <1>1 DEF Execute, Loop, Gate, Held, Drain, Swap, Skip, Dispatch, Launch, Settle, Wait, More,
           TakeGraph, GoTo, Return
  <2> QED BY <2>1 DEF First
<1>2. CASE UNCHANGED <<pc, ready>>
  BY <1>2 DEF First
<1>3. ASSUME Ask \/ Answer PROVE UNCHANGED <<pc, ready>>
  BY <1>3 DEF Ask, BeginPause, BeginResume, BeginCancel, BeginRestructure, BeginAmend, Answer,
         ClosePause, StopForPause, ResetRunning, CloseResume, RenewPauseCh, RenewResumeCh,
         CancelContext, OpenGate, ResetAmended, StopAmended, StopForRestructure,
         GiveUpRestructure, BuildGraph, ReplaceGraph, execVars
<1>4. ASSUME NEW w \in Slots, Worker(w) PROVE UNCHANGED <<pc, ready>>
  BY <1>4 DEF Worker, Deliver, Fail, Lose, ReadStatus, ReadFlags, Check, Exit, execVars
<1> QED BY <1>1, <1>2, <1>3, <1>4 DEF Next

\* A graph taken is not the first.
LEMMA FirstGraph ==
    ASSUME Next, graph' = 0, GenInv, SchedulerInv
    PROVE  graph = 0 /\ UNCHANGED graph
<1>1. graph \in Nat /\ graphReplace \in Nat
  BY DEF SchedulerInv, TypeOK, ExecuteTypeOK, ControlTypeOK, Gens
<1> QED BY <1>1, GraphStep DEF TakeGraph, GenInv

\* Goroutines work on the first graph until another is taken.
LEMMA FirstStep ==
    ASSUME SchedulerInv, CopyInv, FirstInv, GenInv, Next, graph' = 0
    PROVE  FirstInv'
<1>1. graph = 0
  BY FirstGraph
<1>2. OldStep
  BY <1>1, StatusOld
<1>3. ASSUME NEW w \in Live' PROVE job'[w][2] = 0
  <2>1. w \in Slots
    BY DEF Live
  <2>2. ASSUME NEW t \in First PROVE Node(graph, t)[2] = 0
    <3>1. t \in Tasks
      BY <2>2 DEF First, SchedulerInv, TypeOK, ExecuteTypeOK
    <3>2. Node(graph, t) = <<t, 0>>
      BY <1>1, <3>1, OldNodes
    <3> QED BY <3>2
  <2> QED BY <1>1, <2>1, <2>2, WorkerJobs DEF FirstInv
<1>4. \A n \in Nodes : n[2] # 0 => status'[n] = "pending"
  BY <1>1, <1>2 DEF OldStep, FirstInv
<1> QED BY <1>3, <1>4 DEF FirstInv

\* What becomes of a task in one place.
LEMMA DoneStep ==
    ASSUME SchedulerInv, TakeInv, Next, graph' = 0
    PROVE  DoneInv'
<1>1. graph = 0 /\ UNCHANGED graph
  BY FirstGraph DEF TakeInv
<1>2. OldStep
  BY <1>1, StatusOld DEF TakeInv
<1>3. ready \subseteq Tasks /\ First \subseteq ready /\ Live \subseteq Slots
  BY DEF SchedulerInv, TypeOK, ExecuteTypeOK, First, Live
<1>4. ASSUME NEW t \in Tasks, status'[<<t, 0>>] = "completed", status[<<t, 0>>] # "completed"
      PROVE  \E w \in Live : Deliver(w) /\ job[w] = <<t, 0>>
  BY <1>2, <1>4 DEF OldStep, StatusStep
<1>5. ASSUME NEW t \in ready' \ dispatched', status'[<<t, 0>>] = "completed" PROVE FALSE
  <2>1. CASE t \in ready \ dispatched
    <3>1. t \in Tasks /\ status[<<t, 0>>] # "completed"
      BY <1>1, <1>3, <2>1 DEF TakeInv, DoneInv
    <3>2. PICK w \in Live : job[w] = <<t, 0>>
      BY <1>4, <1>5, <3>1
    <3>3. t \in dispatched
      BY <1>1, <3>2 DEF TakeInv, TokenInv
    <3> QED BY <2>1, <3>3
  <2>2. CASE status[Node(graph, t)] = "pending" /\ UNCHANGED status
    <3>1. ready' \subseteq Tasks
      BY ExecuteStep, WorkerStep, AskStep, AnswerStep DEF Next, SchedulerInv, TypeOK, ExecuteTypeOK
    <3>2. Node(graph, t) = <<t, 0>>
      BY <1>1, <3>1, OldNodes DEF TakeInv
    <3> QED BY <1>5, <2>2, <3>2
  <2> QED BY <1>1, <1>5, <2>1, <2>2, ReadyStep DEF TakeInv
<1>6. ASSUME pc' = "launch", NEW t \in First', status'[<<t, 0>>] = "completed" PROVE FALSE
  <2>1. t \in First /\ t \in Tasks /\ (Dispatch \/ pc = "launch")
    BY <1>3, <1>6, LaunchStep
  <2>2. CASE Dispatch
    <3>1. PICK u \in First \ dispatched : status' = [status EXCEPT ![Node(graph, u)] = "running"]
      BY <2>2 DEF Dispatch
    <3>2. u = t
      BY <2>1, <3>1, FirstIsUnique
    <3>3. Node(graph, t) = <<t, 0>> /\ <<t, 0>> \in Nodes
      BY <1>1, <2>1, OldNodes DEF TakeInv
    <3>4. status'[<<t, 0>>] = "running"
      BY <3>1, <3>2, <3>3 DEF SchedulerInv, TypeOK, NodesTypeOK
    <3> QED BY <1>6, <3>4
  <2>3. CASE pc = "launch"
    <3>1. status[<<t, 0>>] # "completed"
      BY <1>1, <2>1, <2>3 DEF TakeInv, DoneInv
    <3>2. PICK w \in Live : job[w] = <<t, 0>>
      BY <1>4, <1>6, <2>1, <3>1
    <3> QED BY <1>1, <2>1, <2>3, <3>2 DEF TakeInv, TokenInv
  <2> QED BY <2>1, <2>2, <2>3
<1>7. ASSUME NEW w \in Live', Settling(w)', status'[job'[w]] = "completed" PROVE FALSE
  <2>1. w \in Slots
    BY DEF Live
  <2>2. CASE w \in Live /\ job'[w] = job[w] /\ Settling(w)
    <3>1. PICK t \in Tasks : job[w] = <<t, 0>>
      BY <1>1, <2>2 DEF TakeInv, FirstInv, SchedulerInv, TypeOK, WorkersTypeOK, Nodes
    <3>2. status[<<t, 0>>] # "completed"
      BY <1>1, <2>2, <3>1 DEF TakeInv, DoneInv
    <3>3. PICK v \in Live : Deliver(v) /\ job[v] = <<t, 0>>
      BY <1>4, <1>7, <2>2, <3>1, <3>2
    <3>4. cancels[t] = {w} /\ cancels[t] = {v}
      BY <1>1, <2>2, <3>1, <3>3 DEF TakeInv, TokenInv
    <3>5. w = v
      BY <3>4
    <3> QED BY <1>7, <2>1, <3>3, <3>5, WorkerJobs
  <2>3. ASSUME Launch, NEW t \in First, job'[w] = Node(graph, t) PROVE FALSE
    <3>1. job'[w] = <<t, 0>> /\ UNCHANGED status /\ pc = "launch"
      BY <1>1, <1>3, <2>3, OldNodes DEF TakeInv, Launch
    <3> QED BY <1>1, <1>7, <2>3, <3>1 DEF TakeInv, DoneInv
  <2> QED BY <1>7, <2>1, <2>2, <2>3, WorkerJobs
<1> QED BY <1>5, <1>6, <1>7 DEF DoneInv

\* The tasks kept stay as they are until the graph is to be taken.
LEMMA KeptStep ==
    ASSUME SchedulerInv, TakeInv, Next, graph' = 0
    PROVE  KeptInv'
<1>1. graph = 0 /\ UNCHANGED graph
  BY FirstGraph DEF TakeInv
<1>2. OldStep
  BY <1>1, StatusOld DEF TakeInv
<1>3. First \subseteq ready /\ Live \subseteq Slots /\ active \in Nat /\ graphReplace \in Nat
      /\ node \in [Gens -> [Tasks -> Gens]]
  BY DEF SchedulerInv, TypeOK, ExecuteTypeOK, ControlTypeOK, NodesTypeOK, Gens, First, Live
<1>4. \A t \in Tasks : Node(0, t) = <<t, 0>>
  BY <1>1, OldNodes DEF TakeInv
<1>5. CASE BuildGraph /\ active = 0
  <2>1. user'[1] = "restructure.replace" /\ active' = 1 /\ UNCHANGED <<graphReplace, status, ready, dispatched>>
    BY <1>5 DEF BuildGraph, Step, ctlVars, execVars
  <2>2. graphReplace = 0
    BY <1>3, <1>5 DEF TakeInv, GenInv
  <2>3. 1 \in Gens
    BY <1>5, SchedulerAssumption DEF BuildGraph, Gens
  <2>4. node'[1] = [t \in Tasks |-> IF View(0)[t] = "completed" THEN node[0][t] ELSE 1]
    BY <1>3, <1>5, <2>3 DEF BuildGraph
  <2>5. ASSUME NEW t \in Kept' PROVE t \in Tasks /\ status[<<t, 0>>] = "completed" /\ t \notin ready \ dispatched
    <3>1. t \in Tasks /\ View(0)[t] = "completed"
      BY <2>4 DEF Kept
    <3>2. status[<<t, 0>>] = "completed"
      BY <1>4, <3>1 DEF View
    <3> QED BY <1>1, <3>1, <3>2 DEF TakeInv, DoneInv
  <2> QED BY <2>1, <2>2, <2>5 DEF KeptInv
<1>6. ASSUME active # 0 PROVE KeptInv'
  <2>1. /\ graphReplace # 1 =>
              /\ user[1] = "restructure.replace" /\ active = 1 /\ graphReplace = 0
              /\ \A t \in Kept : status[<<t, 0>>] = "completed"
        /\ \A t \in Kept : status[<<t, 0>>] # "running" /\ t \notin ready \ dispatched
    BY <1>1, <1>6 DEF TakeInv, KeptInv
  <2>2. Kept' = Kept
    <3>1. CASE BuildGraph
      <4>1. 1 \in Gens /\ 1 # active + 1 /\ active' # 0
        BY <1>3, <1>6, <3>1, SchedulerAssumption DEF BuildGraph, Gens
      <4>2. node'[1] = node[1]
        BY <1>3, <3>1, <4>1 DEF BuildGraph
      <4> QED BY <1>6, <4>1, <4>2 DEF Kept
    <3>2. CASE ~BuildGraph
      <4>1. UNCHANGED <<node, active>>
        BY <1>1, <3>2, BuildStep DEF TakeInv, ReplaceGraph
      <4> QED BY <4>1 DEF Kept
    <3> QED BY <3>1, <3>2
  <2>3. graphReplace = 1 => graphReplace' = 1
    BY <1>1, BuildStep DEF TakeInv, BuildGraph, ReplaceGraph
  <2>4. ASSUME graphReplace' # 1
        PROVE  /\ user'[1] = "restructure.replace" /\ active' = 1 /\ graphReplace' = 0
               /\ \A t \in Kept : status'[<<t, 0>>] = "completed"
    <3>1. user[1] = "restructure.replace" /\ active = 1 /\ graphReplace = 0
      BY <2>1, <2>3, <2>4
    <3>2. ~BuildGraph /\ ~ReplaceGraph
      BY <2>4, <3>1 DEF BuildGraph, ReplaceGraph, Step
    <3>3. UNCHANGED <<user, active, graphReplace>>
      BY <1>1, <3>1, <3>2, BuildStep DEF TakeInv
    <3>4. ASSUME NEW t \in Kept PROVE status'[<<t, 0>>] = "completed"
      <4>1. t \in Tasks /\ status[<<t, 0>>] = "completed" /\ t \notin ready \ dispatched
        BY <2>1, <2>3, <2>4 DEF Kept
      <4>2. ASSUME NEW w \in Live, Settling(w) PROVE job[w] # <<t, 0>>
        BY <1>1, <4>1, <4>2 DEF TakeInv, DoneInv
      <4>3. StatusStep(t)
        BY <1>2, <4>1 DEF OldStep
      <4> QED BY <1>3, <3>1, <4>1, <4>2, <4>3 DEF StatusStep
    <3> QED BY <3>1, <3>3, <3>4
  <2>5. ASSUME NEW t \in Kept PROVE status'[<<t, 0>>] # "running" /\ t \notin ready' \ dispatched'
    <3>1. t \in Tasks /\ status[<<t, 0>>] # "running" /\ t \notin ready \ dispatched
      BY <2>1 DEF Kept
    <3>2. StatusStep(t)
      BY <1>2, <3>1 DEF OldStep
    <3>3. status'[<<t, 0>>] # "running"
      BY <1>3, <3>1, <3>2 DEF StatusStep
    <3>4. graphReplace = 0 => status[Node(graph, t)] = "completed"
      BY <1>1, <1>4, <2>1, <3>1
    <3>5. t \notin ready' \ dispatched'
      BY <1>1, <3>1, <3>4, ReadyStep DEF TakeInv
    <3> QED BY <3>3, <3>5
  <2> QED BY <2>2, <2>4, <2>5 DEF KeptInv
<1>7. ASSUME active = 0, ~BuildGraph PROVE KeptInv'
  <2>1. UNCHANGED active
    BY <1>1, <1>7, BuildStep DEF TakeInv, ReplaceGraph
  <2> QED BY <1>7, <2>1 DEF KeptInv
<1> QED BY <1>5, <1>6, <1>7

\* The strengthening is inductive.
LEMMA TakeStep == ASSUME SchedulerInv, TakeInv, [Next]_vars, TokenInv' PROVE TakeInv'
<1>1. GenInv' /\ CopyInv' /\ ReadyInv'
  BY GenStep, CopyStep, ReadyStep DEF TakeInv
<1>2. CASE Next /\ graph' = 0
  BY <1>1, <1>2, FirstStep, DoneStep, KeptStep DEF TakeInv
<1>3. CASE graph' # 0
  BY <1>1, <1>3 DEF TakeInv, FirstInv, DoneInv, KeptInv
<1>4. CASE UNCHANGED vars
  <2>1. UNCHANGED <<pc, graph, ready, dispatched, node, status, at, job, active, graphReplace, user>>
    BY <1>4 DEF vars, execVars, workVars, ctlVars, userVars
  <2>2. FirstInv' /\ DoneInv' /\ KeptInv'
    BY <2>1 DEF TakeInv, FirstInv, DoneInv, KeptInv, Kept, First, Live, Settling
  <2> QED BY <1>1, <2>2 DEF TakeInv
<1> QED BY <1>2, <1>3, <1>4

\* A cancellation comes to its gate with the context cancelled.
LEMMA GateStep ==
    ASSUME Next, user[1] = "cancel.gate" => ctxDone, user'[1] = "cancel.gate"
    PROVE  ctxDone'
<1>1. CASE Ask \/ Answer
  BY <1>1 DEF Ask, BeginPause, BeginResume, BeginCancel, BeginRestructure, BeginAmend, Begin, Answer, Step, NoOp,
     ClosePause, StopForPause, ResetRunning, CloseResume, RenewPauseCh, RenewResumeCh,
     CancelContext, OpenGate, ResetAmended, StopAmended, StopForRestructure,
     GiveUpRestructure, BuildGraph, ReplaceGraph
<1>2. CASE Execute
  BY <1>2 DEF Execute, Loop, Gate, Held, Drain, Swap, Skip, Dispatch, Launch, Settle, Wait, More, TakeGraph,
     ctlVars, userVars
<1>3. ASSUME NEW w \in Slots, Worker(w) PROVE ctxDone'
  BY <1>3 DEF Worker, Deliver, Fail, Lose, ReadStatus, ReadFlags, Check, Exit, ctlVars, userVars
<1> QED BY <1>1, <1>2, <1>3 DEF Next

\* Nothing runs in the first restructured graph when it is taken.
LEMMA TakenAtRest ==
    ASSUME SchedulerInv, TakeInv, graph = 0, graphReplace # 0, Next, graph' = 1, NEW t \in Tasks
    PROVE  status'[Node(graph, t)'] # "running"
<1>1. TakeGraph /\ UNCHANGED <<node, status>> /\ graphReplace = 1 /\ active # 0
  BY GraphStep DEF TakeGraph, TakeInv, GenInv, SchedulerInv, TypeOK, ControlTypeOK, Gens
<1>2. Node(graph, t)' = <<t, node[1][t]>>
  BY <1>1 DEF Node
<1>3. CASE node[1][t] = 0
  BY <1>1, <1>2, <1>3 DEF Kept, TakeInv, KeptInv
<1>4. CASE node[1][t] = 1
  <2>1. 1 \in Gens
    BY <1>1, SchedulerAssumption DEF SchedulerInv, TypeOK, ControlTypeOK, Gens
  <2>2. <<t, 1>> \in Nodes /\ <<t, 1>>[2] # 0
    BY <2>1 DEF Nodes
  <2>3. status[<<t, 1>>] = "pending"
    BY <2>2 DEF TakeInv, FirstInv
  <2> QED BY <1>1, <1>2, <1>4, <2>3
<1> QED BY <1>1, <1>3, <1>4 DEF TakeInv, CopyInv

\* RunningInv is inductive relative to it.
LEMMA RunningStep == ASSUME SchedulerInv, TakeInv, RunningInv, [Next]_vars PROVE RunningInv'
<1>1. CASE UNCHANGED vars
  <2>1. UNCHANGED <<pc, graph, ready, node, status, at, job, paused, restructuring, ctxDone, user>>
    BY <1>1 DEF vars, execVars, workVars, ctlVars, userVars
  <2> QED BY <2>1 DEF RunningInv, Excused, Settling, Node, Live, First
<1>2. CASE Next /\ graph <= 1 /\ UNCHANGED graph
  BY <1>2, ExecuteRuns, WorkerRuns, UserRuns DEF Next, TakeInv
<1>3. ASSUME Next PROVE user'[1] = "cancel.gate" => ctxDone'
  BY <1>3, GateStep DEF RunningInv
<1>4. graph \in Nat /\ graphReplace \in Nat
  BY DEF SchedulerInv, TypeOK, ExecuteTypeOK, ControlTypeOK, Gens
<1>5. CASE Next /\ ~(graph <= 1) /\ UNCHANGED graph
  BY <1>3, <1>5 DEF RunningInv
<1>6. CASE Next /\ graph' # graph
  <2>1. graph' = graphReplace /\ graphReplace # 0 /\ graph < graphReplace
    BY <1>6, GraphStep DEF TakeGraph, TakeInv, GenInv
  <2>2. CASE graph' <= 1
    <3>1. graph = 0 /\ graph' = 1
      BY <1>4, <2>1, <2>2
    <3>2. \A t \in Tasks : status'[Node(graph, t)'] # "running"
      BY <1>6, <2>1, <3>1, TakenAtRest
    <3> QED BY <1>3, <1>6, <3>2 DEF RunningInv
  <2>3. CASE ~(graph' <= 1)
    BY <1>3, <1>6, <2>3 DEF RunningInv
  <2> QED BY <2>2, <2>3
<1> QED BY <1>1, <1>2, <1>5, <1>6

\* What the first restructured graph takes over, throughout.
LEMMA Taken == Spec => []TakeInv
<1>1. Init => GenInv /\ CopyInv /\ ReadyInv /\ FirstInv /\ DoneInv /\ KeptInv
  <2> SUFFICES ASSUME Init PROVE GenInv /\ CopyInv /\ ReadyInv /\ FirstInv /\ DoneInv /\ KeptInv
    OBVIOUS
  <2>1. 0 \in Gens
    BY InitInv, WriteType DEF SchedulerInv, TypeOK, Init, ExecuteTypeOK
  <2>2. GenInv /\ CopyInv /\ ReadyInv
    BY <2>1 DEF Init, GenInv, NoOp, CopyInv, ReadyInv
  <2>3. Live = {}
    BY DEF Init, Live
  <2>4. FirstInv /\ DoneInv /\ KeptInv
    BY <2>1, <2>3 DEF Init, FirstInv, DoneInv, KeptInv
  <2> QED BY <2>2, <2>4
<1>2. Init /\ TokenInv => TakeInv
  BY <1>1 DEF TakeInv
<1>3. SchedulerInv /\ TakeInv /\ TokenInv' /\ [Next]_vars => TakeInv'
  BY TakeStep
<1> QED BY <1>2, <1>3, SchedulerInvariant, Tokens, PTL DEF Spec

(* Until a second restructured graph is taken, no task is left "running"    *)
(* for ever: a goroutine has still to settle it, or a pause, a              *)
(* restructuring or a cancellation is about to (the error path of           *)
(* dispatchTask against Resume and RestructureGraph).                       *)
THEOREM Executed == Spec => []RunningIsExecuted
<1>1. Init => RunningInv
  <2> SUFFICES ASSUME Init PROVE RunningInv
    OBVIOUS
  <2>1. 0 \in Gens /\ \A t \in Tasks : Node(0, t) \in Nodes
    BY InitInv, WriteType DEF SchedulerInv, TypeOK, Init, ExecuteTypeOK
  <2> QED BY <2>1 DEF Init, RunningInv, NoOp
<1>2. RunningInv => RunningIsExecuted
  BY DEF RunningInv, RunningIsExecuted, Excused
<1>3. SchedulerInv /\ TakeInv /\ RunningInv /\ [Next]_vars => RunningInv'
  BY RunningStep
<1> QED BY <1>1, <1>2, <1>3, SchedulerInvariant, Taken, PTL DEF Spec

-----------------------------------------------------------------------------
(* Without the user's operations the scheduler implements GraphRun.  It     *)
(* stays with the first graph, and nothing is paused or cancelled.          *)
QuietInv == /\ graph = 0 /\ graphReplace = 0 /\ user = NoOp
            /\ ~paused /\ ~restructuring

St(t) == status[<<t, 0>>]

\* Everything a task depends on is delivered.
Delivered(t) == \A d \in Deps[t] : St(d) \in Satisfied

\* What a goroutine finds its task to be.
Placed(place, s) == /\ place \in {"run", "flags"} => s = "running"
                    /\ place = "error" => s \in {"running", "pending"}
                    /\ place = "check" => s \in {"completed", "failed", "escalated"}

WorkInv ==
    /\ \A t \in ready \ dispatched : St(t) = "pending" /\ Delivered(t)
    /\ pc = "launch" => \A t \in First : St(t) = "running" /\ Delivered(t)
    /\ \A w \in Live : /\ Placed(at[w], status[job[w]])
                       /\ at[w] # "exit" => Delivered(job[w][1])
    /\ \A t \in Tasks : St(t) \in {"running", "completed", "escalated"} => Delivered(t)

RunInv == SchedulerInv /\ TakeInv /\ QuietInv /\ WorkInv

\* A goroutine looks at the failed result of a task.
Looked(t) == \E w \in Live : at[w] = "check" /\ job[w] = <<t, 0>>

\* The nodes are those of the first graph.
LEMMA SettledIs ==
    ASSUME RunInv, NEW t \in Tasks
    PROVE  /\ <<t, 0>> \in Nodes /\ Node(0, t) = <<t, 0>> /\ Node(graph, t) = <<t, 0>>
           /\ View(0)[t] = St(t) /\ View(graph)[t] = St(t)
           /\ Settled[t] = IF St(t) = "failed" /\ Looked(t) THEN "running" ELSE St(t)
<1>1. <<t, 0>> \in Nodes /\ Node(graph, t) = <<t, 0>> /\ graph = 0
  BY OldNodes DEF RunInv, TakeInv, QuietInv
<1>2. View(0)[t] = St(t)
  BY <1>1 DEF View, St
<1>3. Settled[t] = IF View(0)[t] = "failed" /\ \E w \in Live : at[w] = "check" /\ job[w] = Node(0, t)
                   THEN "running" ELSE View(0)[t]
  BY DEF Settled
<1> QED BY <1>1, <1>2, <1>3 DEF Looked

\* The tasks and the places they are in.
LEMMA InOnePlace ==
    ASSUME RunInv, NEW w \in Live
    PROVE  /\ w \in Slots /\ at[w] # "idle"
           /\ \E t \in Tasks : job[w] = <<t, 0>> /\ <<t, 0>> \in Nodes /\ job[w][1] = t /\ t \in dispatched
           /\ \A v \in Live : job[v] = job[w] => v = w
           /\ pc = "launch" => job[w][1] \notin First
<1>1. graph = 0
  BY DEF RunInv, QuietInv
<1>2. w \in Slots /\ at[w] # "idle"
  BY DEF Live
<1>3. PICK t \in Tasks : job[w] = <<t, 0>> /\ <<t, 0>> \in Nodes
  <2>1. job[w] \in Tasks \X Gens
    BY DEF RunInv, SchedulerInv, TypeOK, WorkersTypeOK, Nodes
  <2>2. job[w][2] = 0
    BY <1>1 DEF RunInv, TakeInv, FirstInv
  <2> QED BY <2>1, <2>2, SettledIs
<1>4. t \in dispatched /\ job[w][1] = t
  BY <1>1, <1>3 DEF RunInv, TakeInv, TokenInv
<1>5. ASSUME NEW v \in Live, job[v] = job[w] PROVE v = w
  <2>1. cancels[t] = {v} /\ cancels[t] = {w}
    BY <1>1, <1>3, <1>5 DEF RunInv, TakeInv, TokenInv
  <2> QED BY <2>1
<1>6. pc = "launch" => job[w][1] \notin First
  BY <1>1 DEF RunInv, TakeInv, TokenInv
<1> QED BY <1>2, <1>3, <1>4, <1>5, <1>6

\* What is delivered stays so as long as nothing delivered is changed.
LEMMA DeliveredStays ==
    ASSUME \A d \in Tasks : St(d) \in Satisfied => St(d)' \in Satisfied, NEW t \in Tasks, Delivered(t)
    PROVE  Delivered(t)'
<1>1. Deps[t] \subseteq Tasks
  BY SchedulerAssumption
<1> QED BY <1>1 DEF Delivered

\* Only Execute and the goroutines act.
LEMMA QuietStep ==
    ASSUME Ops = {}, RunInv, Next
    PROVE  /\ Execute \/ \E w \in Slots : Worker(w)
           /\ QuietInv' /\ UNCHANGED node
<1>1. ~Ask
  BY DEF Ask, BeginPause, BeginResume, BeginCancel, BeginRestructure, BeginAmend, Begin, RunInv, QuietInv
<1>2. ~Answer
  BY DEF RunInv, QuietInv, NoOp, Step, Answer, ClosePause, StopForPause, ResetRunning, CloseResume,
         RenewPauseCh, RenewResumeCh, CancelContext, OpenGate, ResetAmended, StopAmended,
         StopForRestructure, GiveUpRestructure, BuildGraph, ReplaceGraph
<1>3. ASSUME Execute PROVE QuietInv' /\ UNCHANGED node
  <2>1. ~TakeGraph
    BY DEF TakeGraph, RunInv, QuietInv
  <2> QED BY <1>3, <2>1 DEF Execute, Loop, Gate, Held, Drain, Swap, Skip, Dispatch, Launch, Settle, Wait, More,
             RunInv, QuietInv, ctlVars, userVars
<1>4. ASSUME NEW w \in Slots, Worker(w) PROVE QuietInv' /\ UNCHANGED node
  BY <1>4 DEF Worker, Deliver, Fail, Lose, ReadStatus, ReadFlags, Check, Exit, RunInv, QuietInv,
         execVars, ctlVars, userVars
<1> QED BY <1>1, <1>2, <1>3, <1>4 DEF Next

\* SettledIs of the next state.
LEMMA SettledNext ==
    ASSUME RunInv, UNCHANGED node, NEW t \in Tasks
    PROVE  Settled'[t] = IF St(t)' = "failed" /\ Looked(t)' THEN "running" ELSE St(t)'
<1>1. Node(0, t) = <<t, 0>> /\ Node(0, t)' = Node(0, t)
  BY SettledIs DEF Node
<1>2. View(0)'[t] = St(t)'
  BY <1>1 DEF View, St
<1>3. Settled'[t] = IF View(0)'[t] = "failed" /\ \E w \in Live' : at'[w] = "check" /\ job'[w] = Node(0, t)'
                    THEN "running" ELSE View(0)'[t]
  BY DEF Settled
<1> QED BY <1>1, <1>2, <1>3 DEF Looked

\* Two functions of the tasks.
LEMMA SameSettled ==
    ASSUME \A t \in Tasks : Settled'[t] = Settled[t]
    PROVE  UNCHANGED Settled
<1>1. Settled = [t \in Tasks |-> Settled[t]] /\ Settled' = [t \in Tasks |-> Settled'[t]]
  BY DEF Settled
<1> QED BY <1>1

\* They differ in one task.
LEMMA OneSettled ==
    ASSUME NEW u \in Tasks, \A t \in Tasks \ {u} : Settled'[t] = Settled[t]
    PROVE  Settled' = [Settled EXCEPT ![u] = Settled'[u]]
<1>1. Settled = [t \in Tasks |-> Settled[t]] /\ Settled' = [t \in Tasks |-> Settled'[t]]
  BY DEF Settled
<1> DEFINE s == Settled
           r == Settled'
<1>2. s = [t \in Tasks |-> s[t]] /\ r = [t \in Tasks |-> r[t]] /\ \A t \in Tasks \ {u} : r[t] = s[t]
  BY <1>1
<1> HIDE DEF s, r
<1>3. r = [s EXCEPT ![u] = r[u]]
  BY <1>2
<1> QED BY <1>3 DEF s, r

\* Execute goes on without touching a task or a goroutine.
LEMMA ExecuteOnly ==
    ASSUME RunInv, UNCHANGED <<status, at, job, node>>, ready' \ dispatched' \subseteq ready \ dispatched,
           pc' # "launch"
    PROVE  WorkInv' /\ UNCHANGED Promise!vars
<1>1. Live' = Live /\ \A t : St(t)' = St(t) /\ (Delivered(t)' <=> Delivered(t)) /\ (Looked(t)' <=> Looked(t))
  BY DEF Live, St, Delivered, Looked
<1>2. WorkInv'
  BY <1>1 DEF RunInv, WorkInv
<1>3. UNCHANGED Settled
  BY <1>1, SettledIs, SettledNext, SameSettled
<1> QED BY <1>2, <1>3 DEF Promise!vars

\* What becomes of the task of a goroutine that moves on.
Settles(w, s, place) ==
    \E t \in Tasks :
       /\ job[w] = <<t, 0>>
       /\ Settled[t] = IF St(t) = "failed" /\ at[w] = "check" THEN "running" ELSE St(t)
       /\ Settled'[t] = IF s = "failed" /\ place = "check" THEN "running" ELSE s
       /\ Settled' = [Settled EXCEPT ![t] = Settled'[t]]

\* A goroutine that has not reported moves on and writes its task's status.
LEMMA WorkerMoves ==
    ASSUME RunInv, NEW w \in Live, at[w] # "exit", NEW s \in Status, NEW place \in WorkerPlaces \ {"idle"},
           status' = [status EXCEPT ![job[w]] = s], at' = [at EXCEPT ![w] = place],
           UNCHANGED <<pc, ready, dispatched, job, node>>,
           status[job[w]] \in Satisfied => s = status[job[w]],
           Placed(place, s)
    PROVE  WorkInv' /\ Settles(w, s, place)
<1>1. PICK t \in Tasks : job[w] = <<t, 0>> /\ <<t, 0>> \in Nodes /\ job[w][1] = t /\ t \in dispatched
  BY InOnePlace
<1>2. w \in Slots /\ (\A v \in Live : job[v] = job[w] => v = w) /\ (pc = "launch" => t \notin First)
  BY <1>1, InOnePlace
<1>3. at \in [Slots -> WorkerPlaces] /\ status \in [Nodes -> Status] /\ ready \subseteq Tasks
  BY DEF RunInv, SchedulerInv, TypeOK, WorkersTypeOK, NodesTypeOK, ExecuteTypeOK
<1>4. St(t)' = s /\ \A u \in Tasks \ {t} : St(u)' = St(u)
  <2>1. \A u \in Tasks : <<u, 0>> \in Nodes
    BY SchedulerAssumption DEF Nodes, Gens
  <2>2. \A u \in Tasks \ {t} : <<u, 0>> # <<t, 0>>
    OBVIOUS
  <2> QED BY <1>1, <1>3, <2>1, <2>2 DEF St
<1>5. at'[w] = place /\ (\A v \in Slots : v # w => at'[v] = at[v]) /\ Live' = Live
  BY <1>2, <1>3 DEF Live
<1>6. \A d \in Tasks : St(d) \in Satisfied => St(d)' \in Satisfied
  BY <1>1, <1>4 DEF St
<1>7. \A u \in Tasks : Delivered(u) => Delivered(u)'
  BY <1>6, DeliveredStays
<1>8. Delivered(t)
  BY <1>1 DEF RunInv, WorkInv
<1>9. First' = First /\ First \subseteq ready
  BY DEF First
<1>10. \A v \in Live : v # w => job[v] # <<t, 0>> /\ \E u \in Tasks \ {t} : job[v] = <<u, 0>> /\ job[v][1] = u
  <2> SUFFICES ASSUME NEW v \in Live, v # w
               PROVE  job[v] # <<t, 0>> /\ \E u \in Tasks \ {t} : job[v] = <<u, 0>> /\ job[v][1] = u
    OBVIOUS
  <2>1. job[v] # <<t, 0>>
    BY <1>1, <1>2
  <2>2. PICK u \in Tasks : job[v] = <<u, 0>> /\ job[v][1] = u
    BY InOnePlace
  <2> QED BY <2>1, <2>2
<1>11. WorkInv'
  <2>1. \A u \in ready' \ dispatched' : St(u)' = "pending" /\ Delivered(u)'
    BY <1>1, <1>3, <1>4, <1>7 DEF RunInv, WorkInv
  <2>2. pc' = "launch" => \A u \in First' : St(u)' = "running" /\ Delivered(u)'
    BY <1>2, <1>3, <1>4, <1>7, <1>9 DEF RunInv, WorkInv
  <2>3. ASSUME NEW v \in Live'
        PROVE  /\ Placed(at'[v], status'[job'[v]])
               /\ at'[v] # "exit" => \A d \in Deps[job'[v][1]] : St(d)' \in Satisfied
    <3>1. CASE v = w
      <4>1. status'[job'[v]] = s /\ job'[v][1] = t /\ at'[v] = place
        BY <1>1, <1>4, <1>5, <3>1 DEF St
      <4>2. \A d \in Deps[t] : St(d)' \in Satisfied
        BY <1>7, <1>8 DEF Delivered
      <4> QED BY <4>1, <4>2
    <3>2. CASE v # w
      <4>1. PICK u \in Tasks \ {t} : job[v] = <<u, 0>> /\ job[v][1] = u
        BY <1>5, <1>10, <2>3, <3>2
      <4>2. at'[v] = at[v] /\ v \in Live /\ status'[job'[v]] = status[job[v]]
        BY <1>4, <1>5, <2>3, <3>2, <4>1 DEF St, Live
      <4>3. Placed(at[v], status[job[v]]) /\ (at[v] # "exit" => Delivered(u))
        BY <4>1, <4>2 DEF RunInv, WorkInv
      <4>4. Delivered(u) => \A d \in Deps[u] : St(d)' \in Satisfied
        BY <1>7 DEF Delivered
      <4>5. job'[v][1] = u
        BY <4>1
      <4> QED BY <4>2, <4>3, <4>4, <4>5
    <3> QED BY <3>1, <3>2
  <2>4. \A u \in Tasks : St(u)' \in {"running", "completed", "escalated"} => Delivered(u)'
    BY <1>4, <1>7, <1>8 DEF RunInv, WorkInv
  <2> QED BY <2>1, <2>2, <2>3, <2>4 DEF WorkInv, Placed, Delivered
<1>12. /\ Looked(t) <=> at[w] = "check"
       /\ Looked(t)' <=> place = "check"
       /\ \A u \in Tasks \ {t} : Looked(u)' <=> Looked(u)
  <2>1. \A u \in Tasks \ {t} : job[w] # <<u, 0>>
    BY <1>1
  <2> QED BY <1>1, <1>2, <1>5, <1>10, <2>1 DEF Looked, Live
<1>13. \A u \in Tasks \ {t} : Settled'[u] = Settled[u]
  BY <1>4, <1>12, SettledIs, SettledNext
<1>14. /\ Settled[t] = IF St(t) = "failed" /\ at[w] = "check" THEN "running" ELSE St(t)
       /\ Settled'[t] = IF s = "failed" /\ place = "check" THEN "running" ELSE s
  BY <1>4, <1>12, SettledIs, SettledNext
<1>15. Settles(w, s, place)
  BY <1>1, <1>13, <1>14, OneSettled DEF Settles
<1> QED BY <1>11, <1>15

\* One task's settled status changes, or none does.
LEMMA PromiseStep ==
    ASSUME RunInv, NEW t \in Tasks, NEW new, Settled' = [Settled EXCEPT ![t] = Settled'[t]],
           Settled'[t] = new,
           \/ new = Settled[t]
           \/ Settled[t] = "running" /\ new \in {"completed", "failed", "escalated", "pending"}
    PROVE  Promise!Next \/ UNCHANGED Promise!vars
<1>1. CASE new = Settled[t]
  <2>1. \A u \in Tasks : Settled'[u] = Settled[u]
    BY <1>1 DEF Settled
  <2> QED BY <2>1, SameSettled DEF Promise!vars
<1>2. CASE Settled[t] = "running" /\ new \in {"completed", "failed", "escalated"}
  <2>1. Promise!Finish(t)
    BY <1>2 DEF Promise!Finish
  <2> QED BY <2>1 DEF Promise!Next
<1>3. CASE Settled[t] = "running" /\ new = "pending"
  <2>1. Promise!Requeue(t)
    BY <1>3 DEF Promise!Requeue
  <2> QED BY <2>1 DEF Promise!Next
<1> QED BY <1>1, <1>2, <1>3

\* Every goroutine implements GraphRun.
LEMMA WorkerImplements ==
    ASSUME RunInv, QuietInv', UNCHANGED node, NEW w \in Slots, Worker(w)
    PROVE  WorkInv' /\ (Promise!Next \/ UNCHANGED Promise!vars)
<1>1. w \in Live
  BY DEF Worker, Deliver, Fail, Lose, ReadStatus, ReadFlags, Check, Exit, Live
<1>2. status \in [Nodes -> Status] /\ job[w] \in Nodes
  BY <1>1 DEF RunInv, SchedulerInv, TypeOK, NodesTypeOK, WorkersTypeOK
<1>3. status = [status EXCEPT ![job[w]] = status[job[w]]] /\ status[job[w]] \in Status
  BY <1>2
<1>4. Placed(at[w], status[job[w]])
  BY <1>1 DEF RunInv, WorkInv
<1>5. ASSUME NEW s \in Status, NEW place \in WorkerPlaces \ {"idle"}, at[w] # "exit",
             status' = [status EXCEPT ![job[w]] = s], at' = [at EXCEPT ![w] = place],
             UNCHANGED <<pc, ready, dispatched, job, node>>,
             status[job[w]] \in Satisfied => s = status[job[w]],
             Placed(place, s),
             \/ s = status[job[w]]
             \/ status[job[w]] = "running" /\ s \in {"completed", "failed", "escalated", "pending"}
             \/ status[job[w]] = "failed" /\ at[w] = "check" /\ s = "pending"
      PROVE  WorkInv' /\ (Promise!Next \/ UNCHANGED Promise!vars)
  <2> DEFINE new == IF s = "failed" /\ place = "check" THEN "running" ELSE s
  <2>1. WorkInv' /\ Settles(w, s, place)
    BY <1>1, <1>5, WorkerMoves
  <2>2. PICK t \in Tasks :
            /\ job[w] = <<t, 0>>
            /\ Settled[t] = IF St(t) = "failed" /\ at[w] = "check" THEN "running" ELSE St(t)
            /\ Settled'[t] = IF s = "failed" /\ place = "check" THEN "running" ELSE s
            /\ Settled' = [Settled EXCEPT ![t] = Settled'[t]]
    BY <2>1 DEF Settles
  <2>3. \/ new = Settled[t]
        \/ Settled[t] = "running" /\ new \in {"completed", "failed", "escalated", "pending"}
    <3>1. at[w] \in WorkerPlaces \ {"idle", "exit"} /\ St(t) = status[job[w]]
      BY <1>1, <1>5, <2>2 DEF Live, St, RunInv, SchedulerInv, TypeOK, WorkersTypeOK
    <3>2. CASE s = status[job[w]]
      <4>1. s = "failed" => at[w] = "check"
        BY <1>4, <3>1, <3>2 DEF Placed, WorkerPlaces
      <4> QED BY <2>2, <3>1, <3>2, <4>1
    <3>3. CASE status[job[w]] = "running" /\ s \in {"completed", "failed", "escalated", "pending"}
      BY <2>2, <3>1, <3>3
    <3>4. CASE status[job[w]] = "failed" /\ at[w] = "check" /\ s = "pending"
      BY <2>2, <3>1, <3>4
    <3> QED BY <1>5, <3>2, <3>3, <3>4
  <2>4. Settled'[t] = new
    BY <2>2
  <2> HIDE DEF new
  <2> QED BY <2>1, <2>2, <2>3, <2>4, PromiseStep
<1>6. CASE Deliver(w)
  <2>1. PICK s \in Outcomes : status' = [status EXCEPT ![job[w]] = s]
    BY <1>6 DEF Deliver
  <2>2. s \in {"completed", "failed", "escalated"} /\ s \in Status
    BY <2>1, SchedulerAssumption DEF Status
  <2>3. at[w] = "run" /\ status[job[w]] = "running" /\ Placed("check", s)
    BY <1>4, <1>6, <2>2 DEF Deliver, Placed
  <2>4. at' = [at EXCEPT ![w] = "check"] /\ "check" \in WorkerPlaces \ {"idle"}
        /\ UNCHANGED <<pc, ready, dispatched, job, node>>
    BY <1>6 DEF Deliver, Move, WorkerPlaces, execVars
  <2> QED BY <1>5, <2>1, <2>2, <2>3, <2>4 DEF Satisfied
<1>7. CASE Fail(w)
  <2>1. at[w] = "run" /\ status[job[w]] = "running" /\ Placed("error", status[job[w]])
    BY <1>4, <1>7 DEF Fail, Placed
  <2>2. /\ at' = [at EXCEPT ![w] = "error"] /\ "error" \in WorkerPlaces \ {"idle"}
        /\ UNCHANGED <<pc, ready, dispatched, job, node, status>>
    BY <1>7 DEF Fail, Move, WorkerPlaces, execVars
  <2> QED BY <1>3, <1>5, <2>1, <2>2
<1>8. CASE Lose(w)
  <2>1. at[w] = "run" /\ status[job[w]] = "running" /\ Placed("error", "pending")
    BY <1>4, <1>8 DEF Lose, Placed
  <2>2. /\ at' = [at EXCEPT ![w] = "error"] /\ "error" \in WorkerPlaces \ {"idle"}
        /\ status' = [status EXCEPT ![job[w]] = "pending"] /\ "pending" \in Status
        /\ UNCHANGED <<pc, ready, dispatched, job, node>>
    BY <1>8 DEF Lose, Move, WorkerPlaces, Status, execVars
  <2> QED BY <1>5, <2>1, <2>2 DEF Satisfied
<1>9. CASE ReadStatus(w)
  <2> DEFINE place == IF status[job[w]] \in {"cancelled", "pending"} THEN "exit" ELSE "flags"
  <2>1. at[w] = "error" /\ status[job[w]] \in {"running", "pending"} /\ Placed(place, status[job[w]])
    BY <1>4, <1>9 DEF ReadStatus, Placed
  <2>2. /\ at' = [at EXCEPT ![w] = place] /\ place \in WorkerPlaces \ {"idle"}
        /\ UNCHANGED <<pc, ready, dispatched, job, node, status>>
    BY <1>9 DEF ReadStatus, Move, WorkerPlaces, execVars
  <2> HIDE DEF place
  <2> QED BY <1>3, <1>5, <2>1, <2>2
<1>10. CASE ReadFlags(w)
  <2>1. at[w] = "flags" /\ status[job[w]] = "running" /\ Placed("exit", "failed")
    BY <1>4, <1>10 DEF ReadFlags, Placed
  <2>2. status' = [status EXCEPT ![job[w]] = "failed"] /\ "failed" \in Status
    BY <1>10 DEF ReadFlags, RunInv, QuietInv, Status
  <2>3. /\ at' = [at EXCEPT ![w] = "exit"] /\ "exit" \in WorkerPlaces \ {"idle"}
        /\ UNCHANGED <<pc, ready, dispatched, job, node>>
    BY <1>10 DEF ReadFlags, Move, WorkerPlaces, execVars
  <2> QED BY <1>5, <2>1, <2>2, <2>3 DEF Satisfied
<1>11. CASE Check(w)
  <2>1. /\ at[w] = "check" /\ at' = [at EXCEPT ![w] = "exit"] /\ "exit" \in WorkerPlaces \ {"idle"}
        /\ UNCHANGED <<pc, ready, dispatched, job, node>>
    BY <1>11 DEF Check, Move, WorkerPlaces, execVars
  <2>2. \A s : Placed("exit", s)
    BY DEF Placed
  <2>3. CASE UNCHANGED status
    BY <1>3, <1>5, <2>1, <2>2, <2>3
  <2>4. CASE status[job[w]] = "failed" /\ status' = [status EXCEPT ![job[w]] = "pending"]
    <3>1. "pending" \in Status
      BY DEF Status
    <3> QED BY <1>5, <2>1, <2>2, <2>4, <3>1 DEF Satisfied
  <2> QED BY <1>11, <2>3, <2>4 DEF Check
<1>12. CASE Exit(w)
  <2>1. /\ at[w] = "exit" /\ at' = [at EXCEPT ![w] = "idle"] /\ job' = [job EXCEPT ![w] = NoJob]
        /\ UNCHANGED <<status, pc, ready, dispatched>>
    BY <1>12 DEF Exit, Move
  <2>2. at \in [Slots -> WorkerPlaces] /\ job \in [Slots -> Nodes \cup {NoJob}]
    BY DEF RunInv, SchedulerInv, TypeOK, WorkersTypeOK
  <2>3. Live' = Live \ {w} /\ \A v \in Live \ {w} : at'[v] = at[v] /\ job'[v] = job[v]
    BY <2>1, <2>2 DEF Live
  <2>4. \A t : St(t)' = St(t) /\ (Delivered(t)' <=> Delivered(t))
    BY <2>1 DEF St, Delivered
  <2>5. \A t : Looked(t)' <=> Looked(t)
    BY <2>1, <2>3 DEF Looked
  <2>6. First' = First
    BY <2>1 DEF First
  <2>7. ASSUME NEW v \in Live'
        PROVE  /\ Placed(at'[v], status'[job'[v]])
               /\ at'[v] # "exit" => \A d \in Deps[job'[v][1]] : St(d)' \in Satisfied
    <3>1. v \in Live /\ at'[v] = at[v] /\ job'[v] = job[v]
      BY <2>3
    <3>2. Placed(at[v], status[job[v]]) /\ (at[v] # "exit" => Delivered(job[v][1]))
      BY <3>1 DEF RunInv, WorkInv
    <3> QED BY <2>1, <2>4, <3>1, <3>2 DEF Delivered
  <2>8. WorkInv'
    <3>1. \A t \in ready' \ dispatched' : St(t)' = "pending" /\ Delivered(t)'
      BY <2>1, <2>4 DEF RunInv, WorkInv
    <3>2. pc' = "launch" => \A t \in First' : St(t)' = "running" /\ Delivered(t)'
      BY <2>1, <2>4, <2>6 DEF RunInv, WorkInv
    <3>3. \A t \in Tasks : St(t)' \in {"running", "completed", "escalated"} => Delivered(t)'
      BY <2>4 DEF RunInv, WorkInv
    <3> QED BY <2>7, <3>1, <3>2, <3>3 DEF WorkInv, Placed, Delivered
  <2>9. UNCHANGED Settled
    BY <2>4, <2>5, SettledIs, SettledNext, SameSettled
  <2> QED BY <2>8, <2>9 DEF Promise!vars
<1> QED BY <1>6, <1>7, <1>8, <1>9, <1>10, <1>11, <1>12 DEF Worker

\* A dispatch starts a task that is pending, and has all it depends on.
LEMMA DispatchImplements ==
    ASSUME NoCycle(Tasks, Deps), RunInv, Dispatch, UNCHANGED node
    PROVE  WorkInv' /\ Promise!Next
<1>1. PICK t \in First \ dispatched : status' = [status EXCEPT ![Node(graph, t)] = "running"]
                                      /\ dispatched' = dispatched \cup {t}
  BY DEF Dispatch
<1>2. UNCHANGED <<at, job, ready>> /\ pc' = "launch"
  BY DEF Dispatch, GoTo, workVars
<1>3. First \subseteq ready /\ ready \subseteq Tasks /\ First' = First
  BY <1>2 DEF First, RunInv, SchedulerInv, TypeOK, ExecuteTypeOK
<1>4. t \in Tasks /\ St(t) = "pending" /\ Delivered(t) /\ Node(graph, t) = <<t, 0>> /\ <<t, 0>> \in Nodes
  BY <1>1, <1>3, SettledIs DEF RunInv, WorkInv
<1>5. St(t)' = "running" /\ \A u \in Tasks \ {t} : St(u)' = St(u)
  <2>1. status \in [Nodes -> Status]
    BY DEF RunInv, SchedulerInv, TypeOK, NodesTypeOK
  <2>2. \A u \in Tasks : <<u, 0>> \in Nodes
    BY SchedulerAssumption DEF Nodes, Gens
  <2>3. \A u \in Tasks \ {t} : <<u, 0>> # <<t, 0>>
    OBVIOUS
  <2> QED BY <1>1, <1>4, <2>1, <2>2, <2>3 DEF St
<1>6. \A d \in Tasks : St(d) \in Satisfied => St(d)' \in Satisfied
  BY <1>4, <1>5 DEF Satisfied
<1>7. \A u \in Tasks : Delivered(u) => Delivered(u)'
  BY <1>6, DeliveredStays
<1>8. Live' = Live /\ \A u : Looked(u)' <=> Looked(u)
  BY <1>2 DEF Live, Looked
<1>9. WorkInv'
  <2>1. \A u \in ready' \ dispatched' : St(u)' = "pending" /\ Delivered(u)'
    BY <1>1, <1>2, <1>3, <1>5, <1>7 DEF RunInv, WorkInv
  <2>2. \A u \in First' : St(u)' = "running" /\ Delivered(u)'
    BY <1>1, <1>3, <1>4, <1>5, <1>7, FirstIsUnique DEF RunInv
  <2>3. ASSUME NEW w \in Live'
        PROVE  /\ Placed(at'[w], status'[job'[w]])
               /\ at'[w] # "exit" => \A d \in Deps[job'[w][1]] : St(d)' \in Satisfied
    <3>1. PICK u \in Tasks : job[w] = <<u, 0>> /\ job[w][1] = u /\ u \in dispatched
      BY <1>8, InOnePlace
    <3>2. u # t
      BY <1>1, <3>1
    <3>3. at'[w] = at[w] /\ job'[w] = job[w] /\ status'[job'[w]] = status[job[w]]
      BY <1>2, <1>5, <3>1, <3>2 DEF St
    <3>4. Placed(at[w], status[job[w]]) /\ (at[w] # "exit" => Delivered(u))
      BY <1>8, <3>1 DEF RunInv, WorkInv
    <3>5. Delivered(u) => \A d \in Deps[u] : St(d)' \in Satisfied
      BY <1>7 DEF Delivered
    <3> QED BY <3>1, <3>3, <3>4, <3>5
  <2>4. \A u \in Tasks : St(u)' \in {"running", "completed", "escalated"} => Delivered(u)'
    BY <1>4, <1>5, <1>7 DEF RunInv, WorkInv
  <2> QED BY <2>1, <2>2, <2>3, <2>4 DEF WorkInv, Placed, Delivered
<1>10. Settled[t] = "pending" /\ Settled'[t] = "running" /\ \A u \in Tasks \ {t} : Settled'[u] = Settled[u]
  BY <1>4, <1>5, <1>8, SettledIs, SettledNext
<1>11. Settled' = [Settled EXCEPT ![t] = "running"]
  BY <1>4, <1>10, OneSettled
<1>12. \A d \in Deps[t] : Settled[d] \in Satisfied
  <2>1. \A d \in Deps[t] : d \in Tasks /\ St(d) \in Satisfied
    BY <1>4, SchedulerAssumption DEF Delivered
  <2> QED BY <2>1, SettledIs DEF Satisfied
<1>13. t \in Promise!ReadyTasks(Deps, Settled)
  BY <1>4, <1>10, <1>12, SchedulerAssumption DEF Promise!ReadyTasks, Promise!Satisfied, Satisfied
<1>14. Promise!Acyclic
  BY DEF NoCycle, Promise!Acyclic
<1>15. Promise!Start(t)
  BY <1>11, <1>13, <1>14 DEF Promise!Start
<1> QED BY <1>4, <1>9, <1>15 DEF Promise!Next

\* A launch gives the task dispatched its goroutine.
LEMMA LaunchImplements ==
    ASSUME RunInv, Launch, UNCHANGED node
    PROVE  WorkInv' /\ UNCHANGED Promise!vars
<1>1. PICK free \in Slots : /\ at[free] = "idle"
                            /\ \E t \in First : /\ at' = [at EXCEPT ![free] = "run"]
                                                /\ job' = [job EXCEPT ![free] = Node(graph, t)]
                                                /\ ready' = ready \ {t}
  <2>1. Free \in Slots /\ at[Free] = "idle"
    BY DEF Launch, Live, Free
  <2> QED BY <2>1 DEF Launch
<1>2. PICK t \in First : /\ at' = [at EXCEPT ![free] = "run"]
                         /\ job' = [job EXCEPT ![free] = Node(graph, t)]
                         /\ ready' = ready \ {t}
  BY <1>1
<1>3. UNCHANGED <<status, dispatched>> /\ pc' = "dispatch" /\ pc = "launch"
  BY DEF Launch, GoTo
<1>4. t \in Tasks /\ Node(graph, t) = <<t, 0>> /\ St(t) = "running" /\ Delivered(t)
  BY <1>2, <1>3, SettledIs DEF First, RunInv, SchedulerInv, TypeOK, ExecuteTypeOK, WorkInv
<1>5. at \in [Slots -> WorkerPlaces] /\ job \in [Slots -> Nodes \cup {NoJob}]
  BY DEF RunInv, SchedulerInv, TypeOK, WorkersTypeOK
<1>6. /\ at'[free] = "run" /\ job'[free] = <<t, 0>>
      /\ \A w \in Live' : w # free => w \in Live /\ at'[w] = at[w] /\ job'[w] = job[w]
      /\ \A w \in Live : w # free /\ w \in Live' /\ at'[w] = at[w] /\ job'[w] = job[w]
  BY <1>1, <1>2, <1>4, <1>5 DEF Live
<1>7. \A u : St(u)' = St(u) /\ (Delivered(u)' <=> Delivered(u))
  BY <1>3 DEF St, Delivered
<1>8. \A u : Looked(u)' <=> Looked(u)
  BY <1>6 DEF Looked
<1>9. WorkInv'
  <2>1. \A u \in ready' \ dispatched' : St(u)' = "pending" /\ Delivered(u)'
    BY <1>2, <1>3, <1>7 DEF RunInv, WorkInv
  <2>2. ASSUME NEW w \in Live'
        PROVE  /\ Placed(at'[w], status'[job'[w]])
               /\ at'[w] # "exit" => \A d \in Deps[job'[w][1]] : St(d)' \in Satisfied
    <3>1. CASE w = free
      <4>1. at'[w] = "run" /\ status'[job'[w]] = "running" /\ job'[w][1] = t
        BY <1>3, <1>4, <1>6, <3>1 DEF St
      <4> QED BY <1>4, <1>7, <4>1 DEF Placed, Delivered
    <3>2. CASE w # free
      <4>1. w \in Live /\ at'[w] = at[w] /\ job'[w] = job[w] /\ status'[job'[w]] = status[job[w]]
        BY <1>3, <1>6, <3>2
      <4>2. Placed(at[w], status[job[w]]) /\ (at[w] # "exit" => Delivered(job[w][1]))
        BY <4>1 DEF RunInv, WorkInv
      <4> QED BY <1>7, <4>1, <4>2 DEF Delivered
    <3> QED BY <3>1, <3>2
  <2>3. \A u \in Tasks : St(u)' \in {"running", "completed", "escalated"} => Delivered(u)'
    BY <1>7 DEF RunInv, WorkInv
  <2> QED BY <1>3, <2>1, <2>2, <2>3 DEF WorkInv, Placed, Delivered
<1>10. UNCHANGED Settled
  BY <1>7, <1>8, SettledIs, SettledNext, SameSettled
<1> QED BY <1>9, <1>10 DEF Promise!vars

\* A round takes the tasks that are pending and have all they depend on.
LEMMA SwapImplements ==
    ASSUME RunInv, Swap, UNCHANGED node
    PROVE  WorkInv' /\ UNCHANGED Promise!vars
<1>1. /\ ready' = ReadyTasks(Deps, View(graph)) /\ pc' = "dispatch"
      /\ UNCHANGED <<status, at, job, dispatched>>
  BY DEF Swap, TakeGraph, RunInv, QuietInv, GoTo, workVars
<1>2. Live' = Live /\ \A t : St(t)' = St(t) /\ (Delivered(t)' <=> Delivered(t)) /\ (Looked(t)' <=> Looked(t))
  BY <1>1 DEF Live, St, Delivered, Looked
<1>3. ASSUME NEW t \in ready' PROVE St(t) = "pending" /\ Delivered(t)
  <2>1. t \in Tasks /\ View(graph)[t] = "pending" /\ \A d \in Deps[t] : d \in Tasks /\ View(graph)[d] \in Satisfied
    BY <1>1, <1>3, SchedulerAssumption DEF ReadyTasks
  <2> QED BY <2>1, SettledIs DEF Delivered
<1>4. WorkInv'
  BY <1>1, <1>2, <1>3 DEF RunInv, WorkInv
<1>5. UNCHANGED Settled
  BY <1>2, SettledIs, SettledNext, SameSettled
<1> QED BY <1>4, <1>5 DEF Promise!vars

\* A failure received reaches the tasks that wait for it: the scheduler counts a
\* result that is being looked at as failed, but whoever gave it waits for nothing.
LEMMA CascadeImplements ==
    ASSUME RunInv, Receive, UNCHANGED <<at, job, ready, node>>, ready = {}, pc' # "launch"
    PROVE  WorkInv' /\ (Promise!Next \/ UNCHANGED Promise!vars)
<1>1. CASE UNCHANGED status
  BY <1>1, ExecuteOnly
<1>2. CASE status' # status
  <2> DEFINE h == Head(doneCh)
             view == View(graph)
             openV == {t \in Tasks : St(t) \notin {"failed", "completed"}}
             openS == {t \in Tasks : Settled[t] \notin {"failed", "completed"}}
             U == {t \in openV : ~Delivered(t)}
             W == Walk(Deps, openV, h)
  <2>1. /\ status' = Write(graph, FailDependents(Deps, view, h))
        /\ status[Node(graph, h)] = "failed"
    BY <1>2 DEF Receive
  <2>2. h \in Tasks /\ 1 \in DOMAIN doneCh /\ doneCh[1] = h
    BY DEF Receive, RunInv, SchedulerInv, TypeOK, ExecuteTypeOK
  <2>3. St(h) = "failed" /\ ~Looked(h)
    <3>1. St(h) = "failed"
      BY <2>1, <2>2, SettledIs DEF St
    <3>2. ASSUME NEW w \in Live PROVE job[w] # <<h, 0>>
      <4>1. job[w][1] # h
        BY <2>2 DEF RunInv, QuietInv, TakeInv, TokenInv
      <4> QED BY <4>1
    <3> QED BY <3>1, <3>2 DEF Looked
  <2> HIDE DEF h
  <2>4. \A t \in Tasks : view[t] = St(t)
    BY SettledIs
  <2>5. IsFiniteSet(DOMAIN Deps) /\ DOMAIN Deps = Tasks /\ \A t \in Tasks : Deps[t] \subseteq Tasks
    BY SchedulerAssumption
  <2>6. Cascaded(Deps, view, h) = W
    <3>1. {t \in DOMAIN Deps : view[t] \notin {"failed", "completed"}} = openV
      BY <2>4, <2>5
    <3> HIDE DEF openV, view
    <3> QED BY <3>1 DEF Cascaded
  <2>7. /\ W \subseteq openV
        /\ Closed(Deps, openV, h, W)
        /\ \A S : Closed(Deps, openV, h, S) => W \subseteq S
    <3> HIDE DEF openV
    <3> QED BY <2>5, WalkIsClosure
  <2> HIDE DEF W
  <2>8. \A t \in U : St(t) \in Status \ {"running", "completed", "failed", "escalated"} /\ t \in Tasks
    <3>1. \A t \in Tasks : St(t) \in Status
      <4> TAKE t \in Tasks
      <4>1. <<t, 0>> \in Nodes
        BY SettledIs
      <4>2. status \in [Nodes -> Status]
        BY DEF RunInv, SchedulerInv, TypeOK, NodesTypeOK
      <4>3. status[<<t, 0>>] \in Status
        BY ONLY <4>1, <4>2
      <4> QED BY <4>3 DEF St
    <3> QED BY <3>1 DEF RunInv, WorkInv
  <2>9. ASSUME NEW t \in Tasks, Delivered(t), t \in Children(Deps, U \cup {h}) PROVE FALSE
    <3>1. PICK d \in Deps[t] : d \in U \cup {h}
      BY <2>9 DEF Children
    <3>2. St(d) \notin Satisfied
      <4> HIDE DEF U
      <4> QED BY <2>3, <2>8, <3>1 DEF Satisfied
    <3> QED BY <2>9, <3>2 DEF Delivered
  <2>10. W \subseteq U
    <3>1. Children(Deps, U \cup {h}) \cap openV \subseteq U
      BY <2>9
    <3> HIDE DEF U, openV
    <3> QED BY <2>7, <3>1 DEF Closed
  <2>11. \A t \in Tasks : St(t)' = IF t \in W THEN "failed" ELSE St(t)
    <3> TAKE t \in Tasks
    <3>1. St(t)' = FailDependents(Deps, view, h)[t]
      BY <2>1, SettledIs, WriteView DEF RunInv, St
    <3>2. t \in DOMAIN view
      BY DEF View
    <3>3. FailDependents(Deps, view, h)[t] = IF t \in W THEN "failed" ELSE view[t]
      BY <2>6, <3>2 DEF FailDependents
    <3> QED BY <2>4, <3>1, <3>3
  <2>12. \A t \in W : t \in Tasks /\ ~Delivered(t) /\ St(t) \notin Satisfied
    BY <2>8, <2>10 DEF Satisfied
  <2>13. \A t \in Tasks : Delivered(t) => Delivered(t)'
    <3>1. \A d \in Tasks : St(d) \in Satisfied => St(d)' \in Satisfied
      BY <2>11, <2>12
    <3> QED BY <3>1, DeliveredStays
  <2>14. Live' = Live /\ \A t : Looked(t)' <=> Looked(t)
    BY DEF Live, Looked
  <2>15. ASSUME NEW w \in Live, at[w] # "exit"
         PROVE  \E t \in Tasks : job[w] = <<t, 0>> /\ job[w][1] = t /\ Delivered(t) /\ St(t)' = St(t)
    <3>1. PICK t \in Tasks : job[w] = <<t, 0>> /\ job[w][1] = t
      BY InOnePlace
    <3>2. Delivered(t)
      BY <2>15, <3>1 DEF RunInv, WorkInv
    <3> QED BY <2>11, <2>12, <3>1, <3>2
  <2>16. WorkInv'
    <3>1. ASSUME NEW w \in Live'
          PROVE  /\ Placed(at'[w], status'[job'[w]])
                 /\ at'[w] # "exit" => \A d \in Deps[job'[w][1]] : St(d)' \in Satisfied
      <4>1. CASE at[w] = "exit"
        BY <4>1 DEF Placed
      <4>2. CASE at[w] # "exit"
        <5>1. PICK t \in Tasks : job[w] = <<t, 0>> /\ job[w][1] = t /\ Delivered(t) /\ St(t)' = St(t)
          BY <2>14, <2>15, <4>2
        <5>2. Placed(at[w], status[job[w]]) /\ status'[job[w]] = status[job[w]]
          BY <2>14, <5>1 DEF RunInv, WorkInv, St
        <5>3. \A d \in Deps[t] : St(d)' \in Satisfied
          BY <2>13, <5>1 DEF Delivered
        <5> QED BY <5>1, <5>2, <5>3
      <4> QED BY <4>1, <4>2
    <3>2. \A t \in Tasks : St(t)' \in {"running", "completed", "escalated"} => Delivered(t)'
      BY <2>11, <2>13 DEF RunInv, WorkInv
    <3> QED BY <3>1, <3>2 DEF WorkInv, Placed, Delivered
  <2>17. ASSUME NEW t \in Tasks, Looked(t) PROVE Delivered(t)
    <3>1. PICK w \in Live : at[w] = "check" /\ job[w] = <<t, 0>>
      BY <2>17 DEF Looked
    <3> QED BY <2>15, <3>1
  <2>18. \A t \in Tasks : Settled'[t] = IF t \in W THEN "failed" ELSE Settled[t]
    BY <2>11, <2>12, <2>14, <2>17, SettledIs, SettledNext
  <2>19. /\ openV \subseteq openS
         /\ Closed(Deps, openS, h, W)
         /\ \A S : Closed(Deps, openS, h, S) => W \subseteq S
    <3>1. openV \subseteq openS /\ \A t \in openS \ openV : Looked(t)
      BY SettledIs
    <3>2. ASSUME NEW t \in openS \ openV PROVE t \notin Children(Deps, W \cup {h})
      <4>1. Delivered(t) /\ t \in Tasks
        BY <2>17, <3>1
      <4>2. t \notin Children(Deps, U \cup {h})
        BY <2>9, <4>1
      <4> HIDE DEF U
      <4> QED BY <2>10, <4>2 DEF Children
    <3> HIDE DEF openV, openS, U
    <3> QED BY <2>7, <3>1, <3>2 DEF Closed
  <2>20. Promise!Doomed(h) = W
    <3>1. Promise!Doomed(h) =
              {t \in openS : \A S \in SUBSET openS : Closed(Deps, openS, h, S) => t \in S}
      BY DEF Promise!Doomed, Closed, Promise!Children, Children
    <3> HIDE DEF openS, openV
    <3>2. W \subseteq openS
      BY <2>7, <2>19
    <3>3. \A t \in Promise!Doomed(h) : t \in W
      BY <2>19, <3>1, <3>2
    <3>4. \A t \in W : t \in Promise!Doomed(h)
      BY <2>19, <3>1, <3>2
    <3> QED BY <3>3, <3>4
  <2>21. Settled' = [t \in Tasks |-> IF t \in W THEN "failed" ELSE Settled[t]]
    <3>1. Settled' = [t \in Tasks |-> Settled'[t]]
      BY DEF Settled
    <3> QED BY <2>18, <3>1
  <2>22. Promise!Cascade(h)
    <3>1. Settled[h] = "failed"
      BY <2>2, <2>3, SettledIs
    <3> QED BY <2>20, <2>21, <3>1 DEF Promise!Cascade
  <2> QED BY <2>2, <2>16, <2>22 DEF Promise!Next
<1> QED BY <1>1, <1>2

\* Execute implements GraphRun.
LEMMA ExecuteImplements ==
    ASSUME NoCycle(Tasks, Deps), RunInv, Execute, UNCHANGED node
    PROVE  WorkInv' /\ (Promise!Next \/ UNCHANGED Promise!vars)
<1>1. ~TakeGraph /\ (pc \notin {"dispatch", "launch"} => ready = {})
  BY DEF TakeGraph, RunInv, QuietInv, TakeInv, ReadyInv
<1>2. CASE Loop \/ Gate \/ Held \/ Drain \/ Settle \/ Skip
  <2>1. /\ UNCHANGED <<status, at, job>> /\ pc' # "launch"
        /\ ready' \ dispatched' \subseteq ready \ dispatched
    BY <1>1, <1>2 DEF Loop, Gate, Held, Drain, Settle, Skip, GoTo, Return, workVars
  <2> QED BY <2>1, ExecuteOnly
<1>3. CASE Wait \/ More
  <2>1. CASE Receive
    <3>1. UNCHANGED <<at, job, ready>> /\ ready = {} /\ pc' # "launch"
      BY <1>1, <1>3 DEF Wait, More, GoTo, Return, workVars
    <3> QED BY <2>1, <3>1, CascadeImplements
  <2>2. CASE ~Receive
    <3>1. UNCHANGED <<status, at, job, ready>> /\ ready = {} /\ pc' # "launch"
      BY <1>1, <1>3, <2>2 DEF Wait, More, GoTo, Return, workVars
    <3> QED BY <3>1, ExecuteOnly
  <2> QED BY <2>1, <2>2
<1>4. CASE Swap
  BY <1>4, SwapImplements
<1>5. CASE Dispatch
  BY <1>5, DispatchImplements
<1>6. CASE Launch
  BY <1>6, LaunchImplements
<1> QED BY <1>2, <1>3, <1>4, <1>5, <1>6 DEF Execute

(* Without the user's operations the scheduler does what GraphRun promises, *)
(* for every graph that Validate accepts (as decompose.go makes sure), every *)
(* limit, and any number of losses and retries: a result that the adaptive  *)
(* router may still take back counts once it is settled.                    *)
THEOREM Promised == ASSUME Ops = {}, Validate(Deps) PROVE Spec => PromisedRun
<1>1. NoCycle(Tasks, Deps)
  BY SchedulerAssumption, ValidateFindsCycles
<1>2. Init => QuietInv /\ WorkInv
  <2> SUFFICES ASSUME Init PROVE QuietInv /\ WorkInv
    OBVIOUS
  <2>1. \A t \in Tasks : St(t) = "pending"
    BY SchedulerAssumption DEF Init, St, Nodes, Gens
  <2> QED BY <2>1 DEF Init, QuietInv, WorkInv, Live
<1>3. Init => Promise!Init
  <2> SUFFICES ASSUME Init PROVE Promise!Init
    OBVIOUS
  <2>1. \A t \in Tasks : Node(0, t) = <<t, 0>> /\ View(0)[t] = "pending"
    BY SchedulerAssumption DEF Init, View, Node, Nodes, Gens
  <2>2. Settled = [t \in Tasks |-> "pending"]
    BY <2>1 DEF Settled
  <2> QED BY <2>2 DEF Promise!Init
<1>4. RunInv /\ [Next]_vars => (QuietInv /\ WorkInv)' /\ [Promise!Next]_Promise!vars
  <2> SUFFICES ASSUME RunInv, [Next]_vars
               PROVE  (QuietInv /\ WorkInv)' /\ (Promise!Next \/ UNCHANGED Promise!vars)
    OBVIOUS
  <2>1. CASE Next
    <3>1. (Execute \/ \E w \in Slots : Worker(w)) /\ QuietInv' /\ UNCHANGED node
      BY <2>1, QuietStep
    <3> QED BY <1>1, <3>1, ExecuteImplements, WorkerImplements
  <2>2. CASE UNCHANGED vars
    <3>1. UNCHANGED <<pc, graph, graphReplace, user, paused, restructuring, ready, dispatched,
                      node, status, at, job>>
      BY <2>2 DEF vars, execVars, workVars, ctlVars, userVars
    <3>2. QuietInv'
      BY <3>1 DEF RunInv, QuietInv
    <3>3. /\ Live' = Live /\ First' = First
          /\ \A t : St(t)' = St(t) /\ (Delivered(t)' <=> Delivered(t)) /\ (Looked(t)' <=> Looked(t))
      BY <3>1 DEF Live, First, St, Delivered, Looked
    <3>4. WorkInv'
      BY <3>1, <3>3 DEF RunInv, WorkInv
    <3>5. UNCHANGED Settled
      BY <3>1, <3>3, SettledIs, SettledNext, SameSettled
    <3> QED BY <3>2, <3>4, <3>5 DEF Promise!vars
  <2> QED BY <2>1, <2>2
<1>5. SchedulerInv /\ TakeInv /\ QuietInv /\ WorkInv => RunInv
  BY DEF RunInv
<1>6. Spec => []TakeInv
  BY Taken
<1> QED BY <1>2, <1>3, <1>4, <1>5, <1>6, SchedulerInvariant, PTL DEF Spec, PromisedRun, Promise!Safe
=============================================================================
