--------------------------- MODULE Dispatch_proofs ---------------------------
(***************************************************************************)
(* The safety of Dispatch for any number of tasks, instances, losses and   *)
(* questions.                                                              *)
(*                                                                         *)
(* The counts follow the placements because a dispatch is placed at most   *)
(* once: where a placement is made there is none, which DispatchInv says   *)
(* of every phase.  It also says when a task has a result, without which   *)
(* another assignment could be sent after it.                              *)
(***************************************************************************)
EXTENDS Dispatch, FiniteSetTheorems, SequenceTheorems, TLAPS

DispatchInv ==
    \A t \in Tasks :
        /\ phase[t] = "lease" => chosen[t] \in Instances
        /\ phase[t] \in {"pending", "lease", "done"} => placed[t] = None
        /\ phase[t] \in {"wait", "asking"} => waiter[t] \in Seq(Message)
        /\ result[t] # None => phase[t] \in {"over", "done"} /\ result[t].nonce = sent[t]

IInv == TypeOK /\ DispatchInv /\ LoadCountsPlacements /\ LeaseBelongsToDispatch

(* The members of a sequence of messages are messages, and it stays one     *)
(* when one is added or taken.                                              *)
LEMMA MessagesType ==
    ASSUME NEW s \in Seq(Message)
    PROVE  /\ \A m \in Message : Append(s, m) \in Seq(Message)
           /\ s # <<>> => Head(s) \in Message /\ Tail(s) \in Seq(Message)
  BY AppendProperties, HeadTailProperties

(* The tasks that placements r put at an instance or a node x.              *)
PlacedAt(r, x) == {u \in Tasks : r[u] # None /\ At(r[u].instance, x)}

(* One more placement counts at its instance and at its node, and nowhere   *)
(* else.                                                                    *)
LEMMA PlaceOne ==
    ASSUME NEW x, NEW t \in Tasks
    PROVE  \A p \in [Tasks -> Placement \cup {None}], v \in Placement :
             p[t] = None =>
               /\ Cardinality(PlacedAt(p, x)) \in Nat
               /\ Cardinality(PlacedAt([p EXCEPT ![t] = v], x)) =
                    IF At(v.instance, x) THEN Cardinality(PlacedAt(p, x)) + 1
                                         ELSE Cardinality(PlacedAt(p, x))
<1> SUFFICES ASSUME NEW p \in [Tasks -> Placement \cup {None}],
                    NEW v \in Placement, p[t] = None,
                    NEW q, q = [p EXCEPT ![t] = v]
             PROVE  /\ Cardinality(PlacedAt(p, x)) \in Nat
                    /\ Cardinality(PlacedAt(q, x)) =
                         IF At(v.instance, x) THEN Cardinality(PlacedAt(p, x)) + 1
                                              ELSE Cardinality(PlacedAt(p, x))
  OBVIOUS
<1> USE DEF PlacedAt
<1>1. IsFiniteSet(PlacedAt(p, x)) /\ Cardinality(PlacedAt(p, x)) \in Nat
  BY DispatchAssumption, FS_Subset, FS_CardinalityType
<1>2. t \notin PlacedAt(p, x)
  OBVIOUS
<1>3. v # None
  BY NoneAssumption
<1>4. q[t] = v /\ \A u \in Tasks : u # t => q[u] = p[u]
  OBVIOUS
<1>5. CASE At(v.instance, x)
  <2>1. PlacedAt(q, x) = PlacedAt(p, x) \cup {t}
    BY <1>3, <1>4, <1>5, <1>2
  <2> QED BY <1>1, <1>2, <1>5, <2>1, FS_AddElement
<1>6. CASE ~At(v.instance, x)
  <2>1. PlacedAt(q, x) = PlacedAt(p, x)
    BY <1>4, <1>6, <1>2
  <2> QED BY <1>1, <1>6, <2>1
<1> QED BY <1>1, <1>5, <1>6

LEMMA InitInv == Init => IInv
<1> SUFFICES ASSUME Init PROVE IInv
  OBVIOUS
<1>1. TypeOK
  BY DispatchAssumption DEF Init, TypeOK, TasksTypeOK, LeasesTypeOK, DemuxTypeOK,
     AgentsTypeOK, HostsTypeOK, Phases, Idle, Job
<1>2. DispatchInv /\ LeaseBelongsToDispatch
  BY DEF Init, DispatchInv, LeaseBelongsToDispatch
<1>3. \A x : {t \in Tasks : Loaded(t, x)} = {}
  BY DEF Init, Loaded
<1>4. LoadCountsPlacements
  BY <1>3, FS_EmptySet DEF Init, LoadCountsPlacements
<1> QED BY <1>1, <1>2, <1>4 DEF IInv

(* What a part of the state says is kept by whoever leaves that part alone. *)
LEMMA Unchanged ==
    /\ TasksTypeOK /\ UNCHANGED taskVars => TasksTypeOK'
    /\ LeasesTypeOK /\ UNCHANGED leaseVars => LeasesTypeOK'
    /\ DemuxTypeOK /\ UNCHANGED demuxVars => DemuxTypeOK'
    /\ AgentsTypeOK /\ UNCHANGED agentVars => AgentsTypeOK'
    /\ LoadCountsPlacements /\ UNCHANGED leaseVars => LoadCountsPlacements'
    /\ LeaseBelongsToDispatch /\ UNCHANGED leaseVars => LeaseBelongsToDispatch'
    /\ DispatchInv /\ UNCHANGED <<taskVars, leaseVars, demuxVars>> => DispatchInv'
<1>1. TasksTypeOK /\ UNCHANGED taskVars => TasksTypeOK'
  BY DEF TasksTypeOK, taskVars
<1>2. LeasesTypeOK /\ UNCHANGED leaseVars => LeasesTypeOK'
  BY DEF LeasesTypeOK, leaseVars
<1>3. DemuxTypeOK /\ UNCHANGED demuxVars => DemuxTypeOK'
  BY DEF DemuxTypeOK, demuxVars
<1>4. AgentsTypeOK /\ UNCHANGED agentVars => AgentsTypeOK'
  BY DEF AgentsTypeOK, agentVars
<1>5. LoadCountsPlacements /\ UNCHANGED leaseVars => LoadCountsPlacements'
  BY DEF LoadCountsPlacements, Loaded, leaseVars
<1>6. LeaseBelongsToDispatch /\ UNCHANGED leaseVars => LeaseBelongsToDispatch'
  BY DEF LeaseBelongsToDispatch, leaseVars
<1>7. DispatchInv /\ UNCHANGED <<taskVars, leaseVars, demuxVars>> => DispatchInv'
  BY DEF DispatchInv, taskVars, leaseVars, demuxVars
<1> QED BY <1>1, <1>2, <1>3, <1>4, <1>5, <1>6, <1>7

(* The parts of IInv, one by one.                                           *)
LEMMA Parts ==
    IInv <=> /\ TasksTypeOK /\ LeasesTypeOK /\ DemuxTypeOK /\ AgentsTypeOK /\ HostsTypeOK
             /\ DispatchInv /\ LoadCountsPlacements /\ LeaseBelongsToDispatch
  BY DEF IInv, TypeOK

LEMMA FaultType == HostsTypeOK /\ Fault /\ UNCHANGED hostVars => HostsTypeOK'
  BY DEF HostsTypeOK, Fault, hostVars

LEMMA NoFault == HostsTypeOK /\ UNCHANGED <<hostVars, faults>> => HostsTypeOK'
  BY DEF HostsTypeOK, hostVars

-----------------------------------------------------------------------------
(* The steps of a dispatch before it is placed.                             *)

LEMMA SelectStep == ASSUME IInv, NEW t \in Tasks, Select(t) PROVE IInv'
<1> USE Parts
<1>1. LeasesTypeOK' /\ AgentsTypeOK' /\ HostsTypeOK'
      /\ LoadCountsPlacements' /\ LeaseBelongsToDispatch'
  BY Unchanged, NoFault DEF Select
<1>2. DemuxTypeOK'
  BY DEF Select, DemuxTypeOK
<1>3. Selectable(t) \subseteq Instances
  BY DEF Selectable, Candidates
<1>4. TasksTypeOK'
  <2>1. CASE /\ assigned' = [assigned EXCEPT ![t] = None]
             /\ epoch' = [epoch EXCEPT ![t] = 0]
             /\ Enter(t, "send")
             /\ UNCHANGED chosen
    BY <2>1 DEF Select, TasksTypeOK, Enter, Phases
  <2>2. CASE \E i \in Selectable(t) : /\ chosen' = [chosen EXCEPT ![t] = i]
                                      /\ Enter(t, "lease")
                                      /\ UNCHANGED <<assigned, epoch>>
    BY <1>3, <2>2 DEF Select, TasksTypeOK, Enter, Phases
  <2>3. CASE /\ assigned' = [assigned EXCEPT ![t] = None]
             /\ epoch' = [epoch EXCEPT ![t] = 0]
             /\ UNCHANGED <<phase, chosen>>
    BY <2>3 DEF Select, TasksTypeOK
  <2> QED BY <2>1, <2>2, <2>3 DEF Select
<1>5. DispatchInv'
  <2> SUFFICES ASSUME NEW u \in Tasks PROVE
        /\ phase'[u] = "lease" => chosen'[u] \in Instances
        /\ phase'[u] \in {"pending", "lease", "done"} => placed'[u] = None
        /\ phase'[u] \in {"wait", "asking"} => waiter'[u] \in Seq(Message)
        /\ result'[u] # None => phase'[u] \in {"over", "done"} /\ result'[u].nonce = sent'[u]
    BY DEF DispatchInv
  <2>1. CASE u = t
    BY <1>3, <2>1 DEF Select, DispatchInv, TasksTypeOK, Enter, leaseVars
  <2>2. CASE u # t
    BY <2>2 DEF Select, DispatchInv, TasksTypeOK, Enter, leaseVars
  <2> QED BY <2>1, <2>2
<1> QED BY <1>1, <1>2, <1>4, <1>5 DEF IInv, TypeOK

LEMMA AcquireStep == ASSUME IInv, NEW t \in Tasks, Acquire(t) PROVE IInv'
<1> USE Parts
<1>1. chosen[t] \in Instances /\ placed[t] = None
  BY DEF Acquire, DispatchInv
<1>2. Granted(t) \in Nat
  BY DEF LeasesTypeOK, Granted
<1> DEFINE v == [instance |-> chosen[t], epoch |-> Granted(t)]
<1>3. v \in Placement
  BY <1>1, <1>2 DEF Placement
<1>4. placed' = [placed EXCEPT ![t] = v]
  BY DEF Acquire
<1>5. load' \in [Instances \cup Nodes -> Nat]
  BY DEF Acquire, Acquired, LeasesTypeOK
<1>6. LeasesTypeOK'
  BY <1>2, <1>3, <1>4, <1>5 DEF Acquire, LeasesTypeOK
<1>7. TasksTypeOK'
  BY <1>1, <1>2 DEF Acquire, TasksTypeOK, Enter, Phases
<1>8. DemuxTypeOK' /\ AgentsTypeOK' /\ HostsTypeOK'
  BY Unchanged, NoFault DEF Acquire
<1>9. DispatchInv'
  BY <1>4 DEF Acquire, DispatchInv, TasksTypeOK, LeasesTypeOK, Enter, demuxVars
<1>10. LeaseBelongsToDispatch'
  BY <1>3, <1>4, NoneAssumption DEF Acquire, LeaseBelongsToDispatch, LeasesTypeOK
<1>11. LoadCountsPlacements'
  <2> SUFFICES ASSUME NEW x \in Instances \cup Nodes
               PROVE  load'[x] = Cardinality({u \in Tasks : Loaded(u, x)'})
    BY DEF LoadCountsPlacements
  <2>1. /\ Cardinality(PlacedAt(placed, x)) \in Nat
        /\ Cardinality(PlacedAt(placed', x)) =
             IF At(v.instance, x) THEN Cardinality(PlacedAt(placed, x)) + 1
                                  ELSE Cardinality(PlacedAt(placed, x))
    <3>1. placed \in [Tasks -> Placement \cup {None}]
      BY DEF LeasesTypeOK
    <3> HIDE DEF v
    <3> QED BY <1>1, <1>3, <1>4, <3>1, PlaceOne, Zenon
  <2>2. load[x] = Cardinality(PlacedAt(placed, x))
    BY DEF LoadCountsPlacements, Loaded, PlacedAt
  <2>3. load'[x] = IF At(v.instance, x) THEN load[x] + 1 ELSE load[x]
    BY DEF Acquire, Acquired
  <2>4. load'[x] = Cardinality(PlacedAt(placed', x))
    BY <2>1, <2>2, <2>3
  <2> QED BY <2>4 DEF Loaded, PlacedAt, At
<1> QED BY <1>6, <1>7, <1>8, <1>9, <1>10, <1>11 DEF IInv, TypeOK

LEMMA AcquireFailsStep == ASSUME IInv, NEW t \in Tasks, AcquireFails(t) PROVE IInv'
<1> USE Parts
<1>1. LeasesTypeOK' /\ AgentsTypeOK' /\ HostsTypeOK' /\ DemuxTypeOK'
      /\ LoadCountsPlacements' /\ LeaseBelongsToDispatch'
  BY Unchanged, FaultType DEF AcquireFails
<1>2. TasksTypeOK'
  BY DEF AcquireFails, TasksTypeOK, Enter, Phases
<1>3. DispatchInv'
  BY DEF AcquireFails, DispatchInv, TasksTypeOK, Enter, leaseVars, demuxVars
<1> QED BY <1>1, <1>2, <1>3 DEF IInv, TypeOK

-----------------------------------------------------------------------------
(* The steps that send and receive.                                         *)

LEMMA SendStep == ASSUME IInv, NEW t \in Tasks, Send(t) PROVE IInv'
<1> USE Parts
<1>1. LeasesTypeOK' /\ HostsTypeOK' /\ DemuxTypeOK'
      /\ LoadCountsPlacements' /\ LeaseBelongsToDispatch'
  BY Unchanged, NoFault DEF Send
<1>2. sent'[t] = sent[t] + 1 /\ sent[t] \in Nat
  BY DEF Send, TasksTypeOK
<1>3. TasksTypeOK'
  BY DEF Send, TasksTypeOK, Enter, Phases
<1>4. PICK i \in Routes(t) :
        inbox' = [inbox EXCEPT ![i] =
            Append(@, [type |-> "assignment", task |-> t, nonce |-> sent'[t]])]
  BY DEF Send, Put
<1>5. i \in Instances
  BY DEF Routes, TasksTypeOK
<1>6. [type |-> "assignment", task |-> t, nonce |-> sent'[t]] \in Message
  BY <1>2 DEF Message
<1>7. inbox' \in [Instances -> Seq(Message)]
  <2>1. Append(inbox[i], [type |-> "assignment", task |-> t, nonce |-> sent'[t]])
          \in Seq(Message)
    BY <1>5, <1>6, MessagesType DEF AgentsTypeOK
  <2> QED BY <1>4, <1>5, <2>1 DEF AgentsTypeOK
<1>8. AgentsTypeOK'
  BY <1>7 DEF AgentsTypeOK, Send
<1>9. DispatchInv'
  BY DEF Send, DispatchInv, TasksTypeOK, Enter, leaseVars, demuxVars
<1> QED BY <1>1, <1>3, <1>8, <1>9 DEF IInv, TypeOK

LEMMA SendFailsStep == ASSUME IInv, NEW t \in Tasks, SendFails(t) PROVE IInv'
<1> USE Parts
<1>1. LeasesTypeOK' /\ AgentsTypeOK' /\ HostsTypeOK' /\ DemuxTypeOK'
      /\ LoadCountsPlacements' /\ LeaseBelongsToDispatch'
  BY Unchanged, NoFault DEF SendFails
<1>2. TasksTypeOK'
  BY DEF SendFails, TasksTypeOK, Enter, Phases
<1>3. DispatchInv'
  BY DEF SendFails, DispatchInv, TasksTypeOK, Enter, leaseVars, demuxVars
<1> QED BY <1>1, <1>2, <1>3 DEF IInv, TypeOK

LEMMA SubscribeStep == ASSUME IInv, NEW t \in Tasks, Subscribe(t) PROVE IInv'
<1> USE Parts
<1>1. LeasesTypeOK' /\ AgentsTypeOK' /\ HostsTypeOK'
      /\ LoadCountsPlacements' /\ LeaseBelongsToDispatch'
  BY Unchanged, NoFault DEF Subscribe
<1>2. TasksTypeOK'
  BY DEF Subscribe, TasksTypeOK, Enter, Phases
<1>3. DemuxTypeOK'
  BY DEF Subscribe, DemuxTypeOK
<1>4. DispatchInv'
  BY DEF Subscribe, DispatchInv, TasksTypeOK, DemuxTypeOK, Enter, leaseVars
<1> QED BY <1>1, <1>2, <1>3, <1>4 DEF IInv, TypeOK

(* What a dispatch takes from its channel is a message.                     *)
LEMMA ReceivedType ==
    ASSUME IInv, NEW t \in Tasks, NEW type, Received(t, type)
    PROVE  /\ Head(waiter[t]) \in Message
           /\ Tail(waiter[t]) \in Seq(Message)
<1>1. waiter[t] \in Seq(Message) /\ waiter[t] # <<>>
  BY DEF Received, IInv, DispatchInv
<1> QED BY <1>1, MessagesType

LEMMA DiscardStep == ASSUME IInv, NEW t \in Tasks, Discard(t) PROVE IInv'
<1> USE Parts
<1>1. LeasesTypeOK' /\ AgentsTypeOK' /\ HostsTypeOK' /\ TasksTypeOK'
      /\ LoadCountsPlacements' /\ LeaseBelongsToDispatch'
  BY Unchanged, NoFault DEF Discard
<1>2. Tail(waiter[t]) \in Seq(Message)
  BY ReceivedType DEF Discard
<1>3. DemuxTypeOK'
  BY <1>2 DEF Discard, DemuxTypeOK
<1>4. DispatchInv'
  BY <1>2 DEF Discard, DispatchInv, DemuxTypeOK, taskVars, leaseVars
<1> QED BY <1>1, <1>3, <1>4 DEF IInv, TypeOK

LEMMA AcceptStep == ASSUME IInv, NEW t \in Tasks, Accept(t) PROVE IInv'
<1> USE Parts
<1>1. LeasesTypeOK' /\ AgentsTypeOK' /\ HostsTypeOK'
      /\ LoadCountsPlacements' /\ LeaseBelongsToDispatch'
  BY Unchanged, NoFault DEF Accept
<1>2. Head(waiter[t]) \in Message
  BY ReceivedType DEF Accept
<1>3. TasksTypeOK'
  BY <1>2 DEF Accept, TasksTypeOK, Enter, Phases
<1>4. DemuxTypeOK'
  BY DEF Accept, Unsubscribe, DemuxTypeOK
<1>5. DispatchInv'
  <2>1. Head(waiter[t]).nonce = sent[t]
    BY DEF Accept, Stale
  <2> QED BY <1>2, <2>1 DEF Accept, Unsubscribe, DispatchInv, TasksTypeOK, DemuxTypeOK,
             Enter, leaseVars
<1> QED BY <1>1, <1>3, <1>4, <1>5 DEF IInv, TypeOK

(* A question passed on, and the two ends a user can make of it.            *)
LEMMA ForwardQueryStep == ASSUME IInv, NEW t \in Tasks, ForwardQuery(t) PROVE IInv'
<1> USE Parts
<1>1. LeasesTypeOK' /\ AgentsTypeOK' /\ HostsTypeOK'
      /\ LoadCountsPlacements' /\ LeaseBelongsToDispatch'
  BY Unchanged, NoFault DEF ForwardQuery
<1>2. Tail(waiter[t]) \in Seq(Message)
  BY ReceivedType DEF ForwardQuery
<1>3. DemuxTypeOK'
  BY <1>2 DEF ForwardQuery, DemuxTypeOK
<1>4. TasksTypeOK'
  BY DEF ForwardQuery, TasksTypeOK, Enter, Phases
<1>5. phase[t] = "wait"
  BY DEF ForwardQuery, Received
<1>6. DispatchInv'
  BY <1>2, <1>5 DEF ForwardQuery, DispatchInv, TasksTypeOK, DemuxTypeOK, Enter, leaseVars
<1> QED BY <1>1, <1>3, <1>4, <1>6 DEF IInv, TypeOK

LEMMA UserAnswersStep == ASSUME IInv, NEW t \in Tasks, UserAnswers(t) PROVE IInv'
<1> USE Parts
<1> DEFINE m == [type |-> "answer", task |-> t, nonce |-> 0]
<1>1. LeasesTypeOK' /\ HostsTypeOK' /\ DemuxTypeOK'
      /\ LoadCountsPlacements' /\ LeaseBelongsToDispatch'
  BY Unchanged, NoFault DEF UserAnswers
<1>2. TasksTypeOK'
  BY DEF UserAnswers, TasksTypeOK, Enter, Phases
<1>3. PICK i \in Instances : inbox' = [inbox EXCEPT ![i] = Append(@, m)]
  BY DEF UserAnswers, Put
<1>4. Append(inbox[i], m) \in Seq(Message)
  <2>1. m \in Message
    BY DEF Message
  <2> QED BY <2>1, MessagesType DEF AgentsTypeOK
<1>5. AgentsTypeOK'
  BY <1>3, <1>4 DEF AgentsTypeOK, UserAnswers
<1>6. DispatchInv'
  BY DEF UserAnswers, DispatchInv, TasksTypeOK, DemuxTypeOK, Enter, leaseVars, demuxVars
<1> QED BY <1>1, <1>2, <1>5, <1>6 DEF IInv, TypeOK

LEMMA AnswerFailsStep == ASSUME IInv, NEW t \in Tasks, AnswerFails(t) PROVE IInv'
<1> USE Parts
<1>1. LeasesTypeOK' /\ AgentsTypeOK' /\ HostsTypeOK'
      /\ LoadCountsPlacements' /\ LeaseBelongsToDispatch'
  BY Unchanged, NoFault DEF AnswerFails
<1>2. TasksTypeOK'
  BY DEF AnswerFails, TasksTypeOK, Enter, Phases
<1>3. DemuxTypeOK'
  BY DEF AnswerFails, Unsubscribe, DemuxTypeOK
<1>4. DispatchInv'
  BY DEF AnswerFails, Unsubscribe, DispatchInv, TasksTypeOK, DemuxTypeOK, Enter, leaseVars
<1> QED BY <1>1, <1>2, <1>3, <1>4 DEF IInv, TypeOK

-----------------------------------------------------------------------------
(* The ends of a dispatch, and what may come between.                       *)

LEMMA RedispatchStep == ASSUME IInv, NEW t \in Tasks, Redispatch(t) PROVE IInv'
<1> USE Parts
<1>1. LeasesTypeOK' /\ AgentsTypeOK' /\ HostsTypeOK'
      /\ LoadCountsPlacements' /\ LeaseBelongsToDispatch'
  BY Unchanged, NoFault DEF Redispatch
<1>2. TasksTypeOK'
  BY DEF Redispatch, TasksTypeOK, Enter, Phases
<1>3. DemuxTypeOK'
  BY DEF Redispatch, Unsubscribe, DemuxTypeOK
<1>4. DispatchInv'
  BY DEF Redispatch, Unsubscribe, DispatchInv, TasksTypeOK, DemuxTypeOK, Enter, leaseVars
<1> QED BY <1>1, <1>2, <1>3, <1>4 DEF IInv, TypeOK

LEMMA TimesOutStep == ASSUME IInv, NEW t \in Tasks, TimesOut(t) PROVE IInv'
<1> USE Parts
<1>1. LeasesTypeOK' /\ AgentsTypeOK' /\ HostsTypeOK'
      /\ LoadCountsPlacements' /\ LeaseBelongsToDispatch'
  BY Unchanged, FaultType DEF TimesOut
<1>2. TasksTypeOK'
  BY DEF TimesOut, TasksTypeOK, Enter, Phases
<1>3. DemuxTypeOK'
  BY DEF TimesOut, Unsubscribe, DemuxTypeOK
<1>4. DispatchInv'
  BY DEF TimesOut, Unsubscribe, DispatchInv, TasksTypeOK, DemuxTypeOK, Enter, leaseVars
<1> QED BY <1>1, <1>2, <1>3, <1>4 DEF IInv, TypeOK

LEMMA FinishStep == ASSUME IInv, NEW t \in Tasks, Finish(t) PROVE IInv'
<1> USE Parts
<1>1. placed' = [placed EXCEPT ![t] = None]
  BY DEF Finish, FinishPlacement
<1>2. HostsTypeOK'
  BY FaultType, NoFault DEF Finish
<1>3. DemuxTypeOK' /\ AgentsTypeOK'
  BY Unchanged DEF Finish
<1>4. TasksTypeOK'
  BY DEF Finish, TasksTypeOK, Enter, Phases
<1>5. load' \in [Instances \cup Nodes -> Nat]
  BY DEF Finish, FinishPlacement, Released, LeasesTypeOK
<1>6. late' \in [Tasks -> Nat]
  <2>1. CASE UNCHANGED late
    BY <2>1 DEF LeasesTypeOK
  <2>2. CASE placed[t] # None /\ late' = [late EXCEPT ![t] = placed[t].epoch]
    BY <2>2 DEF LeasesTypeOK, Placement
  <2> QED BY <2>1, <2>2 DEF Finish
<1>7. LeasesTypeOK'
  BY <1>1, <1>5, <1>6 DEF Finish, FinishPlacement, LeasesTypeOK
<1>8. DispatchInv'
  BY <1>1 DEF Finish, DispatchInv, TasksTypeOK, LeasesTypeOK, Enter, demuxVars
<1>9. LeaseBelongsToDispatch'
  BY <1>1 DEF Finish, FinishPlacement, LeaseBelongsToDispatch, LeasesTypeOK
<1>10. LoadCountsPlacements'
  <2>1. CASE placed[t] = None
    <3>1. UNCHANGED <<placed, load>>
      BY <1>1, <2>1 DEF Finish, FinishPlacement, LeasesTypeOK
    <3> QED BY <3>1 DEF LoadCountsPlacements, Loaded
  <2>2. CASE placed[t] # None
    <3> SUFFICES ASSUME NEW x \in Instances \cup Nodes
                 PROVE  load'[x] = Cardinality({u \in Tasks : Loaded(u, x)'})
      BY DEF LoadCountsPlacements
    <3> DEFINE v == placed[t]
    <3>1. v \in Placement
      BY <2>2 DEF LeasesTypeOK
    <3>2. /\ placed' \in [Tasks -> Placement \cup {None}]
          /\ placed'[t] = None
          /\ placed = [placed' EXCEPT ![t] = v]
      BY <1>1 DEF LeasesTypeOK
    <3>3. /\ Cardinality(PlacedAt(placed', x)) \in Nat
          /\ Cardinality(PlacedAt(placed, x)) =
               IF At(v.instance, x) THEN Cardinality(PlacedAt(placed', x)) + 1
                                    ELSE Cardinality(PlacedAt(placed', x))
      BY <3>1, <3>2, PlaceOne
    <3>4. load[x] = Cardinality(PlacedAt(placed, x))
      BY DEF LoadCountsPlacements, Loaded, PlacedAt
    <3>5. load'[x] = IF At(v.instance, x) /\ load[x] > 0 THEN load[x] - 1 ELSE load[x]
      BY <2>2 DEF Finish, FinishPlacement, Released
    <3>6. load'[x] = Cardinality(PlacedAt(placed', x))
      BY <3>3, <3>4, <3>5
    <3> QED BY <3>6 DEF Loaded, PlacedAt, At
  <2> QED BY <2>1, <2>2
<1> QED BY <1>2, <1>3, <1>4, <1>7, <1>8, <1>9, <1>10 DEF IInv, TypeOK

LEMMA LateRenewalStep == ASSUME IInv, NEW t \in Tasks, LateRenewal(t) PROVE IInv'
<1> USE Parts
<1>1. DemuxTypeOK' /\ AgentsTypeOK' /\ HostsTypeOK'
  BY Unchanged, NoFault DEF LateRenewal
<1>2. TasksTypeOK' /\ LeasesTypeOK'
  BY DEF LateRenewal, TasksTypeOK, LeasesTypeOK
<1>3. DispatchInv' /\ LeaseBelongsToDispatch' /\ LoadCountsPlacements'
  BY DEF LateRenewal, DispatchInv, LeaseBelongsToDispatch, LoadCountsPlacements, Loaded,
         demuxVars
<1> QED BY <1>1, <1>2, <1>3 DEF IInv, TypeOK

LEMMA LapseStep == ASSUME IInv, NEW t \in Tasks, Lapse(t) PROVE IInv'
<1> USE Parts
<1>1. TasksTypeOK' /\ DemuxTypeOK' /\ AgentsTypeOK' /\ HostsTypeOK'
  BY Unchanged, FaultType DEF Lapse
<1>2. LeasesTypeOK'
  BY DEF Lapse, LeasesTypeOK
<1>3. DispatchInv' /\ LeaseBelongsToDispatch' /\ LoadCountsPlacements'
  BY DEF Lapse, DispatchInv, LeaseBelongsToDispatch, LoadCountsPlacements, Loaded,
         LeasesTypeOK, taskVars, demuxVars
<1> QED BY <1>1, <1>2, <1>3 DEF IInv, TypeOK

LEMMA DispatchStep == ASSUME IInv, NEW t \in Tasks, Dispatching(t) PROVE IInv'
  BY SelectStep, AcquireStep, AcquireFailsStep, SendStep, SendFailsStep, SubscribeStep,
     DiscardStep, AcceptStep, ForwardQueryStep, UserAnswersStep, AnswerFailsStep,
     RedispatchStep, TimesOutStep, FinishStep, LateRenewalStep, LapseStep
     DEF Dispatching, Proceed

-----------------------------------------------------------------------------
(* The steps of an agent and of its host.                                   *)

(* A message routed to its task leaves the channels channels of messages.   *)
LEMMA RouteStep ==
    ASSUME IInv, NEW m \in Message, Route(m), UNCHANGED <<taskVars, leaseVars>>
    PROVE  DemuxTypeOK' /\ DispatchInv'
<1> USE Parts
<1>1. m.task \in Tasks
  BY DEF Message
<1>2. CASE waiter[m.task] = None
  <2>1. Append(overflow[m.task], m) \in Seq(Message)
    BY <1>1, MessagesType DEF DemuxTypeOK
  <2>2. DemuxTypeOK'
    BY <1>1, <1>2, <2>1 DEF Route, DemuxTypeOK
  <2> QED BY <1>2, <2>2 DEF Route, DispatchInv, taskVars, leaseVars
<1>3. CASE waiter[m.task] # None
  <2>1. Append(waiter[m.task], m) \in Seq(Message)
    BY <1>1, <1>3, MessagesType DEF DemuxTypeOK
  <2>2. DemuxTypeOK'
    BY <1>1, <1>3, <2>1 DEF Route, DemuxTypeOK
  <2> QED BY <1>1, <1>3, <2>1, <2>2 DEF Route, DispatchInv, DemuxTypeOK, taskVars, leaseVars
<1> QED BY <1>2, <1>3

LEMMA AgentStepInv == ASSUME IInv, NEW i \in Instances, AgentStep(i) PROVE IInv'
<1> USE Parts
<1>1. CASE Take(i)
  <2>1. Head(inbox[i]) \in Message /\ Tail(inbox[i]) \in Seq(Message)
    BY <1>1, MessagesType DEF Take, AgentsTypeOK
  <2>2. AgentsTypeOK'
    BY <1>1, <2>1 DEF Take, AgentsTypeOK, Job, Message
  <2> QED BY <1>1, <2>2, Unchanged, NoFault DEF Take, IInv, TypeOK
<1>2. CASE Report(i)
  <2>1. From(i, "result", agent[i].nonce) \in Message
    BY <1>2 DEF Report, From, Message, AgentsTypeOK, Job
  <2>2. DemuxTypeOK' /\ DispatchInv'
    BY <1>2, <2>1, RouteStep DEF Report
  <2>3. AgentsTypeOK'
    BY <1>2 DEF Report, AgentsTypeOK, Idle, Job
  <2> QED BY <1>2, <2>2, <2>3, Unchanged, NoFault DEF Report, IInv, TypeOK
<1>3. CASE Question(i)
  <2>1. From(i, "query", 0) \in Message
    BY <1>3 DEF Question, From, Message, AgentsTypeOK, Job
  <2>2. DemuxTypeOK' /\ DispatchInv'
    BY <1>3, <2>1, RouteStep DEF Question
  <2>3. AgentsTypeOK'
    BY <1>3 DEF Question, Turn, AgentsTypeOK, Job
  <2> QED BY <1>3, <2>2, <2>3, Unchanged, FaultType DEF Question, IInv, TypeOK
<1>4. CASE Hear(i)
  <2>1. Head(inbox[i]) \in Message /\ Tail(inbox[i]) \in Seq(Message)
    BY <1>4, MessagesType DEF Hear, AgentsTypeOK
  <2>2. CASE Head(inbox[i]).type = "answer"
    <3>1. AgentsTypeOK'
      BY <1>4, <2>1, <2>2 DEF Hear, Turn, AgentsTypeOK, Job
    <3> QED BY <1>4, <3>1, Unchanged, NoFault DEF Hear, IInv, TypeOK
  <2>3. CASE Head(inbox[i]).type # "answer"
    <3>1. <<Head(inbox[i]).task, Head(inbox[i]).nonce>> \in Tasks \X Nat
      BY <2>1 DEF Message
    <3>2. /\ forgotten' = forgotten \cup {<<Head(inbox[i]).task, Head(inbox[i]).nonce>>}
          /\ inbox' = [inbox EXCEPT ![i] = Tail(@)]
          /\ UNCHANGED agent
      BY <1>4, <2>3 DEF Hear
    <3>3. AgentsTypeOK'
      BY <2>1, <3>1, <3>2 DEF AgentsTypeOK
    <3> QED BY <1>4, <3>3, Unchanged, NoFault DEF Hear, IInv, TypeOK
  <2> QED BY <2>2, <2>3
<1>5. CASE StopAsking(i)
  <2>1. AgentsTypeOK'
    BY <1>5 DEF StopAsking, Turn, AgentsTypeOK, Job
  <2> QED BY <1>5, <2>1, Unchanged, NoFault DEF StopAsking, IInv, TypeOK
<1> QED BY <1>1, <1>2, <1>3, <1>4, <1>5 DEF AgentStep

LEMMA HostStepInv == ASSUME IInv, NEW i \in Instances, HostStep(i) PROVE IInv'
<1> USE Parts
<1>1. CASE Crash(i) \/ Expire(i) \/ Partition(i) \/ Heal(i) \/ Withdraw(i)
  <2>1. HostsTypeOK'
    <3>1. CASE Crash(i)
      BY <3>1 DEF Crash, Fault, HostsTypeOK
    <3>2. CASE Expire(i)
      BY <3>2 DEF Expire, HostsTypeOK
    <3>3. CASE Partition(i)
      BY <3>3 DEF Partition, Fault, HostsTypeOK
    <3>4. CASE Heal(i)
      BY <3>4 DEF Heal, HostsTypeOK
    <3>5. CASE Withdraw(i)
      BY <3>5 DEF Withdraw, Fault, HostsTypeOK
    <3> QED BY <1>1, <3>1, <3>2, <3>3, <3>4, <3>5
  <2>2. UNCHANGED <<taskVars, leaseVars, demuxVars, agentVars>>
    BY <1>1 DEF Crash, Expire, Partition, Heal, Withdraw
  <2> QED BY <2>1, <2>2, Unchanged DEF IInv, TypeOK
<1>2. CASE Restart(i)
  <2>1. HostsTypeOK'
    BY <1>2 DEF Restart, HostsTypeOK
  <2>2. Held(i) \subseteq Tasks \X Nat
    <3>1. \A m \in Range(inbox[i]) : <<m.task, m.nonce>> \in Tasks \X Nat
      <4>1. inbox[i] \in Seq(Message)
        BY DEF AgentsTypeOK
      <4>2. \A k \in DOMAIN inbox[i] : inbox[i][k] \in Message
        BY <4>1
      <4> QED BY <4>2 DEF Range, Message
    <3>2. agent[i].does # "idle" => <<agent[i].task, agent[i].nonce>> \in Tasks \X Nat
      BY DEF AgentsTypeOK, Job
    <3> QED BY <3>1, <3>2 DEF Held
  <2>3. AgentsTypeOK'
    BY <1>2, <2>2 DEF Restart, AgentsTypeOK, Idle, Job
  <2> QED BY <1>2, <2>1, <2>3, Unchanged DEF Restart, IInv, TypeOK
<1> QED BY <1>1, <1>2 DEF HostStep

LEMMA Inductive == IInv /\ [Next]_vars => IInv'
<1> SUFFICES ASSUME IInv, [Next]_vars PROVE IInv'
  OBVIOUS
<1>1. CASE UNCHANGED vars
  BY <1>1, Unchanged, NoFault DEF vars, IInv, TypeOK
<1>2. CASE Next
  BY <1>2, DispatchStep, AgentStepInv, HostStepInv DEF Next
<1> QED BY <1>1, <1>2

LEMMA Invariance == Spec => []IInv
<1> QED BY InitInv, Inductive, PTL DEF Spec

-----------------------------------------------------------------------------
(* Tasks, messages, agents and records are of their types.                  *)
THEOREM TypeCorrect == Spec => []TypeOK
<1>1. IInv => TypeOK
  BY DEF IInv
<1> QED BY <1>1, Invariance, PTL

(* A task's result answers its last assignment.                             *)
THEOREM FreshResults == Spec => []ResultIsOfTheLastDispatch
<1>1. IInv => ResultIsOfTheLastDispatch
  BY DEF IInv, DispatchInv, ResultIsOfTheLastDispatch
<1> QED BY <1>1, Invariance, PTL

(* The load that chooses an instance is the number of its placements.       *)
THEOREM Loads == Spec => []LoadCountsPlacements
<1>1. IInv => LoadCountsPlacements
  BY DEF IInv
<1> QED BY <1>1, Invariance, PTL

(* A task lease does not outlive the dispatch that acquired it.             *)
THEOREM Leases == Spec => []LeaseBelongsToDispatch
<1>1. IInv => LeaseBelongsToDispatch
  BY DEF IInv
<1> QED BY <1>1, Invariance, PTL
=============================================================================
