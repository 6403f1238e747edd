------------------------------ MODULE Dispatch ------------------------------
(***************************************************************************)
(* One dispatch of the scheduler after the other, with everything between  *)
(* the goroutine that makes it and the agent that executes it              *)
(* (internal/conductor/scheduler.go): the choice of an instance, the task  *)
(* lease, the assignment, the demultiplexer of the conductor's inbox, the  *)
(* health check, the question to the user and the second dispatch of a     *)
(* task that lost its instance; and on the other side the inbox and the    *)
(* message loop of an agent (internal/agent/agent.go).                     *)
(*                                                                         *)
(* All tasks are of one profile, which several instances offer.  A nonce   *)
(* is the number of assignments sent for its task: a dispatch that ends    *)
(* before it sends one shows its nonce to nobody.                          *)
(***************************************************************************)
EXTENDS Integers, Sequences, FiniteSets, Functions

CONSTANTS Tasks,
          Instances,   (* of the profile                                    *)
          Nodes,
          NodeOf,      (* [Instances -> Nodes]                              *)
          Capacity,    (* [Nodes -> Nat]: Capacity.MaxTasks, 0 for no limit *)
          None,
          Flaky,       (* the instances that may be lost                    *)
          MaxFaults    (* bound: losses, lapses, timeouts, questions        *)

ASSUME DispatchAssumption ==
    /\ IsFiniteSet(Tasks) /\ IsFiniteSet(Instances) /\ IsFiniteSet(Nodes)
    /\ Instances \cap Nodes = {}
    /\ NodeOf \in [Instances -> Nodes]
    /\ Capacity \in [Nodes -> Nat]
    /\ None \notin Tasks \cup Instances
    /\ Flaky \subseteq Instances
    /\ MaxFaults \in Nat

VARIABLES
    phase,      (* where the dispatch of a task is                          *)
    chosen,     (* the instance selected and not yet acquired               *)
    assigned,   (* task.AssignedInstance                                    *)
    epoch,      (* task.LeaseEpoch, 0 for none                              *)
    result,     (* task.Result: the message it came with                    *)
    sent,       (* assignments sent: the last one is the present nonce      *)
    placed,     (* the placement the dispatch has to finish                 *)
    load,       (* instanceInFlight and nodeInFlight                        *)
    lease,      (* epoch of the task lease in the store, 0 for none         *)
    granted,    (* the last epoch granted                                   *)
    late,       (* epoch of a renewal under way when its dispatch ended     *)
    waiter,     (* demux.waiters: the channel of a task                     *)
    overflow,   (* demux.overflow, task by task                             *)
    inbox,      (* of each instance                                         *)
    agent,      (* what its message loop is doing                           *)
    up,         (* its process runs                                         *)
    record,     (* its state in the control plane                           *)
    forgotten,  (* history: assignments their agent will not execute        *)
    faults

taskVars  == <<phase, chosen, assigned, epoch, result, sent>>
leaseVars == <<placed, load, lease, granted, late>>
demuxVars == <<waiter, overflow>>
agentVars == <<inbox, agent, forgotten>>
hostVars  == <<up, record>>
vars == <<taskVars, leaseVars, demuxVars, agentVars, hostVars, faults>>

-----------------------------------------------------------------------------
Phases == {"pending", "lease", "send", "subscribe", "wait", "asking",
           "redo", "error", "over", "done"}

(* Of a result and of an assignment the nonce matters, of a question and of *)
(* the answer to it only the task: neither carries a nonce.                 *)
Message == [type : {"assignment", "result", "query", "answer"},
            task : Tasks, nonce : Nat]

Placement == [instance : Instances, epoch : Nat]

Idle == [does |-> "idle", task |-> None, nonce |-> 0]
Job  == [does : {"idle", "work", "ask"}, task : Tasks \cup {None}, nonce : Nat]

ASSUME NoneAssumption == None \notin Placement

TasksTypeOK ==
    /\ phase \in [Tasks -> Phases]
    /\ chosen \in [Tasks -> Instances \cup {None}]
    /\ assigned \in [Tasks -> Instances \cup {None}]
    /\ epoch \in [Tasks -> Nat]
    /\ result \in [Tasks -> Message \cup {None}]
    /\ sent \in [Tasks -> Nat]

LeasesTypeOK ==
    /\ placed \in [Tasks -> Placement \cup {None}]
    /\ load \in [Instances \cup Nodes -> Nat]
    /\ lease \in [Tasks -> Nat]
    /\ granted \in [Tasks -> Nat]
    /\ late \in [Tasks -> Nat]

DemuxTypeOK ==
    /\ waiter \in [Tasks -> Seq(Message) \cup {None}]
    /\ overflow \in [Tasks -> Seq(Message)]

AgentsTypeOK ==
    /\ inbox \in [Instances -> Seq(Message)]
    /\ agent \in [Instances -> Job]
    /\ \A i \in Instances : agent[i].does # "idle" => agent[i].task \in Tasks
    /\ forgotten \subseteq Tasks \X Nat

HostsTypeOK ==
    /\ up \in [Instances -> BOOLEAN]
    /\ record \in [Instances -> {"ready", "unavailable", "removed"}]
    /\ faults \in Nat

TypeOK == TasksTypeOK /\ LeasesTypeOK /\ DemuxTypeOK /\ AgentsTypeOK /\ HostsTypeOK

Init ==
    /\ phase = [t \in Tasks |-> "pending"]
    /\ chosen = [t \in Tasks |-> None]
    /\ assigned \in [Tasks -> Instances \cup {None}]
    /\ epoch = [t \in Tasks |-> 0]
    /\ result = [t \in Tasks |-> None]
    /\ sent = [t \in Tasks |-> 0]
    /\ placed = [t \in Tasks |-> None]
    /\ load = [x \in Instances \cup Nodes |-> 0]
    /\ lease = [t \in Tasks |-> 0]
    /\ granted = [t \in Tasks |-> 0]
    /\ late = [t \in Tasks |-> 0]
    /\ waiter = [t \in Tasks |-> None]
    /\ overflow = [t \in Tasks |-> <<>>]
    /\ inbox = [i \in Instances |-> <<>>]
    /\ agent = [i \in Instances |-> Idle]
    /\ up = [i \in Instances |-> TRUE]
    /\ record = [i \in Instances |-> "ready"]
    /\ forgotten = {}
    /\ faults = 0

Enter(t, place) == phase' = [phase EXCEPT ![t] = place]

Fault == /\ faults < MaxFaults
         /\ faults' = faults + 1

-----------------------------------------------------------------------------
(* The choice of an instance.                                               *)

Listed == {i \in Instances : record[i] # "removed"}

HasRoom(n) == Capacity[n] = 0 \/ load[n] < Capacity[n]

Candidates == {i \in Instances : record[i] = "ready" /\ HasRoom(NodeOf[i])}

Lighter(i, j) == \/ load[NodeOf[i]] < load[NodeOf[j]]
                 \/ load[NodeOf[i]] = load[NodeOf[j]] /\ load[i] < load[j]

\* The instance the task had before, or one of the least loaded; between those
\* usage, capacity, state and heartbeats decide.
Selectable(t) == IF assigned[t] \in Candidates THEN {assigned[t]}
                 ELSE {i \in Candidates : \A j \in Candidates : ~Lighter(j, i)}

\* With no instance on record the assignment goes to whoever has the profile's
\* name; with none that is free the task is dispatched again at once.
Select(t) == /\ phase[t] = "pending"
             /\ overflow' = [overflow EXCEPT ![t] = <<>>]
             /\ \/ /\ Listed = {}
                   /\ assigned' = [assigned EXCEPT ![t] = None]
                   /\ epoch' = [epoch EXCEPT ![t] = 0]
                   /\ Enter(t, "send")
                   /\ UNCHANGED chosen
                \/ \E i \in Selectable(t) :
                      /\ chosen' = [chosen EXCEPT ![t] = i]
                      /\ Enter(t, "lease")
                      /\ UNCHANGED <<assigned, epoch>>
                \/ /\ Listed # {} /\ Candidates = {}
                   /\ assigned' = [assigned EXCEPT ![t] = None]
                   /\ epoch' = [epoch EXCEPT ![t] = 0]
                   /\ UNCHANGED <<phase, chosen>>
             /\ UNCHANGED <<result, sent, leaseVars, waiter, agentVars, hostVars, faults>>

(* acquireInstance and releaseInstance count for the instance and its node. *)
At(i, x) == x = i \/ x = NodeOf[i]

Acquired(i) == [x \in Instances \cup Nodes |-> IF At(i, x) THEN load[x] + 1 ELSE load[x]]

Released(i) == [x \in Instances \cup Nodes |->
                   IF At(i, x) /\ load[x] > 0 THEN load[x] - 1 ELSE load[x]]

\* A lease this conductor still has is granted again, under its epoch.
Granted(t) == IF lease[t] # 0 THEN lease[t] ELSE granted[t] + 1

\* Nothing stands between the choice and the count but the call of the store; the
\* load that was read may be out of date.
Acquire(t) ==
    /\ phase[t] = "lease"
    /\ assigned' = [assigned EXCEPT ![t] = chosen[t]]
    /\ lease' = [lease EXCEPT ![t] = Granted(t)]
    /\ granted' = [granted EXCEPT ![t] = Granted(t)]
    /\ epoch' = [epoch EXCEPT ![t] = Granted(t)]
    /\ placed' = [placed EXCEPT ![t] = [instance |-> chosen[t], epoch |-> Granted(t)]]
    /\ load' = Acquired(chosen[t])
    /\ chosen' = [chosen EXCEPT ![t] = None]
    /\ Enter(t, "send")
    /\ UNCHANGED <<result, sent, late, demuxVars, agentVars, hostVars, faults>>

\* The store does not answer: the task fails.
AcquireFails(t) ==
    /\ phase[t] = "lease"
    /\ Fault
    /\ assigned' = [assigned EXCEPT ![t] = chosen[t]]
    /\ chosen' = [chosen EXCEPT ![t] = None]
    /\ Enter(t, "error")
    /\ UNCHANGED <<epoch, result, sent, leaseVars, demuxVars, agentVars, hostVars>>

-----------------------------------------------------------------------------
(* The assignment.                                                          *)

Routes(t) == IF assigned[t] = None THEN Instances ELSE {assigned[t]}

Put(i, m) == inbox' = [inbox EXCEPT ![i] = Append(@, m)]

\* A connection made earlier still works when the instance has lost its record.
Send(t) == /\ phase[t] = "send"
           /\ sent' = [sent EXCEPT ![t] = @ + 1]
           /\ \E i \in Routes(t) :
                 /\ up[i]
                 /\ Put(i, [type |-> "assignment", task |-> t, nonce |-> sent'[t]])
           /\ Enter(t, "subscribe")
           /\ UNCHANGED <<chosen, assigned, epoch, result, leaseVars, demuxVars,
                          agent, forgotten, hostVars, faults>>

SendFails(t) == /\ phase[t] = "send"
                /\ \E i \in Routes(t) : ~up[i] \/ record[i] # "ready"
                /\ Enter(t, "error")
                /\ UNCHANGED <<chosen, assigned, epoch, result, sent, leaseVars, demuxVars,
                               agentVars, hostVars, faults>>

-----------------------------------------------------------------------------
(* The conductor's inbox.                                                   *)

\* runDemux hands on what arrives; the inbox before it is left out, and so is
\* what remains in the overflow of a task that is done.
Route(m) == IF waiter[m.task] = None
            THEN /\ overflow' = IF phase[m.task] = "done" THEN overflow
                                ELSE [overflow EXCEPT ![m.task] = Append(@, m)]
                 /\ UNCHANGED waiter
            ELSE /\ waiter' = [waiter EXCEPT ![m.task] = Append(@, m)]
                 /\ UNCHANGED overflow

\* What came before the dispatch listened waits in the overflow.
Subscribe(t) ==
    /\ phase[t] = "subscribe"
    /\ waiter' = [waiter EXCEPT ![t] = overflow[t]]
    /\ overflow' = [overflow EXCEPT ![t] = <<>>]
    /\ Enter(t, "wait")
    /\ UNCHANGED <<chosen, assigned, epoch, result, sent, leaseVars,
                   agentVars, hostVars, faults>>

Unsubscribe(t) == /\ waiter' = [waiter EXCEPT ![t] = None]
                  /\ overflow' = [overflow EXCEPT ![t] = <<>>]

Received(t, type) == /\ phase[t] = "wait"
                     /\ waiter[t] # <<>>
                     /\ Head(waiter[t]).type = type

\* Mutant: any nonce will do.
NeverStale(t, m) == m.nonce = 0

\* A result with another nonce is of an earlier dispatch.
Stale(t, m) == m.nonce # sent[t]

Discard(t) == /\ Received(t, "result")
              /\ Stale(t, Head(waiter[t]))
              /\ waiter' = [waiter EXCEPT ![t] = Tail(@)]
              /\ UNCHANGED <<taskVars, leaseVars, overflow, agentVars, hostVars, faults>>

Accept(t) == /\ Received(t, "result")
             /\ ~Stale(t, Head(waiter[t]))
             /\ result' = [result EXCEPT ![t] = Head(waiter[t])]
             /\ Unsubscribe(t)
             /\ Enter(t, "over")
             /\ UNCHANGED <<chosen, assigned, epoch, sent, leaseVars,
                            agentVars, hostVars, faults>>

\* forwardUserQuery: until the user answers nothing else is looked at.
ForwardQuery(t) == /\ Received(t, "query")
                   /\ waiter' = [waiter EXCEPT ![t] = Tail(@)]
                   /\ Enter(t, "asking")
                   /\ UNCHANGED <<chosen, assigned, epoch, result, sent, leaseVars, overflow,
                                  agentVars, hostVars, faults>>

\* The answer goes to the profile: to any of its instances.
UserAnswers(t) == /\ phase[t] = "asking"
                  /\ \E i \in Instances :
                        /\ up[i]
                        /\ Put(i, [type |-> "answer", task |-> t, nonce |-> 0])
                  /\ Enter(t, "wait")
                  /\ UNCHANGED <<chosen, assigned, epoch, result, sent, leaseVars, demuxVars,
                                 agent, forgotten, hostVars, faults>>

AnswerFails(t) == /\ phase[t] = "asking"
                  /\ \E i \in Instances : ~up[i] \/ record[i] # "ready"
                  /\ Unsubscribe(t)
                  /\ Enter(t, "error")
                  /\ UNCHANGED <<chosen, assigned, epoch, result, sent, leaseVars,
                                 agentVars, hostVars, faults>>

-----------------------------------------------------------------------------
(* The ends of a dispatch.                                                  *)

\* Mutant: only the lease is looked at.
LeaseLost(t) == epoch[t] # 0 /\ lease[t] # epoch[t]

\* checkTaskExecutionHealth; a node shares the fate of its instances.
Unhealthy(t) == \/ assigned[t] # None /\ record[assigned[t]] # "ready"
                \/ epoch[t] # 0 /\ lease[t] # epoch[t]

\* prepareTaskForRedispatch
Redispatch(t) == /\ phase[t] = "wait"
                 /\ Unhealthy(t)
                 /\ assigned' = [assigned EXCEPT ![t] = None]
                 /\ epoch' = [epoch EXCEPT ![t] = 0]
                 /\ Unsubscribe(t)
                 /\ Enter(t, "redo")
                 /\ UNCHANGED <<chosen, result, sent, leaseVars, agentVars, hostVars, faults>>

TimesOut(t) == /\ phase[t] = "wait"
               /\ Fault
               /\ Unsubscribe(t)
               /\ Enter(t, "error")
               /\ UNCHANGED <<chosen, assigned, epoch, result, sent, leaseVars,
                              agentVars, hostVars>>

\* Mutant: the instance released is the one the task names by now.
FinishTask(t) ==
    /\ placed' = [placed EXCEPT ![t] = None]
    /\ load' = IF assigned[t] = None THEN load ELSE Released(assigned[t])
    /\ lease' = IF placed[t] # None /\ lease[t] = placed[t].epoch
                THEN [lease EXCEPT ![t] = 0] ELSE lease

\* Mutant: the lease released is the one the task names by now.
FinishEpoch(t) ==
    /\ placed' = [placed EXCEPT ![t] = None]
    /\ load' = IF placed[t] = None THEN load ELSE Released(placed[t].instance)
    /\ lease' = IF lease[t] = epoch[t] THEN [lease EXCEPT ![t] = 0] ELSE lease

\* finishTaskPlacement goes by the placement: the task may be reset already.
FinishPlacement(t) ==
    /\ placed' = [placed EXCEPT ![t] = None]
    /\ load' = IF placed[t] = None THEN load ELSE Released(placed[t].instance)
    /\ lease' = IF placed[t] # None /\ lease[t] = placed[t].epoch
                THEN [lease EXCEPT ![t] = 0] ELSE lease

\* The heartbeat is told to stop, not waited for; that matters when the task is
\* dispatched again.
Finish(t) ==
    /\ phase[t] \in {"redo", "error", "over"}
    /\ FinishPlacement(t)
    /\ \/ UNCHANGED <<late, faults>>
       \/ /\ phase[t] = "redo"
          /\ placed[t] # None
          /\ Fault
          /\ late' = [late EXCEPT ![t] = placed[t].epoch]
    /\ Enter(t, IF phase[t] = "redo" THEN "pending" ELSE "done")
    /\ UNCHANGED <<chosen, assigned, epoch, result, sent, granted, demuxVars,
                   agentVars, hostVars>>

\* runPlacementLeaseHeartbeat: a renewal that succeeded before the lease was
\* released is written to the task whenever its call returns.
LateRenewal(t) == /\ late[t] # 0
                  /\ epoch' = [epoch EXCEPT ![t] = late[t]]
                  /\ late' = [late EXCEPT ![t] = 0]
                  /\ UNCHANGED <<phase, chosen, assigned, result, sent, placed, load, lease,
                                 granted, demuxVars, agentVars, hostVars, faults>>

\* Renewals fail for as long as the lease lasts.
Lapse(t) == /\ lease[t] # 0
            /\ Fault
            /\ lease' = [lease EXCEPT ![t] = 0]
            /\ UNCHANGED <<taskVars, placed, load, granted, late, demuxVars,
                           agentVars, hostVars>>

-----------------------------------------------------------------------------
(* An instance.                                                             *)

Turn(i, does) == agent' = [agent EXCEPT ![i].does = does]

From(i, type, nonce) == [type |-> type, task |-> agent[i].task, nonce |-> nonce]

\* Run, handleMessage: an answer that comes too late is nothing it knows.
Take(i) == /\ up[i]
           /\ agent[i].does = "idle"
           /\ inbox[i] # <<>>
           /\ inbox' = [inbox EXCEPT ![i] = Tail(@)]
           /\ agent' = IF Head(inbox[i]).type = "assignment"
                       THEN [agent EXCEPT ![i] = [does  |-> "work",
                                                  task  |-> Head(inbox[i]).task,
                                                  nonce |-> Head(inbox[i]).nonce]]
                       ELSE agent
           /\ UNCHANGED <<taskVars, leaseVars, demuxVars, forgotten, hostVars, faults>>

\* sendResult: the nonce is that of the assignment.
Report(i) == /\ agent[i].does = "work"
             /\ Route(From(i, "result", agent[i].nonce))
             /\ agent' = [agent EXCEPT ![i] = Idle]
             /\ UNCHANGED <<taskVars, leaseVars, inbox, forgotten, hostVars, faults>>

\* askUser
Question(i) == /\ agent[i].does = "work"
               /\ Fault
               /\ Route(From(i, "query", 0))
               /\ Turn(i, "ask")
               /\ UNCHANGED <<taskVars, leaseVars, inbox, forgotten, hostVars>>

\* The agent reads its inbox for the answer and drops whatever else it finds.
Hear(i) == /\ agent[i].does = "ask"
           /\ inbox[i] # <<>>
           /\ inbox' = [inbox EXCEPT ![i] = Tail(@)]
           /\ IF Head(inbox[i]).type = "answer"
              THEN Turn(i, "work") /\ UNCHANGED forgotten
              ELSE /\ forgotten' = forgotten \cup {<<Head(inbox[i]).task, Head(inbox[i]).nonce>>}
                   /\ UNCHANGED agent
           /\ UNCHANGED <<taskVars, leaseVars, demuxVars, hostVars, faults>>

\* Five minutes are over.
StopAsking(i) == /\ agent[i].does = "ask"
                 /\ Turn(i, "work")
                 /\ UNCHANGED <<taskVars, leaseVars, demuxVars, inbox, forgotten,
                                hostVars, faults>>

AgentStep(i) ==
    up[i] /\ (Take(i) \/ Report(i) \/ Question(i) \/ Hear(i) \/ StopAsking(i))

-----------------------------------------------------------------------------
(* The host of an instance and its record, as NodeHost has them.            *)

Crash(i) == /\ i \in Flaky /\ up[i]
            /\ Fault
            /\ up' = [up EXCEPT ![i] = FALSE]
            /\ UNCHANGED <<taskVars, leaseVars, demuxVars, agentVars, record>>

\* No heartbeat comes from a process that is gone.
Expire(i) == /\ ~up[i]
             /\ record[i] = "ready"
             /\ record' = [record EXCEPT ![i] = "unavailable"]
             /\ UNCHANGED <<taskVars, leaseVars, demuxVars, agentVars, up, faults>>

Partition(i) == /\ i \in Flaky /\ up[i]
                /\ record[i] = "ready"
                /\ Fault
                /\ record' = [record EXCEPT ![i] = "unavailable"]
                /\ UNCHANGED <<taskVars, leaseVars, demuxVars, agentVars, up>>

Heal(i) == /\ up[i]
           /\ record[i] = "unavailable"
           /\ record' = [record EXCEPT ![i] = "ready"]
           /\ UNCHANGED <<taskVars, leaseVars, demuxVars, agentVars, up, faults>>

\* Host.Shutdown removes the records before it stops.
Withdraw(i) == /\ i \in Flaky /\ up[i]
               /\ record[i] = "ready"
               /\ Fault
               /\ record' = [record EXCEPT ![i] = "removed"]
               /\ UNCHANGED <<taskVars, leaseVars, demuxVars, agentVars, up>>

Held(i) == {<<m.task, m.nonce>> : m \in {n \in Range(inbox[i]) : n.type = "assignment"}}
             \cup (IF agent[i].does = "idle" THEN {} ELSE {<<agent[i].task, agent[i].nonce>>})

\* The instance comes back under its ID and knows of nothing.
Restart(i) == /\ ~up[i]
              /\ up' = [up EXCEPT ![i] = TRUE]
              /\ record' = [record EXCEPT ![i] = "ready"]
              /\ forgotten' = forgotten \cup Held(i)
              /\ inbox' = [inbox EXCEPT ![i] = <<>>]
              /\ agent' = [agent EXCEPT ![i] = Idle]
              /\ UNCHANGED <<taskVars, leaseVars, demuxVars, faults>>

-----------------------------------------------------------------------------
Proceed(t) == \/ Select(t) \/ Acquire(t) \/ Send(t) \/ SendFails(t) \/ Subscribe(t)
              \/ Discard(t) \/ Accept(t) \/ ForwardQuery(t)
              \/ UserAnswers(t) \/ AnswerFails(t)
              \/ Finish(t)

Dispatching(t) == \/ Proceed(t) \/ Redispatch(t) \/ AcquireFails(t) \/ TimesOut(t)
                  \/ LateRenewal(t) \/ Lapse(t)

HostStep(i) == \/ Crash(i) \/ Expire(i) \/ Partition(i) \/ Heal(i)
               \/ Withdraw(i) \/ Restart(i)

Next == \/ \E t \in Tasks : Dispatching(t)
        \/ \E i \in Instances : AgentStep(i) \/ HostStep(i)

Spec == Init /\ [][Next]_vars

(* The goroutines are scheduled and the health ticker ticks; a turn of an   *)
(* agent ends (AgentTurn), a user answers, and the clock passes the TTL.    *)
FairSpec == /\ Spec
            /\ \A t \in Tasks : /\ WF_vars(Proceed(t))
                                /\ WF_vars(Redispatch(t))
                                /\ WF_vars(LateRenewal(t))
            /\ \A i \in Instances : WF_vars(AgentStep(i)) /\ WF_vars(Expire(i))

-----------------------------------------------------------------------------
(* The result a task ends with is the answer to its last assignment,        *)
(* however many instances it was abandoned on still report.                 *)
ResultIsOfTheLastDispatch ==
    \A t \in Tasks : result[t] # None => result[t].nonce = sent[t]

Loaded(t, x) == placed[t] # None /\ At(placed[t].instance, x)

(* The in-flight counts that choose an instance count the placements there  *)
(* are: nothing leaks when a dispatch is abandoned, and nothing is released *)
(* twice.                                                                   *)
LoadCountsPlacements ==
    \A x \in Instances \cup Nodes : load[x] = Cardinality({t \in Tasks : Loaded(t, x)})

(* A task has a lease only while a dispatch holds it, and never that of an  *)
(* earlier one.                                                             *)
LeaseBelongsToDispatch ==
    \A t \in Tasks : lease[t] # 0 => placed[t] # None /\ placed[t].epoch = lease[t]

Available(i) == up[i] /\ record[i] = "ready"

(* Every task comes to its end unless no instance is left to execute it, or *)
(* an agent forgot an assignment.                                           *)
DispatchesEnd == \/ <>[](\A i \in Instances : ~Available(i))
                 \/ <>(forgotten # {})
                 \/ <>[](\A t \in Tasks : phase[t] = "done")

=============================================================================
