------------------------------ MODULE Scheduler ------------------------------
(***************************************************************************)
(* The scheduler of one request (internal/conductor/scheduler.go): the     *)
(* goroutine of Execute, one goroutine per dispatch, and the goroutine of  *)
(* the user interface that pauses, resumes, cancels, amends and            *)
(* restructures the execution.  They share the task statuses, which no     *)
(* mutex protects, the flags and the channels; a step is what a goroutine  *)
(* does between two accesses that another one can observe.                 *)
(*                                                                         *)
(* A restructured graph keeps the completed nodes of the old one and gets  *)
(* fresh nodes, under the same IDs, for the rest: a node is a task ID and  *)
(* the generation of the graph that created it.                            *)
(***************************************************************************)
EXTENDS TaskGraph

CONSTANTS Tasks,        (* task IDs: numbers, in the order of g.Tasks       *)
          Deps,         (* [Tasks -> SUBSET Tasks]: DependsOn               *)
          Agents,       (* profiles                                         *)
          AgentOf,      (* the target profile of a task                     *)
          Limit,        (* MaxConcurrentTasks of a profile, 0 for no limit  *)
          Ops,          (* what the user does                               *)
          Outcomes,     (* how an agent's result can end a task             *)
          Slots,        (* bound: goroutines alive at a time                *)
          MaxOps,       (* bound: operations of the user                    *)
          MaxGen,       (* bound: graphs a restructuring creates            *)
          MaxLost,      (* bound: dispatches lost to an unhealthy instance  *)
          MaxRetries    (* bound: escalations of the adaptive router        *)

ASSUME SchedulerAssumption ==
    /\ IsFiniteSet(Tasks) /\ Tasks \subseteq Nat
    /\ Deps \in [Tasks -> SUBSET Tasks]
    /\ AgentOf \in [Tasks -> Agents]
    /\ Limit \in [Agents -> Nat]
    /\ Ops \subseteq {"pause", "cancel", "amend", "restructure"}
    /\ Outcomes \subseteq {"completed", "failed", "escalated"}
    /\ IsFiniteSet(Slots)
    /\ {MaxOps, MaxGen, MaxLost, MaxRetries} \subseteq Nat

VARIABLES
    pc,           (* where Execute is                                       *)
    result,       (* what Execute returned                                  *)
    graph,        (* s.graph: generation of the graph Execute works on      *)
    ready,        (* rest of the ready tasks of this round                  *)
    round,        (* this round: had it ready tasks, did it dispatch one    *)
    pending,      (* goroutines in flight                                   *)
    dispatched,   (* IDs dispatched and not yet done                        *)
    doneCh,       (* IDs sent by the goroutines that ended                  *)
    gate,         (* the pause and resume channels Execute read             *)

    node,         (* of each graph: the generation of each task's node      *)
    status,       (* of each node                                           *)

    at,           (* of each goroutine: where it is, "idle" when not in use *)
    job,          (* the node it executes                                   *)
    stopped,      (* its context is cancelled                               *)
    cancels,      (* taskCancels: the goroutine registered under an ID      *)

    paused, restructuring,
    pauseCh, resumeCh,  (* the channels in s: how many came before; closed? *)
    ctxDone,      (* the request's context is cancelled                     *)
    graphReplace, (* the buffered channel of capacity one, 0 when empty     *)
    active,       (* c.activeGraph                                          *)

    user,         (* what the user goroutine is doing, and with which task  *)
    ops,          (* operations so far                                      *)
    lost, retries,
    panicked      (* a channel was closed twice                             *)

execVars == <<pc, result, graph, ready, round, pending, dispatched, doneCh, gate>>
workVars == <<at, job, stopped, cancels>>
ctlVars  == <<paused, restructuring, pauseCh, resumeCh, ctxDone, graphReplace, active>>
userVars == <<user, ops, panicked>>
envVars  == <<lost, retries>>
vars == <<execVars, node, status, workVars, ctlVars, userVars, envVars>>

-----------------------------------------------------------------------------
Gens  == 0 .. MaxGen
Nodes == Tasks \X Gens

Node(g, t)  == <<t, node[g][t]>>

\* The statuses a graph's tasks show.
View(g) == [t \in Tasks |-> status[Node(g, t)]]

\* The statuses after the tasks of graph g got those of `view`.
Write(g, view) ==
    [n \in Nodes |-> IF n = Node(g, n[1]) THEN view[n[1]] ELSE status[n]]

Live == {w \in Slots : at[w] # "idle"}

NoJob == <<0, 0>>
NoOp  == <<"none", 0>>
Open(n) == [made |-> n, closed |-> FALSE]

\* A channel read earlier is closed once it was replaced, or if it is closed now.
IsClosed(channel, made) == made < channel.made \/ channel.closed

Places == {"loop", "gate", "held", "drain", "swap", "dispatch", "launch",
           "wait", "more", "returned"}
WorkerPlaces == {"idle", "run", "error", "flags", "check", "exit"}
UserSteps == {"none", "pause.close", "pause.cancel",
              "resume.reset", "resume.close", "resume.pauseCh", "resume.resumeCh",
              "cancel.ctx", "cancel.gate", "amend.reset", "amend.cancel",
              "restructure", "restructure.build", "restructure.replace"}
Channel == [made : Nat, closed : BOOLEAN]

ExecuteTypeOK ==
    /\ pc \in Places
    /\ result \in {"none", "ok", "cancelled", "deadlock"}
    /\ graph \in Gens
    /\ ready \in SUBSET Tasks
    /\ round \in [ready : BOOLEAN, new : BOOLEAN]
    /\ pending \in Nat
    /\ dispatched \in SUBSET Tasks
    /\ doneCh \in Seq(Tasks)
    /\ gate \in [pause : Nat, resume : Nat]

NodesTypeOK == /\ node \in [Gens -> [Tasks -> Gens]]
               /\ status \in [Nodes -> Status]

WorkersTypeOK == /\ at \in [Slots -> WorkerPlaces]
                 /\ job \in [Slots -> Nodes \cup {NoJob}]
                 /\ \A w \in Live : job[w] \in Nodes
                 /\ stopped \in [Slots -> BOOLEAN]
                 /\ cancels \in [Tasks -> SUBSET Slots]

ControlTypeOK == /\ paused \in BOOLEAN /\ restructuring \in BOOLEAN /\ ctxDone \in BOOLEAN
                 /\ pauseCh \in Channel /\ resumeCh \in Channel
                 /\ active \in Gens /\ graphReplace \in Gens

UserTypeOK == /\ user \in UserSteps \X (Tasks \cup {0})
              /\ ops \in Nat /\ lost \in Nat /\ retries \in Nat
              /\ panicked \in BOOLEAN

TypeOK == ExecuteTypeOK /\ NodesTypeOK /\ WorkersTypeOK /\ ControlTypeOK /\ UserTypeOK

NoGate  == [pause |-> 0, resume |-> 0]
NoRound == [ready |-> FALSE, new |-> FALSE]

Init ==
    /\ pc = "loop" /\ result = "none" /\ graph = 0
    /\ ready = {} /\ round = NoRound
    /\ pending = 0 /\ dispatched = {} /\ doneCh = <<>>
    /\ gate = NoGate
    /\ node = [g \in Gens |-> [t \in Tasks |-> 0]]
    /\ status = [n \in Nodes |-> "pending"]
    /\ at = [w \in Slots |-> "idle"]
    /\ job = [w \in Slots |-> NoJob]
    /\ stopped = [w \in Slots |-> FALSE]
    /\ cancels = [t \in Tasks |-> {}]
    /\ paused = FALSE /\ restructuring = FALSE /\ ctxDone = FALSE
    /\ pauseCh = Open(0) /\ resumeCh = Open(0)
    /\ graphReplace = 0 /\ active = 0
    /\ user = NoOp /\ ops = 0 /\ lost = 0 /\ retries = 0 /\ panicked = FALSE

-----------------------------------------------------------------------------
(* Execute.                                                                 *)

Return(r) == /\ pc' = "returned"
             /\ result' = r

GoTo(place) == /\ pc' = place
               /\ UNCHANGED result

\* for !graph.AllDone(): and, when not done, s.pauseCh is read into a local.
Loop == /\ pc = "loop"
        /\ IF AllDone(Deps, View(graph))
           THEN Return("ok") /\ UNCHANGED gate
           ELSE GoTo("gate") /\ gate' = [gate EXCEPT !.pause = pauseCh.made]
        /\ UNCHANGED <<graph, ready, round, pending, dispatched, doneCh,
                       node, status, workVars, ctlVars, userVars, envVars>>

\* s.resumeCh is read after s.pauseCh; Resume may have replaced one of them since.
Gate == /\ pc = "gate"
        /\ IF IsClosed(pauseCh, gate.pause)
           THEN GoTo("held") /\ gate' = [gate EXCEPT !.resume = resumeCh.made]
           ELSE GoTo("swap") /\ gate' = NoGate
        /\ UNCHANGED <<graph, ready, round, pending, dispatched, doneCh,
                       node, status, workVars, ctlVars, userVars, envVars>>

\* Mutant: only a resume ends the wait.
HeldUninterruptibly ==
    /\ pc = "held"
    /\ IsClosed(resumeCh, gate.resume)
    /\ GoTo("drain")
    /\ gate' = NoGate
    /\ UNCHANGED <<graph, ready, round, pending, dispatched, doneCh,
                   node, status, workVars, ctlVars, userVars, envVars>>

Held == /\ pc = "held"
        /\ \/ IsClosed(resumeCh, gate.resume) /\ GoTo("drain")
           \/ ctxDone /\ Return("cancelled")
        /\ gate' = NoGate
        /\ UNCHANGED <<graph, ready, round, pending, dispatched, doneCh,
                       node, status, workVars, ctlVars, userVars, envVars>>

\* Mutant: the drain receives without counting.
DrainUncounted ==
    /\ pc = "drain"
    /\ IF doneCh = <<>> THEN GoTo("swap") /\ dispatched' = {} /\ UNCHANGED doneCh
                        ELSE GoTo("drain") /\ doneCh' = Tail(doneCh) /\ UNCHANGED dispatched
    /\ UNCHANGED <<graph, ready, round, pending, gate,
                   node, status, workVars, ctlVars, userVars, envVars>>

\* The goroutines the pause stopped are received and not looked at.
Drain == /\ pc = "drain"
         /\ \/ /\ pending = 0
               /\ dispatched' = {}
               /\ GoTo("swap")
               /\ UNCHANGED <<pending, doneCh>>
            \/ /\ pending > 0
               /\ doneCh # <<>>
               /\ doneCh' = Tail(doneCh)
               /\ pending' = pending - 1
               /\ GoTo("drain")
               /\ UNCHANGED dispatched
            \/ /\ pending > 0
               /\ ctxDone
               /\ Return("cancelled")
               /\ UNCHANGED <<pending, dispatched, doneCh>>
         /\ UNCHANGED <<graph, ready, round, gate,
                        node, status, workVars, ctlVars, userVars, envVars>>

\* case newGraph := <-s.graphReplace
TakeGraph == /\ graphReplace # 0
             /\ graph' = graphReplace
             /\ graphReplace' = 0
             /\ restructuring' = FALSE
             /\ dispatched' = {}
             /\ GoTo("loop")
             /\ UNCHANGED <<pending, doneCh, status,
                            paused, pauseCh, resumeCh, ctxDone, active>>

Swap == /\ pc = "swap"
        /\ \/ TakeGraph /\ UNCHANGED <<ready, round>>
           \/ /\ graphReplace = 0
              /\ ready' = ReadyTasks(Deps, View(graph))
              /\ round' = [ready |-> ready' # {}, new |-> FALSE]
              /\ GoTo("dispatch")
              /\ UNCHANGED <<graph, pending, dispatched, doneCh, status, ctlVars>>
        /\ UNCHANGED <<gate, node, workVars, userVars, envVars>>

-----------------------------------------------------------------------------
(* The dispatch of one round's ready tasks.                                 *)

InFlight(agent) == {w \in Live : AgentOf[job[w][1]] = agent}

\* Mutant: off by one.
AtLimitLate(agent) == Limit[agent] > 0 /\ Cardinality(InFlight(agent)) > Limit[agent]

\* tryAcquireAgent: releaseAgent runs when the goroutine ends.
AtLimit(agent) == Limit[agent] > 0 /\ Cardinality(InFlight(agent)) >= Limit[agent]

\* The next of this round's tasks, none when there is none left.
First == {t \in ready : \A u \in ready : t <= u}

Skip == /\ pc = "dispatch"
        /\ \E t \in First : /\ t \in dispatched \/ AtLimit(AgentOf[t])
                          /\ ready' = ready \ {t}
        /\ GoTo("dispatch")
        /\ UNCHANGED <<graph, round, pending, dispatched, doneCh, gate,
                       node, status, workVars, ctlVars, userVars, envVars>>

Dispatch == /\ pc = "dispatch"
            /\ \E t \in First \ dispatched :
                  /\ ~AtLimit(AgentOf[t])
                  /\ dispatched' = dispatched \cup {t}
                  /\ status' = [status EXCEPT ![Node(graph, t)] = "running"]
            /\ round' = [round EXCEPT !.new = TRUE]
            /\ pending' = pending + 1
            /\ GoTo("launch")
            /\ UNCHANGED <<graph, ready, doneCh, gate,
                           node, workVars, ctlVars, userVars, envVars>>

\* Any slot will do; a choice would only multiply the states.
Free == CHOOSE w \in Slots : at[w] = "idle"

\* Mutant: the cancel function is not registered.
LaunchUnregistered ==
    /\ pc = "launch"
    /\ \E t \in First :
          /\ at' = [at EXCEPT ![Free] = "run"]
          /\ job' = [job EXCEPT ![Free] = Node(graph, t)]
          /\ stopped' = [stopped EXCEPT ![Free] = ctxDone]
          /\ ready' = ready \ {t}
    /\ GoTo("dispatch")
    /\ UNCHANGED <<graph, round, pending, dispatched, doneCh, gate, cancels,
                   node, status, ctlVars, userVars, envVars>>

\* The cancel function is registered before the goroutine starts, but after the
\* status was written, to the control plane and the graph status file as well.
Launch == /\ pc = "launch"
          /\ Slots \ Live # {}
          /\ \E t \in First :
                /\ at' = [at EXCEPT ![Free] = "run"]
                /\ job' = [job EXCEPT ![Free] = Node(graph, t)]
                /\ stopped' = [stopped EXCEPT ![Free] = ctxDone]
                /\ cancels' = [cancels EXCEPT ![t] = {Free}]
                /\ ready' = ready \ {t}
          /\ GoTo("dispatch")
          /\ UNCHANGED <<graph, round, pending, dispatched, doneCh, gate,
                         node, status, ctlVars, userVars, envVars>>

\* Nothing in flight, nothing dispatched: at a limit, or never to be ready.
Settle == /\ pc = "dispatch"
          /\ ready = {}
          /\ IF pending = 0 /\ ~round.new /\ ~AllDone(Deps, View(graph)) /\ ~round.ready
             THEN Return("deadlock")
             ELSE GoTo(IF pending > 0 THEN "wait" ELSE "loop")
          /\ round' = NoRound
          /\ UNCHANGED <<graph, ready, pending, dispatched, doneCh, gate,
                         node, status, workVars, ctlVars, userVars, envVars>>

-----------------------------------------------------------------------------
(* The results.                                                             *)

\* Mutant: only the direct dependents fail.
ReceiveShallow ==
    /\ doneCh # <<>>
    /\ doneCh' = Tail(doneCh)
    /\ pending' = pending - 1
    /\ dispatched' = dispatched \ {Head(doneCh)}
    /\ status' = IF status[Node(graph, Head(doneCh))] = "failed"
                 THEN Write(graph, [t \in Tasks |->
                          IF Head(doneCh) \in Deps[t] THEN "failed" ELSE View(graph)[t]])
                 ELSE status

\* A failed task takes its dependents with it.
Receive == /\ doneCh # <<>>
           /\ doneCh' = Tail(doneCh)
           /\ pending' = pending - 1
           /\ dispatched' = dispatched \ {Head(doneCh)}
           /\ status' = IF status[Node(graph, Head(doneCh))] = "failed"
                        THEN Write(graph, FailDependents(Deps, View(graph), Head(doneCh)))
                        ELSE status

Wait == /\ pc = "wait"
        /\ \/ ctxDone /\ Return("cancelled")
              /\ UNCHANGED <<graph, pending, dispatched, doneCh, status, ctlVars>>
           \/ TakeGraph
           \/ Receive /\ GoTo("more") /\ UNCHANGED <<graph, ctlVars>>
        /\ UNCHANGED <<ready, round, gate, node, workVars, userVars, envVars>>

More == /\ pc = "more"
        /\ \/ Receive /\ GoTo("more")
           \/ doneCh = <<>> /\ GoTo("loop") /\ UNCHANGED <<pending, dispatched, doneCh, status>>
        /\ UNCHANGED <<graph, ready, round, gate, node, workVars, ctlVars, userVars, envVars>>

Execute == \/ Loop \/ Gate \/ Held \/ Drain \/ Swap
           \/ Skip \/ Dispatch \/ Launch \/ Settle \/ Wait \/ More

-----------------------------------------------------------------------------
(* A dispatch goroutine.                                                    *)

Move(w, place) == at' = [at EXCEPT ![w] = place]

\* dispatchTask got a result: the agent's word becomes the task's status.
Deliver(w) == /\ at[w] = "run"
              /\ \E s \in Outcomes : status' = [status EXCEPT ![job[w]] = s]
              /\ Move(w, "check")
              /\ UNCHANGED <<execVars, node, job, stopped, cancels, ctlVars, userVars, envVars>>

\* The context was cancelled, or the send failed or the task timed out.
Fail(w) == /\ at[w] = "run"
           /\ stopped[w] \/ "failed" \in Outcomes
           /\ Move(w, "error")
           /\ UNCHANGED <<execVars, node, status, job, stopped, cancels,
                          ctlVars, userVars, envVars>>

\* prepareTaskForRedispatch, after a recoverable error: no instance has room,
\* or the instance, its node or the task's lease is gone.
Lose(w) == /\ at[w] = "run"
           /\ lost < MaxLost
           /\ lost' = lost + 1
           /\ status' = [status EXCEPT ![job[w]] = "pending"]
           /\ Move(w, "error")
           /\ UNCHANGED <<execVars, node, job, stopped, cancels, ctlVars, userVars, retries>>

\* An error is dropped when somebody else already settled what becomes of the task.
ReadStatus(w) == /\ at[w] = "error"
                 /\ Move(w, IF status[job[w]] \in {"cancelled", "pending"} THEN "exit" ELSE "flags")
                 /\ UNCHANGED <<execVars, node, status, job, stopped, cancels,
                                ctlVars, userVars, envVars>>

ReadFlags(w) == /\ at[w] = "flags"
                /\ status' = IF restructuring \/ paused THEN status
                             ELSE [status EXCEPT ![job[w]] = "failed"]
                /\ Move(w, "exit")
                /\ UNCHANGED <<execVars, node, job, stopped, cancels,
                               ctlVars, userVars, envVars>>

\* A failed result may be retried on a stronger model.
Check(w) == /\ at[w] = "check"
            /\ \/ /\ status[job[w]] = "failed"
                  /\ retries < MaxRetries
                  /\ retries' = retries + 1
                  /\ status' = [status EXCEPT ![job[w]] = "pending"]
               \/ UNCHANGED <<status, retries>>
            /\ Move(w, "exit")
            /\ UNCHANGED <<execVars, node, job, stopped, cancels, ctlVars, userVars, lost>>

\* Mutant: a task that is to be dispatched again is not reported as done.
ExitSilently(w) ==
    /\ at[w] = "exit"
    /\ Len(doneCh) < Cardinality(Tasks)
    /\ cancels' = [cancels EXCEPT ![job[w][1]] = {}]
    /\ doneCh' = IF status[job[w]] = "pending" THEN doneCh ELSE Append(doneCh, job[w][1])
    /\ Move(w, "idle")
    /\ job' = [job EXCEPT ![w] = NoJob]
    /\ stopped' = [stopped EXCEPT ![w] = FALSE]
    /\ UNCHANGED <<pc, result, graph, ready, round, pending, dispatched, gate,
                   node, status, ctlVars, userVars, envVars>>

\* The deferred calls; unregisterTaskCancel goes by the task's ID, and doneCh has
\* room for as many as the graph has tasks.
Exit(w) == /\ at[w] = "exit"
           /\ Len(doneCh) < Cardinality(Tasks)
           /\ cancels' = [cancels EXCEPT ![job[w][1]] = {}]
           /\ doneCh' = Append(doneCh, job[w][1])
           /\ Move(w, "idle")
           /\ job' = [job EXCEPT ![w] = NoJob]
           /\ stopped' = [stopped EXCEPT ![w] = FALSE]
           /\ UNCHANGED <<pc, result, graph, ready, round, pending, dispatched, gate,
                          node, status, ctlVars, userVars, envVars>>

Worker(w) == \/ Deliver(w) \/ Fail(w) \/ Lose(w)
             \/ ReadStatus(w) \/ ReadFlags(w) \/ Check(w) \/ Exit(w)

-----------------------------------------------------------------------------
(* The user's operations, one at a time.  The conductor offers them while   *)
(* it has an active scheduler, that is, until Execute returned.             *)

Begin(op, step, task) == /\ user = NoOp
                         /\ op \in Ops
                         /\ pc # "returned"
                         /\ ops < MaxOps
                         /\ ops' = ops + 1
                         /\ user' = <<step, task>>
                         /\ UNCHANGED panicked

Step(from, to) == /\ user[1] = from
                  /\ user' = IF to = "none" THEN NoOp ELSE <<to, user[2]>>
                  /\ UNCHANGED ops

Stop(slots) == stopped' = [w \in Slots |-> stopped[w] \/ w \in slots]

\* CancelAllRunning reaches the goroutines that are registered.
CancelAllRunning == Stop(UNION {cancels[t] : t \in Tasks})

Reset(from, to) ==
    status' = Write(graph, [t \in Tasks |-> IF View(graph)[t] \in from THEN to
                                                                    ELSE View(graph)[t]])

\* close() of a closed channel ends the program.
Close(channel) == [channel EXCEPT !.closed = TRUE]

BeginPause == /\ Begin("pause", "pause.close", 0)
              /\ ~paused
              /\ paused' = TRUE
              /\ UNCHANGED <<execVars, node, status, workVars, restructuring, pauseCh,
                             resumeCh, ctxDone, graphReplace, active, envVars>>

ClosePause == /\ Step("pause.close", "pause.cancel")
              /\ pauseCh' = Close(pauseCh)
              /\ panicked' = pauseCh.closed
              /\ UNCHANGED <<execVars, node, status, workVars, paused, restructuring,
                             resumeCh, ctxDone, graphReplace, active, envVars>>

StopForPause == /\ Step("pause.cancel", "none")
                /\ CancelAllRunning
                /\ UNCHANGED <<execVars, node, status, at, job, cancels, ctlVars,
                               panicked, envVars>>

\* Not counted in ops: there is at most one for every pause.
BeginResume == /\ user = NoOp
               /\ pc # "returned"
               /\ paused
               /\ paused' = FALSE
               /\ user' = <<"resume.reset", 0>>
               /\ UNCHANGED <<ops, panicked>>
               /\ UNCHANGED <<execVars, node, status, workVars, restructuring, pauseCh,
                              resumeCh, ctxDone, graphReplace, active, envVars>>

\* Mutant: what ran when the pause came is not reset.
ResetNothing == /\ Step("resume.reset", "resume.close")
                /\ UNCHANGED <<execVars, node, status, workVars, ctlVars, panicked, envVars>>

ResetRunning == /\ Step("resume.reset", "resume.close")
                /\ Reset({"running"}, "pending")
                /\ UNCHANGED <<execVars, node, workVars, ctlVars, panicked, envVars>>

CloseResume == /\ Step("resume.close", "resume.pauseCh")
               /\ resumeCh' = Close(resumeCh)
               /\ panicked' = resumeCh.closed
               /\ UNCHANGED <<execVars, node, status, workVars, paused, restructuring,
                              pauseCh, ctxDone, graphReplace, active, envVars>>

RenewPauseCh == /\ Step("resume.pauseCh", "resume.resumeCh")
                /\ pauseCh' = Open(pauseCh.made + 1)
                /\ UNCHANGED <<execVars, node, status, workVars, paused, restructuring,
                               resumeCh, ctxDone, graphReplace, active, panicked, envVars>>

RenewResumeCh == /\ Step("resume.resumeCh", "none")
                 /\ resumeCh' = Open(resumeCh.made + 1)
                 /\ UNCHANGED <<execVars, node, status, workVars, paused, restructuring,
                                pauseCh, ctxDone, graphReplace, active, panicked, envVars>>

BeginCancel == /\ Begin("cancel", "cancel.ctx", 0)
               /\ Reset({"pending", "running"}, "cancelled")
               /\ UNCHANGED <<execVars, node, workVars, ctlVars, envVars>>

CancelContext == /\ Step("cancel.ctx", "cancel.gate")
                 /\ ctxDone' = TRUE
                 /\ Stop(Live)
                 /\ UNCHANGED <<execVars, node, status, at, job, cancels, paused, restructuring,
                                pauseCh, resumeCh, graphReplace, active, panicked, envVars>>

OpenGate == /\ Step("cancel.gate", "none")
            /\ paused' = FALSE
            /\ resumeCh' = IF paused THEN Close(resumeCh) ELSE resumeCh
            /\ panicked' = (paused /\ resumeCh.closed)
            /\ UNCHANGED <<execVars, node, status, workVars, restructuring,
                           pauseCh, ctxDone, graphReplace, active, envVars>>

\* An amendment below which something runs becomes a restructuring.
BeginAmend(t) ==
    /\ Begin("amend", IF HasRunningDependents(Deps, View(active), t)
                      THEN "restructure" ELSE "amend.reset", t)
    /\ UNCHANGED <<execVars, node, status, workVars, ctlVars, envVars>>

ResetAmended == /\ Step("amend.reset", "amend.cancel")
                /\ status' = [status EXCEPT ![Node(graph, user[2])] = "pending"]
                /\ UNCHANGED <<execVars, node, workVars, ctlVars, panicked, envVars>>

StopAmended == /\ Step("amend.cancel", "none")
               /\ Stop(cancels[user[2]])
               /\ UNCHANGED <<execVars, node, status, at, job, cancels, ctlVars,
                              panicked, envVars>>

\* The goroutines stop quietly from here until Execute takes the new graph.
BeginRestructure == /\ Begin("restructure", "restructure", 0)
                    /\ UNCHANGED <<execVars, node, status, workVars, ctlVars, envVars>>

StopForRestructure == /\ Step("restructure", "restructure.build")
                      /\ restructuring' = TRUE
                      /\ CancelAllRunning
                      /\ UNCHANGED <<execVars, node, status, at, job, cancels, paused, pauseCh,
                                     resumeCh, ctxDone, graphReplace, active, panicked, envVars>>

\* The model may fail to decompose what remains; then nothing is undone.
GiveUpRestructure == /\ Step("restructure.build", "none")
                     /\ UNCHANGED <<execVars, node, status, workVars, ctlVars, panicked, envVars>>

\* The completed nodes are kept, everything else starts afresh.
BuildGraph == /\ Step("restructure.build", "restructure.replace")
              /\ active < MaxGen
              /\ active' = active + 1
              /\ node' = [node EXCEPT ![active + 1] =
                             [t \in Tasks |-> IF View(active)[t] = "completed"
                                              THEN node[active][t] ELSE active + 1]]
              /\ UNCHANGED <<execVars, status, workVars, paused, restructuring, pauseCh,
                             resumeCh, ctxDone, graphReplace, panicked, envVars>>

\* The graph is dropped when Execute has not taken the one before.
ReplaceGraph == /\ Step("restructure.replace", "none")
                /\ graphReplace' = IF graphReplace = 0 THEN active ELSE graphReplace
                /\ UNCHANGED <<execVars, node, status, workVars, paused, restructuring, pauseCh,
                               resumeCh, ctxDone, active, panicked, envVars>>

Ask == \/ BeginPause \/ BeginResume \/ BeginCancel \/ BeginRestructure
       \/ \E t \in Tasks : BeginAmend(t)

Answer == \/ ClosePause \/ StopForPause
          \/ ResetRunning \/ CloseResume \/ RenewPauseCh \/ RenewResumeCh
          \/ CancelContext \/ OpenGate
          \/ ResetAmended \/ StopAmended
          \/ StopForRestructure \/ GiveUpRestructure \/ BuildGraph \/ ReplaceGraph

Next == \/ ~panicked /\ Execute
        \/ \E w \in Slots : ~panicked /\ Worker(w)
        \/ ~panicked /\ Ask
        \/ ~panicked /\ Answer

(* Execute and the goroutines are scheduled, agents answer or time out, and *)
(* an operation the user began is carried to its end.                       *)
Spec == /\ Init
        /\ [][Next]_vars
        /\ WF_vars(~panicked /\ Execute)
        /\ \A w \in Slots : WF_vars(~panicked /\ Worker(w))
        /\ WF_vars(~panicked /\ Answer)

-----------------------------------------------------------------------------
(* `pending` is what Execute waits on, and drains after a pause: it counts  *)
(* the goroutines alive and those that ended but were not received yet, the *)
(* one about to be launched included.                                       *)
PendingCountsGoroutines ==
    pc # "returned" =>
        pending = Cardinality(Live) + Len(doneCh) + (IF pc = "launch" THEN 1 ELSE 0)

(* Until a restructured graph is taken, no task is executed by two          *)
(* goroutines at a time, however often it is amended, lost or retried and   *)
(* however the execution is paused.                                         *)
OneGoroutinePerTask ==
    graph = 0 => \A v, w \in Live : job[v] = job[w] => v = w

(* Both: what is waited for is what runs, and for one task once.            *)
GoroutinesAreCounted == PendingCountsGoroutines /\ OneGoroutinePerTask

(* Until then, too, whatever runs can be stopped: the cancel function kept  *)
(* under a task's ID is that of the goroutine that executes it.             *)
RunningCanBeStopped == graph = 0 => \A w \in Live : cancels[job[w][1]] = {w}

(* Until a second restructured graph is taken, a task is left "running"     *)
(* with no goroutine to execute it only while a pause, a restructuring or a *)
(* cancellation is about to deal with it.                                   *)
RunningIsExecuted ==
    graph <= 1 => \A t \in Tasks : status[Node(graph, t)] = "running" =>
        \/ \E w \in Live : job[w] = Node(graph, t)
        \/ pc = "launch" /\ t \in First
        \/ paused \/ user[1] = "resume.reset"
        \/ restructuring \/ ctxDone

(* A per-profile limit is never exceeded.                                   *)
LimitsHold == \A a \in Agents : Limit[a] > 0 => Cardinality(InFlight(a)) <= Limit[a]

(* Every execution ends, and never because Execute finds itself with tasks  *)
(* left and nothing to wait for.                                            *)
Ends == <>(pc = "returned") /\ [](result # "deadlock")

(* A cancelled request ends, wherever Execute was and whatever was paused.  *)
CancelEnds == ctxDone ~> (pc = "returned" \/ panicked)

(* A failed result counts once the router declined to retry it.             *)
Settled == [t \in Tasks |->
    IF View(0)[t] = "failed" /\ \E w \in Live : at[w] = "check" /\ job[w] = Node(0, t)
    THEN "running" ELSE View(0)[t]]

(* Without the user's operations the scheduler runs the graph as promised.  *)
Promise == INSTANCE GraphRun WITH Graphs <- {Deps}, deps <- Deps, status <- Settled
PromisedRun == Promise!Safe
=============================================================================
