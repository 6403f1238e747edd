------------------------------ MODULE Conductor ------------------------------
(***************************************************************************)
(* The life of a conductor (internal/conductor/conductor.go): it starts,   *)
(* becomes the leader of its fabric, recovers what the conductor before it *)
(* left, handles one request after the other, and shuts down or crashes.   *)
(* The control plane it works on has the leader, the records of requests   *)
(* and tasks, and the task leases.                                         *)
(*                                                                         *)
(* The execution of a graph is only what its records and leases show of    *)
(* it: Scheduler and Dispatch have the rest.  Likewise a call of the store *)
(* is one step, as the stores make it.                                     *)
(***************************************************************************)
EXTENDS Integers, FiniteSets, FiniteSetsExt, Functions

CONSTANTS Conductors,      (* processes, one after the other or at once     *)
          IDs,
          ConductorID,     (* [Conductors -> IDs]                           *)
          Asked,           (* bound: those that users give requests to      *)
          Requests, Tasks, (* numbers                                       *)
          Loops,           (* the tasks that a review loop is for           *)
          Plans,           (* the graphs that a request may be decomposed to *)
          None,
          MaxFaults        (* bound: crashes, shutdowns, lapses, failures   *)

ASSUME ConductorAssumption ==
    /\ ConductorID \in [Conductors -> IDs]
    /\ Requests \subseteq Nat
    /\ Tasks \subseteq Nat /\ IsFiniteSet(Tasks)
    /\ Loops \subseteq Tasks
    /\ Asked \subseteq Conductors
    /\ Plans \in [Requests -> SUBSET ((SUBSET Tasks) \ {{}})]
    /\ None \notin IDs \cup Requests
    /\ MaxFaults \in Nat

VARIABLES
    pc,          (* where Start, Shutdown and the process are               *)
    held,        (* leaderLease: its epoch, 0 for nil                       *)
    beating,     (* a heartbeat is in flight while Shutdown goes on         *)
    found,       (* reconcileRecoveredRequests: the requests listed running *)
    left,        (* those not settled yet, the one at hand first            *)
    seen,        (* its tasks as they were listed                           *)
    stage,       (* where HandleRequest is                                  *)
    req,         (* its request                                             *)
    stopped,     (* its context is cancelled                                *)
    node,        (* the tasks of the graph it executes                      *)
    first,       (* those of the graph it decomposed, once it is replaced   *)
    verdict,     (* the state it will record                                *)
    learning,    (* knowledgeWg                                             *)
    leader, epoch, elapsed,     (* the leader lease, as LeaseStore has it   *)
    state,       (* RequestRecord.State                                     *)
    task,        (* TaskRecord.Status                                       *)
    unsaved,     (* the task records whose last write was lost              *)
    lease,       (* owner of the task lease                                 *)
    placed,      (* the dispatches of a process that hold a lease           *)
    begun,       (* history: the numbers that were given to requests        *)
    outcome,     (* history: the graphs as their execution left them        *)
    amended,     (* history: requests whose graph was replaced              *)
    lapsed,      (* history: a process at work was not, or no more, leader  *)
    faults

startVars == <<pc, held, beating, found, left, seen>>
handleVars == <<stage, req, stopped, node, first, verdict, learning>>
leaderVars == <<leader, epoch, elapsed>>
recordVars == <<state, task, unsaved, lease>>
historyVars == <<begun, outcome, amended, lapsed>>
vars == <<startVars, handleVars, leaderVars, recordVars, placed, historyVars, faults>>

-----------------------------------------------------------------------------
Recovering == {"list", "next", "release", "mark", "settle"}

Places == {"off", "acquire", "setup", "serve", "leave", "exit"} \cup Recovering

Stages == {"idle", "clarify", "asking", "wait", "decompose", "record", "execute", "close"}

Ended == {"completed", "failed", "cancelled"}

\* A loop task may end escalated: with what it has, or with nothing.
Status == {"none", "pending", "running", "interrupted", "escalated", "fruitless"} \cup Ended

Absent == [t \in Tasks |-> "none"]

StartTypeOK ==
    /\ pc \in [Conductors -> Places]
    /\ held \in [Conductors -> Nat]
    /\ beating \in [Conductors -> BOOLEAN]
    /\ found \in [Conductors -> SUBSET Requests]
    /\ left \in [Conductors -> SUBSET Requests]
    /\ seen \in [Conductors -> [Tasks -> Status]]

HandleTypeOK ==
    /\ stage \in [Conductors -> Stages]
    /\ req \in [Conductors -> Requests \cup {None}]
    /\ stopped \in [Conductors -> BOOLEAN]
    /\ node \in [Conductors -> [Tasks -> Status]]
    /\ first \in [Conductors -> [Tasks -> Status]]
    /\ verdict \in [Conductors -> Ended \cup {None}]
    /\ learning \in [Conductors -> BOOLEAN]

RecordTypeOK ==
    /\ state \in [Requests -> Status]
    /\ task \in [Requests -> [Tasks -> Status]]
    /\ unsaved \subseteq Requests \X Tasks
    /\ lease \in [Requests -> [Tasks -> IDs \cup {None}]]

LeaderTypeOK == leader \in IDs \cup {None} /\ epoch \in Nat /\ elapsed \in BOOLEAN

HistoryTypeOK == /\ begun \subseteq Requests /\ amended \subseteq Requests /\ lapsed \in BOOLEAN
                 /\ outcome \in [Requests -> [Tasks -> Status]]

TypeOK == /\ StartTypeOK /\ HandleTypeOK /\ LeaderTypeOK /\ RecordTypeOK /\ HistoryTypeOK
          /\ placed \in [Conductors -> SUBSET (Requests \X Tasks)]
          /\ faults \in Nat

Init ==
    /\ pc = [c \in Conductors |-> "off"]
    /\ held = [c \in Conductors |-> 0]
    /\ beating = [c \in Conductors |-> FALSE]
    /\ found = [c \in Conductors |-> {}]
    /\ left = [c \in Conductors |-> {}]
    /\ seen = [c \in Conductors |-> Absent]
    /\ stage = [c \in Conductors |-> "idle"]
    /\ req = [c \in Conductors |-> None]
    /\ stopped = [c \in Conductors |-> FALSE]
    /\ node = [c \in Conductors |-> Absent]
    /\ first = [c \in Conductors |-> Absent]
    /\ verdict = [c \in Conductors |-> None]
    /\ learning = [c \in Conductors |-> FALSE]
    /\ leader = None /\ epoch = 0 /\ elapsed = FALSE
    /\ state = [r \in Requests |-> "none"]
    /\ task = [r \in Requests |-> Absent]
    /\ unsaved = {}
    /\ lease = [r \in Requests |-> [t \in Tasks |-> None]]
    /\ placed = [c \in Conductors |-> {}]
    /\ begun = {} /\ amended = {} /\ lapsed = FALSE
    /\ outcome = [r \in Requests |-> Absent]
    /\ faults = 0

Go(c, place) == pc' = [pc EXCEPT ![c] = place]
Enter(c, s) == stage' = [stage EXCEPT ![c] = s]

Fault == /\ faults < MaxFaults
         /\ faults' = faults + 1

Alive(c) == pc[c] # "off"
Handles(c) == Alive(c) /\ stage[c] # "idle"
HandledBy(c, r) == Handles(c) /\ req[c] = r

-----------------------------------------------------------------------------
(* Start.                                                                   *)

\* RegisterNode, which may fail, comes before leadership.
Start(c) == /\ pc[c] = "off"
            /\ Go(c, "acquire")
            /\ UNCHANGED <<held, beating, found, left, seen, handleVars, leaderVars,
                           recordVars, placed, historyVars, faults>>

\* Mutant: a lease is never in the way.
HeldByNobody(c) == FALSE

HeldByOther(c) == leader # None /\ ~elapsed /\ leader # ConductorID[c]

\* The lease is granted again to who has it, under a new epoch.
AcquireLeader(c) == IF HeldByOther(c)
                    THEN UNCHANGED <<held, leaderVars>>
                    ELSE /\ leader' = ConductorID[c]
                         /\ epoch' = epoch + 1
                         /\ elapsed' = FALSE
                         /\ held' = [held EXCEPT ![c] = epoch']

\* Start fails when another conductor leads; the program then shuts down.
Lead(c) == /\ pc[c] = "acquire"
           /\ AcquireLeader(c)
           /\ Go(c, IF HeldByOther(c) THEN "leave" ELSE "list")
           /\ UNCHANGED <<beating, found, left, seen, handleVars, recordVars, placed,
                          historyVars, faults>>

\* A call of the store that fails ends Start, and so does an agent that does not come.
StartFails(c) == /\ pc[c] \in {"acquire", "setup"} \cup Recovering
                 /\ Fault
                 /\ Go(c, "leave")
                 /\ UNCHANGED <<held, beating, found, left, seen, handleVars, leaderVars,
                                recordVars, placed, historyVars>>

Setup(c) == /\ pc[c] = "setup"
            /\ Go(c, "serve")
            /\ UNCHANGED <<held, beating, found, left, seen, handleVars, leaderVars,
                           recordVars, placed, historyVars, faults>>

-----------------------------------------------------------------------------
(* reconcileRecoveredRequests: request after request, task after task.      *)

AtHand(c) == Min(left[c])

\* The tasks of the request at hand that are still to be looked at.
ToDo(c) == {t \in Tasks : seen[c][t] # "none"}

ListRequests(c) ==
    /\ pc[c] = "list"
    /\ found' = [found EXCEPT ![c] = {r \in Requests : state[r] = "running"}]
    /\ left' = [left EXCEPT ![c] = found'[c]]
    /\ Go(c, "next")
    /\ UNCHANGED <<held, beating, seen, handleVars, leaderVars, recordVars, placed,
                   historyVars, faults>>

ListTasks(c) ==
    /\ pc[c] = "next"
    /\ IF left[c] = {} THEN Go(c, "setup") /\ UNCHANGED seen
       ELSE /\ seen' = [seen EXCEPT ![c] = task[AtHand(c)]]
            /\ Go(c, IF ToDo(c)' = {} THEN "settle" ELSE "release")
    /\ UNCHANGED <<held, beating, found, left, handleVars, leaderVars, recordVars, placed,
                   historyVars, faults>>

\* Mutant: a task that waits is left as it is.
RunningOnly(status) == status = "running"

Recoverable(status) == status \in {"pending", "running"}

\* What is left of the tasks when this one is done.
NextTask(c) == /\ seen' = [seen EXCEPT ![c][Min(ToDo(c))] = "none"]
               /\ Go(c, IF Cardinality(ToDo(c)) = 1 THEN "settle" ELSE "release")

\* GetTaskLease and ReleaseTaskLease, which releases what was read or nothing.
ReleaseStale(c) ==
    /\ pc[c] = "release"
    /\ lease' = [lease EXCEPT ![AtHand(c)][Min(ToDo(c))] = None]
    /\ IF Recoverable(seen[c][Min(ToDo(c))]) THEN Go(c, "mark") /\ UNCHANGED seen
                                            ELSE NextTask(c)
    /\ UNCHANGED <<held, beating, found, left, handleVars, leaderVars, state, task, unsaved,
                   placed, historyVars, faults>>

InterruptTask(c) ==
    /\ pc[c] = "mark"
    /\ task' = [task EXCEPT ![AtHand(c)][Min(ToDo(c))] = "interrupted"]
    /\ unsaved' = unsaved \ {<<AtHand(c), Min(ToDo(c))>>}
    /\ NextTask(c)
    /\ UNCHANGED <<held, beating, found, left, handleVars, leaderVars, state, lease, placed,
                   historyVars, faults>>

InterruptRequest(c) ==
    /\ pc[c] = "settle"
    /\ state' = [state EXCEPT ![AtHand(c)] = "interrupted"]
    /\ left' = [left EXCEPT ![c] = @ \ {AtHand(c)}]
    /\ Go(c, "next")
    /\ UNCHANGED <<held, beating, found, seen, handleVars, leaderVars, task, unsaved, lease,
                   placed, historyVars, faults>>

Reconcile(c) == \/ ListRequests(c) \/ ListTasks(c) \/ ReleaseStale(c) \/ InterruptTask(c)
                \/ InterruptRequest(c)

-----------------------------------------------------------------------------
(* runLeaderHeartbeatLoop, which starts when the recovery is done.          *)

Leads(c) == held[c] # 0 /\ leader = ConductorID[c] /\ held[c] = epoch

Renew(c) == /\ pc[c] \in {"setup", "serve"}
            /\ held[c] # 0
            /\ held' = [held EXCEPT ![c] = IF Leads(c) /\ ~elapsed THEN @ ELSE 0]
            /\ lapsed' = (lapsed \/ (held'[c] = 0 /\ Handles(c)))
            /\ UNCHANGED <<pc, beating, found, left, seen, handleVars, leaderVars, recordVars,
                           placed, begun, outcome, amended, faults>>

RenewFails(c) == /\ pc[c] \in {"setup", "serve"}
                 /\ held[c] # 0
                 /\ Fault
                 /\ held' = [held EXCEPT ![c] = 0]
                 /\ lapsed' = (lapsed \/ Handles(c))
                 /\ UNCHANGED <<pc, beating, found, left, seen, handleVars, leaderVars,
                                recordVars, placed, begun, outcome, amended>>

\* Nothing is recovered this time.
Reacquire(c) == /\ \/ pc[c] \in {"setup", "serve"}
                   \/ pc[c] \in {"leave", "exit"} /\ beating[c]
                /\ held[c] = 0
                /\ AcquireLeader(c)
                /\ beating' = [beating EXCEPT ![c] = FALSE]
                /\ UNCHANGED <<pc, found, left, seen, handleVars, recordVars, placed,
                               historyVars, faults>>

\* The TTL passes with nobody there to renew, or with a leader that is late.
Elapse == /\ leader # None /\ ~elapsed
          /\ IF \E c \in Conductors : Alive(c) /\ Leads(c)
             THEN /\ Fault
                  /\ lapsed' = TRUE
             ELSE UNCHANGED <<faults, lapsed>>
          /\ elapsed' = TRUE
          /\ UNCHANGED <<startVars, handleVars, leader, epoch, recordVars, placed, begun, outcome,
                         amended>>

-----------------------------------------------------------------------------
(* HandleRequest.                                                           *)

\* A new UUID each time.
Fresh == Requests \ begun

Begin(c) == /\ c \in Asked
            /\ pc[c] = "serve" /\ stage[c] = "idle"
            /\ Fresh # {}
            /\ req' = [req EXCEPT ![c] = Min(Fresh)]
            /\ begun' = begun \cup {Min(Fresh)}
            /\ Enter(c, "clarify")
            /\ lapsed' = (lapsed \/ held[c] = 0)
            /\ UNCHANGED <<startVars, stopped, node, first, verdict, learning, leaderVars, recordVars,
                           placed, outcome, amended, faults>>

\* HandleRequest returns, and its locals are gone.
Leave(c) == /\ Enter(c, "idle")
            /\ stopped' = [stopped EXCEPT ![c] = FALSE]
            /\ node' = [node EXCEPT ![c] = Absent]
            /\ first' = [first EXCEPT ![c] = Absent]
            /\ verdict' = [verdict EXCEPT ![c] = None]

\* The request is clear, or the check is skipped or fails, or the user is asked.
Disambiguate(c) == /\ stage[c] = "clarify"
                   /\ Enter(c, "asking") \/ Enter(c, "wait")
                   /\ UNCHANGED <<startVars, req, stopped, node, first, verdict, learning,
                                  leaderVars, recordVars, placed, historyVars, faults>>

\* Mutant: only an answer ends the wait for one.
AnswerOnly(c) == /\ stage[c] = "asking" /\ ~stopped[c]
                 /\ Enter(c, "wait")
                 /\ UNCHANGED <<startVars, req, stopped, node, first, verdict, learning,
                                leaderVars, recordVars, placed, historyVars, faults>>

UserAnswers(c) == /\ stage[c] = "asking"
                  /\ IF stopped[c] THEN Leave(c)
                     ELSE Enter(c, "wait") /\ UNCHANGED <<stopped, node, first, verdict>>
                  /\ UNCHANGED <<startVars, req, learning, leaderVars, recordVars, placed, historyVars, faults>>

\* knowledgeWg.Wait: what the last request taught is there.
WaitForKnowledge(c) == /\ stage[c] = "wait"
                       /\ ~learning[c]
                       /\ Enter(c, "decompose")
                       /\ UNCHANGED <<startVars, req, stopped, node, first, verdict, learning,
                                      leaderVars, recordVars, placed, historyVars, faults>>

\* knowledge.Generate and Apply; what goes wrong is logged.
Learn(c) == /\ learning[c]
            /\ learning' = [learning EXCEPT ![c] = FALSE]
            /\ UNCHANGED <<startVars, stage, req, stopped, node, first, verdict, leaderVars,
                           recordVars, placed, historyVars, faults>>

Graph(S) == [t \in Tasks |-> IF t \in S THEN "pending" ELSE "none"]

\* The model fails, finds nothing to do, or plans; a strict template plans
\* without it, and for a request that was stopped too.
Decompose(c) ==
    /\ stage[c] = "decompose"
    /\ \/ Leave(c)
       \/ \E S \in Plans[req[c]] :
             /\ node' = [node EXCEPT ![c] = Graph(S)]
             /\ Enter(c, "record")
             /\ UNCHANGED <<stopped, first, verdict>>
    /\ UNCHANGED <<startVars, req, learning, leaderVars, recordVars, placed, historyVars, faults>>

\* To the record an escalated task is one whether it left artifacts or not.
Recorded(status) == IF status = "fruitless" THEN "escalated" ELSE status

\* syncTaskState for some tasks of a graph: what fails is logged, and lost.
Write(r, g, T, lost) ==
    /\ task' = [task EXCEPT ![r] = [t \in Tasks |-> IF t \in T \ lost THEN Recorded(g[t]) ELSE @[t]]]
    /\ unsaved' = (unsaved \ ({r} \X T)) \cup ({r} \X lost)

\* A write fails with the store, or under the context of a stopped request.
MayFail(fails) == IF fails THEN Fault ELSE UNCHANGED faults

Save(r, g, T) == \E lost \in SUBSET T : Write(r, g, T, lost) /\ MayFail(lost # {})

InGraph(g) == {t \in Tasks : g[t] # "none"}

\* upsertRequestState logs a failure too.
Record(c) ==
    /\ stage[c] = "record"
    /\ \E recorded \in BOOLEAN, lost \in SUBSET InGraph(node[c]) :
          /\ state' = IF recorded THEN [state EXCEPT ![req[c]] = "running"] ELSE state
          /\ Write(req[c], node[c], InGraph(node[c]), lost)
          /\ MayFail(~recorded \/ lost # {})
    /\ Enter(c, "execute")
    /\ UNCHANGED <<startVars, req, stopped, node, first, verdict, learning, leaderVars, lease,
                   placed, historyVars>>

-----------------------------------------------------------------------------
(* Execute, as the control plane sees it.                                   *)

Set(c, t, status) == /\ node' = [node EXCEPT ![c][t] = status]
                     /\ Save(req[c], node'[c], {t})

KeepsHandling == UNCHANGED <<req, stopped, first, verdict, learning>>

Dispatch(c, t) == /\ stage[c] = "execute"
                  /\ node[c][t] = "pending"
                  /\ Set(c, t, "running")
                  /\ KeepsHandling
                  /\ UNCHANGED <<startVars, stage, leaderVars, state, lease, placed,
                                 historyVars>>

Lease(c, t) == lease[req[c]][t]

\* prepareTaskPlacement: a lease another conductor has fails the task.
Place(c, t) == /\ stage[c] = "execute"
               /\ node[c][t] = "running" /\ <<req[c], t>> \notin placed[c]
               /\ IF Lease(c, t) \in {None, ConductorID[c]}
                  THEN /\ lease' = [lease EXCEPT ![req[c]][t] = ConductorID[c]]
                       /\ placed' = [placed EXCEPT ![c] = @ \cup {<<req[c], t>>}]
                       /\ UNCHANGED <<node, task, unsaved, faults>>
                  ELSE /\ Set(c, t, "failed")
                       /\ UNCHANGED <<lease, placed>>
               /\ KeepsHandling
               /\ UNCHANGED <<startVars, stage, leaderVars, state, historyVars>>

\* finishTaskPlacement
Unplace(c, r, t) ==
    /\ lease' = IF lease[r][t] = ConductorID[c] THEN [lease EXCEPT ![r][t] = None] ELSE lease
    /\ placed' = [placed EXCEPT ![c] = @ \ {<<r, t>>}]

\* Only a loop task can end escalated.
Ends(t) == {"completed", "failed"} \cup (IF t \in Loops THEN {"escalated", "fruitless"} ELSE {})

\* A result that was there already counts against a cancellation.
Result(c, t, status) == /\ stage[c] = "execute"
                        /\ <<req[c], t>> \in placed[c]
                        /\ node[c][t] \in {"running", "cancelled"}
                        /\ Set(c, t, status)
                        /\ Unplace(c, req[c], t)
                        /\ KeepsHandling
                        /\ UNCHANGED <<startVars, stage, leaderVars, state, historyVars>>

\* checkTaskExecutionHealth, prepareTaskForRedispatch
LoseLease(c, t) == /\ stage[c] = "execute"
                   /\ <<req[c], t>> \in placed[c] /\ node[c][t] = "running"
                   /\ Lease(c, t) # ConductorID[c]
                   /\ Set(c, t, "pending")
                   /\ Unplace(c, req[c], t)
                   /\ KeepsHandling
                   /\ UNCHANGED <<startVars, stage, leaderVars, state, historyVars>>

Executes(c, r) == stage[c] = "execute" /\ req[c] = r

Running(c, r, t) == Executes(c, r) /\ node[c][t] = "running"

\* The task that a dispatch is of may still run: in the graph it is executed in,
\* in one that was replaced, or in what Execute left when it returned.
StillRuns(c, r, t) == \/ Running(c, r, t)
                      \/ r \in amended
                      \/ ~Executes(c, r) /\ outcome[r][t] = "running"

\* A dispatch that was cancelled, or whose request is over.  It leaves the task
\* alone, or has it fail if it still runs.
Unwind(c, r, t) ==
    /\ Alive(c) /\ <<r, t>> \in placed[c]
    /\ Running(c, r, t) => stopped[c]
    /\ Unplace(c, r, t)
    /\ \/ ~Running(c, r, t) /\ UNCHANGED <<node, task, unsaved, faults>>
       \/ /\ StillRuns(c, r, t)
          /\ Save(r, [u \in Tasks |-> "failed"], {t})
          /\ node' = IF Running(c, r, t) THEN [node EXCEPT ![c][t] = "failed"] ELSE node
    /\ KeepsHandling
    /\ UNCHANGED <<startVars, stage, leaderVars, state, historyVars>>

Active(c) == {t \in Tasks : node[c][t] \in {"pending", "running"}}

\* CancelExecution: before there is a scheduler only the context is cancelled.
CancelExecution(c, lost) ==
    /\ stopped' = [stopped EXCEPT ![c] = TRUE]
    /\ IF stage[c] = "execute"
       THEN /\ node' = [node EXCEPT ![c] =
                          [t \in Tasks |-> IF t \in Active(c) THEN "cancelled" ELSE @[t]]]
            /\ Write(req[c], node'[c], Active(c), lost)
       ELSE lost = {} /\ UNCHANGED <<node, task, unsaved>>
    /\ UNCHANGED <<stage, req, first, verdict, learning, state, lease>>

Cancel(c) == /\ pc[c] = "serve"
             /\ stage[c] # "idle" /\ ~stopped[c]
             /\ \E lost \in SUBSET Active(c) :
                   CancelExecution(c, lost) /\ MayFail(lost # {})
             /\ UNCHANGED <<startVars, leaderVars, placed, historyVars>>

\* RestructureGraph: what is done is kept, what is not makes room for new tasks,
\* which may have the names of old ones.
Restructure(c) ==
    /\ stage[c] = "execute" /\ ~stopped[c]
    /\ req[c] \notin amended /\ Active(c) # {}
    /\ amended' = amended \cup {req[c]}
    /\ LET done == {t \in Tasks : node[c][t] = "completed"}
       IN  \E S \in Plans[req[c]] :
              /\ S \ done # {}
              /\ node' = [node EXCEPT ![c] = [t \in Tasks |-> IF t \in done THEN "completed"
                                                              ELSE Graph(S)[t]]]
    /\ first' = [first EXCEPT ![c] = node[c]]
    /\ UNCHANGED <<startVars, stage, req, stopped, verdict, learning, leaderVars, recordVars,
                   placed, begun, outcome, lapsed, faults>>

-----------------------------------------------------------------------------
(* The verdict.                                                             *)

\* The graph HandleRequest has in hand is the one it decomposed.
Judged(c) == IF first[c] = Absent THEN node[c] ELSE first[c]

Outcomes(g) == {g[t] : t \in Tasks} \ {"none"}

\* Mutant: an escalated task counts whatever it left.
VerdictOnStatus(g, failed) ==
    IF Outcomes(g) = {"cancelled"} THEN "cancelled"
    ELSE IF failed \/ {"failed", "cancelled"} \cap Outcomes(g) # {} THEN "failed"
    ELSE "completed"

\* HasFailures
Verdict(g, failed) ==
    IF Outcomes(g) = {"cancelled"} THEN "cancelled"
    ELSE IF failed \/ {"failed", "cancelled", "fruitless"} \cap Outcomes(g) # {} THEN "failed"
    ELSE "completed"

\* Execute returns when all is done and writes the records once more, or with an
\* error when the context is cancelled.
Return(c) ==
    /\ stage[c] = "execute"
    /\ \E failed \in BOOLEAN :
          /\ IF failed THEN stopped[c] /\ UNCHANGED <<task, unsaved, faults>>
             ELSE Active(c) = {} /\ Save(req[c], node[c], InGraph(node[c]))
          /\ verdict' = [verdict EXCEPT ![c] = Verdict(Judged(c), failed)]
          /\ learning' = [learning EXCEPT ![c] = @ \/ (verdict'[c] # "cancelled" /\ ~failed)]
    /\ outcome' = [outcome EXCEPT ![req[c]] = node[c]]
    /\ Enter(c, "close")
    /\ UNCHANGED <<startVars, req, stopped, node, first, leaderVars, state, lease, placed,
                   begun, amended, lapsed>>

Close(c) == /\ stage[c] = "close"
            /\ \/ /\ state' = [state EXCEPT ![req[c]] = verdict[c]]
                  /\ UNCHANGED faults
               \/ /\ Fault
                  /\ UNCHANGED state
            /\ Leave(c)
            /\ UNCHANGED <<startVars, req, learning, leaderVars,
                           task, unsaved, lease, placed, historyVars>>

-----------------------------------------------------------------------------
(* The end of the process.                                                  *)

\* The request is told to end, and not waited for.
Shutdown(c) == /\ pc[c] \in {"setup", "serve"}
               /\ Fault
               /\ IF Handles(c) THEN \E lost \in SUBSET Active(c) : CancelExecution(c, lost)
                                ELSE UNCHANGED <<handleVars, recordVars>>
               /\ beating' = [beating EXCEPT ![c] = held[c] = 0]
               /\ Go(c, "leave")
               /\ UNCHANGED <<held, found, left, seen, leaderVars, placed, historyVars>>

\* stopControlPlane
ReleaseLeader(c) ==
    /\ pc[c] = "leave"
    /\ leader' = IF Leads(c) THEN None ELSE leader
    /\ held' = [held EXCEPT ![c] = 0]
    /\ lapsed' = (lapsed \/ Handles(c))
    /\ Go(c, "exit")
    /\ UNCHANGED <<beating, found, left, seen, handleVars, epoch, elapsed, recordVars, placed,
                   begun, outcome, amended, faults>>

\* Nothing of the process is left but what it wrote.
Gone(c) == /\ Go(c, "off")
           /\ held' = [held EXCEPT ![c] = 0]
           /\ beating' = [beating EXCEPT ![c] = FALSE]
           /\ found' = [found EXCEPT ![c] = {}]
           /\ left' = [left EXCEPT ![c] = {}]
           /\ seen' = [seen EXCEPT ![c] = Absent]
           /\ Leave(c)
           /\ learning' = [learning EXCEPT ![c] = FALSE]
           /\ placed' = [placed EXCEPT ![c] = {}]
           /\ UNCHANGED <<req, leaderVars, recordVars, historyVars>>

Exit(c) == pc[c] = "exit" /\ Gone(c) /\ UNCHANGED faults

Crash(c) == Alive(c) /\ Fault /\ Gone(c)

-----------------------------------------------------------------------------
Starting(c) == Start(c) \/ Lead(c) \/ Reconcile(c) \/ Setup(c)

Executing(c) == \/ \E t \in Tasks : \/ Dispatch(c, t) \/ Place(c, t) \/ LoseLease(c, t)
                                    \/ \E s \in Ends(t) : Result(c, t, s)
                \/ Return(c)

Handling(c) == \/ Disambiguate(c) \/ UserAnswers(c) \/ WaitForKnowledge(c) \/ Decompose(c)
               \/ Record(c) \/ Executing(c) \/ Close(c)

Beat(c) == Renew(c) \/ RenewFails(c) \/ Reacquire(c)

Next == \/ \E c \in Conductors :
              \/ Starting(c) \/ StartFails(c) \/ Beat(c)
              \/ Begin(c) \/ Handling(c) \/ Learn(c) \/ Cancel(c) \/ Restructure(c)
              \/ \E r \in Requests, t \in Tasks : Unwind(c, r, t)
              \/ Shutdown(c) \/ ReleaseLeader(c) \/ Exit(c) \/ Crash(c)
        \/ Elapse

Spec == Init /\ [][Next]_vars

(* The model answers, the user too, agents end their turns (AgentTurn) and  *)
(* the background work ends.                                                *)
FairSpec == /\ Spec
            /\ \A c \in Asked : WF_vars(Handling(c)) /\ WF_vars(Learn(c))

-----------------------------------------------------------------------------
(* architecture.md: a fabric has one active conductor leader.  That can     *)
(* only fail when a leader was late or let go with work in hand.            *)
Leading(c) == held[c] # 0 /\ pc[c] \in Recovering \cup {"setup", "serve"}

OneActiveLeader ==
    ~lapsed => \A c, d \in Conductors : Leading(c) /\ Leading(d) => c = d

(* When a conductor has started, nothing that it found counts as running    *)
(* any more; and a request that counts as interrupted is at rest: no task   *)
(* of it waits or runs, and no lease is left of a task that is on record.   *)
AtRest(r, t) ==
    task[r][t] = "none" \/ (task[r][t] \notin {"pending", "running"} /\ lease[r][t] = None)

RecoveredIsAtRest ==
    /\ \A c \in Conductors : \A r \in found[c] :
          pc[c] \in {"setup", "serve"} => state[r] # "running"
    /\ \A r \in Requests :
          state[r] = "interrupted" /\ ~lapsed => \A t \in Tasks : AtRest(r, t)

\* Every task of the graph that was executed ended with something to show, and
\* its record says so unless it was lost.
Delivered(r) == \A t \in Tasks :
    /\ outcome[r][t] \in {"none", "completed", "escalated"}
    /\ task[r][t] = outcome[r][t] \/ <<r, t>> \in unsaved

(* A request that counts as completed has delivered each of its tasks: none *)
(* failed, was cancelled, is open, or escalated with nothing to show.       *)
CompletedIsDelivered ==
    \A r \in Requests : state[r] = "completed" /\ r \notin amended /\ ~lapsed => Delivered(r)

(* The same of a request that was amended on the way.                       *)
AmendedIsDelivered ==
    \A r \in amended : state[r] = "completed" /\ ~lapsed => Delivered(r)

(* Whatever happens to leases, leaders and stores, the user has a request's *)
(* end.                                                                     *)
RequestsEnd == \A c \in Asked : Handles(c) ~> ~Handles(c)
=============================================================================
