---------------------------- MODULE TaskRun_proofs ----------------------------
(***************************************************************************)
(* The tasks of a request, from their graph to the hands of an agent.      *)
(*                                                                         *)
(* First the safety of GraphRun for every set of tasks and every set of    *)
(* graphs.  RunsOnDelivered is inductive with the type invariant: the      *)
(* tasks with an undelivered dependency are a closed set around every      *)
(* failure, so that a cascade stays within them.  That the algorithms of   *)
(* TaskGraph judge the graph by the definitions given here rests on what   *)
(* they compute.                                                           *)
(*                                                                         *)
(* Then the turn of one task: AgentTurn, its control, and ToolHistory,     *)
(* what its tool loop forgets.  What it works on: Workspace, the files,    *)
(* and TaskInput, what it is told of the tasks it depends on.  Last, what  *)
(* a fabric learns from it: KnowledgeGraph, what a lookup finds, and       *)
(* Knowledge, what a curation keeps.                                       *)
(***************************************************************************)
EXTENDS MCAgentTurn, GraphRun, Knowledge, TaskGraph_proofs, TLAPS

\* "cancelled" is the user's: GraphRun has no step to it.
NoneCancelled == \A t \in Tasks : status[t] # "cancelled"

GraphInv == TypeOK /\ NoneCancelled /\ RunsOnDelivered

-----------------------------------------------------------------------------
(* A closed set of waiting tasks around a failure contains the doomed.      *)
LEMMA DoomedIsLeast ==
    ASSUME NEW f \in Tasks,
           NEW S \in SUBSET Tasks,
           \A u \in S : status[u] \notin {"failed", "completed"},
           \A u \in Tasks : /\ status[u] \notin {"failed", "completed"}
                            /\ u \in Children(deps, S \cup {f})
                            => u \in S
    PROVE  Doomed(f) \subseteq S
  BY DEF Doomed

(* Whatever is doomed by a failure has an undelivered dependency.           *)
LEMMA DoomedWait ==
    ASSUME TypeOK, RunsOnDelivered, NEW f \in Tasks, status[f] = "failed"
    PROVE  \A u \in Doomed(f) : \E d \in deps[u] : status[d] \notin Satisfied
<1> DEFINE S == {u \in Tasks : /\ status[u] \notin {"failed", "completed"}
                               /\ \E d \in deps[u] : status[d] \notin Satisfied}
<1>1. deps \in [Tasks -> SUBSET Tasks] /\ status \in [Tasks -> Status]
  BY GraphAssumption DEF TypeOK
<1>2. ASSUME NEW u \in Tasks, status[u] \notin {"failed", "completed"},
             u \in Children(deps, S \cup {f})
      PROVE  u \in S
  <2>1. PICK d \in deps[u] : d \in S \cup {f}
    BY <1>2 DEF Children
  <2>2. CASE d = f
    BY <2>1, <2>2, <1>2 DEF Satisfied
  <2>3. CASE d \in S
    <3>1. status[d] \notin Satisfied
      BY <2>3 DEF RunsOnDelivered, Satisfied
    <3> QED BY <3>1, <1>2
  <2> QED BY <2>1, <2>2, <2>3
<1>3. \A u \in S : status[u] \notin {"failed", "completed"}
  OBVIOUS
<1>4. S \in SUBSET Tasks
  OBVIOUS
<1> HIDE DEF S
<1>5. Doomed(f) \subseteq S
  BY <1>2, <1>3, <1>4, DoomedIsLeast
<1> QED BY <1>5 DEF S

(* No cascade reaches a task that runs or ended.                            *)
LEMMA DoomedArePending ==
    ASSUME GraphInv, NEW f \in Tasks, status[f] = "failed"
    PROVE  \A u \in Doomed(f) : u \in Tasks /\ status[u] = "pending"
<1>1. \A u \in Doomed(f) : u \in Tasks /\ status[u] \notin {"failed", "completed"}
  BY DEF Doomed
<1>2. \A u \in Doomed(f) : status[u] \notin {"running", "escalated"}
  BY <1>1, DoomedWait DEF GraphInv, RunsOnDelivered
<1>3. \A u \in Tasks : status[u] \in Status \ {"cancelled"}
  BY DEF GraphInv, TypeOK, NoneCancelled
<1> QED BY <1>1, <1>2, <1>3 DEF Status

-----------------------------------------------------------------------------
(* The inductive invariant holds at first.                                  *)
LEMMA InitInv == Init => GraphInv
  BY GraphAssumption
     DEF Init, GraphInv, TypeOK, NoneCancelled, RunsOnDelivered, Status

(* Every step preserves it.                                                 *)
LEMMA StepInv == GraphInv /\ [Next]_vars => GraphInv'
<1> SUFFICES ASSUME GraphInv, [Next]_vars PROVE GraphInv'
  OBVIOUS
<1>1. deps \in [Tasks -> SUBSET Tasks] /\ status \in [Tasks -> Status]
  BY GraphAssumption DEF GraphInv, TypeOK
<1>2. ASSUME NEW t \in Tasks, Start(t) PROVE GraphInv'
  <2>1. TypeOK' /\ NoneCancelled'
    BY <1>1, <1>2 DEF GraphInv, TypeOK, NoneCancelled, Start, Status
  <2>2. status[t] = "pending" /\ \A d \in deps[t] : status[d] \in Satisfied
    BY <1>2 DEF Start, ReadyTasks
  <2>3. RunsOnDelivered'
    BY <1>1, <1>2, <2>2 DEF GraphInv, RunsOnDelivered, Start, Satisfied
  <2> QED BY <2>1, <2>3 DEF GraphInv
<1>3. ASSUME NEW t \in Tasks, Finish(t) PROVE GraphInv'
  <2>1. PICK s \in {"completed", "failed", "escalated"} :
            status' = [status EXCEPT ![t] = s]
    BY <1>3 DEF Finish
  <2>2. status[t] = "running" /\ deps' = deps
    BY <1>3 DEF Finish
  <2>3. TypeOK' /\ NoneCancelled'
    BY <1>1, <2>1, <2>2 DEF GraphInv, TypeOK, NoneCancelled, Status
  <2>4. RunsOnDelivered'
    BY <1>1, <2>1, <2>2 DEF GraphInv, RunsOnDelivered, Satisfied
  <2> QED BY <2>3, <2>4 DEF GraphInv
<1>4. ASSUME NEW t \in Tasks, Requeue(t) PROVE GraphInv'
  <2>1. TypeOK' /\ NoneCancelled'
    BY <1>1, <1>4 DEF GraphInv, TypeOK, NoneCancelled, Requeue, Status
  <2>2. RunsOnDelivered'
    BY <1>1, <1>4 DEF GraphInv, RunsOnDelivered, Requeue, Satisfied
  <2> QED BY <2>1, <2>2 DEF GraphInv
<1>5. ASSUME NEW t \in Tasks, Cascade(t) PROVE GraphInv'
  <2>1. deps' = deps /\ \A u \in Tasks :
            \/ status'[u] = status[u]
            \/ status[u] = "pending" /\ status'[u] = "failed"
    BY <1>5, DoomedArePending DEF Cascade
  <2>2. TypeOK' /\ NoneCancelled'
    BY <1>1, <1>5 DEF GraphInv, TypeOK, NoneCancelled, Cascade, Status
  <2>3. RunsOnDelivered'
    BY <1>1, <2>1 DEF GraphInv, RunsOnDelivered, Satisfied
  <2> QED BY <2>2, <2>3 DEF GraphInv
<1>6. CASE UNCHANGED vars
  BY <1>6 DEF vars, GraphInv, TypeOK, NoneCancelled, RunsOnDelivered
<1> QED BY <1>2, <1>3, <1>4, <1>5, <1>6 DEF Next

(* The invariant holds throughout, whatever is fair.                        *)
THEOREM GraphInvariant == Safe => []GraphInv
  BY InitInv, StepInv, PTL DEF Safe

(* Statuses and graph keep their types.                                     *)
THEOREM TypeCorrect == Safe => []TypeOK
<1>1. GraphInv => TypeOK
  BY DEF GraphInv
<1> QED BY <1>1, GraphInvariant, PTL

(* A task runs on delivered inputs only, in every graph.                    *)
THEOREM DeliveredInputs == Safe => []RunsOnDelivered
<1>1. GraphInv => RunsOnDelivered
  BY DEF GraphInv
<1> QED BY <1>1, GraphInvariant, PTL

(* No acyclic graph gets stuck: of the pending tasks that wait for no other *)
(* pending task, one is ready, or a failure has still to be cascaded.       *)
THEOREM Progress == Safe => []NeverStuck
<1>1. GraphInv => NeverStuck
  <2> SUFFICES ASSUME GraphInv, Acyclic, ~AllDone(deps, status),
                      \A t \in Tasks : status[t] # "running",
                      \A t \in Tasks : status[t] = "failed" => Doomed(t) = {}
               PROVE  ReadyTasks(deps, status) # {}
    BY DEF NeverStuck
  <2>1. deps \in [Tasks -> SUBSET Tasks] /\ status \in [Tasks -> Status]
    BY GraphAssumption DEF GraphInv, TypeOK
  <2> DEFINE P == {t \in Tasks : status[t] = "pending"}
  <2>2. P # {} /\ P \in SUBSET Tasks
    BY <2>1 DEF AllDone
  <2>3. PICK t \in P : deps[t] \cap P = {}
    BY <2>2 DEF Acyclic
  <2>4. ASSUME NEW d \in deps[t] PROVE status[d] \in Satisfied
    <3>1. d \in Tasks /\ status[d] \in Status
      BY <2>1, <2>3
    <3>2. status[d] \notin {"pending", "running", "cancelled"}
      BY <2>3, <3>1 DEF GraphInv, NoneCancelled
    <3>3. status[d] # "failed"
      <4> SUFFICES ASSUME status[d] = "failed" PROVE t \in Doomed(d)
        BY <3>1
      <4>1. t \in Tasks /\ status[t] \notin {"failed", "completed"}
        BY <2>3
      <4>2. \A S : t \in Children(deps, S \cup {d})
        BY <2>1, <4>1 DEF Children
      <4> QED BY <4>1, <4>2 DEF Doomed
    <3> QED BY <3>1, <3>2, <3>3 DEF Status, Satisfied
  <2>5. t \in ReadyTasks(deps, status)
    BY <2>1, <2>3, <2>4 DEF ReadyTasks
  <2> QED BY <2>5
<1> QED BY <1>1, GraphInvariant, PTL

(* What a task ended with is final, in every graph.                         *)
THEOREM Finality == Safe => EndsAreFinal
<1> DEFINE Final == \A t \in Tasks : status[t] \in {"completed", "escalated", "failed"} =>
                        status'[t] = status[t]
<1>1. GraphInv /\ [Next]_vars => [Final]_vars
  <2> SUFFICES ASSUME GraphInv, Next PROVE Final
    OBVIOUS
  <2>1. status \in [Tasks -> Status]
    BY DEF GraphInv, TypeOK
  <2>2. ASSUME NEW t \in Tasks, Start(t) \/ Finish(t) \/ Requeue(t) PROVE Final
    BY <2>1, <2>2 DEF Start, Finish, Requeue, ReadyTasks
  <2>3. ASSUME NEW t \in Tasks, Cascade(t) PROVE Final
    BY <2>3, DoomedArePending DEF Cascade
  <2> QED BY <2>2, <2>3 DEF Next
<1> QED BY <1>1, GraphInvariant, PTL DEF Safe, EndsAreFinal

-----------------------------------------------------------------------------
(* In every graph and at every moment: Validate refuses exactly the graphs  *)
(* with a cycle, TopologicalSort orders every other one, and FailDependents *)
(* fails the smallest set of waiting tasks closed under dependency.         *)
THEOREM Judged == Safe => []GraphIsJudgedRight
<1>1. GraphInv => GraphIsJudgedRight
  <2> SUFFICES ASSUME GraphInv PROVE GraphIsJudgedRight
    OBVIOUS
  <2>1. /\ IsFiniteSet(Tasks) /\ Tasks \subseteq Nat
        /\ deps \in [Tasks -> SUBSET Tasks] /\ DOMAIN deps = Tasks
    BY GraphAssumption DEF GraphInv, TypeOK
  <2>2. SortFindsEveryCycle
    <3>1. Validate(deps) <=> Acyclic
      <4>1. Validate(deps) <=> NoCycle(Tasks, deps)
        BY <2>1, ValidateFindsCycles
      <4> QED BY <4>1 DEF Acyclic, NoCycle
    <3>2. Topological(Tasks, deps, TopologicalSort(deps))
      BY <2>1, SortIsTopological
    <3>3. \A i, j \in 1 .. Len(TopologicalSort(deps)) :
              TopologicalSort(deps)[j] \in deps[TopologicalSort(deps)[i]] => j < i
      BY <3>2 DEF Topological
    <3> QED BY <3>1, <3>3 DEF SortFindsEveryCycle
  <2>3. ASSUME NEW f \in Tasks PROVE Cascaded(deps, status, f) = Doomed(f)
    <3> DEFINE open == {t \in Tasks : status[t] \notin {"failed", "completed"}}
               W == Walk(deps, open, f)
    <3>1. /\ W \subseteq open
          /\ Closed(deps, open, f, W)
          /\ \A S : Closed(deps, open, f, S) => W \subseteq S
      BY <2>1, WalkIsClosure
    <3>2. Cascaded(deps, status, f) = W
      BY <2>1 DEF Cascaded
    <3>3. Doomed(f) = {t \in open : \A S \in SUBSET open : Closed(deps, open, f, S) => t \in S}
      BY DEF Doomed, Closed
    <3> HIDE DEF open, W
    <3>4. W \subseteq Doomed(f)
      BY <3>1, <3>3
    <3>5. Doomed(f) \subseteq W
      BY <3>1, <3>3
    <3> QED BY <3>2, <3>4, <3>5
  <2> QED BY <2>2, <2>3 DEF GraphIsJudgedRight, CascadeIsClosure
<1> QED BY <1>1, GraphInvariant, PTL
-----------------------------------------------------------------------------
(* The turn of a task in the hands of an agent, for every agent definition, *)
(* any limits, bonuses, budget and retries.                                 *)

\* What redirects and failed verifications have granted.
Allowance(l) == MaxIterations + l.redirects * RedirectBonus + l.attempt * VerifyBonus

Iterating == {"loop", "compacted", "respond"}

\* The budget is asked at the head of every iteration but the first, and no loop
\* is that short: what the first one spends over the budget ends the loop.
BudgetInv ==
    /\ over > 0 => OverBudget
    /\ pc \in {"loop", "compacted"} /\ OverBudget => loop.iter = 0
    /\ pc = "respond" /\ over = 1 => loop.iter = 0
    /\ pc \in {"start", "once", "loop", "compacted", "lastverify", "final"} => over = 0
    /\ pc \in {"check", "respond", "finalized", "summary"} => over <= 1
    /\ pc = "check" /\ over = 1 => loop.iter > 0 /\ loop.iter < loop.limit

LimitInv ==
    /\ loop.iter <= loop.limit
    /\ pc \in Iterating => loop.iter < loop.limit
    /\ loop.iter = 0 => loop.limit > 1 /\ loop.streak = 0
    /\ loop.limit <= Allowance(loop)

\* What is left for one more file that is only looked at, and one more question.
RoomInv ==
    /\ pc \in Iterating \cup {"start", "check"} => loop.streak < MaxStreak
    /\ pc = "asking" => asked < MaxAsks

GroupInv ==
    /\ groups.alive => groups.owned
    /\ pc \in {"start", "asking", "escalate", "answer", "sent"} => ~groups.alive

TurnInv == TurnTypeOK /\ LoopIsBounded /\ BudgetInv /\ LimitInv
           /\ RoomInv /\ GroupInv

LEMMA OneMore ==
    ASSUME NEW n \in Nat, NEW bonus \in Nat
    PROVE  (n + 1) * bonus = n * bonus + bonus /\ n * bonus \in Nat
OBVIOUS

\* What a change of the loop's variables leaves alone.
Moved(l, m, n) == [l EXCEPT !.iter = m, !.limit = n]

Counted(l, b, s, m) ==
    [l EXCEPT !.called = TRUE, !.blocks = b, !.streak = s, !.iter = m]

LEMMA TurnMoves ==
    ASSUME NEW l \in Loop, NEW m \in Nat, NEW n \in Nat
    PROVE  LET k == Moved(l, m, n)
           IN  /\ k \in Loop /\ k.iter = m /\ k.limit = n
               /\ k.streak = l.streak /\ k.attempt = l.attempt
               /\ k.redirects = l.redirects
BY DEF Loop, Moved

LEMMA TurnGrants ==
    ASSUME loop \in Loop, NEW bonus \in Nat
    PROVE  LET k == Raised(bonus)
           IN  /\ k \in Loop /\ k.iter = loop.iter + 1 /\ k.limit = loop.iter + 1 + bonus
               /\ k.streak = loop.streak /\ k.attempt = loop.attempt
               /\ k.redirects = loop.redirects
<1> DEFINE m == loop.iter + 1
           n == loop.iter + 1 + bonus
<1>1. m \in Nat /\ n \in Nat
  BY DEF Loop
<1>2. Raised(bonus) = Moved(loop, m, n)
  BY DEF Raised, Moved
<1>3. m = loop.iter + 1 /\ n = loop.iter + 1 + bonus
  OBVIOUS
<1> HIDE DEF m, n
<1>4. LET k == Moved(loop, m, n)
      IN  /\ k \in Loop /\ k.iter = m /\ k.limit = n
          /\ k.streak = loop.streak /\ k.attempt = loop.attempt
          /\ k.redirects = loop.redirects
  BY <1>1, TurnMoves
<1>5. QED
  BY <1>2, <1>3, <1>4

LEMMA TurnCounts ==
    ASSUME NEW l \in Loop, NEW b \in BOOLEAN, NEW s \in 0 .. MaxStreak, NEW m \in Nat
    PROVE  LET k == Counted(l, b, s, m)
           IN  /\ k \in Loop /\ k.iter = m /\ k.limit = l.limit
               /\ k.streak = s /\ k.attempt = l.attempt /\ k.redirects = l.redirects
BY DEF Loop, Counted

\* What runs is known, whatever command was run.
TurnGroups == [alive : BOOLEAN, owned : BOOLEAN]

LEMMA TurnKept == Kept \in TurnGroups /\ Kept.owned
BY DEF Kept, TurnGroups

LEMMA TurnRuns ==
    ASSUME groups \in TurnGroups, NEW keep, Run(keep)
    PROVE  groups' \in TurnGroups /\ (groups' = groups \/ groups'.owned)
<1>1. groups' = groups \/ groups' = Kept
  BY DEF Run
<1> QED BY <1>1, TurnKept

LEMMA TurnExecutes ==
    ASSUME groups \in TurnGroups, Execute
    PROVE  groups' \in TurnGroups /\ (groups' = groups \/ groups'.owned)
BY TurnRuns DEF Execute

WithTag(l, b) == [l EXCEPT !.tagged = b]

LEMMA TurnTags ==
    ASSUME NEW l \in Loop, NEW b \in BOOLEAN
    PROVE  LET k == WithTag(l, b)
           IN  /\ k \in Loop /\ k.iter = l.iter /\ k.limit = l.limit
               /\ k.streak = l.streak /\ k.attempt = l.attempt
               /\ k.redirects = l.redirects
BY DEF Loop, WithTag

LEMMA TurnLastVerify ==
    ASSUME groups \in TurnGroups, loop \in Loop, LastVerify
    PROVE  /\ loop' \in Loop /\ loop'.iter = loop.iter /\ loop'.limit = loop.limit
           /\ loop'.streak = loop.streak /\ loop'.attempt = loop.attempt
           /\ loop'.redirects = loop.redirects
           /\ groups' \in TurnGroups /\ (groups' = groups \/ groups'.owned)
           /\ verified' \in {verified, "passed", "failed"}
<1>1. CASE setup.verify
  <2>1. PICK passed \in BOOLEAN : RunVerify(passed) /\ loop' = [loop EXCEPT !.tagged = ~passed]
    BY <1>1 DEF LastVerify
  <2>2. PICK b \in BOOLEAN : loop' = WithTag(loop, b)
    BY <2>1 DEF WithTag
  <2>3. /\ loop' \in Loop /\ loop'.iter = loop.iter /\ loop'.limit = loop.limit
        /\ loop'.streak = loop.streak /\ loop'.attempt = loop.attempt
        /\ loop'.redirects = loop.redirects
    BY <2>2, TurnTags
  <2>4. groups' \in TurnGroups /\ (groups' = groups \/ groups'.owned)
    BY <2>1, TurnRuns DEF RunVerify
  <2>5. verified' \in {"passed", "failed"}
    BY <2>1 DEF RunVerify
  <2> QED BY <2>3, <2>4, <2>5
<1>2. CASE ~setup.verify
  BY <1>2 DEF LastVerify
<1> QED BY <1>1, <1>2

LEMMA TurnVerifies ==
    ASSUME groups \in TurnGroups, loop \in Loop, VerifyBonus \in Nat, VerifyRetries \in Nat,
           VerifyGate
    PROVE  /\ groups' \in TurnGroups /\ (groups' = groups \/ groups'.owned)
           /\ verified' \in {"passed", "failed"}
           /\ \/ pc' = "returned" /\ loop' = loop
              \/ /\ pc' = "check" /\ loop' \in Loop
                 /\ loop'.iter = loop.iter + 1
                 /\ loop'.limit = loop.iter + 1 + VerifyBonus
                 /\ loop'.streak = loop.streak /\ loop'.attempt = loop.attempt + 1
                 /\ loop'.redirects = loop.redirects
<1>1. PICK passed \in BOOLEAN :
        /\ RunVerify(passed)
        /\ \/ pc' = "returned" /\ loop' = loop
           \/ /\ pc' = "check"
              /\ loop' = [Raised(VerifyBonus) EXCEPT !.attempt = @ + 1]
  BY DEF VerifyGate
<1>2. groups' \in TurnGroups /\ (groups' = groups \/ groups'.owned)
  BY <1>1, TurnRuns DEF RunVerify
<1>3. verified' \in {"passed", "failed"}
  BY <1>1 DEF RunVerify
<1>4. LET k == Raised(VerifyBonus)
          n == [k EXCEPT !.attempt = @ + 1]
      IN  /\ n \in Loop /\ n.iter = loop.iter + 1
          /\ n.limit = loop.iter + 1 + VerifyBonus
          /\ n.streak = loop.streak /\ n.attempt = loop.attempt + 1
          /\ n.redirects = loop.redirects
  BY TurnGrants DEF Loop, VerifyGate
<1> QED BY <1>1, <1>2, <1>3, <1>4

\* The change of the loop's variables by a response with tool calls.
LEMMA TurnUses ==
    ASSUME loop \in Loop, loop.streak < MaxStreak, UseTools
    PROVE  /\ loop' \in Loop /\ loop'.limit = loop.limit
           /\ loop'.attempt = loop.attempt /\ loop'.redirects = loop.redirects
           /\ loop'.streak \in {0, loop.streak + 1}
           /\ \/ pc' = "check" /\ loop'.streak < MaxStreak /\ loop'.iter = loop.iter + 1
              \/ /\ pc' = "lastverify" /\ loop'.streak = MaxStreak
                 /\ loop'.iter = loop.iter
<1> DEFINE new == resp.blocks /\ ~setup.shellOnly
           b   == loop.blocks \/ new
           s   == IF b /\ resp.calls = "look" /\ ~new THEN loop.streak + 1 ELSE 0
           m   == IF s < MaxStreak THEN loop.iter + 1 ELSE loop.iter
<1>1. /\ loop' = Counted(loop, b, s, m)
      /\ pc' = IF s < MaxStreak THEN "check" ELSE "lastverify"
  BY DEF UseTools, Counted
<1>2. b \in BOOLEAN
  BY DEF Loop
<1> HIDE DEF b
<1>3. s \in {0, loop.streak + 1}
  OBVIOUS
<1> HIDE DEF s
<1>4. s \in 0 .. MaxStreak /\ m \in Nat
  BY <1>3 DEF Loop, MaxStreak
<1>5. m = IF s < MaxStreak THEN loop.iter + 1 ELSE loop.iter
  OBVIOUS
<1> HIDE DEF m
<1>6. /\ loop' \in Loop /\ loop'.iter = m /\ loop'.limit = loop.limit
      /\ loop'.streak = s /\ loop'.attempt = loop.attempt
      /\ loop'.redirects = loop.redirects
  BY <1>1, <1>2, <1>4, TurnCounts
<1>7. s < MaxStreak \/ s = MaxStreak
  BY <1>4 DEF MaxStreak
<1> QED BY <1>1, <1>3, <1>5, <1>6, <1>7

LEMMA TurnTypeStep ==
    ASSUME TurnTypeOK, RoomInv, NextTurn
    PROVE  TurnTypeOK'
<1> USE AgentTurnAssumption DEF TurnTypeOK, Loop, Response, Places, Sites, Outcomes,
            MaxRedirects, MaxStreak, MaxAsks, RoomInv, Iterating
<1>1. CASE StartTurn
  BY <1>1 DEF StartTurn, EnterLoop, OverBudget
<1>2. CASE Check
  BY <1>2 DEF Check, OverBudget
<1>3. CASE Redirect
  <2>1. Raised(RedirectBonus) \in Loop
    BY TurnGrants
  <2>2. [Raised(RedirectBonus) EXCEPT !.redirects = @ + 1] \in Loop
    BY <1>3, <2>1, TurnGrants DEF Redirect, Redirected
  <2> QED BY <1>3, <2>2 DEF Redirect
<1>4. CASE VerifyGate
  <2>1. /\ loop' \in Loop /\ groups' \in TurnGroups /\ pc' \in {"returned", "check"}
        /\ verified' \in {"passed", "failed"}
    BY <1>4, TurnVerifies DEF TurnGroups
  <2> HIDE DEF Loop
  <2> QED BY <1>4, <2>1 DEF VerifyGate, TurnGroups
<1>5. CASE FinishTurn
  BY <1>5 DEF FinishTurn
<1>6. CASE UseTools
  <2>1. loop' \in Loop /\ pc' \in Places
    BY <1>6, TurnUses DEF UseTools
  <2>2. groups' \in TurnGroups
    BY <1>6, TurnExecutes DEF UseTools, TurnGroups
  <2> HIDE DEF Loop, Places
  <2> QED BY <1>6, <2>1, <2>2 DEF UseTools, TurnGroups
<1>7. CASE LastVerify
  <2>1. /\ loop' \in Loop /\ groups' \in TurnGroups
        /\ verified' \in {"no", "passed", "failed"}
    BY <1>7, TurnLastVerify DEF TurnGroups
  <2>2. NoResponse \in Response
    BY DEF NoResponse
  <2>3. pc' \in Places
    BY <1>7 DEF LastVerify
  <2>4. resp' \in Response
    BY <1>7, <2>2 DEF LastVerify
  <2> HIDE DEF Loop, Places, Response
  <2> QED BY <1>7, <2>1, <2>3, <2>4 DEF LastVerify, TurnGroups
<1>8. CASE Finalized
  <2>1. groups' \in TurnGroups
    BY <1>8, TurnExecutes DEF Finalized, TurnGroups
  <2> QED BY <1>8, <2>1 DEF Finalized, TurnGroups
<1>9. CASE ReturnFromLoop
  BY <1>9 DEF ReturnFromLoop, Cleanup, NoGroups
<1>10. CASE Ask
  BY <1>10 DEF Ask, NewLoop, EnterLoop
<1>11. CASE Fail
  BY <1>11 DEF Fail, Cleanup, NoGroups
<1>12. CASE Escalate
  BY <1>12 DEF Escalate
<1>13. CASE SendResult
  BY <1>13 DEF SendResult
<1>14. ASSUME NEW site \in Sites, Generate(site)
       PROVE  TurnTypeOK'
  BY <1>14
     DEF Generate, ModelAnswers, ModelRetries, ModelGivesUp,
         After, Recorded
<1> QED
  BY <1>1, <1>2, <1>3, <1>4, <1>5, <1>6, <1>7, <1>8, <1>9, <1>10, <1>11, <1>12,
     <1>13, <1>14
     DEF NextTurn

LEMMA TurnBudgetStep ==
    ASSUME TurnInv, NextTurn
    PROVE  BudgetInv'
<1> USE DEF BudgetInv, Iterating, OverBudget
<1>0. TurnTypeOK /\ TurnTypeOK' /\ BudgetInv /\ LimitInv
      /\ RoomInv /\ GroupInv
  BY TurnTypeStep DEF TurnInv
<1>1. CASE StartTurn
  BY <1>0, <1>1, AgentTurnAssumption
     DEF StartTurn, EnterLoop, TurnTypeOK, Loop, Response, Places, Sites, Outcomes, Setup,
         MaxRedirects, MaxStreak, MaxAsks, LimitInv
<1>2. CASE Check
  BY <1>0, <1>2, AgentTurnAssumption
     DEF Check, TurnTypeOK, Loop, Response, Places, Sites, Outcomes, Setup,
         MaxRedirects, MaxStreak, MaxAsks, LimitInv
<1>3. CASE Redirect
  BY <1>0, <1>3, AgentTurnAssumption
     DEF Redirect, Redirected, Raised, TurnTypeOK, Loop, Response, Places, Sites,
         Outcomes, Setup, MaxRedirects, MaxStreak, MaxAsks, LimitInv
<1>4. CASE VerifyGate
  <2>1. /\ pc = "respond" /\ UNCHANGED <<spent, over>>
        /\ \/ pc' = "returned" /\ loop' = loop
           \/ /\ pc' = "check" /\ loop'.iter = loop.iter + 1
              /\ loop'.limit = loop.iter + 1 + VerifyBonus
    BY <1>0, <1>4, TurnVerifies, AgentTurnAssumption
       DEF VerifyGate, TurnTypeOK, TurnGroups
  <2> QED BY <1>0, <2>1, AgentTurnAssumption DEF TurnTypeOK, Loop
<1>5. CASE FinishTurn
  BY <1>0, <1>5, AgentTurnAssumption
     DEF FinishTurn, TurnTypeOK, Loop, Response, Places, Sites, Outcomes, Setup,
         MaxRedirects, MaxStreak, MaxAsks, LimitInv
<1>6. CASE UseTools
  BY <1>0, <1>6, AgentTurnAssumption
     DEF UseTools, Execute, Tools, Run, Kept, TurnTypeOK, Loop, Response, Places, Sites,
         Outcomes, Setup, MaxRedirects, MaxStreak, MaxAsks, LimitInv
<1>7. CASE LastVerify
  BY <1>0, <1>7, AgentTurnAssumption
     DEF LastVerify, RunVerify, Run, Kept, NoResponse, TurnTypeOK, Loop, Response,
         Places, Sites, Outcomes, Setup, MaxRedirects, MaxStreak, MaxAsks, LimitInv
<1>8. CASE Finalized
  BY <1>0, <1>8, AgentTurnAssumption
     DEF Finalized, Execute, Tools, Run, Kept, TurnTypeOK, Loop, Response, Places,
         Sites, Outcomes, Setup, MaxRedirects, MaxStreak, MaxAsks, LimitInv
<1>9. CASE ReturnFromLoop
  BY <1>0, <1>9, AgentTurnAssumption
     DEF ReturnFromLoop, Cleanup, NoGroups, TurnTypeOK, Loop, Response, Places, Sites,
         Outcomes, Setup, MaxRedirects, MaxStreak, MaxAsks, LimitInv
<1>10. CASE Ask
  BY <1>0, <1>10, AgentTurnAssumption
     DEF Ask, NewLoop, EnterLoop, TurnTypeOK, Loop, Response, Places, Sites, Outcomes,
         Setup, MaxRedirects, MaxStreak, MaxAsks, LimitInv
<1>11. CASE Fail
  BY <1>0, <1>11, AgentTurnAssumption
     DEF Fail, Cleanup, NoGroups, TurnTypeOK, Loop, Response, Places, Sites, Outcomes,
         Setup, MaxRedirects, MaxStreak, MaxAsks, LimitInv
<1>12. CASE Escalate
  BY <1>0, <1>12, AgentTurnAssumption
     DEF Escalate, TurnTypeOK, Loop, Response, Places, Sites, Outcomes, Setup,
         MaxRedirects, MaxStreak, MaxAsks, LimitInv
<1>13. CASE SendResult
  BY <1>0, <1>13, AgentTurnAssumption
     DEF SendResult, TurnTypeOK, Loop, Response, Places, Sites, Outcomes, Setup,
         MaxRedirects, MaxStreak, MaxAsks, LimitInv
<1>14. ASSUME NEW site \in Sites, Generate(site)
       PROVE  BudgetInv'
  BY <1>0, <1>14, AgentTurnAssumption
     DEF Generate, ModelAnswers, ModelRetries, ModelGivesUp, After, Recorded,
         TurnTypeOK, Loop, Response, Places, Sites, Outcomes, Setup, MaxRedirects,
         MaxStreak, MaxAsks, LimitInv
<1> QED
  BY <1>1, <1>2, <1>3, <1>4, <1>5, <1>6, <1>7, <1>8, <1>9, <1>10, <1>11, <1>12,
     <1>13, <1>14
     DEF NextTurn

LEMMA TurnLimitStep ==
    ASSUME TurnInv, NextTurn
    PROVE  LimitInv'
<1> USE DEF LimitInv, Iterating, Allowance
<1>0. TurnTypeOK /\ TurnTypeOK' /\ BudgetInv /\ LimitInv
      /\ RoomInv /\ GroupInv
  BY TurnTypeStep DEF TurnInv
<1>1. CASE StartTurn
  BY <1>0, <1>1, AgentTurnAssumption
     DEF StartTurn, EnterLoop, OverBudget, TurnTypeOK, Loop, Response, Places, Sites,
         Outcomes, Setup, MaxRedirects, MaxStreak, MaxAsks
<1>2. CASE Check
  BY <1>0, <1>2, AgentTurnAssumption
     DEF Check, OverBudget, TurnTypeOK, Loop, Response, Places, Sites, Outcomes, Setup,
         MaxRedirects, MaxStreak, MaxAsks
<1>3. CASE Redirect
  BY <1>0, <1>3, AgentTurnAssumption
     DEF Redirect, Redirected, Raised, TurnTypeOK, Loop, Response, Places, Sites,
         Outcomes, Setup, MaxRedirects, MaxStreak, MaxAsks
<1>4. CASE VerifyGate
  <2>1. /\ pc = "respond"
        /\ \/ pc' = "returned" /\ loop' = loop
           \/ /\ pc' = "check" /\ loop'.iter = loop.iter + 1
              /\ loop'.limit = loop.iter + 1 + VerifyBonus
              /\ loop'.redirects = loop.redirects /\ loop'.attempt = loop.attempt + 1
    BY <1>0, <1>4, TurnVerifies, AgentTurnAssumption
       DEF VerifyGate, TurnTypeOK, TurnGroups
  <2>2. CASE pc' = "returned" /\ loop' = loop
    BY <1>0, <2>2
  <2>3. CASE pc' = "check" /\ loop'.iter = loop.iter + 1
    <3>0. /\ loop'.limit = loop.iter + 1 + VerifyBonus
          /\ loop'.redirects = loop.redirects /\ loop'.attempt = loop.attempt + 1
      BY <2>1, <2>3
    <3>1. /\ loop.iter \in Nat /\ loop.limit \in Nat /\ loop.attempt \in Nat
          /\ loop.redirects \in Nat /\ VerifyBonus \in Nat \ {0} /\ RedirectBonus \in Nat
          /\ MaxIterations \in Nat
      BY <1>0, AgentTurnAssumption DEF TurnTypeOK, Loop, MaxRedirects
    <3>2. loop'.limit <= loop.limit + VerifyBonus
      BY <1>0, <2>1, <3>0, <3>1
    <3>3. Allowance(loop') = Allowance(loop) + VerifyBonus
      <4>1. /\ loop'.attempt * VerifyBonus = loop.attempt * VerifyBonus + VerifyBonus
            /\ loop.attempt * VerifyBonus \in Nat /\ loop.redirects * RedirectBonus \in Nat
        BY <3>0, <3>1, OneMore
      <4>2. loop'.redirects * RedirectBonus = loop.redirects * RedirectBonus
        BY <3>0
      <4> QED BY <3>1, <4>1, <4>2
    <3> QED BY <1>0, <2>1, <2>3, <3>0, <3>1, <3>2, <3>3
  <2> QED BY <2>1, <2>2, <2>3
<1>5. CASE FinishTurn
  BY <1>0, <1>5, AgentTurnAssumption
     DEF FinishTurn, TurnTypeOK, Loop, Response, Places, Sites, Outcomes, Setup,
         MaxRedirects, MaxStreak, MaxAsks
<1>6. CASE UseTools
  BY <1>0, <1>6, AgentTurnAssumption
     DEF UseTools, Execute, Tools, Run, Kept, TurnTypeOK, Loop, Response, Places, Sites,
         Outcomes, Setup, MaxRedirects, MaxStreak, MaxAsks
<1>7. CASE LastVerify
  BY <1>0, <1>7, AgentTurnAssumption
     DEF LastVerify, RunVerify, Run, Kept, NoResponse, TurnTypeOK, Loop, Response,
         Places, Sites, Outcomes, Setup, MaxRedirects, MaxStreak, MaxAsks
<1>8. CASE Finalized
  BY <1>0, <1>8, AgentTurnAssumption
     DEF Finalized, Execute, Tools, Run, Kept, TurnTypeOK, Loop, Response, Places,
         Sites, Outcomes, Setup, MaxRedirects, MaxStreak, MaxAsks
<1>9. CASE ReturnFromLoop
  BY <1>0, <1>9, AgentTurnAssumption
     DEF ReturnFromLoop, Cleanup, NoGroups, TurnTypeOK, Loop, Response, Places, Sites,
         Outcomes, Setup, MaxRedirects, MaxStreak, MaxAsks
<1>10. CASE Ask
  BY <1>0, <1>10, AgentTurnAssumption
     DEF Ask, NewLoop, EnterLoop, TurnTypeOK, Loop, Response, Places, Sites, Outcomes,
         Setup, MaxRedirects, MaxStreak, MaxAsks
<1>11. CASE Fail
  BY <1>0, <1>11, AgentTurnAssumption
     DEF Fail, Cleanup, NoGroups, TurnTypeOK, Loop, Response, Places, Sites, Outcomes,
         Setup, MaxRedirects, MaxStreak, MaxAsks
<1>12. CASE Escalate
  BY <1>0, <1>12, AgentTurnAssumption
     DEF Escalate, TurnTypeOK, Loop, Response, Places, Sites, Outcomes, Setup,
         MaxRedirects, MaxStreak, MaxAsks
<1>13. CASE SendResult
  BY <1>0, <1>13, AgentTurnAssumption
     DEF SendResult, TurnTypeOK, Loop, Response, Places, Sites, Outcomes, Setup,
         MaxRedirects, MaxStreak, MaxAsks
<1>14. ASSUME NEW site \in Sites, Generate(site)
       PROVE  LimitInv'
  BY <1>0, <1>14, AgentTurnAssumption
     DEF Generate, ModelAnswers, ModelRetries, ModelGivesUp, After, Recorded,
         TurnTypeOK, Loop, Response, Places, Sites, Outcomes, Setup, MaxRedirects,
         MaxStreak, MaxAsks
<1> QED
  BY <1>1, <1>2, <1>3, <1>4, <1>5, <1>6, <1>7, <1>8, <1>9, <1>10, <1>11, <1>12,
     <1>13, <1>14
     DEF NextTurn

LEMMA TurnGroupStep ==
    ASSUME TurnInv, NextTurn
    PROVE  GroupInv'
<1> USE DEF GroupInv, Iterating
<1>0. TurnTypeOK /\ TurnTypeOK' /\ BudgetInv /\ LimitInv
      /\ RoomInv /\ GroupInv
  BY TurnTypeStep DEF TurnInv
<1>1. CASE StartTurn
  BY <1>0, <1>1, AgentTurnAssumption
     DEF StartTurn, EnterLoop, OverBudget, TurnTypeOK, Loop, Response, Places, Sites,
         Outcomes, Setup, MaxRedirects, MaxStreak, MaxAsks, LimitInv
<1>2. CASE Check
  BY <1>0, <1>2, AgentTurnAssumption
     DEF Check, OverBudget, TurnTypeOK, Loop, Response, Places, Sites, Outcomes, Setup,
         MaxRedirects, MaxStreak, MaxAsks, LimitInv
<1>3. CASE Redirect
  BY <1>0, <1>3, AgentTurnAssumption
     DEF Redirect, Redirected, Raised, TurnTypeOK, Loop, Response, Places, Sites,
         Outcomes, Setup, MaxRedirects, MaxStreak, MaxAsks, LimitInv
<1>4. CASE VerifyGate
  BY <1>0, <1>4, AgentTurnAssumption
     DEF VerifyGate, RunVerify, Run, Kept, Raised, TurnTypeOK, Loop, Response, Places,
         Sites, Outcomes, Setup, MaxRedirects, MaxStreak, MaxAsks, LimitInv
<1>5. CASE FinishTurn
  BY <1>0, <1>5, AgentTurnAssumption
     DEF FinishTurn, TurnTypeOK, Loop, Response, Places, Sites, Outcomes, Setup,
         MaxRedirects, MaxStreak, MaxAsks, LimitInv
<1>6. CASE UseTools
  BY <1>0, <1>6, AgentTurnAssumption
     DEF UseTools, Execute, Tools, Run, Kept, TurnTypeOK, Loop, Response, Places, Sites,
         Outcomes, Setup, MaxRedirects, MaxStreak, MaxAsks, LimitInv
<1>7. CASE LastVerify
  BY <1>0, <1>7, AgentTurnAssumption
     DEF LastVerify, RunVerify, Run, Kept, NoResponse, TurnTypeOK, Loop, Response,
         Places, Sites, Outcomes, Setup, MaxRedirects, MaxStreak, MaxAsks, LimitInv
<1>8. CASE Finalized
  BY <1>0, <1>8, AgentTurnAssumption
     DEF Finalized, Execute, Tools, Run, Kept, TurnTypeOK, Loop, Response, Places,
         Sites, Outcomes, Setup, MaxRedirects, MaxStreak, MaxAsks, LimitInv
<1>9. CASE ReturnFromLoop
  BY <1>0, <1>9, AgentTurnAssumption
     DEF ReturnFromLoop, Cleanup, NoGroups, TurnTypeOK, Loop, Response, Places, Sites,
         Outcomes, Setup, MaxRedirects, MaxStreak, MaxAsks, LimitInv
<1>10. CASE Ask
  BY <1>0, <1>10, AgentTurnAssumption
     DEF Ask, NewLoop, EnterLoop, TurnTypeOK, Loop, Response, Places, Sites, Outcomes,
         Setup, MaxRedirects, MaxStreak, MaxAsks, LimitInv
<1>11. CASE Fail
  BY <1>0, <1>11, AgentTurnAssumption
     DEF Fail, Cleanup, NoGroups, TurnTypeOK, Loop, Response, Places, Sites, Outcomes,
         Setup, MaxRedirects, MaxStreak, MaxAsks, LimitInv
<1>12. CASE Escalate
  BY <1>0, <1>12, AgentTurnAssumption
     DEF Escalate, TurnTypeOK, Loop, Response, Places, Sites, Outcomes, Setup,
         MaxRedirects, MaxStreak, MaxAsks, LimitInv
<1>13. CASE SendResult
  BY <1>0, <1>13, AgentTurnAssumption
     DEF SendResult, TurnTypeOK, Loop, Response, Places, Sites, Outcomes, Setup,
         MaxRedirects, MaxStreak, MaxAsks, LimitInv
<1>14. ASSUME NEW site \in Sites, Generate(site)
       PROVE  GroupInv'
  BY <1>0, <1>14, AgentTurnAssumption
     DEF Generate, ModelAnswers, ModelRetries, ModelGivesUp, After, Recorded,
         TurnTypeOK, Loop, Response, Places, Sites, Outcomes, Setup, MaxRedirects,
         MaxStreak, MaxAsks, LimitInv
<1> QED
  BY <1>1, <1>2, <1>3, <1>4, <1>5, <1>6, <1>7, <1>8, <1>9, <1>10, <1>11, <1>12,
     <1>13, <1>14
     DEF NextTurn
LEMMA TurnOverStep ==
    ASSUME TurnInv, NextTurn
    PROVE  over' <= 2
<1> USE DEF BudgetInv, Iterating
<1>0. TurnTypeOK /\ BudgetInv /\ over \in Nat /\ over <= 2
  BY DEF TurnInv, TurnTypeOK, LoopIsBounded
<1>1. CASE over' = over \/ over' = 0
  BY <1>0, <1>1
<1>2. ASSUME NEW site \in Sites, ModelAnswers(site)
      PROVE  over' <= 2
  <2>1. over <= 1
    BY <1>0, <1>2 DEF Sites, ModelAnswers
  <2> QED BY <1>0, <1>2, <2>1 DEF ModelAnswers
<1>3. (\E site \in Sites : ModelAnswers(site)) \/ over' = over \/ over' = 0
  BY DEF NextTurn, StartTurn, Check, Redirect, VerifyGate, FinishTurn,
         UseTools, LastVerify, Finalized, ReturnFromLoop, Ask, Fail,
         Escalate, SendResult, Generate, ModelRetries, ModelGivesUp
<1> QED BY <1>1, <1>2, <1>3

LEMMA TurnRoomStep ==
    ASSUME TurnInv, NextTurn
    PROVE  RoomInv'
<1> USE DEF RoomInv, Iterating
<1>0. TurnTypeOK /\ RoomInv
  BY DEF TurnInv
<1>1. CASE StartTurn
  BY <1>0, <1>1 DEF StartTurn, EnterLoop
<1>2. CASE Check
  BY <1>0, <1>2 DEF Check
<1>3. CASE Redirect
  BY <1>0, <1>3, TurnGrants, AgentTurnAssumption DEF Redirect, TurnTypeOK, Loop
<1>4. CASE VerifyGate
  BY <1>0, <1>4, TurnVerifies, AgentTurnAssumption
     DEF VerifyGate, TurnTypeOK, TurnGroups
<1>5. CASE FinishTurn
  BY <1>0, <1>5 DEF FinishTurn
<1>6. CASE UseTools
  BY <1>0, <1>6, TurnUses DEF UseTools, TurnTypeOK
<1>7. CASE LastVerify
  BY <1>0, <1>7 DEF LastVerify
<1>8. CASE Finalized
  BY <1>0, <1>8 DEF Finalized
<1>9. CASE ReturnFromLoop
  BY <1>0, <1>9 DEF ReturnFromLoop, MaxAsks
<1>10. CASE Ask
  BY <1>0, <1>10 DEF Ask, NewLoop, EnterLoop, MaxStreak
<1>11. CASE Fail
  BY <1>0, <1>11 DEF Fail
<1>12. CASE Escalate
  BY <1>0, <1>12 DEF Escalate
<1>13. CASE SendResult
  BY <1>0, <1>13 DEF SendResult
<1>14. ASSUME NEW site \in Sites, Generate(site)
       PROVE  RoomInv'
  BY <1>0, <1>14
     DEF Generate, ModelAnswers, ModelRetries, ModelGivesUp,
         After, Sites
<1> QED
  BY <1>1, <1>2, <1>3, <1>4, <1>5, <1>6, <1>7, <1>8, <1>9, <1>10, <1>11, <1>12,
     <1>13, <1>14
     DEF NextTurn

\* So each call of the model is within its allowance, and nothing outlives it.
LEMMA TurnInvStep ==
    ASSUME TurnInv, [NextTurn]_turnVars
    PROVE  TurnInv'
<1>1. CASE NextTurn
  <2>1. TurnTypeOK' /\ BudgetInv' /\ LimitInv' /\ RoomInv' /\ GroupInv'
    BY <1>1, TurnTypeStep, TurnBudgetStep, TurnLimitStep, TurnRoomStep, TurnGroupStep DEF TurnInv
  <2>2. over' <= 2
    BY <1>1, TurnOverStep
  <2> QED BY <2>1, <2>2 DEF TurnInv, LimitInv, LoopIsBounded, Allowance
<1>2. CASE UNCHANGED turnVars
  BY <1>2
     DEF turnVars, TurnInv, TurnTypeOK, BudgetInv, LimitInv, RoomInv, GroupInv, Iterating,
         Allowance, LoopIsBounded, OverBudget
<1> QED BY <1>1, <1>2

LEMMA TurnInvInit == ASSUME InitTurn PROVE TurnInv
BY AgentTurnAssumption
   DEF InitTurn, NewLoop, NoResponse, NoGroups, TurnInv, TurnTypeOK, Loop, Response,
       Places, Sites, Outcomes, MaxStreak, MaxRedirects, MaxAsks, BudgetInv, LimitInv,
       RoomInv, GroupInv, Iterating, Allowance, LoopIsBounded, OverBudget

LEMMA TurnInvariant == TurnSpec => []TurnInv
<1>1. InitTurn => TurnInv
  BY TurnInvInit
<1>2. TurnInv /\ [NextTurn]_turnVars => TurnInv'
  BY TurnInvStep
<1> QED BY <1>1, <1>2, PTL DEF TurnSpec

(* Every part of a turn keeps its type, whatever model and commands answer. *)
THEOREM TurnTypeCorrect == TurnSpec => []TurnTypeOK
<1>1. TurnInv => TurnTypeOK
  BY DEF TurnInv
<1> QED BY <1>1, TurnInvariant, PTL

(* The tool loop is bounded although it moves its own limit, and spends two *)
(* calls at most over the budget.                                           *)
THEOREM TurnIsBounded == TurnSpec => []LoopIsBounded
<1>1. TurnInv => LoopIsBounded
  BY DEF TurnInv
<1> QED BY <1>1, TurnInvariant, PTL

(* No process group of a command is alive when the agent waits or answers.  *)
THEOREM TurnLeavesNothing == TurnSpec => []NoToolOutlivesTheLoop
<1>1. TurnInv => NoToolOutlivesTheLoop
  BY DEF TurnInv, GroupInv, NoToolOutlivesTheLoop
<1> QED BY <1>1, TurnInvariant, PTL

-----------------------------------------------------------------------------
(* Sums of numbers and sequences of sequences, and the order of a set.      *)

\* The sums of the first numbers, as Total defines them.
Sums(numbers) == CHOOSE total : total = [n \in 0 .. Len(numbers) |->
                     IF n = 0 THEN 0 ELSE total[n - 1] + numbers[n]]

\* Each number is added.
LEMMA SumsAdd ==
    ASSUME NEW s \in Seq(Nat)
    PROVE  /\ Sums(s)[0] = 0
           /\ \A n \in 1 .. Len(s) : Sums(s)[n] = Sums(s)[n - 1] + s[n]
           /\ \A n \in 0 .. Len(s) : Sums(s)[n] \in Nat
           /\ History!Total(s) = Sums(s)[Len(s)] /\ Input!Total(s) = Sums(s)[Len(s)]
<1> DEFINE N == Len(s)
           add == [e \in (1 .. N) \X Nat |-> e[2] + s[e[1]]]
           total == Sums(s)
<1>1. N \in Nat /\ \A n \in 1 .. N : s[n] \in Nat
  OBVIOUS
<1>2. add \in [(1 .. N) \X Nat -> Nat]
  BY <1>1
<1>3. PICK f \in [0 .. N -> Nat] : Follows(f, 0, add, N)
  <2> HIDE DEF N, add
  <2> QED BY <1>1, <1>2, Recursion
<1>4. \A n \in 1 .. N, x \in Nat : add[<<n, x>>] = x + s[n]
  BY <1>1
<1>5. f = [n \in 0 .. N |-> IF n = 0 THEN 0 ELSE f[n - 1] + s[n]]
  <2>1. \A n \in 0 .. N : n # 0 => n \in 1 .. N /\ n - 1 \in 0 .. N
    BY <1>1
  <2>2. f[0] = 0 /\ \A n \in 1 .. N : f[n] = add[<<n, f[n - 1]>>]
    BY <1>3 DEF Follows
  <2>3. \A n \in 1 .. N : f[n] = f[n - 1] + s[n]
    <3> HIDE DEF add, N
    <3>1. \A n \in 1 .. N : n - 1 \in 0 .. N
      BY <1>1
    <3> QED BY <1>3, <1>4, <2>2, <3>1
  <2> HIDE DEF add, N
  <2> QED BY <1>3, <2>1, <2>2, <2>3
<1>6. total = [n \in 0 .. N |-> IF n = 0 THEN 0 ELSE total[n - 1] + s[n]]
  BY <1>5, Zenon DEF Sums
<1>7. total[0] = 0 /\ \A n \in 1 .. N : total[n] = total[n - 1] + s[n]
  <2> HIDE DEF total, N
  <2>1. 0 \in 0 .. N /\ \A n \in 1 .. N : n \in 0 .. N /\ n # 0
    BY <1>1
  <2> QED BY <1>6, <2>1
<1>8. \A n \in 0 .. N : total[n] \in Nat
  <2> DEFINE S == {n \in 0 .. N : total[n] \in Nat}
  <2>1. 0 \in S
    <3> HIDE DEF total, N
    <3> QED BY <1>1, <1>7
  <2>2. ASSUME NEW n \in 1 .. N, n - 1 \in S PROVE n \in S
    <3> HIDE DEF total, N
    <3>1. total[n] = total[n - 1] + s[n] /\ total[n - 1] \in Nat /\ s[n] \in Nat
      BY <1>1, <1>7, <2>2
    <3>2. total[n] \in Nat
      BY <3>1
    <3> QED BY <1>1, <3>2
  <2>3. 0 .. N \subseteq S
    <3> HIDE DEF S, N
    <3> QED BY <1>1, <2>1, <2>2, Induction
  <2> QED BY <2>3
<1>9. History!Total(s) = total[N] /\ Input!Total(s) = total[N]
  BY Zenon DEF History!Total, Input!Total, Sums
<1> QED BY <1>7, <1>8, <1>9

\* What the first sequences make together, as FlattenSeq defines it.
LEMMA FlattenAdds ==
    ASSUME NEW T, NEW s \in Seq(Seq(T))
    PROVE  \E f \in [0 .. Len(s) -> Seq(T)] :
              /\ f[0] = <<>>
              /\ \A n \in 1 .. Len(s) : f[n] = f[n - 1] \o s[n]
              /\ Input!FlattenSeq(s) = f[Len(s)]
<1> DEFINE N == Len(s)
           V == Seq(T)
           add == [e \in (1 .. N) \X V |-> e[2] \o s[e[1]]]
           flat == CHOOSE g : g = [i \in 1 .. N |-> IF i = 1 THEN s[i] ELSE g[i - 1] \o s[i]]
<1>1. N \in Nat /\ \A n \in 1 .. N : s[n] \in Seq(T)
  OBVIOUS
<1>2. add \in [(1 .. N) \X V -> V] /\ <<>> \in V
  <2>1. \A v \in V, n \in 1 .. N : v \o s[n] \in V
    BY <1>1
  <2> QED BY <2>1
<1>3. PICK f \in [0 .. N -> V] : Follows(f, <<>>, add, N)
  <2> HIDE DEF N, add, V
  <2> QED BY <1>1, <1>2, Recursion
<1>4. \A n \in 1 .. N, v \in V : add[<<n, v>>] = v \o s[n]
  BY <1>1
<1>5. f[0] = <<>> /\ \A n \in 1 .. N : f[n - 1] \in V /\ f[n] = f[n - 1] \o s[n]
  <2>1. f[0] = <<>> /\ \A n \in 1 .. N : f[n] = add[<<n, f[n - 1]>>]
    BY <1>3 DEF Follows
  <2> HIDE DEF add, N, V
  <2>2. \A n \in 1 .. N : n - 1 \in 0 .. N
    BY <1>1
  <2> QED BY <1>3, <1>4, <2>1, <2>2
<1>6. CASE N = 0
  <2>1. Input!FlattenSeq(s) = s /\ s = <<>>
    BY <1>6 DEF Input!FlattenSeq
  <2> QED BY <1>3, <1>5, <1>6, <2>1
<1>7. CASE N # 0
  <2> DEFINE h == [n \in 1 .. N |-> f[n]]
  <2>0. 1 \in 1 .. N /\ 1 - 1 = 0 /\ \A n \in 1 .. N : n # 1 => n - 1 \in 1 .. N
    BY <1>1, <1>7
  <2>1. f[1] = s[1]
    <3>1. f[1] = <<>> \o s[1]
      <4> HIDE DEF N
      <4> QED BY <1>5, <2>0
    <3> QED BY <1>1, <2>0, <3>1
  <2>2. h = [i \in 1 .. N |-> IF i = 1 THEN s[i] ELSE h[i - 1] \o s[i]]
    <3>1. \A i \in 1 .. N : i # 1 => f[i] = h[i - 1] \o s[i]
      <4> HIDE DEF N
      <4> QED BY <1>5, <2>0
    <3> HIDE DEF N
    <3> QED BY <2>1, <3>1
  <2>3. flat = [i \in 1 .. N |-> IF i = 1 THEN s[i] ELSE flat[i - 1] \o s[i]]
    <3> HIDE DEF h
    <3> QED BY <2>2, Zenon
  <2> HIDE DEF h
  <2>4. flat[1] = s[1] /\ \A i \in 1 .. N : i # 1 => flat[i] = flat[i - 1] \o s[i]
    <3> HIDE DEF flat, N
    <3> QED BY <2>0, <2>3
  <2> DEFINE S == {n \in 0 .. N : n = 0 \/ flat[n] = f[n]}
  <2>5. 0 \in S
    BY <1>1
  <2>6. ASSUME NEW n \in 1 .. N, n - 1 \in S PROVE n \in S
    <3> HIDE DEF flat, N
    <3>1. CASE n = 1
      BY <1>1, <2>0, <2>1, <2>4, <3>1
    <3>2. CASE n # 1
      <4>1. n - 1 # 0 /\ n \in 0 .. N
        BY <1>1, <3>2
      <4>2. flat[n - 1] = f[n - 1]
        BY <2>6, <4>1
      <4>3. flat[n] = f[n]
        BY <1>5, <2>4, <3>2, <4>2
      <4> QED BY <4>1, <4>3
    <3> QED BY <3>1, <3>2
  <2>7. N \in S
    <3> HIDE DEF S, N
    <3>1. 0 .. N \subseteq S
      BY <1>1, <2>5, <2>6, Induction
    <3> QED BY <1>1, <3>1
  <2>8. Input!FlattenSeq(s) = flat[N]
    BY <1>7, Zenon DEF Input!FlattenSeq
  <2>9. Input!FlattenSeq(s) = f[N]
    <3> HIDE DEF flat, N
    <3> QED BY <1>7, <2>7, <2>8
  <2> QED BY <1>3, <1>5, <2>9
<1> QED BY <1>6, <1>7

\* It is in the sequence.
Has(s, x) == \E i \in 1 .. Len(s) : s[i] = x

LEMMA HasConcat ==
    ASSUME NEW T, NEW s \in Seq(T), NEW t \in Seq(T), NEW x
    PROVE  Has(s, x) \/ Has(t, x) <=> Has(s \o t, x)
<1>1. /\ Len(s) \in Nat /\ Len(t) \in Nat /\ Len(s \o t) = Len(s) + Len(t)
      /\ \A i \in 1 .. Len(s) : (s \o t)[i] = s[i]
      /\ \A i \in 1 .. Len(t) : (s \o t)[Len(s) + i] = t[i]
  OBVIOUS
<1> DEFINE c == s \o t
<1>2. ASSUME NEW i \in 1 .. Len(s) PROVE Has(c, s[i])
  <2>1. i \in 1 .. Len(c) /\ c[i] = s[i]
    BY <1>1
  <2> QED BY <2>1 DEF Has
<1>3. ASSUME NEW i \in 1 .. Len(t) PROVE Has(c, t[i])
  <2>1. Len(s) + i \in 1 .. Len(c) /\ c[Len(s) + i] = t[i]
    BY <1>1
  <2> QED BY <2>1 DEF Has
<1>4. ASSUME NEW i \in 1 .. Len(c) PROVE Has(s, c[i]) \/ Has(t, c[i])
  <2>1. CASE i <= Len(s)
    <3>1. i \in 1 .. Len(s) /\ c[i] = s[i]
      BY <1>1, <2>1
    <3> QED BY <3>1 DEF Has
  <2>2. CASE ~(i <= Len(s))
    <3>1. i - Len(s) \in 1 .. Len(t) /\ i = Len(s) + (i - Len(s))
      BY <1>1, <2>2
    <3>2. c[i] = t[i - Len(s)]
      BY <1>1, <3>1
    <3> QED BY <3>1, <3>2 DEF Has
  <2> QED BY <2>1, <2>2
<1> HIDE DEF c
<1>5. (Has(s, x) \/ Has(t, x)) => Has(c, x)
  BY <1>2, <1>3 DEF Has
<1>6. Has(c, x) => Has(s, x) \/ Has(t, x)
  BY <1>4 DEF Has
<1> QED BY <1>5, <1>6 DEF c

\* What is in one of the sequences is in all together, which are not too long.
LEMMA FlattenHas ==
    ASSUME NEW T, NEW s \in Seq(Seq(T)), NEW m \in Nat, \A i \in 1 .. Len(s) : Len(s[i]) <= m
    PROVE  LET c == Input!FlattenSeq(s)
           IN  /\ c \in Seq(T)
               /\ Len(c) <= Len(s) * m
               /\ \A i \in 1 .. Len(s) : \A x : Has(s[i], x) => Has(c, x)
<1> DEFINE N == Len(s)
           c == Input!FlattenSeq(s)
<1>1. N \in Nat /\ \A n \in 1 .. N : s[n] \in Seq(T) /\ Len(s[n]) \in Nat /\ Len(s[n]) <= m
  OBVIOUS
<1>2. PICK f \in [0 .. N -> Seq(T)] :
         f[0] = <<>> /\ (\A n \in 1 .. N : f[n] = f[n - 1] \o s[n]) /\ c = f[N]
  BY FlattenAdds
<1> HIDE DEF N, c
<1>3. \A n \in 1 .. N : n \in 0 .. N /\ n - 1 \in 0 .. N
  BY <1>1
<1> DEFINE S == {n \in 0 .. N : Len(f[n]) <= n * m}
<1>4. N \in S
  <2>1. 0 \in S
    <3>1. Len(f[0]) = 0 /\ 0 * m = 0 /\ 0 \in 0 .. N
      BY <1>1, <1>2
    <3> QED BY <3>1
  <2>2. ASSUME NEW n \in 1 .. N, n - 1 \in S PROVE n \in S
    <3>1. f[n - 1] \in Seq(T) /\ s[n] \in Seq(T) /\ f[n] = f[n - 1] \o s[n]
      BY <1>1, <1>2, <1>3
    <3>2. Len(f[n]) = Len(f[n - 1]) + Len(s[n]) /\ Len(f[n - 1]) \in Nat
      BY <3>1
    <3>3. Len(f[n - 1]) <= (n - 1) * m /\ Len(s[n]) <= m /\ Len(s[n]) \in Nat
      BY <1>1, <2>2
    <3>4. n * m = (n - 1) * m + m /\ n * m \in Nat /\ (n - 1) * m \in Nat
      BY <1>1
    <3>5. Len(f[n]) <= n * m
      <4> DEFINE P == (n - 1) * m
                 Q == n * m
      <4>1. Q = P + m /\ P \in Nat /\ Len(f[n - 1]) <= P
        BY <3>3, <3>4
      <4> HIDE DEF P, Q
      <4>2. \A x, y \in Nat : x <= P /\ y <= m => x + y <= Q
        BY <4>1
      <4>3. Len(f[n - 1]) + Len(s[n]) <= Q
        BY <3>2, <3>3, <4>1, <4>2
      <4> QED BY <3>2, <4>3 DEF Q
    <3> QED BY <1>3, <3>5
  <2> HIDE DEF S
  <2>3. 0 .. N \subseteq S
    BY <1>1, <2>1, <2>2, Induction
  <2> QED BY <1>1, <2>3
<1>5. ASSUME NEW i \in 1 .. N, NEW x, Has(s[i], x) PROVE Has(c, x)
  <2> DEFINE R == {n \in 0 .. N : n < i \/ Has(f[n], x)}
  <2>1. 0 \in R
    BY <1>1
  <2>2. ASSUME NEW n \in 1 .. N, n - 1 \in R PROVE n \in R
    <3>1. f[n - 1] \in Seq(T) /\ s[n] \in Seq(T) /\ f[n] = f[n - 1] \o s[n]
      BY <1>1, <1>2, <1>3
    <3>2. n < i \/ n = i \/ Has(f[n - 1], x)
      BY <1>1, <2>2
    <3>3. n < i \/ Has(f[n], x)
      BY <1>5, <3>1, <3>2, HasConcat
    <3> QED BY <1>3, <3>3
  <2> HIDE DEF R
  <2>3. 0 .. N \subseteq R
    BY <1>1, <2>1, <2>2, Induction
  <2>4. N \in R /\ ~(N < i)
    BY <1>1, <2>3
  <2> QED BY <1>2, <2>4 DEF R
<1>6. c \in Seq(T)
  BY <1>1, <1>2
<1>7. Len(c) <= N * m
  BY <1>2, <1>4
<1> QED BY <1>5, <1>6, <1>7 DEF c, N

\* SetToSeq lists a finite set.
LEMMA ListOfSet ==
    ASSUME NEW S, IsFiniteSet(S)
    PROVE  LET o == Input!SetToSeq(S)
           IN  /\ Cardinality(S) \in Nat
               /\ o \in [1 .. Cardinality(S) -> S]
               /\ \A x \in S : \E i \in 1 .. Cardinality(S) : o[i] = x
<1> DEFINE c == Cardinality(S)
           o == Input!SetToSeq(S)
<1>1. c \in Nat /\ ExistsBijection(1 .. c, S)
  BY FS_CardinalityType
<1>2. PICK b \in [1 .. c -> S] : \A i, j \in 1 .. c : b[i] = b[j] => i = j
  BY <1>1 DEF ExistsBijection, Bijection, Injection, IsInjective
<1>3. Input!Cardinality(S) = c
  BY Zenon DEF Input!Cardinality, Cardinality, Input!IsFiniteSet, IsFiniteSet
<1> HIDE DEF c
<1>4. \A f \in [1 .. c -> S] :
         Input!IsInjective(f) <=> \A i, j \in 1 .. c : f[i] = f[j] => i = j
  BY DEF Input!IsInjective
<1>5. o = CHOOSE f \in [1 .. c -> S] : Input!IsInjective(f)
  BY <1>3, Zenon DEF Input!SetToSeq
<1> HIDE DEF o
<1>6. Input!IsInjective(b)
  BY <1>2, <1>4
<1>7. o \in [1 .. c -> S] /\ Input!IsInjective(o)
  BY <1>2, <1>5, <1>6, Zenon
<1>8. o \in Injection(1 .. c, S)
  BY <1>4, <1>7 DEF Injection, IsInjective
<1>9. Cardinality(1 .. c) = Cardinality(S)
  <2>1. Cardinality(1 .. c) = c
    BY <1>1, FS_Interval
  <2> QED BY <2>1 DEF c
<1>10. o \in Surjection(1 .. c, S)
  BY <1>8, <1>9, FS_Injection
<1>11. \A x \in S : \E i \in 1 .. c : o[i] = x
  BY <1>10 DEF Surjection
<1> QED BY <1>1, <1>7, <1>11 DEF c, o

\* Products grow with their factors.
LEMMA Multiples ==
    ASSUME NEW a \in Nat, NEW b \in Nat, NEW c \in Nat, a <= b
    PROVE  a * c <= b * c
<1>1. PICK e \in Nat : b = a + e
  <2>1. b - a \in Nat /\ b = a + (b - a)
    OBVIOUS
  <2> QED BY <2>1
<1>2. b * c = a * c + e * c /\ e * c \in Nat /\ a * c \in Nat
  BY <1>1
<1> DEFINE x == a * c
           y == e * c
           z == b * c
<1>3. z = x + y /\ x \in Nat /\ y \in Nat
  BY <1>2
<1> HIDE DEF x, y, z
<1>4. x <= z
  BY <1>3
<1> QED BY <1>4 DEF x, z

-----------------------------------------------------------------------------
(* What the tool loop of a turn forgets, for every window, every size of    *)
(* the results of tools and every number of files and rounds.               *)

Tokens(s) == History!EstimateTokens(s)

Messages == [role : {"system", "user", "assistant", "tool"}, size : Nat]

\* The messages of a history have sizes.
LEMMA SizesAreNumbers ==
    ASSUME NEW s \in Seq(Messages)
    PROVE  Len(s) \in Nat /\ \A n \in 1 .. Len(s) : s[n] \in Messages /\ s[n].size \in Nat
<1>1. \A m \in Messages : m.size \in Nat
  BY DEF Messages
<1> HIDE DEF Messages
<1> QED BY <1>1

\* What the messages up to each cost.
Cost(s) == Sums([i \in DOMAIN s |-> s[i].size])

\* Each message adds its size.
LEMMA TokensAdd ==
    ASSUME NEW s \in Seq(Messages)
    PROVE  /\ Cost(s)[0] = 0
           /\ \A n \in 1 .. Len(s) : Cost(s)[n] = Cost(s)[n - 1] + s[n].size
           /\ \A n \in 0 .. Len(s) : Cost(s)[n] \in Nat
           /\ Tokens(s) = Cost(s)[Len(s)]
<1> DEFINE z == [i \in DOMAIN s |-> s[i].size]
<1>1. Len(s) \in Nat /\ DOMAIN s = 1 .. Len(s) /\ \A n \in 1 .. Len(s) : s[n].size \in Nat
  BY SizesAreNumbers
<1>2. z \in [1 .. Len(s) -> Nat] /\ \A n \in 1 .. Len(s) : z[n] = s[n].size
  BY <1>1
<1>3. Cost(s) = Sums(z) /\ Tokens(s) = History!Total(z)
  BY Zenon DEF Cost, Tokens, History!EstimateTokens
<1> HIDE DEF z
<1>4. z \in Seq(Nat) /\ Len(z) = Len(s)
  BY <1>1, <1>2, FunctionIsSeq
<1>5. /\ Sums(z)[0] = 0
      /\ \A n \in 1 .. Len(s) : Sums(z)[n] = Sums(z)[n - 1] + z[n]
      /\ \A n \in 0 .. Len(s) : Sums(z)[n] \in Nat
      /\ History!Total(z) = Sums(z)[Len(s)]
  BY <1>4, SumsAdd
<1> QED BY ONLY <1>2, <1>3, <1>5

LEMMA TokensAreNumbers ==
    ASSUME NEW s \in Seq(Messages)
    PROVE  Tokens(s) \in Nat
  BY TokensAdd

\* Two histories cost what each costs.
LEMMA TokensOfConcat ==
    ASSUME NEW s \in Seq(Messages), NEW t \in Seq(Messages)
    PROVE  Tokens(s \o t) = Tokens(s) + Tokens(t)
<1> DEFINE M == Len(s)
           N == Len(t)
           c == s \o t
<1>1. /\ c \in Seq(Messages) /\ Len(c) = M + N /\ M \in Nat /\ N \in Nat
      /\ \A n \in 1 .. M : c[n] = s[n]
      /\ \A n \in 1 .. N : c[M + n] = t[n]
  OBVIOUS
<1> HIDE DEF M, N, c
<1> DEFINE a == Cost(s)
           b == Cost(t)
           d == Cost(c)
<1>2. /\ a[0] = 0 /\ \A n \in 1 .. M : a[n] = a[n - 1] + s[n].size
      /\ Tokens(s) = a[M] /\ a[M] \in Nat
  BY <1>1, TokensAdd DEF M
<1>3. /\ b[0] = 0 /\ \A n \in 1 .. N : b[n] = b[n - 1] + t[n].size
      /\ Tokens(t) = b[N] /\ \A n \in 0 .. N : b[n] \in Nat
  BY <1>1, TokensAdd DEF N
<1>4. /\ d[0] = 0 /\ \A n \in 1 .. M + N : d[n] = d[n - 1] + c[n].size
      /\ Tokens(c) = d[M + N]
  BY <1>1, TokensAdd
<1>5. \A n \in 1 .. N : t[n].size \in Nat
  BY SizesAreNumbers DEF N
<1> HIDE DEF a, b, d
<1> DEFINE S == {n \in 0 .. M : d[n] = a[n]}
           T == {n \in 0 .. N : d[M + n] = a[M] + b[n]}
<1>6. M \in S
  <2>1. 0 \in S
    BY <1>1, <1>2, <1>4
  <2>2. ASSUME NEW n \in 1 .. M, n - 1 \in S PROVE n \in S
    <3>1. n \in 1 .. M + N /\ n \in 0 .. M
      BY <1>1
    <3>2. d[n] = d[n - 1] + c[n].size /\ a[n] = a[n - 1] + s[n].size /\ c[n] = s[n]
      BY <1>1, <1>2, <1>4, <3>1
    <3> QED BY <2>2, <3>1, <3>2
  <2> HIDE DEF S
  <2>3. 0 .. M \subseteq S
    BY <1>1, <2>1, <2>2, Induction
  <2> QED BY <1>1, <2>3
<1>7. N \in T
  <2>1. 0 \in T
    BY <1>1, <1>2, <1>3, <1>6
  <2>2. ASSUME NEW n \in 1 .. N, n - 1 \in T PROVE n \in T
    <3>1. n - 1 \in 0 .. N /\ M + n \in 1 .. M + N /\ (M + n) - 1 = M + (n - 1)
      BY <1>1
    <3>2. d[M + n] = d[M + (n - 1)] + c[M + n].size
      BY <1>4, <3>1
    <3>3. d[M + n] = (a[M] + b[n - 1]) + t[n].size
      BY <1>1, <2>2, <3>2
    <3>4. b[n] = b[n - 1] + t[n].size /\ b[n - 1] \in Nat /\ t[n].size \in Nat
      BY <1>3, <1>5, <3>1
    <3> QED BY <1>1, <1>2, <3>3, <3>4
  <2> HIDE DEF T
  <2>3. 0 .. N \subseteq T
    BY <1>1, <2>1, <2>2, Induction
  <2> QED BY <1>1, <2>3
<1> QED BY <1>2, <1>3, <1>4, <1>7 DEF c

\* The task costs 4 and a note 1.
LEMMA TokensOfTask ==
    /\ History!Task \in Seq(Messages) /\ Len(History!Task) = 2
    /\ Tokens(History!Task) = 4
<1> DEFINE s == History!Task
<1>1. s \in Seq(Messages) /\ Len(s) = 2 /\ s[1].size = 2 /\ s[2].size = 2
  BY DEF History!Task, History!Message, Messages
<1> HIDE DEF s
<1>5. 1 \in 1 .. Len(s) /\ 2 \in 1 .. Len(s)
  BY <1>1
<1>2. /\ Cost(s)[0] = 0 /\ Tokens(s) = Cost(s)[2]
      /\ Cost(s)[1] = Cost(s)[1 - 1] + s[1].size
      /\ Cost(s)[2] = Cost(s)[2 - 1] + s[2].size
  BY <1>1, <1>5, TokensAdd
<1>3. 1 - 1 = 0 /\ 2 - 1 = 1
  OBVIOUS
<1>4. Tokens(s) = 4
  BY <1>1, <1>2, <1>3
<1> QED BY <1>1, <1>4 DEF s

LEMMA TokensOfNote ==
    ASSUME NEW m \in Messages
    PROVE  <<m>> \in Seq(Messages) /\ Tokens(<<m>>) = m.size
<1> DEFINE s == <<m>>
<1>1. s \in Seq(Messages) /\ Len(s) = 1 /\ s[1] = m /\ m.size \in Nat
  BY DEF Messages
<1> HIDE DEF s
<1>2. Cost(s)[0] = 0 /\ Tokens(s) = Cost(s)[1] /\ Cost(s)[1] = Cost(s)[1 - 1] + s[1].size
  <2>1. 1 \in 1 .. Len(s)
    BY <1>1
  <2> QED BY <1>1, <2>1, TokensAdd
<1>3. 1 - 1 = 0
  OBVIOUS
<1> QED BY <1>1, <1>2, <1>3 DEF s

\* What every history is: the task and what was said about it.
IsHistory(s) == s \in Seq(Messages) /\ Len(s) >= 2 /\ SubSeq(s, 1, 2) = History!Task

LEMMA TaskIsKept ==
    ASSUME NEW s, NEW t \in Seq(Messages), IsHistory(s)
    PROVE  IsHistory(s \o t) /\ IsHistory(History!Task \o t)
<1>1. \A u \in Seq(Messages) : Len(u) >= 2 => SubSeq(u \o t, 1, 2) = SubSeq(u, 1, 2)
  OBVIOUS
<1>2. History!Task \in Seq(Messages) /\ Len(History!Task) = 2
  BY TokensOfTask
<1>3. \A u \in Seq(Messages) : Len(u) = 2 => SubSeq(u, 1, 2) = u
  OBVIOUS
<1>4. \A u \in Seq(Messages) : u \o t \in Seq(Messages) /\ Len(u \o t) = Len(u) + Len(t)
  OBVIOUS
<1>5. Len(s) \in Nat /\ Len(t) \in Nat
  BY DEF IsHistory
<1>6. IsHistory(s \o t)
  BY <1>1, <1>4, <1>5 DEF IsHistory
<1>7. IsHistory(History!Task \o t)
  <2> DEFINE task == History!Task
  <2>1. /\ task \in Seq(Messages) /\ Len(task) = 2
        /\ SubSeq(task, 1, 2) = task /\ SubSeq(task \o t, 1, 2) = SubSeq(task, 1, 2)
    <3> HIDE DEF task
    <3>1. task \in Seq(Messages) /\ Len(task) = 2
      BY <1>2 DEF task
    <3>2. SubSeq(task, 1, 2) = task
      BY ONLY <1>3, <3>1
    <3>3. Len(task) >= 2
      BY ONLY <3>1
    <3>4. SubSeq(task \o t, 1, 2) = SubSeq(task, 1, 2)
      BY ONLY <1>1, <3>1, <3>3, Zenon
    <3> QED BY <3>1, <3>2, <3>4
  <2> HIDE DEF task
  <2>2. task \o t \in Seq(Messages) /\ Len(task \o t) >= 2
    <3>1. task \o t \in Seq(Messages) /\ Len(task \o t) = 2 + Len(t)
      BY <1>4, <2>1
    <3> QED BY <1>5, <3>1
  <2> QED BY <2>1, <2>2 DEF IsHistory, task
<1> QED BY <1>6, <1>7

\* What CompactToolHistory keeps fits, if there is anything.
LEMMA KeptFits ==
    ASSUME NEW s, IsHistory(s), NEW budget \in Nat
    PROVE  LET k == History!KeepFrom(s, budget)
           IN  /\ k \in 3 .. Len(s) + 1
               /\ k <= Len(s) => Tokens(SubSeq(s, 1, 2) \o History!From(s, k)) <= budget
<1> DEFINE Fits(j) == History!EstimateTokens(SubSeq(s, 1, 2) \o History!From(s, j)) <= budget
           Longest(k) == (k <= Len(s) => Fits(k)) /\ (k > 3 => ~Fits(k - 1))
           T == {k \in 3 .. Len(s) + 1 : k <= Len(s) => Fits(k)}
<1>1. Len(s) \in Nat /\ Len(s) >= 2
  BY DEF IsHistory
<1>2. Len(s) + 1 \in T
  BY <1>1
<1>3. T \subseteq Nat /\ T # {}
  BY <1>1, <1>2
<1>4. PICK k \in T : \A j \in T : k <= j
  <2> HIDE DEF T
  <2> QED BY <1>3, LeastNumber
<1>5. ASSUME k > 3 PROVE ~Fits(k - 1)
  <2>1. k \in 3 .. Len(s) + 1 /\ k - 1 \in 3 .. Len(s) + 1 /\ k - 1 < k
    BY <1>1, <1>5
  <2>2. ~(k - 1 \in T)
    <3> HIDE DEF T
    <3> QED BY <1>3, <1>4, <2>1
  <2> HIDE DEF Fits
  <2> QED BY <2>1, <2>2
<1>6. k \in 3 .. Len(s) + 1 /\ Longest(k)
  <2> HIDE DEF Fits
  <2> QED BY <1>5
<1>7. History!KeepFrom(s, budget) = CHOOSE j \in 3 .. Len(s) + 1 : Longest(j)
  BY Zenon DEF History!KeepFrom
<1> HIDE DEF Longest
<1>8. History!KeepFrom(s, budget) \in 3 .. Len(s) + 1 /\ Longest(History!KeepFrom(s, budget))
  BY <1>6, <1>7, Zenon
<1> QED BY <1>8, Zenon DEF Longest, Tokens

\* A compacted history is one, and fits its budget but for the note.
LEMMA CompactionFits ==
    ASSUME NEW s, IsHistory(s), NEW budget \in Nat
    PROVE  LET c == History!CompactToolHistory(s, budget)
           IN  /\ IsHistory(c)
               /\ Tokens(c) \in Nat
               /\ Tokens(c) <= budget + 1 \/ Tokens(c) <= 5
<1> DEFINE k == History!KeepFrom(s, budget)
           c == History!CompactToolHistory(s, budget)
           task == History!Task
           end == History!From(s, k)
           note == <<History!Message("user", 1)>>
<1> SUFFICES IsHistory(c) /\ Tokens(c) \in Nat /\ (Tokens(c) <= budget + 1 \/ Tokens(c) <= 5)
  OBVIOUS
<1>1. s \in Seq(Messages) /\ Len(s) \in Nat /\ Len(s) >= 2 /\ SubSeq(s, 1, 2) = task
  BY DEF IsHistory
<1>2. k \in 3 .. Len(s) + 1 /\ (k <= Len(s) => Tokens(task \o end) <= budget)
  BY <1>1, KeptFits
<1>3. task \in Seq(Messages) /\ Len(task) = 2 /\ Tokens(task) = 4
  BY TokensOfTask
<1>4. note \in Seq(Messages) /\ Tokens(note) = 1
  <2>1. History!Message("user", 1) \in Messages /\ History!Message("user", 1).size = 1
    BY DEF History!Message, Messages
  <2> QED BY <2>1, TokensOfNote
<1> HIDE DEF k
<1>5. end \in Seq(Messages) /\ (k = Len(s) + 1 => Len(end) = 0)
  BY <1>1, <1>2 DEF History!From
<1>6. c = IF Len(s) <= 2 \/ k = 3 THEN s ELSE task \o note \o end
  BY <1>1, Zenon DEF History!CompactToolHistory, k
<1> HIDE DEF c, task, end, note
<1>7. CASE Len(s) <= 2
  <2>1. c = s /\ Len(s) = 2
    BY <1>1, <1>6, <1>7
  <2>2. SubSeq(s, 1, 2) = s
    BY <1>1, <2>1
  <2>3. c = task
    BY <1>1, <2>1, <2>2
  <2> QED BY <1>3, <2>1, <2>3
<1>8. CASE k = 3 /\ ~(Len(s) <= 2)
  <2>1. c = s
    BY <1>6, <1>8
  <2>2. s = task \o end
    <3>1. s = SubSeq(s, 1, 2) \o SubSeq(s, 3, Len(s))
      BY <1>1
    <3> QED BY <1>1, <1>8, <3>1 DEF end, History!From
  <2>4. Tokens(s) \in Nat
    BY <1>1, TokensAreNumbers
  <2>5. k <= Len(s)
    BY <1>1, <1>8
  <2>3. Tokens(s) <= budget /\ Tokens(s) \in Nat
    BY <1>2, <2>2, <2>4, <2>5
  <2> QED BY <2>1, <2>3
<1>9. CASE ~(Len(s) <= 2) /\ k # 3
  <2>1. c = (task \o note) \o end
    BY <1>6, <1>9
  <2>2. task \o note \in Seq(Messages) /\ note \o end \in Seq(Messages)
    BY <1>3, <1>4, <1>5
  <2>3. Tokens(c) = 4 + 1 + Tokens(end) /\ Tokens(end) \in Nat
    <3>1. Tokens(end) \in Nat
      BY <1>5, TokensAreNumbers
    <3>2. Tokens(task \o note) = 4 + 1
      BY <1>3, <1>4, TokensOfConcat
    <3>3. Tokens(c) = Tokens(task \o note) + Tokens(end)
      BY <1>5, <2>1, <2>2, TokensOfConcat
    <3> QED BY <3>1, <3>2, <3>3
  <2>4. IsHistory(c)
    <3>1. c = task \o (note \o end)
      BY <1>3, <1>4, <1>5, <2>1
    <3> QED BY <2>2, <3>1, TaskIsKept DEF task
  <2>5. CASE k <= Len(s)
    <3>1. 4 + Tokens(end) <= budget
      BY <1>2, <1>3, <1>5, <2>5, TokensOfConcat
    <3> QED BY <2>3, <2>4, <3>1
  <2>6. CASE k = Len(s) + 1
    <3>1. end = <<>>
      BY <1>5, <2>6
    <3>2. Cost(<<>>)[0] = 0 /\ Tokens(<<>>) = Cost(<<>>)[0]
      <4>1. <<>> \in Seq(Messages) /\ Len(<<>>) = 0
        OBVIOUS
      <4> QED BY <4>1, TokensAdd
    <3> QED BY <2>3, <2>4, <3>1, <3>2
  <2> QED BY <1>1, <1>2, <2>5, <2>6
<1> QED BY <1>7, <1>8, <1>9

LEMMA CompactedFits ==
    ASSUME NEW s, IsHistory(s), NEW budget \in Nat
    PROVE  LET c == History!Compacted(s, budget)
           IN  IsHistory(c) /\ (Tokens(c) <= budget + 1 \/ Tokens(c) <= 5)
<1> DEFINE d == History!CompactToolHistory(s, budget)
           c == History!Compacted(s, budget)
<1>1. Tokens(s) \in Nat
  BY TokensAreNumbers DEF IsHistory
<1>2. IsHistory(d) /\ (Tokens(d) <= budget + 1 \/ Tokens(d) <= 5)
  BY CompactionFits
<1>3. c = IF Tokens(s) > budget THEN d ELSE s
  BY Zenon DEF History!Compacted, Tokens
<1> HIDE DEF c, d
<1> QED BY <1>1, <1>2, <1>3 DEF c

\* Trimming changes results of tools only.
LEMMA TrimmedIsHistory ==
    ASSUME NEW s, IsHistory(s)
    PROVE  IsHistory(History!TrimOldToolResults(s))
<1> DEFINE t == History!TrimOldToolResults(s)
           Old(i) == /\ s[i].role = "tool"
                     /\ \E j \in i + 1 .. Len(s) : s[j].role = "assistant"
           cut == History!Message("tool", 1)
<1>1. s \in Seq(Messages) /\ Len(s) \in Nat /\ Len(s) >= 2 /\ SubSeq(s, 1, 2) = History!Task
  BY DEF IsHistory
<1>2. cut \in Messages
  BY DEF History!Message, Messages
<1>3. t = [i \in 1 .. Len(s) |-> IF Old(i) THEN cut ELSE s[i]]
  BY <1>1 DEF History!TrimOldToolResults
<1>4. s[1] = History!Task[1] /\ s[2] = History!Task[2]
  BY <1>1
<1>5. ~Old(1) /\ ~Old(2)
  <2>1. History!Task[1].role = "system" /\ History!Task[2].role = "user"
    BY DEF History!Task, History!Message
  <2> QED BY <1>4, <2>1
<1> HIDE DEF t, Old, cut
<1>6. t \in Seq(Messages) /\ Len(t) = Len(s)
  BY <1>1, <1>2, <1>3
<1>7. t[1] = s[1] /\ t[2] = s[2]
  BY <1>1, <1>3, <1>5
<1>8. SubSeq(t, 1, 2) = SubSeq(s, 1, 2)
  BY <1>1, <1>6, <1>7
<1> QED BY <1>1, <1>6, <1>8 DEF IsHistory, t

\* Of the versions of a file there is a first and a latest.
LEMMA FirstAndLatest ==
    ASSUME NEW b, NEW n \in Nat, DOMAIN b = 1 .. n, NEW p \in History!Collected(b)
    PROVE  /\ History!Min(History!Versions(b, p)) \in History!Versions(b, p)
           /\ History!Max(History!Versions(b, p)) \in History!Versions(b, p)
<1> DEFINE V == History!Versions(b, p)
           D == {n - i : i \in V}
<1>1. V \subseteq 1 .. n /\ V # {}
  BY DEF History!Versions, History!Collected
<1> HIDE DEF V
<1>2. D \subseteq Nat /\ D # {}
  <2>1. \A i \in V : n - i \in Nat
    BY <1>1
  <2>2. PICK i \in V : TRUE
    BY <1>1
  <2>3. n - i \in D
    BY <2>2
  <2> QED BY <2>1, <2>3
<1>3. PICK i \in V : \A j \in V : i <= j
  <2>1. V \subseteq Nat
    BY <1>1
  <2> QED BY <1>1, <2>1, LeastNumber
<1>4. PICK d \in D : \A e \in D : d <= e
  <2> HIDE DEF D
  <2> QED BY <1>2, LeastNumber
<1>5. PICK k \in V : d = n - k
  BY <1>4
<1>6. \A j \in V : k >= j
  <2>1. \A j \in V : n - k <= n - j
    BY <1>4, <1>5
  <2> QED BY <1>1, <2>1
<1>7. History!Min(V) = CHOOSE x \in V : \A y \in V : x <= y
  BY DEF History!Min
<1>8. History!Max(V) = CHOOSE x \in V : \A y \in V : x >= y
  BY DEF History!Max
<1>9. History!Min(V) \in V
  BY <1>3, <1>7
<1>10. History!Max(V) \in V
  BY <1>6, <1>8
<1> QED BY <1>9, <1>10 DEF V

\* What is collected is, of every file that is there, what is there.
LEMMA Captured ==
    ASSUME NEW b \in Seq(History!Files), NEW c, c = History!CaptureFromScratch(b)
    PROVE  /\ DOMAIN History!FirstOf(c) = History!Collected(c)
           /\ DOMAIN History!LatestOf(c) = History!Collected(c)
           /\ \A p \in History!Collected(c) : dir[p] # 0 =>
                 History!FirstOf(c)[p] = dir[p] /\ History!LatestOf(c)[p] = dir[p]
<1>1. Len(b) \in Nat /\ DOMAIN c = 1 .. Len(b)
  BY DEF History!CaptureFromScratch
<1>2. \A i \in DOMAIN c : \A p \in DOMAIN c[i] : dir[p] # 0 => c[i][p] = dir[p]
  BY DEF History!CaptureFromScratch
<1>3. ASSUME NEW p \in History!Collected(c), dir[p] # 0
      PROVE  History!FirstOf(c)[p] = dir[p] /\ History!LatestOf(c)[p] = dir[p]
  <2> DEFINE V == History!Versions(c, p)
  <2>1. History!Min(V) \in V /\ History!Max(V) \in V
    BY <1>1, FirstAndLatest
  <2>2. \A i \in V : i \in DOMAIN c /\ p \in DOMAIN c[i]
    BY DEF History!Versions
  <2>3. History!FirstOf(c)[p] = c[History!Min(V)][p] /\ History!LatestOf(c)[p] = c[History!Max(V)][p]
    BY DEF History!FirstOf, History!LatestOf
  <2> HIDE DEF V
  <2> QED BY <1>2, <1>3, <2>1, <2>2, <2>3
<1>4. DOMAIN History!FirstOf(c) = History!Collected(c) /\ DOMAIN History!LatestOf(c) = History!Collected(c)
  BY DEF History!FirstOf, History!LatestOf
<1> QED BY <1>3, <1>4

\* A last response that repeats what is there is not missed where it was stripped.
LEMMA Merged ==
    ASSUME NEW b \in Seq(History!Files), NEW files,
           NEW c, c = History!CaptureFromScratch(b),
           NEW p \in DOMAIN files \cup History!Collected(c),
           NEW m, m = History!MergeAccumulatedBlocks(History!StripRedundantBlocks(files, c), c)
    PROVE  /\ p \in DOMAIN m
           /\ dir[p] # 0 => m[p] = IF p \in DOMAIN files THEN files[p] ELSE dir[p]
<1> DEFINE C == History!Collected(c)
           F == History!FirstOf(c)
           L == History!LatestOf(c)
           s == History!StripRedundantBlocks(files, c)
<1>1. /\ DOMAIN F = C /\ DOMAIN L = C
      /\ \A q \in C : dir[q] # 0 => F[q] = dir[q] /\ L[q] = dir[q]
  BY Captured
<1>2. /\ DOMAIN s = {q \in DOMAIN files : q \in DOMAIN L => L[q] # files[q]}
      /\ \A q \in DOMAIN s : s[q] = files[q]
  BY DEF History!StripRedundantBlocks
<1>3. /\ DOMAIN m = DOMAIN s \cup DOMAIN F
      /\ \A q \in DOMAIN m : m[q] = IF q \in DOMAIN s THEN s[q] ELSE F[q]
  BY DEF History!MergeAccumulatedBlocks, History!Above
<1>4. p \in DOMAIN files \cup C
  OBVIOUS
<1> HIDE DEF C, F, L, s
<1>5. p \in DOMAIN m
  BY <1>1, <1>2, <1>3, <1>4
<1> QED BY <1>1, <1>2, <1>3, <1>4, <1>5

-----------------------------------------------------------------------------
HistoryInv ==
    /\ IsHistory(input)
    /\ step \in {"model", "again"} => Tokens(input) <= Window + 1
    /\ step # "done" => accumulated \in Seq(History!Files)
    /\ History!FilesAreReturned

LEMMA Windows ==
    History!Headroom \in Nat /\ History!Headroom <= Window /\ Window \in Nat /\ Window >= 4
  BY HistoryAssumption DEF History!ToolHistoryAssumption, History!Headroom

\* What the loop adds to the history is messages.
LEMMA MessagesAreAdded ==
    ASSUME NEW a \in Nat, NEW b \in Nat
    PROVE  /\ <<History!Message("assistant", a), History!Message("tool", b)>> \in Seq(Messages)
           /\ <<History!Message("assistant", a), History!Message("user", b)>> \in Seq(Messages)
           /\ <<History!Message("user", b)>> \in Seq(Messages)
<1>1. /\ History!Message("assistant", a) \in Messages
      /\ History!Message("tool", b) \in Messages
      /\ History!Message("user", b) \in Messages
  BY DEF History!Message, Messages
<1> HIDE DEF Messages
<1> QED BY <1>1

LEMMA HistoryStarts == History!HistoryInit => HistoryInv
<1> SUFFICES ASSUME History!HistoryInit PROVE HistoryInv
  OBVIOUS
<1>1. step = "head" /\ accumulated = <<>>
  BY DEF History!HistoryInit
<1> DEFINE t == IF \E p \in Paths : dir[p] # 0 THEN <<History!Message("user", 1)>> ELSE <<>>
<1>2. input = History!Task \o t
  BY Zenon DEF History!HistoryInit
<1>3. t \in Seq(Messages)
  <2>1. <<>> \in Seq(Messages)
    OBVIOUS
  <2> QED BY <2>1, MessagesAreAdded
<1>4. IsHistory(History!Task)
  <2>1. \A u \in Seq(Messages) : Len(u) = 2 => SubSeq(u, 1, 2) = u
    OBVIOUS
  <2> QED BY <2>1, TokensOfTask DEF IsHistory
<1> HIDE DEF t
<1>5. IsHistory(input)
  BY <1>2, <1>3, <1>4, TaskIsKept
<1>6. accumulated \in Seq(History!Files) /\ History!FilesAreReturned
  BY <1>1 DEF History!FilesAreReturned
<1> QED BY <1>1, <1>5, <1>6 DEF HistoryInv

\* What the model is sent is the task and what fits the window with it.
LEMMA PreparedFits ==
    ASSUME IsHistory(input)
    PROVE  IsHistory(History!Prepared) /\ Tokens(History!Prepared) <= Window + 1
<1> DEFINE t == IF iter > 0 /\ ~agent.cached THEN History!TrimOldToolResults(input) ELSE input
           u == IF iter >= Proactive THEN History!Compacted(t, History!Headroom) ELSE t
           v == History!Compacted(u, Window)
<1>1. v = History!Prepared
  BY Zenon DEF History!Prepared
<1>2. IsHistory(t)
  BY TrimmedIsHistory
<1> HIDE DEF t
<1>3. IsHistory(u)
  BY <1>2, Windows, CompactedFits
<1> HIDE DEF u
<1>4. IsHistory(v) /\ (Tokens(v) <= Window + 1 \/ Tokens(v) <= 5)
  BY <1>3, Windows, CompactedFits
<1>5. Tokens(v) \in Nat
  BY <1>4, TokensAreNumbers DEF IsHistory
<1> HIDE DEF v
<1>6. Tokens(v) <= Window + 1
  BY <1>4, <1>5, Windows
<1> QED BY <1>1, <1>4, <1>6

LEMMA HistoryStep == HistoryInv /\ [History!HistoryNext]_(History!historyVars) => HistoryInv'
<1> SUFFICES ASSUME HistoryInv, [History!HistoryNext]_(History!historyVars) PROVE HistoryInv'
  OBVIOUS
<1>0. IsHistory(input)
  BY DEF HistoryInv
<1>1. CASE History!Prepare
  <2>1. /\ step' \in {"model", "force"} /\ accumulated' = accumulated /\ step = "head"
        /\ step' = "model" => input' = History!Prepared
        /\ step' # "model" => input' = input
    BY <1>1 DEF History!Prepare
  <2>2. IsHistory(input') /\ (step' = "model" => Tokens(input') <= Window + 1)
    BY <1>0, <2>1, PreparedFits
  <2>3. accumulated' \in Seq(History!Files) /\ History!FilesAreReturned'
    BY <2>1 DEF HistoryInv, History!FilesAreReturned
  <2> QED BY <2>1, <2>2, <2>3 DEF HistoryInv, IsHistory, Tokens
<1>2. CASE History!Overflow
  <2> DEFINE c == History!CompactToolHistory(input, History!Headroom)
  <2>1. step' = "again" /\ accumulated' = accumulated /\ step = "model" /\ input' = c
    BY <1>2 DEF History!Overflow
  <2>2. IsHistory(c) /\ Tokens(c) \in Nat
        /\ (Tokens(c) <= History!Headroom + 1 \/ Tokens(c) <= 5)
    BY <1>0, Windows, CompactionFits
  <2> HIDE DEF c
  <2>3. Tokens(c) <= Window + 1
    BY <2>2, Windows
  <2>4. accumulated' \in Seq(History!Files) /\ History!FilesAreReturned'
    BY <2>1 DEF HistoryInv, History!FilesAreReturned
  <2>5. IsHistory(input') /\ Tokens(input') <= Window + 1
    BY <2>1, <2>2, <2>3
  <2> QED BY <2>4, <2>5 DEF HistoryInv, IsHistory, Tokens
<1>3. ASSUME NEW files \in History!Files, NEW calls \in History!Calls, History!Work(files, calls)
      PROVE  HistoryInv'
  <2>1. /\ step \in {"model", "again"} /\ step' \in {"head", "force"}
        /\ accumulated' = accumulated \/ accumulated' = Append(accumulated, files)
                                      \/ accumulated' = Append(accumulated, <<>>)
    BY <1>3 DEF History!Work
  <2>2. PICK size \in {1, Long} :
           input' = input \o <<History!Message("assistant", 1), History!Message("tool", size)>>
    BY <1>3 DEF History!Work
  <2>3. size \in Nat
    BY HistoryAssumption DEF History!ToolHistoryAssumption
  <2>4. IsHistory(input')
    BY <1>0, <2>2, <2>3, MessagesAreAdded, TaskIsKept
  <2>5. <<>> \in History!Files
    <3>1. <<>> \in [{} -> Contents] /\ {} \in SUBSET Paths
      OBVIOUS
    <3> QED BY <3>1 DEF History!Files
  <2>6. accumulated' \in Seq(History!Files)
    BY <2>1, <2>5 DEF HistoryInv
  <2> QED BY <2>1, <2>4, <2>6 DEF HistoryInv, IsHistory, History!FilesAreReturned
<1>4. ASSUME NEW files \in History!Files, History!TurnDown(files) PROVE HistoryInv'
  <2> DEFINE n == History!Cardinality(DOMAIN files)
  <2>1. /\ step \in {"model", "again"} /\ step' = "head" /\ accumulated' = accumulated
        /\ input' = input \o <<History!Message("assistant", 1 + n), History!Message("user", 1)>>
    BY <1>4 DEF History!TurnDown
  <2>2. n \in Nat
    <3>1. DOMAIN files \subseteq Paths
      BY DEF History!Files
    <3>2. IsFiniteSet(Paths)
      BY HistoryAssumption DEF History!ToolHistoryAssumption, History!IsFiniteSet, IsFiniteSet
    <3>3. Cardinality(DOMAIN files) \in Nat
      BY <3>1, <3>2, FS_Subset, FS_CardinalityType
    <3>4. History!Cardinality(DOMAIN files) = Cardinality(DOMAIN files)
      BY Zenon DEF History!Cardinality, Cardinality, History!IsFiniteSet, IsFiniteSet
    <3> QED BY <3>3, <3>4
  <2> HIDE DEF n
  <2>3. IsHistory(input')
    <3>1. 1 + n \in Nat
      BY <2>2
    <3> QED BY <1>0, <2>1, <3>1, MessagesAreAdded, TaskIsKept
  <2> QED BY <2>1, <2>3 DEF HistoryInv, IsHistory, History!FilesAreReturned
<1>5. ASSUME NEW files \in History!Files, History!Finish(files) PROVE HistoryInv'
  <2> DEFINE c == History!CaptureFromScratch(accumulated)
             m == History!MergeAccumulatedBlocks(History!StripRedundantBlocks(files, c), c)
  <2>1. /\ step \in {"model", "again"} /\ step' = "done" /\ input' = input /\ dir' = dir
        /\ accumulated' = c /\ last' = files /\ reply' = m
    BY <1>5 DEF History!Finish, History!Return
  <2>2. accumulated \in Seq(History!Files)
    BY <2>1 DEF HistoryInv
  <2>3. \A p \in DOMAIN files \cup History!Collected(c) :
           p \in DOMAIN m /\ (dir[p] # 0 => m[p] = IF p \in DOMAIN files THEN files[p] ELSE dir[p])
    BY <2>2, Merged
  <2> HIDE DEF c, m
  <2>4. History!FilesAreReturned'
    BY <2>1, <2>3 DEF History!FilesAreReturned, History!Collected
  <2> QED BY <1>0, <2>1, <2>4 DEF HistoryInv, IsHistory
<1>6. ASSUME NEW files \in History!Files, History!Force(files) PROVE HistoryInv'
  <2> DEFINE c == History!CaptureFromScratch(accumulated)
  <2>1. /\ step = "force" /\ step' = "done" /\ input' = input /\ dir' = dir
        /\ accumulated' = c /\ last' = files
        /\ IF accumulated = <<>> THEN reply' = files
           ELSE files = <<>> /\ reply' = History!LatestOf(c)
    BY <1>6 DEF History!Force, History!Return, History!SynthesizeFinal
  <2>2. accumulated \in Seq(History!Files)
    BY <2>1 DEF HistoryInv
  <2>3. /\ DOMAIN History!LatestOf(c) = History!Collected(c)
        /\ \A p \in History!Collected(c) : dir[p] # 0 => History!LatestOf(c)[p] = dir[p]
    BY <2>2, Captured
  <2>4. accumulated = <<>> => History!Collected(c) = {}
    BY DEF History!CaptureFromScratch, History!Collected
  <2> HIDE DEF c
  <2>5. History!FilesAreReturned'
    <3>1. CASE accumulated = <<>>
      BY <2>1, <2>4, <3>1 DEF History!FilesAreReturned, History!Collected
    <3>2. CASE accumulated # <<>>
      <4>1. DOMAIN files = {}
        BY <2>1, <3>2
      <4> QED BY <2>1, <2>3, <3>2, <4>1 DEF History!FilesAreReturned, History!Collected
    <3> QED BY <3>1, <3>2
  <2> QED BY <1>0, <2>1, <2>5 DEF HistoryInv, IsHistory
<1>7. CASE UNCHANGED History!historyVars
  BY <1>7 DEF History!historyVars, HistoryInv, IsHistory, Tokens, History!FilesAreReturned,
              History!Collected
<1>8. History!HistoryNext \/ UNCHANGED History!historyVars
  OBVIOUS
<1> QED BY <1>1, <1>2, <1>3, <1>4, <1>5, <1>6, <1>7, <1>8 DEF History!HistoryNext

(* What the tool loop forgets does no harm: in every round of every loop    *)
(* the model is sent the task and no more than the window and a note with   *)
(* it, and what is returned has every file that was answered on the way.    *)
THEOREM Harmless == History!HistorySpec => []ForgettingIsHarmless
<1>1. HistoryInv => ForgettingIsHarmless
  BY DEF HistoryInv, IsHistory, Tokens, ForgettingIsHarmless, History!ForgettingIsHarmless,
         History!HistoryFits
<1> QED BY <1>1, HistoryStarts, HistoryStep, PTL DEF History!HistorySpec

-----------------------------------------------------------------------------
(* The files of agents, for every number of profiles, files, requests, tool *)
(* calls and failures, and whatever depends on what.                        *)

Assigned == {"assigned", "task", "work", "tool", "answer", "publish"}

Shape ==
    /\ request \in Nat
    /\ failures \in Nat
    /\ DOMAIN at = Profiles /\ DOMAIN blocks = Profiles
    /\ DOMAIN told = Profiles /\ DOMAIN copy = Profiles
    /\ \A p \in Profiles : /\ DOMAIN told[p] = {"request", "ok", "files"}
                           /\ told[p].request \in Nat
                           /\ DOMAIN copy[p] = {"shared", "knownShared", "scratch", "knownScratch"}

\* While a result counts for the request its agent is done with it.
IsDone(p) == /\ told[p].request <= request
             /\ told[p].request = request => at[p] \in {"sent", "idle"}

\* Who has a task has the results it depends on, and they still count.
HasInputs(p) == at[p] \in Assigned =>
                   \A u \in Upstream[p] : told[u].request = request /\ told[u].ok

\* What a result lists stays, and where the directories are the tiers, the
\* files of an answer stay as they were answered.
Stays(p) ==
    /\ failures = 0 => \A n \in told[p].files : <<p, n>> \in DOMAIN shared
    /\ ~staged /\ told[p].request = request /\ told[p].ok =>
          \A n \in DOMAIN blocks[p] : <<p, n>> \in DOMAIN shared /\ shared[<<p, n>>] = blocks[p][n]

\* A copy that was never refreshed in part has all that it is known to have
\* had, so that a sync deletes nothing; refreshed when the task began, it has
\* what the results list.
IsCopied(p) ==
    staged /\ failures = 0 =>
        /\ copy[p].knownShared \subseteq DOMAIN copy[p].shared
        /\ at[p] \in {"work", "tool", "answer"} =>
              \A u \in Upstream[p] : \A n \in told[u].files : <<u, n>> \in DOMAIN copy[p].shared

OwnInv(p) == IsDone(p) /\ HasInputs(p) /\ Stays(p) /\ IsCopied(p)

FilesInv == Shape /\ \A p \in Profiles : OwnInv(p)

-----------------------------------------------------------------------------
\* The shared tier loses nothing while no refresh fails, and of what is not the
\* agent's nothing is lost or changed where the directories are the tiers.
Grows(p) ==
    /\ failures' \in Nat /\ (failures' = 0 => failures = 0)
    /\ failures = 0 => DOMAIN shared \subseteq DOMAIN shared'
    /\ ~staged => \A f \in DOMAIN shared :
                    f[1] # p => f \in DOMAIN shared' /\ shared'[f] = shared[f]

\* What a step of an agent leaves to others.
Spares(p) ==
    /\ request' = request /\ staged' = staged
    /\ \A q \in Profiles \ {p} :
          /\ at'[q] = at[q] /\ told'[q] = told[q] /\ blocks'[q] = blocks[q]
          /\ copy'[q] = copy[q]
    /\ Grows(p)
    /\ at[p] \in {"sent", "idle"} => told'[p] = told[p] /\ blocks'[p] = blocks[p]

\* Only a refresh counts failures.
LEMMA FailureIsCounted ==
    ASSUME failures \in Nat, NEW failed \in BOOLEAN, CountFailure(failed)
    PROVE  failures' \in Nat /\ (failures' = 0 => failures = 0 /\ ~failed)
BY DEF CountFailure

\* A sync deletes nothing from the copy, and nothing from the shared tier where
\* the copy has what it is known to have had.
LEMMA SyncGrows ==
    ASSUME Shape, NEW p \in Profiles, IsCopied(p), Sync(p), failures' = failures
    PROVE  /\ Grows(p)
           /\ ~staged => shared' = shared
           /\ DOMAIN copy' = Profiles
           /\ \A q \in Profiles : /\ DOMAIN copy'[q] = DOMAIN copy[q]
                                  /\ copy'[q].shared = copy[q].shared
                                  /\ q # p => copy'[q] = copy[q]
           /\ copy'[p].knownShared \subseteq DOMAIN copy'[p].shared
              \/ copy'[p].knownShared = copy[p].knownShared
<1>1. CASE ~staged
  BY <1>1 DEF Sync, Grows, Shape
<1>2. CASE staged
  <2>1. SyncShared(p)
    BY <1>2 DEF Sync
  <2>2. failures = 0 => DOMAIN shared \subseteq DOMAIN shared'
    <3> SUFFICES ASSUME failures = 0 PROVE DOMAIN shared \subseteq DOMAIN shared'
      OBVIOUS
    <3>1. Gone(copy[p]) = {}
      BY <1>2 DEF IsCopied, Gone
    <3> QED BY <2>1, <3>1 DEF SyncShared, Restrict, Over
  <2>3. /\ DOMAIN copy' = Profiles
        /\ \A q \in Profiles : /\ DOMAIN copy'[q] = DOMAIN copy[q]
                               /\ copy'[q].shared = copy[q].shared
                               /\ q # p => copy'[q] = copy[q]
        /\ copy'[p].knownShared = DOMAIN copy'[p].shared
    BY <2>1 DEF SyncShared, Shape
  <2> QED BY <1>2, <2>2, <2>3 DEF Grows, Shape
<1> QED BY <1>1, <1>2

\* What a step leaves to others leaves them as they were.
LEMMA OthersKeep ==
    ASSUME FilesInv, NEW p \in Profiles, Spares(p), NEW q \in Profiles, q # p
    PROVE  OwnInv(q)'
<1>1. Upstream[q] \subseteq Profiles
  BY WorkspaceAssumption
<1>2. /\ at'[q] = at[q] /\ told'[q] = told[q] /\ blocks'[q] = blocks[q]
      /\ copy'[q] = copy[q] /\ request' = request /\ staged' = staged
      /\ failures' = 0 => failures = 0
  BY DEF Spares, Grows
<1>3. ASSUME HasInputs(q), at[q] \in Assigned
      PROVE  \A u \in Upstream[q] : told'[u] = told[u]
  <2> SUFFICES ASSUME NEW u \in Upstream[q] PROVE told'[u] = told[u]
    OBVIOUS
  <2>1. CASE u = p
    <3>1. told[p].request = request
      BY <1>3, <2>1 DEF HasInputs
    <3>2. at[p] \in {"sent", "idle"}
      BY <3>1 DEF FilesInv, OwnInv, IsDone
    <3> QED BY <2>1, <3>2 DEF Spares
  <2>2. CASE u # p
    BY <1>1, <2>2 DEF Spares
  <2> QED BY <2>1, <2>2
<1>4. IsDone(q) /\ HasInputs(q) /\ Stays(q) /\ IsCopied(q)
  BY DEF FilesInv, OwnInv
<1>5. IsDone(q)'
  BY <1>2, <1>4 DEF IsDone
<1>6. HasInputs(q)'
  BY <1>2, <1>3, <1>4 DEF HasInputs
<1>7. Stays(q)'
  <2>1. Grows(p)
    BY DEF Spares
  <2>2. \A n : <<q, n>>[1] # p
    OBVIOUS
  <2> QED BY <1>2, <1>4, <2>1, <2>2 DEF Stays, Grows
<1>8. IsCopied(q)'
  BY <1>2, <1>3, <1>4 DEF IsCopied, Assigned
<1> QED BY <1>5, <1>6, <1>7, <1>8 DEF OwnInv

\* A step that leaves results and answers alone, and moves on or comes to an end.
Quiet(p) ==
    /\ UNCHANGED <<staged, request, blocks, told>>
    /\ ~staged => shared' = shared
    /\ Grows(p)
    /\ DOMAIN at' = Profiles /\ DOMAIN copy' = Profiles
    /\ \A q \in Profiles : /\ DOMAIN copy'[q] = DOMAIN copy[q]
                           /\ q # p => at'[q] = at[q] /\ copy'[q] = copy[q]
    /\ at[p] \in {"sent", "idle"} => at'[p] \in {"sent", "idle"}

LEMMA QuietKeeps ==
    ASSUME FilesInv, NEW p \in Profiles, Quiet(p), at'[p] \in Assigned => at[p] \in Assigned,
           IsCopied(p)'
    PROVE  Shape' /\ Spares(p) /\ OwnInv(p)'
<1>1. Shape'
  BY DEF Quiet, Grows, FilesInv, Shape
<1>2. Spares(p)
  BY DEF Quiet, Spares
<1>3. IsDone(p) /\ HasInputs(p) /\ Stays(p)
  BY DEF FilesInv, OwnInv
<1>4. IsDone(p)'
  BY <1>3 DEF Quiet, IsDone
<1>5. HasInputs(p)'
  BY <1>3 DEF Quiet, HasInputs
<1>6. Stays(p)'
  BY <1>3 DEF Quiet, Stays, Grows
<1> QED BY <1>1, <1>2, <1>4, <1>5, <1>6 DEF OwnInv

LEMMA WorkKeeps ==
    ASSUME FilesInv, NEW p \in Profiles, Work(p)
    PROVE  Shape' /\ Spares(p) /\ OwnInv(p)'
<1>1. Shape /\ IsDone(p) /\ HasInputs(p) /\ Stays(p) /\ IsCopied(p)
  BY DEF FilesInv, OwnInv
<1>2. Upstream[p] \subseteq Profiles
  BY WorkspaceAssumption
<1>3. CASE Assign(p)
  <2>1. /\ at[p] = "idle" /\ at' = [at EXCEPT ![p] = "assigned"]
        /\ told[p].request < request
        /\ \A u \in Upstream[p] : told[u].request = request /\ told[u].ok
        /\ UNCHANGED <<staged, request, shared, scratch, copy, edits, blocks, told, failures>>
    BY <1>3 DEF Assign
  <2>2. Shape'
    BY <1>1, <2>1 DEF Shape
  <2>3. Spares(p)
    BY <1>1, <2>1 DEF Shape, Spares, Grows
  <2>4. IsDone(p)' /\ HasInputs(p)' /\ Stays(p)' /\ IsCopied(p)'
    BY <1>1, <2>1 DEF Shape, IsDone, HasInputs, Stays, IsCopied
  <2> QED BY <2>2, <2>3, <2>4 DEF OwnInv
<1>4. CASE RefreshWorkspace(p)
  <2>1. /\ at[p] = "assigned" /\ at' = [at EXCEPT ![p] = "task"]
        /\ UNCHANGED <<staged, request, shared, scratch, edits, blocks, told, failures>>
        /\ IF ~staged THEN copy' = copy
           ELSE copy' = [copy EXCEPT ![p] = [Refreshed(@, shared, shared) EXCEPT
                                   !.scratch = scratch[p], !.knownScratch = DOMAIN scratch[p]]]
    BY <1>4 DEF RefreshWorkspace
  <2>2. Quiet(p)
    BY <1>1, <2>1 DEF Refreshed, Shape, Quiet, Grows
  <2>3. at'[p] = "task"
    BY <1>1, <2>1 DEF Shape
  <2>4. staged => copy'[p].knownShared = DOMAIN copy'[p].shared
    <3> DEFINE r == Refreshed(copy[p], shared, shared)
    <3>1. r.shared = shared /\ r.knownShared = DOMAIN shared
          /\ DOMAIN r = {"shared", "knownShared", "scratch", "knownScratch"}
      BY <1>1 DEF Refreshed, Shape
    <3> HIDE DEF r
    <3>2. staged => copy'[p] = [r EXCEPT !.scratch = scratch[p], !.knownScratch = DOMAIN scratch[p]]
      BY <1>1, <2>1 DEF Shape, r
    <3> QED BY <3>1, <3>2
  <2>5. IsCopied(p)'
    BY <1>1, <2>1, <2>3, <2>4 DEF IsCopied
  <2> QED BY <2>1, <2>2, <2>3, <2>5, QuietKeeps DEF Assigned
<1>5. CASE RefreshFails(p)
  <2>1. /\ at[p] = "assigned" /\ at' = [at EXCEPT ![p] = "task"] /\ CountFailure(TRUE)
        /\ UNCHANGED <<staged, request, shared, scratch, edits, blocks, told>>
    BY <1>5 DEF RefreshFails
  <2>2. /\ DOMAIN copy' = Profiles
        /\ \A q \in Profiles : /\ DOMAIN copy'[q] = DOMAIN copy[q]
                               /\ q # p => copy'[q] = copy[q]
    BY <1>1, <1>5 DEF RefreshFails, Refreshed, Shape
  <2>3. failures' \in Nat /\ failures' # 0
    BY <1>1, <2>1, FailureIsCounted DEF Shape
  <2>4. Quiet(p)
    BY <1>1, <2>1, <2>2, <2>3 DEF Shape, Quiet, Grows
  <2>5. at'[p] = "task" /\ IsCopied(p)'
    BY <1>1, <2>1, <2>3 DEF Shape, IsCopied
  <2> QED BY <2>1, <2>4, <2>5, QuietKeeps DEF Assigned
<1>6. ASSUME NEW view \in Views(copy[p], shared), NEW worker \in {{}, Upstream[p]},
             BeginTask(p, view, worker)
      PROVE  Shape' /\ Spares(p) /\ OwnInv(p)'
  <2> DEFINE filled == Populated(p, ScratchDir(p), {p} \cup worker)
  <2>1. /\ at[p] = "task" /\ at' = [at EXCEPT ![p] = "work"]
        /\ CountFailure(view # shared)
        /\ UNCHANGED <<staged, request, shared, edits, blocks, told>>
        /\ IF staged
           THEN copy' = [copy EXCEPT ![p] = [Refreshed(@, shared, view) EXCEPT !.scratch = filled]]
           ELSE UNCHANGED copy
    BY <1>6 DEF BeginTask
  <2> HIDE DEF filled
  <2>2. /\ failures' \in Nat
        /\ failures' = 0 => failures = 0 /\ view = shared
    BY <1>1, <2>1, FailureIsCounted DEF Shape
  <2>3. Quiet(p)
    BY <1>1, <2>1, <2>2 DEF Shape, Refreshed, Quiet, Grows
  <2>4. at'[p] = "work"
    BY <1>1, <2>1 DEF Shape
  <2>5. staged /\ view = shared => /\ copy'[p].shared = shared
                                  /\ copy'[p].knownShared = DOMAIN shared
    <3> DEFINE r == Refreshed(copy[p], shared, view)
    <3>1. view = shared => r.shared = shared /\ r.knownShared = DOMAIN shared
      BY <1>1 DEF Refreshed, Shape
    <3>2. DOMAIN r = {"shared", "knownShared", "scratch", "knownScratch"}
      BY <1>1 DEF Refreshed, Shape
    <3> HIDE DEF r
    <3>3. staged => copy'[p] = [r EXCEPT !.scratch = filled]
      BY <1>1, <2>1 DEF Shape, r
    <3> QED BY <3>1, <3>2, <3>3
  <2>6. IsCopied(p)'
    <3> SUFFICES ASSUME staged', failures' = 0
                 PROVE  /\ copy'[p].knownShared \subseteq DOMAIN copy'[p].shared
                        /\ \A u \in Upstream[p] : \A n \in told'[u].files :
                              <<u, n>> \in DOMAIN copy'[p].shared
      BY DEF IsCopied
    <3>1. staged /\ failures = 0 /\ view = shared /\ told' = told
      BY <2>1, <2>2
    <3>2. \A u \in Upstream[p] : \A n \in told[u].files : <<u, n>> \in DOMAIN shared
      BY <1>2, <3>1 DEF FilesInv, OwnInv, Stays
    <3> QED BY <2>5, <3>1, <3>2
  <2> QED BY <2>1, <2>3, <2>4, <2>6, QuietKeeps DEF Assigned
<1>7. ASSUME NEW files \in Edited(p), UseTool(p, files)
      PROVE  Shape' /\ Spares(p) /\ OwnInv(p)'
  <2>1. /\ at[p] = "work" /\ at'[p] \in {"work", "tool"}
        /\ UNCHANGED <<staged, told, failures>>
        /\ copy'[p].shared = copy[p].shared /\ copy'[p].knownShared = copy[p].knownShared
    BY <1>1, <1>7 DEF UseTool, Shape
  <2>2. Quiet(p)
    BY <1>1, <1>7 DEF UseTool, Shape, Quiet, Grows
  <2>3. IsCopied(p)'
    BY <1>1, <2>1 DEF IsCopied
  <2> QED BY <2>1, <2>2, <2>3, QuietKeeps DEF Assigned
<1>8. CASE SyncAfterTool(p)
  <2>1. /\ at[p] = "tool" /\ at' = [at EXCEPT ![p] = "work"] /\ Sync(p)
        /\ UNCHANGED <<staged, request, edits, blocks, told, failures>>
    BY <1>8 DEF SyncAfterTool
  <2>2. /\ at'[p] = "work" /\ copy'[p].shared = copy[p].shared
        /\ \/ copy'[p].knownShared \subseteq DOMAIN copy'[p].shared
           \/ copy'[p].knownShared = copy[p].knownShared
    BY <1>1, <2>1, SyncGrows DEF Shape
  <2>3. Quiet(p)
    BY <1>1, <2>1, SyncGrows DEF Shape, Quiet
  <2>4. IsCopied(p)'
    BY <1>1, <2>1, <2>2 DEF IsCopied
  <2> QED BY <2>1, <2>3, <2>4, QuietKeeps DEF Assigned
<1>9. ASSUME NEW names \in SUBSET Names, NEW question \in BOOLEAN, Answer(p, names, question)
      PROVE  Shape' /\ Spares(p) /\ OwnInv(p)'
  <2>1. /\ at[p] = "work" /\ at' = [at EXCEPT ![p] = "answer"]
        /\ blocks' = [blocks EXCEPT ![p] = FileBlocks(p, names)]
        /\ UNCHANGED <<staged, request, shared, edits, told, failures>>
        /\ DOMAIN copy' = Profiles
        /\ \A q \in Profiles : /\ DOMAIN copy'[q] = DOMAIN copy[q]
                               /\ copy'[q].shared = copy[q].shared
                               /\ copy'[q].knownShared = copy[q].knownShared
                               /\ q # p => copy'[q] = copy[q]
    BY <1>1, <1>9 DEF Answer, Shape
  <2>2. Shape'
    BY <1>1, <2>1 DEF Shape
  <2>3. Spares(p)
    BY <1>1, <2>1 DEF Shape, Spares, Grows
  <2>4. told[p].request # request
    BY <1>1, <2>1 DEF IsDone
  <2>5. at'[p] = "answer"
    BY <1>1, <2>1 DEF Shape
  <2>6. IsDone(p)' /\ HasInputs(p)' /\ Stays(p)' /\ IsCopied(p)'
    BY <1>1, <2>1, <2>4, <2>5 DEF IsDone, HasInputs, Stays, IsCopied, Assigned
  <2> QED BY <2>2, <2>3, <2>6 DEF OwnInv
<1>10. CASE Fails(p)
  <2>1. /\ at[p] = "work" /\ at' = [at EXCEPT ![p] = "sent"]
        /\ told' = [told EXCEPT ![p] = [@ EXCEPT !.request = request, !.ok = FALSE]]
        /\ UNCHANGED <<staged, request, shared, scratch, copy, edits, blocks, failures>>
    BY <1>10 DEF Fails
  <2>2. /\ at'[p] = "sent" /\ told'[p].request = request /\ told'[p].ok = FALSE
        /\ told'[p].files = told[p].files /\ DOMAIN told'[p] = DOMAIN told[p]
    BY <1>1, <2>1 DEF Shape
  <2>3. Shape'
    BY <1>1, <2>1, <2>2 DEF Shape
  <2>4. Spares(p)
    BY <1>1, <2>1 DEF Shape, Spares, Grows
  <2>5. IsDone(p)' /\ HasInputs(p)' /\ Stays(p)' /\ IsCopied(p)'
    BY <1>1, <2>1, <2>2 DEF Shape, IsDone, HasInputs, Stays, IsCopied, Assigned
  <2> QED BY <2>3, <2>4, <2>5 DEF OwnInv
<1>11. CASE SyncBarrier(p)
  <2>1. /\ at[p] = "answer" /\ at' = [at EXCEPT ![p] = "publish"] /\ Sync(p)
        /\ UNCHANGED <<staged, request, edits, blocks, told, failures>>
    BY <1>11 DEF SyncBarrier
  <2>2. /\ at'[p] = "publish" /\ copy'[p].shared = copy[p].shared
        /\ \/ copy'[p].knownShared \subseteq DOMAIN copy'[p].shared
           \/ copy'[p].knownShared = copy[p].knownShared
    BY <1>1, <2>1, SyncGrows DEF Shape
  <2>3. Quiet(p)
    BY <1>1, <2>1, SyncGrows DEF Shape, Quiet
  <2>4. IsCopied(p)'
    BY <1>1, <2>1, <2>2 DEF IsCopied
  <2> QED BY <2>1, <2>3, <2>4, QuietKeeps DEF Assigned
<1>12. ASSUME NEW outputs \in ToolOutputs, Publish(p, outputs)
       PROVE  Shape' /\ Spares(p) /\ OwnInv(p)'
  <2> DEFINE persisted == Persists(p)
             files == DOMAIN blocks[p] \cup persisted
             built == Built(p)
             output == [f \in {<<p, n>> : n \in outputs} |-> Mine(p)]
  <2>1. /\ at[p] = "publish" /\ at' = [at EXCEPT ![p] = "sent"]
        /\ told' = [told EXCEPT ![p] = [request |-> request, ok |-> TRUE,
                                        files |-> DOMAIN blocks[p] \cup outputs]]
        /\ blocks' = [blocks EXCEPT ![p] = Restrict(@, DOMAIN @ \ outputs)]
        /\ UNCHANGED <<staged, request, scratch, edits>>
    BY <1>12 DEF Publish
  <2>2. /\ DOMAIN built = {<<p, n>> : n \in files} \cup DOMAIN shared
        /\ \A n \in DOMAIN blocks[p] : built[<<p, n>>] = blocks[p][n]
        /\ \A f \in DOMAIN shared : f[1] # p => built[f] = shared[f]
    BY DEF Built, Persists, Over
  <2> HIDE DEF built
  <2>3. /\ DOMAIN output = {<<p, n>> : n \in outputs}
        /\ DOMAIN Over(output, built) = DOMAIN output \cup DOMAIN built
        /\ \A f \in DOMAIN Over(output, built) :
              Over(output, built)[f] = IF f \in DOMAIN output THEN output[f] ELSE built[f]
    BY DEF Over
  <2> HIDE DEF files, output
  <2>4. \/ outputs = {} /\ shared' = built /\ UNCHANGED <<copy, failures>>
        \/ \E view : /\ CountFailure(view # built) /\ shared' = Over(output, built)
                     /\ copy' = IF staged THEN [copy EXCEPT ![p] = Refreshed(@, built, view)] ELSE copy
    BY <1>12 DEF Publish, RunTools, built, output
  <2>5. /\ DOMAIN shared' = DOMAIN output \cup DOMAIN built
        /\ \A f \in DOMAIN shared' : shared'[f] = IF f \in DOMAIN output THEN output[f] ELSE built[f]
    <3>1. outputs = {} => DOMAIN output = {}
      BY <2>3
    <3> QED BY <2>3, <2>4, <3>1
  <2>6. /\ failures' \in Nat /\ (failures' = 0 => failures = 0)
        /\ DOMAIN copy' = Profiles
        /\ \A q \in Profiles : DOMAIN copy'[q] = DOMAIN copy[q] /\ (q # p => copy'[q] = copy[q])
        /\ staged /\ failures' = 0 => \/ copy'[p] = copy[p]
                                      \/ copy'[p].knownShared = DOMAIN copy'[p].shared
    <3>1. CASE UNCHANGED <<copy, failures>>
      BY <1>1, <3>1 DEF Shape
    <3>2. CASE ~UNCHANGED <<copy, failures>>
      <4>0. PICK view :
              /\ CountFailure(view # built)
              /\ copy' = IF staged THEN [copy EXCEPT ![p] = Refreshed(@, built, view)] ELSE copy
        BY <2>4, <3>2
      <4>1. /\ failures' \in Nat
            /\ failures' = 0 => failures = 0 /\ view = built
        BY <1>1, <4>0, FailureIsCounted DEF Shape
      <4>2. /\ DOMAIN copy' = Profiles
            /\ \A q \in Profiles : DOMAIN copy'[q] = DOMAIN copy[q] /\ (q # p => copy'[q] = copy[q])
            /\ staged /\ view = built => copy'[p].knownShared = DOMAIN copy'[p].shared
        <5> DEFINE r == Refreshed(copy[p], built, view)
        <5>1. /\ DOMAIN r = DOMAIN copy[p]
              /\ view = built => r.knownShared = DOMAIN r.shared
          BY <1>1 DEF Refreshed, Shape
        <5> HIDE DEF r
        <5>2. copy' = IF staged THEN [copy EXCEPT ![p] = r] ELSE copy
          BY <4>0 DEF r
        <5> QED BY <1>1, <5>1, <5>2 DEF Shape
      <4> QED BY <4>1, <4>2
    <3> QED BY <3>1, <3>2
  <2>7. Grows(p)
    BY <2>2, <2>3, <2>5, <2>6 DEF Grows
  <2>8. /\ at'[p] = "sent" /\ told'[p].request = request
        /\ told'[p].files = DOMAIN blocks[p] \cup outputs
        /\ DOMAIN told'[p] = {"request", "ok", "files"}
        /\ blocks'[p] = Restrict(blocks[p], DOMAIN blocks[p] \ outputs)
    BY <1>1, <2>1 DEF Shape
  <2>9. Shape'
    BY <1>1, <2>1, <2>6, <2>8 DEF Shape
  <2>10. Spares(p)
    BY <1>1, <2>1, <2>6, <2>7 DEF Shape, Spares
  <2>11. Stays(p)'
    <3>1. \A n \in told'[p].files : <<p, n>> \in DOMAIN shared'
      BY <2>2, <2>3, <2>5, <2>8 DEF files
    <3>2. ASSUME NEW n \in DOMAIN blocks'[p]
          PROVE  <<p, n>> \in DOMAIN shared' /\ shared'[<<p, n>>] = blocks'[p][n]
      <4>1. n \in DOMAIN blocks[p] /\ n \notin outputs /\ blocks'[p][n] = blocks[p][n]
        BY <2>8, <3>2 DEF Restrict
      <4>2. <<p, n>> \in DOMAIN built /\ <<p, n>> \notin DOMAIN output
        BY <2>2, <2>3, <4>1 DEF files
      <4> QED BY <2>2, <2>5, <4>1, <4>2
    <3> QED BY <3>1, <3>2 DEF Stays
  <2>12. IsDone(p)' /\ HasInputs(p)'
    BY <1>1, <2>1, <2>8 DEF Shape, IsDone, HasInputs, Assigned
  <2>13. IsCopied(p)'
    BY <1>1, <2>1, <2>6, <2>8 DEF IsCopied
  <2> QED BY <2>9, <2>10, <2>11, <2>12, <2>13 DEF OwnInv
<1>13. CASE SyncWorkspace(p)
  <2>1. /\ at[p] = "sent" /\ at' = [at EXCEPT ![p] = "idle"] /\ Sync(p)
        /\ UNCHANGED <<staged, request, blocks, told, failures>>
    BY <1>13 DEF SyncWorkspace
  <2>2. /\ at'[p] = "idle" /\ copy'[p].shared = copy[p].shared
        /\ \/ copy'[p].knownShared \subseteq DOMAIN copy'[p].shared
           \/ copy'[p].knownShared = copy[p].knownShared
    BY <1>1, <2>1, SyncGrows DEF Shape
  <2>3. Quiet(p)
    BY <1>1, <2>1, SyncGrows DEF Shape, Quiet
  <2>4. IsCopied(p)'
    BY <1>1, <2>1, <2>2 DEF IsCopied
  <2> QED BY <2>2, <2>3, <2>4, QuietKeeps DEF Assigned
<1> QED BY <1>3, <1>4, <1>5, <1>6, <1>7, <1>8, <1>9, <1>10, <1>11, <1>12, <1>13 DEF Work

LEMMA FilesInit == WorkspaceInit => FilesInv
<1> SUFFICES ASSUME WorkspaceInit PROVE FilesInv
  OBVIOUS
<1>1. Shape
  BY DEF WorkspaceInit, Shape, Stage, None
<1>2. ASSUME NEW p \in Profiles PROVE OwnInv(p)
  BY DEF WorkspaceInit, OwnInv, IsDone, HasInputs, Stays, IsCopied, Stage, None, Assigned
<1> QED BY <1>1, <1>2 DEF FilesInv

LEMMA FilesStep == FilesInv /\ [WorkspaceNext]_workspaceVars => FilesInv'
<1> SUFFICES ASSUME FilesInv, [WorkspaceNext]_workspaceVars PROVE FilesInv'
  OBVIOUS
<1>1. CASE EndRequest
  <2>1. /\ request' = request + 1 /\ \A p \in Profiles : at[p] = "idle"
        /\ UNCHANGED <<staged, shared, copy, at, edits, blocks, told, failures>>
    BY <1>1 DEF EndRequest
  <2>2. Shape'
    BY <2>1 DEF FilesInv, Shape
  <2>3. ASSUME NEW p \in Profiles PROVE OwnInv(p)'
    <3>1. /\ told[p].request <= request /\ told[p].request \in Nat /\ request \in Nat
          /\ failures = 0 => \A n \in told[p].files : <<p, n>> \in DOMAIN shared
          /\ IsCopied(p) /\ at[p] = "idle"
      BY <2>1 DEF FilesInv, OwnInv, IsDone, Stays, Shape
    <3>2. told[p].request # request' /\ told[p].request <= request'
      BY <2>1, <3>1
    <3> QED BY <2>1, <3>1, <3>2 DEF OwnInv, IsDone, HasInputs, Stays, IsCopied, Assigned
  <2> QED BY <2>2, <2>3 DEF FilesInv
<1>2. ASSUME NEW p \in Profiles, Work(p) PROVE FilesInv'
  <2>1. Shape' /\ Spares(p) /\ OwnInv(p)'
    BY <1>2, WorkKeeps
  <2>2. \A q \in Profiles : q # p => OwnInv(q)'
    BY <2>1, OthersKeep
  <2> QED BY <2>1, <2>2 DEF FilesInv
<1>3. CASE UNCHANGED workspaceVars
  BY <1>3 DEF workspaceVars, FilesInv, Shape, OwnInv, IsDone, HasInputs, Stays, IsCopied
<1> QED BY <1>1, <1>2, <1>3 DEF WorkspaceNext

LEMMA FilesInvariant == WorkspaceSpec => []FilesInv
  BY FilesInit, FilesStep, PTL DEF WorkspaceSpec

(* An agent sees the files that the results it depends on list, whatever    *)
(* others refresh, sync and publish meanwhile: as they were answered where  *)
(* it works in the tiers, as the storage's one does; in staged copies, for  *)
(* as long as no refresh has failed, at least under their names.            *)
THEOREM Visible == WorkspaceSpec => []UpstreamIsVisible
<1>1. FilesInv => UpstreamIsVisible
  <2> SUFFICES ASSUME FilesInv PROVE UpstreamIsVisible
    OBVIOUS
  <2>1. failures = 0 => \A u \in Profiles : \A n \in told[u].files : <<u, n>> \in DOMAIN shared
    BY DEF FilesInv, OwnInv, Stays
  <2>2. ASSUME failures = 0, NEW p \in Profiles, at[p] \in {"work", "tool", "answer"},
               NEW u \in Upstream[p]
        PROVE  /\ \A n \in told[u].files : <<u, n>> \in DOMAIN SharedDir(p)
               /\ ~staged => \A n \in DOMAIN blocks[u] : SharedDir(p)[<<u, n>>] = blocks[u][n]
    <3>1. u \in Profiles
      BY WorkspaceAssumption
    <3>2. told[u].request = request /\ told[u].ok
      BY <2>2 DEF FilesInv, OwnInv, HasInputs, Assigned
    <3>3. CASE staged
      <4>1. SharedDir(p) = copy[p].shared
        BY <3>3 DEF SharedDir
      <4> QED BY <2>2, <3>3, <4>1 DEF FilesInv, OwnInv, IsCopied
    <3>4. CASE ~staged
      <4>1. SharedDir(p) = shared
        BY <3>4 DEF SharedDir, TierPath
      <4> QED BY <2>2, <3>1, <3>2, <3>4, <4>1 DEF FilesInv, OwnInv, Stays
    <3> QED BY <3>3, <3>4
  <2> QED BY <2>1, <2>2 DEF UpstreamIsVisible
<1> QED BY <1>1, FilesInvariant, PTL

-----------------------------------------------------------------------------
(* What depends on what is told the agent, for every number of tasks and    *)
(* files, every result, and every limit that has room for their names.      *)

LEMMA InputLimits ==
    /\ IsFiniteSet(Deps) /\ IsFiniteSet(Kinds) /\ Results \subseteq Nat
    /\ Room \in Nat /\ Floor \in Nat /\ LastLine \in Nat
    /\ Cardinality(Deps) \in Nat /\ Cardinality(Kinds) \in Nat
    /\ 6 + Cardinality(Deps) * (Cardinality(Kinds) + 1) <= Floor
<1>1. \A S : Input!IsFiniteSet(S) <=> IsFiniteSet(S)
  BY Zenon DEF Input!IsFiniteSet, IsFiniteSet
<1>2. \A S : Input!Cardinality(S) = Cardinality(S)
  BY Zenon DEF Input!Cardinality, Cardinality, Input!IsFiniteSet, IsFiniteSet
<1>3. IsFiniteSet(Deps) /\ IsFiniteSet(Kinds)
  BY <1>1, InputAssumption DEF Input!TaskInputAssumption
<1>4. Cardinality(Deps) \in Nat /\ Cardinality(Kinds) \in Nat
  BY <1>3, FS_CardinalityType
<1> QED BY <1>2, <1>3, <1>4, InputAssumption DEF Input!TaskInputAssumption

\* Short texts keep their size and leave what they spare to the long ones.
LEMMA SparedIsShared ==
    ASSUME NEW N \in Nat, NEW p \in Nat, NEW q \in Nat, NEW long \in SUBSET (1 .. N),
           NEW a \in Seq(Nat), Len(a) = N, NEW b \in Seq(Nat), Len(b) = N,
           \A i \in 1 .. N : i \in long => a[i] <= p + q /\ b[i] = 0,
           \A i \in 1 .. N : i \notin long => a[i] + b[i] <= p
    PROVE  Sums(a)[N] + Sums(b)[N] <= N * p + Cardinality(long) * q
<1> DEFINE Of(n) == long \cap 1 .. n
           S == {n \in 0 .. N : Sums(a)[n] + Sums(b)[n] <= n * p + Cardinality(Of(n)) * q}
<1>1. \A n \in 0 .. N : IsFiniteSet(Of(n)) /\ Cardinality(Of(n)) \in Nat
  <2>1. IsFiniteSet(1 .. N)
    BY FS_Interval
  <2>2. IsFiniteSet(long)
    BY <2>1, FS_Subset
  <2>3. \A n \in 0 .. N : Of(n) \in SUBSET long
    OBVIOUS
  <2> QED BY <2>2, <2>3, FS_Subset, FS_CardinalityType
<1>2. /\ Sums(a)[0] = 0 /\ \A n \in 1 .. N : Sums(a)[n] = Sums(a)[n - 1] + a[n]
      /\ Sums(b)[0] = 0 /\ \A n \in 1 .. N : Sums(b)[n] = Sums(b)[n - 1] + b[n]
      /\ \A n \in 0 .. N : Sums(a)[n] \in Nat /\ Sums(b)[n] \in Nat
  BY SumsAdd
<1>3. 0 \in S
  <2>1. Of(0) = {}
    OBVIOUS
  <2>2. Cardinality(Of(0)) = 0
    BY <2>1, FS_EmptySet
  <2>3. 0 * p + Cardinality(Of(0)) * q = 0
    <3>1. 0 * p + 0 * q = 0
      OBVIOUS
    <3> HIDE DEF Of
    <3> QED BY <2>2, <3>1
  <2>4. Sums(a)[0] + Sums(b)[0] <= 0 * p + Cardinality(Of(0)) * q
    <3> HIDE DEF Of
    <3> QED BY <1>2, <2>3
  <2> HIDE DEF Of
  <2> QED BY <2>4
<1>4. ASSUME NEW n \in 1 .. N, n - 1 \in S PROVE n \in S
  <2> DEFINE c == Cardinality(Of(n))
             d == Cardinality(Of(n - 1))
             x == Sums(a)[n - 1] + Sums(b)[n - 1]
             y == Sums(a)[n] + Sums(b)[n]
             e == (n - 1) * p
  <2>1. n \in 0 .. N /\ n - 1 \in 0 .. N
    OBVIOUS
  <2>2. Of(n) = IF n \in long THEN Of(n - 1) \cup {n} ELSE Of(n - 1)
    <3>1. 1 .. n = 1 .. (n - 1) \cup {n}
      OBVIOUS
    <3> QED BY <3>1
  <2>3. n \notin Of(n - 1)
    OBVIOUS
  <2>4. IsFiniteSet(Of(n - 1)) /\ c \in Nat /\ d \in Nat
    BY <1>1, <2>1
  <2>5. c = IF n \in long THEN d + 1 ELSE d
    <3> HIDE DEF Of
    <3> QED BY <2>2, <2>3, <2>4, FS_AddElement
  <2>6. x <= e + d * q
    BY <1>4
  <2>7. a[n] \in Nat /\ b[n] \in Nat /\ y = x + (a[n] + b[n]) /\ x \in Nat
    <3>1. /\ Sums(a)[n] = Sums(a)[n - 1] + a[n] /\ Sums(b)[n] = Sums(b)[n - 1] + b[n]
          /\ Sums(a)[n - 1] \in Nat /\ Sums(b)[n - 1] \in Nat
      BY <1>2, <2>1
    <3>2. a[n] \in Nat /\ b[n] \in Nat
      OBVIOUS
    <3>3. \A k, l, g, h \in Nat : (k + g) + (l + h) = (k + l) + (g + h) /\ k + l \in Nat
      OBVIOUS
    <3> DEFINE k == Sums(a)[n - 1]
               l == Sums(b)[n - 1]
               g == a[n]
               h == b[n]
    <3>4. y = (k + g) + (l + h)
      BY <3>1
    <3>5. k \in Nat /\ l \in Nat /\ g \in Nat /\ h \in Nat
      BY <3>1, <3>2
    <3>6. x = k + l
      OBVIOUS
    <3> HIDE DEF k, l, g, h, x, y
    <3>7. y = x + (g + h) /\ x \in Nat
      BY <3>3, <3>4, <3>5, <3>6
    <3> QED BY <3>5, <3>7 DEF g, h
  <2>8. n * p = e + p /\ e \in Nat
    OBVIOUS
  <2> HIDE DEF Of, c, d, x, y, e
  <2>9. CASE n \in long
    <3>1. c * q = d * q + q /\ d * q \in Nat
      BY <2>4, <2>5, <2>9
    <3>2. a[n] + b[n] <= p + q
      BY <2>7, <2>9
    <3>3. y <= n * p + c * q
      <4> DEFINE f == d * q
      <4>1. x <= e + f /\ f \in Nat /\ c * q = f + q
        BY <2>6, <3>1
      <4> HIDE DEF f
      <4>2. y <= (e + p) + (f + q)
        BY <2>7, <2>8, <3>2, <4>1
      <4> QED BY <2>8, <4>1, <4>2
    <3> QED BY <2>1, <3>3 DEF c, y
  <2>10. CASE n \notin long
    <3>1. d * q \in Nat
      BY <2>4
    <3>2. a[n] + b[n] <= p
      BY <2>10
    <3>3. y <= n * p + c * q
      <4> DEFINE f == d * q
      <4>1. x <= e + f /\ f \in Nat /\ c * q = f
        BY <2>5, <2>6, <2>10, <3>1
      <4> HIDE DEF f
      <4>2. y <= (e + p) + f
        BY <2>7, <2>8, <3>2, <4>1
      <4> QED BY <2>8, <4>1, <4>2
    <3> QED BY <2>1, <3>3 DEF c, y
  <2> QED BY <2>9, <2>10
<1> HIDE DEF S
<1>5. 0 .. N \subseteq S
  BY <1>3, <1>4, Induction
<1>6. N \in S
  BY <1>5
<1>7. Of(N) = long
  OBVIOUS
<1> QED BY <1>6, <1>7 DEF S

People == {"", Worker, Reviewer} \cup {AgentOf[d] : d \in Deps}

Uris == {<<>>} \cup {<<"artifacts", a>> : a \in People}
               \cup {Input!Path(a, k) : a \in People, k \in Kinds}

Keys == {"file", "dependency", "text", "request", "knowledge", "existing", "pipeline",
         "context", "first"}

Parts == [key : Keys, dep : Deps \cup {"", "self"}, agent : People, uri : Uris,
          files : SUBSET Kinds, size : Nat]

\* A text that was cut is still about the same, and there is something of it.
IsCutOf(t, u) == /\ t.uri = u.uri /\ t.dep = u.dep
                 /\ u.size > 0 => t.size > 0

LEMMA SizesOfTexts ==
    ASSUME NEW t \in Seq(Parts)
    PROVE  /\ [i \in DOMAIN t |-> t[i].size] \in Seq(Nat)
           /\ Len([i \in DOMAIN t |-> t[i].size]) = Len(t)
           /\ Input!TotalSize(t) = Sums([i \in DOMAIN t |-> t[i].size])[Len(t)]
<1> DEFINE z == [i \in DOMAIN t |-> t[i].size]
<1>1. \A u \in Parts : u.size \in Nat
  BY DEF Parts
<1>2. z \in [1 .. Len(t) -> Nat] /\ Len(t) \in Nat
  <2> HIDE DEF Parts
  <2> QED BY <1>1
<1> HIDE DEF z
<1>3. z \in Seq(Nat) /\ Len(z) = Len(t)
  BY <1>2, FunctionIsSeq
<1>4. Input!TotalSize(t) = Input!Total(z)
  BY Zenon DEF Input!TotalSize, z
<1> QED BY <1>3, <1>4, SumsAdd DEF z

\* truncateDeps keeps something of every text, and to its budget.
LEMMA Truncated ==
    ASSUME NEW texts \in Seq(Parts), Len(texts) <= Floor, NEW room \in Nat
    PROVE  LET c == Input!TruncateDeps(texts, room)
           IN  /\ DOMAIN c = 1 .. Len(texts)
               /\ \A i \in 1 .. Len(texts) : IsCutOf(c[i], texts[i])
               /\ Input!TotalSize(c) <= (IF room < Floor THEN Floor ELSE room)
<1> DEFINE N == Len(texts)
           budget == IF room < Floor THEN Floor ELSE room
           p == budget \div N
           long == {i \in DOMAIN texts : texts[i].size > p}
           spare == [i \in DOMAIN texts |-> IF i \in long THEN 0 ELSE p - texts[i].size]
           surplus == Input!Total(spare)
           limit == p + surplus \div Input!Cardinality(long)
           cut == [i \in DOMAIN texts |->
                     IF i \in long /\ texts[i].size > limit
                     THEN [texts[i] EXCEPT !.size = Input!Cut(limit)] ELSE texts[i]]
           c == Input!TruncateDeps(texts, room)
           Good(t) == /\ DOMAIN t = 1 .. N
                      /\ \A i \in 1 .. N : IsCutOf(t[i], texts[i])
                      /\ Input!TotalSize(t) <= budget
<1>1. c = IF texts = <<>> \/ Input!TotalSize(texts) <= budget THEN texts ELSE cut
  BY Zenon DEF Input!TruncateDeps
<1>2. /\ N \in Nat /\ DOMAIN texts = 1 .. N /\ Floor \in Nat
      /\ budget \in Nat /\ N <= budget
      /\ \A i \in 1 .. N : texts[i] \in Parts
  BY InputLimits
<1>3. \A t \in Parts : t.size \in Nat
  BY DEF Parts
<1> SUFFICES Good(c)
  OBVIOUS
<1>4. CASE texts = <<>> \/ Input!TotalSize(texts) <= budget
  <2>1. c = texts
    BY <1>1, <1>4
  <2>2. texts = <<>> => Input!TotalSize(texts) = 0
    <3>1. texts = <<>> => Sums([i \in DOMAIN texts |-> texts[i].size])[0] = 0
      BY SizesOfTexts, SumsAdd
    <3> QED BY <3>1, SizesOfTexts
  <2>3. Input!TotalSize(texts) <= budget
    <3> HIDE DEF budget
    <3> QED BY <1>2, <1>4, <2>2
  <2>4. \A i \in 1 .. N : IsCutOf(texts[i], texts[i])
    BY DEF IsCutOf
  <2> HIDE DEF c, N, budget
  <2> QED BY <1>2, <2>1, <2>3, <2>4
<1>5. CASE texts # <<>> /\ ~(Input!TotalSize(texts) <= budget)
  <2>1. c = cut
    BY <1>1, <1>5
  <2>2. N > 0
    BY <1>5
  <2> HIDE DEF budget, N, c
  <2>3. p \in Nat /\ p > 0 /\ N * p <= budget
    BY <1>2, <2>2
  <2> HIDE DEF p
  <2>4. /\ long \in SUBSET (1 .. N)
        /\ \A i \in 1 .. N : i \in long <=> texts[i].size > p
    BY <1>2
  <2>5. IsFiniteSet(long) /\ Cardinality(long) \in Nat /\ (Cardinality(long) = 0 <=> long = {})
    <3>1. IsFiniteSet(1 .. N)
      BY <1>2, FS_Interval
    <3> HIDE DEF long
    <3>2. IsFiniteSet(long)
      BY <2>4, <3>1, FS_Subset
    <3> QED BY <3>2, FS_CardinalityType, FS_EmptySet
  <2>6. spare \in Seq(Nat) /\ Len(spare) = N
    <3>1. spare \in [1 .. N -> Nat]
      BY <1>2, <1>3, <2>3, <2>4
    <3> HIDE DEF spare
    <3> QED BY <1>2, <3>1, FunctionIsSeq
  <2>7. surplus \in Nat /\ surplus = Sums(spare)[N]
    <3> HIDE DEF spare
    <3> QED BY <1>2, <2>6, SumsAdd
  <2>8. Input!Cardinality(long) = Cardinality(long)
    BY Zenon DEF Input!Cardinality, Cardinality, Input!IsFiniteSet, IsFiniteSet
  <2> DEFINE q == IF long = {} THEN 0 ELSE surplus \div Cardinality(long)
             a == [i \in DOMAIN cut |-> cut[i].size]
  <2> HIDE DEF surplus
  <2>9. q \in Nat /\ Cardinality(long) * q <= surplus
    <3> HIDE DEF long
    <3> QED BY <2>5, <2>7
  <2>10. long # {} => limit = p + q
    BY <2>8
  <2> HIDE DEF q, limit
  <2>11. ASSUME NEW i \in 1 .. N
         PROVE  /\ cut[i] \in Parts /\ IsCutOf(cut[i], texts[i])
                /\ i \in long => cut[i].size <= p + q
                /\ i \notin long => cut[i] = texts[i]
    <3>1. texts[i] \in Parts /\ i \in DOMAIN texts
      BY <1>2
    <3>2. CASE i \in long /\ texts[i].size > limit
      <4> DEFINE z == Input!Cut(limit)
                 t == [texts[i] EXCEPT !.size = z]
      <4>1. limit \in Nat /\ limit > 0 /\ limit = p + q
        BY <2>3, <2>9, <2>10, <3>2
      <4>2. z \in Nat /\ z > 0 /\ z <= limit
        <5>1. limit \div 2 \in Nat
          BY <4>1
        <5> QED BY <4>1, <5>1, InputLimits DEF Input!Cut
      <4>3. cut[i] = t
        BY <3>1, <3>2
      <4> HIDE DEF z
      <4>4. t \in Parts /\ t.uri = texts[i].uri /\ t.dep = texts[i].dep /\ t.size = z
        <5>1. \A u \in Parts, x \in Nat :
                 LET v == [u EXCEPT !.size = x]
                 IN  v \in Parts /\ v.uri = u.uri /\ v.dep = u.dep /\ v.size = x
          BY DEF Parts
        <5> QED BY <3>1, <4>2, <5>1
      <4> HIDE DEF t
      <4> QED BY <3>2, <4>1, <4>2, <4>3, <4>4 DEF IsCutOf
    <3>3. CASE ~(i \in long /\ texts[i].size > limit)
      <4>1. cut[i] = texts[i]
        BY <3>1, <3>3
      <4>2. i \in long => texts[i].size <= p + q
        <5>1. ASSUME i \in long PROVE texts[i].size <= p + q
          <6>1. limit = p + q
            BY <2>10, <5>1
          <6>2. ~(texts[i].size > p + q)
            BY <3>3, <5>1, <6>1
          <6> QED BY <1>3, <2>3, <2>9, <3>1, <6>2
        <5> QED BY <5>1
      <4> QED BY <3>1, <4>1, <4>2 DEF IsCutOf
    <3> QED BY <3>2, <3>3
  <2>12. DOMAIN cut = 1 .. N
    BY <1>2
  <2>13. cut \in Seq(Parts) /\ Len(cut) = N
    <3> DEFINE f == [i \in 1 .. N |-> cut[i]]
    <3>1. f \in [1 .. N -> Parts]
      BY <2>11
    <3>2. f = cut
      BY <2>12
    <3> HIDE DEF f, cut
    <3> QED BY <1>2, <3>1, <3>2, FunctionIsSeq
  <2> HIDE DEF cut
  <2>14. a \in Seq(Nat) /\ Len(a) = N /\ Input!TotalSize(cut) = Sums(a)[N]
    BY <2>13, SizesOfTexts
  <2>15. \A i \in 1 .. N : a[i] = cut[i].size
    BY <2>12
  <2>16. \A i \in 1 .. N : i \in long => a[i] <= p + q /\ spare[i] = 0
    BY <1>2, <2>11, <2>15
  <2>17. \A i \in 1 .. N : i \notin long => a[i] + spare[i] <= p
    <3> SUFFICES ASSUME NEW i \in 1 .. N, i \notin long PROVE a[i] + spare[i] <= p
      OBVIOUS
    <3>1. a[i] = texts[i].size
      BY <2>11, <2>15
    <3>2. spare[i] = p - texts[i].size
      BY <1>2
    <3>3. texts[i].size \in Nat
      BY <1>2, <1>3
    <3> QED BY <2>3, <3>1, <3>2, <3>3
  <2> HIDE DEF a, spare, long
  <2>18. Sums(a)[N] + Sums(spare)[N] <= N * p + Cardinality(long) * q
    BY <1>2, <2>3, <2>4, <2>6, <2>9, <2>14, <2>16, <2>17, SparedIsShared
  <2>19. Sums(a)[N] \in Nat
    BY <1>2, <2>14, SumsAdd
  <2>20. Sums(a)[N] <= budget
    <3> DEFINE v == Cardinality(long) * q
               w == N * p
               x == Sums(a)[N]
               y == Sums(spare)[N]
    <3>1. v \in Nat /\ w \in Nat
      BY <1>2, <2>3, <2>5, <2>9
    <3>2. x + y <= w + v /\ v <= y /\ w <= budget /\ x \in Nat /\ y \in Nat
      BY <2>3, <2>7, <2>9, <2>18, <2>19
    <3> HIDE DEF v, w, x, y
    <3>3. x <= budget
      BY <1>2, <3>1, <3>2
    <3> QED BY <3>3 DEF x
  <2> QED BY <2>1, <2>11, <2>12, <2>14, <2>20
<1> QED BY <1>4, <1>5

\* A part makes one section or none.
LEMMA SectionIsText ==
    ASSUME NEW t \in Parts
    PROVE  Input!SectionOf(t) \in Seq(Parts) /\ Len(Input!SectionOf(t)) <= 1
<1> DEFINE files == IF Input!Cardinality(t.files) <= MaxListed THEN t.files ELSE {}
           u == [t EXCEPT !.size = @ + 1, !.files = files]
<1>1. t \in Parts /\ t.files \in SUBSET Kinds /\ t.size \in Nat
  BY DEF Parts
<1>2. files \in SUBSET Kinds
  BY <1>1
<1> HIDE DEF files
<1>3. u \in Parts
  <2>1. \A r \in Parts, x \in Nat, y \in SUBSET Kinds : [r EXCEPT !.size = x, !.files = y] \in Parts
    BY DEF Parts
  <2>2. u = [t EXCEPT !.size = t.size + 1, !.files = files]
    BY DEF Parts
  <2>3. t.size + 1 \in Nat
    BY <1>1
  <2> HIDE DEF u
  <2> QED BY <1>2, <2>1, <2>2, <2>3
<1> HIDE DEF u
<1>4. Input!SectionOf(t) \in {<<>>, <<t>>, <<u>>}
  BY DEF Input!SectionOf, u, files
<1> HIDE DEF Parts
<1>5. \A v \in Parts : <<v>> \in Seq(Parts) /\ Len(<<v>>) = 1
  OBVIOUS
<1>6. <<>> \in Seq(Parts) /\ Len(<<>>) = 0
  OBVIOUS
<1>7. CASE Input!SectionOf(t) = <<>>
  BY <1>6, <1>7
<1>8. CASE Input!SectionOf(t) = <<t>>
  BY <1>5, <1>8
<1>9. CASE Input!SectionOf(t) = <<u>>
  BY <1>3, <1>5, <1>9
<1> QED BY <1>4, <1>7, <1>8, <1>9

\* What a part of the message says of what it is about, the input says.
LEMMA SectionArrives ==
    ASSUME NEW m \in Seq(Parts), Len(m) <= Floor
    PROVE  /\ \A x \in Parts : \A y : Has(m, x) /\ Has(Input!SectionOf(x), y) /\ y.size > 0 =>
                 \E s \in Input!ToSet(Input!BuildTaskInput(m)) :
                    s.size > 0 /\ s.uri = y.uri /\ s.dep = y.dep
           /\ Input!TotalSize(Input!BuildTaskInput(m)) <= (IF Room < Floor THEN Floor ELSE Room)
<1> DEFINE f == [i \in DOMAIN m |-> Input!SectionOf(m[i])]
           t == Input!FlattenSeq(f)
           c == Input!TruncateDeps(t, Room)
<1>1. c = Input!BuildTaskInput(m)
  BY Zenon DEF Input!BuildTaskInput
<1>2. Len(m) \in Nat /\ DOMAIN m = 1 .. Len(m) /\ \A i \in 1 .. Len(m) : m[i] \in Parts
  OBVIOUS
<1>3. f \in [1 .. Len(m) -> Seq(Parts)]
  BY <1>2, SectionIsText
<1>4. \A i \in 1 .. Len(m) : f[i] = Input!SectionOf(m[i])
  BY <1>2
<1> HIDE DEF f
<1>5. f \in Seq(Seq(Parts)) /\ Len(f) = Len(m)
  BY <1>2, <1>3, FunctionIsSeq
<1>6. \A i \in 1 .. Len(f) : Len(f[i]) <= 1
  BY <1>2, <1>4, <1>5, SectionIsText
<1>7. /\ t \in Seq(Parts) /\ Len(t) <= Len(f) * 1
      /\ \A i \in 1 .. Len(f) : \A x : Has(f[i], x) => Has(t, x)
  BY <1>5, <1>6, FlattenHas
<1> HIDE DEF t
<1>8. Len(t) <= Floor /\ Len(t) \in Nat /\ \A i \in 1 .. Len(t) : t[i] \in Parts
  BY <1>2, <1>5, <1>7, InputLimits
<1>9. /\ DOMAIN c = 1 .. Len(t) /\ \A i \in 1 .. Len(t) : IsCutOf(c[i], t[i])
      /\ Input!TotalSize(c) <= (IF Room < Floor THEN Floor ELSE Room)
  BY <1>7, <1>8, InputLimits, Truncated
<1> HIDE DEF c
<1>10. ASSUME NEW x \in Parts, NEW y, Has(m, x), Has(Input!SectionOf(x), y), y.size > 0
       PROVE  \E s \in Input!ToSet(c) : s.size > 0 /\ s.uri = y.uri /\ s.dep = y.dep
  <2>1. PICK i \in 1 .. Len(m) : m[i] = x
    BY <1>10 DEF Has
  <2>2. Has(f[i], y)
    BY <1>4, <1>10, <2>1
  <2>3. Has(t, y)
    BY <1>5, <1>7, <2>2
  <2>4. PICK j \in 1 .. Len(t) : t[j] = y
    BY <2>3 DEF Has
  <2>5. c[j] \in Input!ToSet(c)
    BY <1>9 DEF Input!ToSet
  <2>6. IsCutOf(c[j], y)
    BY <1>9, <2>4
  <2> QED BY <1>10, <2>5, <2>6 DEF IsCutOf
<1> QED BY <1>1, <1>9, <1>10

-----------------------------------------------------------------------------
\* A file of an agent, its directory.
LEMMA PathShape ==
    ASSUME NEW a, NEW k
    PROVE  /\ Input!Path(a, k) # <<>> /\ Len(Input!Path(a, k)) = 3
           /\ SubSeq(Input!Path(a, k), 1, 3) = Input!Path(a, k)
           /\ SubSeq(Input!Path(a, k), 1, 2) = <<"artifacts", a>>
<1> DEFINE T == {"artifacts", a, k}
           q == Input!Path(a, k)
           place == <<"artifacts", a>>
<1>1. q = <<"artifacts", a, k>>
  BY Zenon DEF Input!Path
<1>2. q \in Seq(T) /\ Len(q) = 3 /\ q # <<>> /\ q[1] = "artifacts" /\ q[2] = a
  BY <1>1
<1>3. place \in Seq(T) /\ Len(place) = 2 /\ place[1] = "artifacts" /\ place[2] = a
  OBVIOUS
<1> HIDE DEF q, place, T
<1>4. SubSeq(q, 1, 3) = q /\ SubSeq(q, 1, 2) \in Seq(T) /\ Len(SubSeq(q, 1, 2)) = 2
  BY <1>2
<1>5. \A i \in 1 .. 2 : SubSeq(q, 1, 2)[i] = q[i]
  BY <1>2
<1>6. \A i \in 1 .. 2 : SubSeq(q, 1, 2)[i] = place[i]
  <2>1. \A i \in 1 .. 2 : q[i] = place[i]
    BY <1>2, <1>3
  <2> QED BY <1>5, <2>1
<1>7. SubSeq(q, 1, 2) = place
  BY <1>3, <1>4, <1>6
<1> QED BY <1>2, <1>4, <1>7 DEF q, place

\* The address of a result leads to each of its files.
LEMMA AddressLeads ==
    ASSUME NEW a \in People, NEW files \in SUBSET Kinds,
           NEW uris, uris = {Input!Path(a, k) : k \in files}
    PROVE  LET u == Input!ExtractArtifactURI(uris)
           IN  /\ u \in Uris
               /\ \A k \in files : u # <<>> /\ Input!IsPrefixOf(u, Input!Path(a, k))
<1> DEFINE u == Input!ExtractArtifactURI(uris)
           Whole(v, k) == Input!IsPrefixOf(v, Input!Path(a, k))
<1>1. \A k : /\ Input!Path(a, k) # <<>> /\ Len(Input!Path(a, k)) = 3
             /\ SubSeq(Input!Path(a, k), 1, 3) = Input!Path(a, k)
             /\ SubSeq(Input!Path(a, k), 1, 2) = <<"artifacts", a>>
  BY PathShape
<1>2. CASE files = {}
  <2>1. uris = {}
    BY <1>2
  <2>2. u = <<>>
    BY <2>1 DEF Input!ExtractArtifactURI
  <2> QED BY <1>2, <2>2 DEF Uris
<1>3. CASE files # {} /\ Input!Cardinality(uris) = 1
  <2>1. uris # {}
    BY <1>3
  <2>2. u = CHOOSE v \in uris : TRUE
    BY <1>3, <2>1, Zenon DEF Input!ExtractArtifactURI
  <2>3. u \in uris
    BY <2>1, <2>2
  <2>4. IsFiniteSet(uris)
    <3> DEFINE f == [k \in files |-> Input!Path(a, k)]
    <3>1. f \in Surjection(files, uris)
      BY DEF Surjection
    <3>2. IsFiniteSet(files)
      BY InputLimits, FS_Subset
    <3> HIDE DEF f
    <3> QED BY <3>1, <3>2, FS_Surjection
  <2>5. Cardinality(uris) = 1
    <3>1. Input!Cardinality(uris) = Cardinality(uris)
      BY Zenon DEF Input!Cardinality, Cardinality, Input!IsFiniteSet, IsFiniteSet
    <3> QED BY <1>3, <3>1
  <2>6. PICK x : uris = {x}
    BY <2>4, <2>5, FS_Singleton
  <2>7. \A k \in files : Input!Path(a, k) = u
    BY <2>3, <2>6
  <2>8. u \in Uris
    <3>1. PICK k \in files : u = Input!Path(a, k)
      BY <2>3
    <3>2. k \in Kinds
      OBVIOUS
    <3>3. \A b \in People, l \in Kinds : Input!Path(b, l) \in Uris
      BY DEF Uris
    <3> HIDE DEF u
    <3> QED BY <3>1, <3>2, <3>3
  <2> HIDE DEF u
  <2>9. \A k \in files : u # <<>> /\ Len(u) = 3 /\ SubSeq(u, 1, 3) = u
    BY <1>1, <2>7
  <2>10. \A k \in files : u # <<>> /\ Input!IsPrefixOf(u, Input!Path(a, k))
    BY <2>7, <2>9 DEF Input!IsPrefixOf
  <2> QED BY <2>8, <2>10 DEF u
<1>4. CASE files # {} /\ Input!Cardinality(uris) # 1
  <2> DEFINE some == CHOOSE p \in uris : TRUE
             common == {n \in 0 .. Len(some) - 1 :
                          \A p \in uris : Input!IsPrefixOf(SubSeq(some, 1, n), p)}
             place == <<"artifacts", a>>
  <2>1. uris # {}
    BY <1>4
  <2>2. u = SubSeq(some, 1, Input!Max(common))
    BY <1>4, <2>1, Zenon DEF Input!ExtractArtifactURI, Input!CommonDirPrefix
  <2>3. some \in uris
    BY <2>1
  <2>4. PICK k0 \in files : some = Input!Path(a, k0)
    BY <2>3
  <2> HIDE DEF some
  <2>5. Len(some) = 3 /\ SubSeq(some, 1, 2) = place
    BY <1>1, <2>4
  <2>6. Len(place) = 2
    OBVIOUS
  <2>7. \A k \in files : Input!IsPrefixOf(place, Input!Path(a, k))
    BY <1>1, <2>6 DEF Input!IsPrefixOf
  <2> HIDE DEF place
  <2>8. 2 \in common /\ \A n \in common : n \in Nat /\ n <= 2
    <3>1. \A p \in uris : Input!IsPrefixOf(SubSeq(some, 1, 2), p)
      BY <2>5, <2>7
    <3> QED BY <2>5, <3>1
  <2> HIDE DEF common
  <2>9. Input!Max(common) = 2
    <3>1. \A x \in common : (\A y \in common : x >= y) => x = 2
      BY <2>8
    <3>2. \E x \in common : \A y \in common : x >= y
      BY <2>8
    <3>3. Input!Max(common) = CHOOSE x \in common : \A y \in common : x >= y
      BY DEF Input!Max
    <3> QED BY <3>1, <3>2, <3>3
  <2>10. u = place
    BY <2>2, <2>5, <2>9
  <2>11. place \in Uris /\ place # <<>>
    BY DEF Uris, place
  <2> HIDE DEF u
  <2>12. u \in Uris /\ \A k \in files : u # <<>> /\ Input!IsPrefixOf(u, Input!Path(a, k))
    BY <2>7, <2>10, <2>11
  <2> QED BY <2>12 DEF u
<1> QED BY <1>2, <1>3, <1>4

\* What the scheduler keeps of a result leads to its files.
IsNode(n, d) ==
    /\ n.files \in SUBSET Kinds /\ n.result \in Nat /\ n.completed \in BOOLEAN
    /\ n.uri \in Uris
    /\ \A k \in n.files : n.uri # <<>> /\ Input!IsPrefixOf(n.uri, Input!Path(AgentOf[d], k))

LEMMA NodesLead ==
    ASSUME NEW d \in Deps, NEW files \in SUBSET Kinds, NEW result \in Results,
           NEW completed \in BOOLEAN
    PROVE  IsNode(Input!NodeOf(d, files, result, completed), d)
<1> DEFINE uris == {Input!Path(AgentOf[d], k) : k \in files}
           u == Input!ExtractArtifactURI(uris)
           n == Input!NodeOf(d, files, result, completed)
<1>1. AgentOf[d] \in People
  BY DEF People
<1>2. u \in Uris /\ \A k \in files : u # <<>> /\ Input!IsPrefixOf(u, Input!Path(AgentOf[d], k))
  BY <1>1, AddressLeads
<1>3. n = [files |-> files, uri |-> u, result |-> result, completed |-> completed]
  BY Zenon DEF Input!NodeOf
<1> HIDE DEF u
<1>4. n.files = files /\ n.uri = u /\ n.result = result /\ n.completed = completed
  BY <1>3
<1> HIDE DEF n
<1>5. result \in Nat
  BY InputLimits
<1>6. IsNode(n, d)
  BY <1>2, <1>4, <1>5 DEF IsNode
<1> QED BY <1>6 DEF n

\* The sections lead to the file, and say something of the dependency.
Leads(texts, path) ==
    \E s \in Input!ToSet(texts) : s.size > 0 /\ s.uri # <<>> /\ Input!IsPrefixOf(s.uri, path)

SaysOf(texts, d) == \E s \in Input!ToSet(texts) : s.dep = d /\ s.size > 0

Delivers(texts, d) ==
    /\ \A k \in Input!FilterArtifacts(node[d].files) : Leads(texts, Input!Path(AgentOf[d], k))
    /\ Input!FilterArtifacts(node[d].files) = {} /\ Input!HasOutput(d) => SaysOf(texts, d)

Nodes == \A d \in Deps : IsNode(node[d], d)

\* The part of a file is in the input.
LEMMA FileArrives ==
    ASSUME NEW m \in Seq(Parts), Len(m) <= Floor, NEW a, NEW k, NEW x \in Parts, Has(m, x),
           x.key = "file", x.uri = Input!Path(a, k), x.size > 0
    PROVE  Leads(Input!BuildTaskInput(m), Input!Path(a, k))
<1> DEFINE y == <<x>>
           q == Input!Path(a, k)
<1>1. Input!SectionOf(x) = y
  BY DEF Input!SectionOf
<1>2. Has(y, x)
  BY DEF Has
<1> HIDE DEF y
<1>3. PICK s \in Input!ToSet(Input!BuildTaskInput(m)) : s.size > 0 /\ s.uri = x.uri
  BY <1>1, <1>2, SectionArrives
<1>4. q # <<>> /\ Len(q) = 3 /\ SubSeq(q, 1, 3) = q
  BY PathShape
<1> HIDE DEF q
<1>5. q # <<>> /\ Input!IsPrefixOf(q, q)
  BY <1>4 DEF Input!IsPrefixOf
<1>6. s.uri = q
  BY <1>3 DEF q
<1>7. Leads(Input!BuildTaskInput(m), q)
  BY <1>3, <1>5, <1>6 DEF Leads
<1> QED BY <1>7 DEF q

\* What says more of a dependency than its name is in the input.
LEMMA DependencyArrives ==
    ASSUME NEW m \in Seq(Parts), Len(m) <= Floor, NEW x \in Parts, Has(m, x),
           x.key = "dependency", x.uri # <<>> \/ x.size > 0
    PROVE  \E s \in Input!ToSet(Input!BuildTaskInput(m)) :
              s.size > 0 /\ s.uri = x.uri /\ s.dep = x.dep
<1> DEFINE y == [x EXCEPT !.size = @ + 1,
                          !.files = IF Input!Cardinality(@) <= MaxListed THEN @ ELSE {}]
           z == <<y>>
<1>0. x.size \in Nat /\ x.files \in SUBSET Kinds
  BY DEF Parts
<1>1. ~(x.uri = <<>> /\ x.size = 0)
  BY <1>0
<1>2. Input!SectionOf(x) = z
  BY <1>1 DEF Input!SectionOf
<1>3. y.size > 0 /\ y.uri = x.uri /\ y.dep = x.dep
  <2> DEFINE files == IF Input!Cardinality(x.files) <= MaxListed THEN x.files ELSE {}
  <2>1. \A r \in Parts, n \in Nat, f \in SUBSET Kinds :
           LET v == [r EXCEPT !.size = n, !.files = f]
           IN  v.size = n /\ v.uri = r.uri /\ v.dep = r.dep
    BY DEF Parts
  <2>2. y = [x EXCEPT !.size = x.size + 1, !.files = files]
    BY DEF Parts
  <2>3. files \in SUBSET Kinds
    BY <1>0
  <2> HIDE DEF y, files
  <2>4. x.size + 1 \in Nat /\ x.size + 1 > 0
    BY <1>0
  <2> QED BY <2>1, <2>2, <2>3, <2>4
<1> HIDE DEF y
<1>4. Has(z, y)
  BY DEF Has
<1> HIDE DEF z
<1>5. PICK s \in Input!ToSet(Input!BuildTaskInput(m)) :
         s.size > 0 /\ s.uri = y.uri /\ s.dep = y.dep
  BY <1>2, <1>3, <1>4, SectionArrives
<1> QED BY <1>3, <1>5

\* The parts are well formed.
LEMMA PartsAreTyped ==
    /\ \A key \in Keys : Input!Part(key) \in Parts /\ Input!Part(key).size = 1
                         /\ Input!Part(key).key = key
    /\ \A p \in Parts, n \in Nat : [p EXCEPT !.size = n] \in Parts
    /\ \A d \in Deps : Input!About(d) \in Parts
<1>1. \A key : Input!Part(key) = [key |-> key, dep |-> "", agent |-> "", uri |-> <<>>,
                                  files |-> {}, size |-> 1]
  BY DEF Input!Part
<1>2. "" \in People /\ <<>> \in Uris
  BY DEF People, Uris
<1>3. \A key \in Keys : Input!Part(key) \in Parts /\ Input!Part(key).size = 1
                        /\ Input!Part(key).key = key
  BY <1>1, <1>2 DEF Parts
<1>4. \A p \in Parts, n \in Nat : [p EXCEPT !.size = n] \in Parts
  BY DEF Parts
<1>5. \A d \in Deps : Input!About(d) \in Parts
  <2>1. \A p \in Parts, d \in Deps, a \in People :
           [p EXCEPT !.dep = d, !.agent = a, !.size = 0] \in Parts
    BY DEF Parts
  <2>2. \A d \in Deps : AgentOf[d] \in People
    BY DEF People
  <2>3. Input!Part("dependency") \in Parts
    BY <1>3 DEF Keys
  <2> QED BY <2>1, <2>2, <2>3, Zenon DEF Input!About
<1> QED BY <1>3, <1>4, <1>5

\* The part for a dependency, with its files and its result.
LEMMA FullPartIs ==
    ASSUME Nodes, NEW d \in Deps
    PROVE  LET x == Input!FullPart(d)
           IN  /\ x \in Parts /\ x.key = "dependency" /\ x.dep = d /\ x.agent = AgentOf[d]
               /\ x.uri = node[d].uri /\ x.size = node[d].result
<1> DEFINE x == Input!FullPart(d)
           b == Input!Part("dependency")
           Good(v) == /\ v \in Parts /\ v.key = "dependency" /\ v.dep = d
                      /\ v.agent = AgentOf[d] /\ v.uri = node[d].uri
                      /\ v.size = node[d].result
<1>1. AgentOf[d] \in People
  BY DEF People
<1>2. node[d].uri \in Uris /\ node[d].files \in SUBSET Kinds /\ node[d].result \in Nat
  BY DEF Nodes, IsNode
<1>3. b \in Parts /\ b.key = "dependency"
  BY PartsAreTyped DEF Keys
<1>4. x = [[b EXCEPT !.dep = d, !.agent = AgentOf[d], !.size = 0]
              EXCEPT !.uri = node[d].uri, !.files = node[d].files, !.size = node[d].result]
  BY Zenon DEF Input!FullPart, Input!About
<1> HIDE DEF b, x
<1> DEFINE y == [b EXCEPT !.dep = d, !.agent = AgentOf[d], !.size = 0]
<1>5. y \in Parts /\ y.key = "dependency" /\ y.dep = d /\ y.agent = AgentOf[d]
  <2> DEFINE New(p, e, a) == [p EXCEPT !.dep = e, !.agent = a, !.size = 0]
  <2>1. \A p \in Parts, e \in Deps, a \in People :
           /\ New(p, e, a) \in Parts /\ New(p, e, a).key = p.key
           /\ New(p, e, a).dep = e /\ New(p, e, a).agent = a
    BY DEF Parts
  <2>2. y = New(b, d, AgentOf[d])
    OBVIOUS
  <2> HIDE DEF New, y
  <2> QED BY <1>1, <1>3, <2>1, <2>2
<1>6. x = [y EXCEPT !.uri = node[d].uri, !.files = node[d].files, !.size = node[d].result]
  BY <1>4
<1> HIDE DEF y
<1>7. Good(x)
  <2> DEFINE New(p, u, f, n) == [p EXCEPT !.uri = u, !.files = f, !.size = n]
  <2>1. \A p \in Parts, u \in Uris, f \in SUBSET Kinds, n \in Nat : New(p, u, f, n) \in Parts
    BY DEF Parts
  <2>2. \A p \in Parts, u \in Uris, f \in SUBSET Kinds, n \in Nat :
           /\ New(p, u, f, n).key = p.key /\ New(p, u, f, n).dep = p.dep
           /\ New(p, u, f, n).agent = p.agent
           /\ New(p, u, f, n).uri = u /\ New(p, u, f, n).size = n
    BY DEF Parts
  <2>3. x = New(y, node[d].uri, node[d].files, node[d].result)
    BY <1>6
  <2> HIDE DEF New
  <2> QED BY <1>2, <1>5, <2>1, <2>2, <2>3
<1> QED BY <1>7 DEF x

\* It, or what is left of it from hop to hop, delivers what there is.
LEMMA FullPartDelivers ==
    ASSUME Nodes, NEW d \in Deps, NEW m \in Seq(Parts), Len(m) <= Floor,
           Input!HasOutput(d),
           Has(m, Input!FullPart(d)) \/ Has(m, Input!Compact(Input!FullPart(d)))
    PROVE  Delivers(Input!BuildTaskInput(m), d)
<1> DEFINE x == Input!FullPart(d)
           c == Input!Compact(x)
<1>1. /\ x \in Parts /\ x.key = "dependency" /\ x.dep = d
      /\ x.uri = node[d].uri /\ x.size = node[d].result
  BY FullPartIs
<1> HIDE DEF x
<1>2. /\ c \in Parts /\ c.key = "dependency" /\ c.dep = d /\ c.uri = x.uri
      /\ x.size > 0 => c.size > 0
  <2>1. \A p \in Parts, n \in Nat :
           LET v == [p EXCEPT !.size = n]
           IN  v \in Parts /\ v.key = p.key /\ v.dep = p.dep /\ v.uri = p.uri /\ v.size = n
    BY DEF Parts
  <2> DEFINE n == IF x.size > 1 THEN 1 ELSE x.size
  <2>2. c = [x EXCEPT !.size = n]
    BY DEF Input!Compact
  <2>3. n \in Nat /\ (x.size > 0 => n > 0)
    <3>1. \A p \in Parts : p.size \in Nat
      BY DEF Parts
    <3>2. x.size \in Nat
      BY <1>1, <3>1
    <3> QED BY <3>2
  <2> HIDE DEF n, c
  <2> QED BY <1>1, <2>1, <2>2, <2>3
<1> HIDE DEF c
<1>3. /\ node[d].files \in SUBSET Kinds /\ node[d].result \in Nat
      /\ \A k \in node[d].files : node[d].uri # <<>>
            /\ Input!IsPrefixOf(node[d].uri, Input!Path(AgentOf[d], k))
  BY DEF Nodes, IsNode
<1>4. node[d].uri # <<>> \/ node[d].result > 0
  BY <1>3 DEF Input!HasOutput
<1>5. PICK v \in {x, c} : Has(m, v)
  BY DEF x, c
<1>6. v \in Parts /\ v.key = "dependency" /\ v.dep = d /\ v.uri = node[d].uri
      /\ (v.uri # <<>> \/ v.size > 0)
  BY <1>1, <1>2, <1>4
<1>7. PICK s \in Input!ToSet(Input!BuildTaskInput(m)) :
         s.size > 0 /\ s.uri = node[d].uri /\ s.dep = d
  BY <1>5, <1>6, DependencyArrives
<1>8. Input!FilterArtifacts(node[d].files) \subseteq node[d].files
  BY DEF Input!FilterArtifacts
<1> QED BY <1>3, <1>7, <1>8 DEF Delivers, Leads, SaysOf

\* The files that a dependency is told with: one part for each.
LEMMA FilePartsHold ==
    ASSUME NEW d \in Deps, NEW files \in SUBSET Kinds
    PROVE  LET f == Input!FileParts(d, files)
           IN  /\ f \in Seq(Parts) /\ Len(f) <= Cardinality(Kinds)
               /\ \A k \in files : \E x \in Parts :
                     /\ Has(f, x) /\ x.key = "file" /\ x.size > 0
                     /\ x.uri = Input!Path(AgentOf[d], k)
<1> DEFINE b == Input!Part("file")
           Of(k) == [b EXCEPT !.uri = Input!Path(AgentOf[d], k)]
           S == {Of(k) : k \in files}
           f == Input!FileParts(d, files)
           n == Cardinality(S)
<1>1. b \in Parts /\ b.size = 1 /\ b.key = "file"
  BY PartsAreTyped DEF Keys
<1>2. f = Input!SetToSeq(S)
  BY Zenon DEF Input!FileParts
<1> HIDE DEF b, f
<1>3. \A k \in files : Input!Path(AgentOf[d], k) \in Uris
  <2>1. AgentOf[d] \in People
    BY DEF People
  <2>2. \A a \in People, k \in Kinds : Input!Path(a, k) \in Uris
    BY DEF Uris
  <2> QED BY <2>1, <2>2
<1>4. \A k \in files : /\ Of(k) \in Parts /\ Of(k).key = "file" /\ Of(k).size > 0
                       /\ Of(k).uri = Input!Path(AgentOf[d], k)
  <2>1. \A u \in Uris : LET v == [b EXCEPT !.uri = u]
                        IN  v \in Parts /\ v.key = b.key /\ v.size = b.size /\ v.uri = u
    BY <1>1 DEF Parts
  <2> QED BY <1>1, <1>3, <2>1
<1> HIDE DEF Of
<1>5. IsFiniteSet(files) /\ Cardinality(files) <= Cardinality(Kinds)
      /\ Cardinality(files) \in Nat
  BY InputLimits, FS_Subset, FS_CardinalityType
<1>6. IsFiniteSet(S) /\ Cardinality(S) <= Cardinality(files)
  <2> DEFINE g == [k \in files |-> Of(k)]
  <2>1. g \in Surjection(files, S)
    BY DEF Surjection
  <2> HIDE DEF g, S
  <2> QED BY <1>5, <2>1, FS_Surjection
<1>7. S \subseteq Parts
  BY <1>4
<1>8. \A k \in files : Of(k) \in S
  OBVIOUS
<1> HIDE DEF S
<1>9. n \in Nat /\ f \in [1 .. n -> S] /\ \A x \in S : \E i \in 1 .. n : f[i] = x
  BY <1>2, <1>6, ListOfSet
<1>10. f \in [1 .. n -> Parts]
  BY <1>7, <1>9
<1>11. f \in Seq(Parts) /\ Len(f) = n
  BY <1>9, <1>10, FunctionIsSeq
<1>12. Len(f) <= Cardinality(Kinds)
  BY <1>5, <1>6, <1>9, <1>11, InputLimits
<1>13. ASSUME NEW k \in files
       PROVE  \E x \in Parts : /\ Has(f, x) /\ x.key = "file" /\ x.size > 0
                               /\ x.uri = Input!Path(AgentOf[d], k)
  <2>1. Has(f, Of(k))
    BY <1>8, <1>9, <1>11 DEF Has
  <2> QED BY <1>4, <2>1
<1> QED BY <1>11, <1>12, <1>13 DEF f

\* What an assignment has of a dependency, delivers it.
LEMMA DependencyPartsHold ==
    ASSUME Nodes, NEW d \in Deps
    PROVE  LET p == Input!DependencyParts(d)
           IN  /\ p \in Seq(Parts) /\ Len(p) <= Cardinality(Kinds) + 1
               /\ \A m \in Seq(Parts) :
                     Len(m) <= Floor /\ (\A x : Has(p, x) => Has(m, x))
                        => Delivers(Input!BuildTaskInput(m), d)
<1> DEFINE p == Input!DependencyParts(d)
           files == Input!FilterArtifacts(node[d].files)
           f == Input!FileParts(d, files)
           t == <<Input!About(d)>>
           w == <<Input!FullPart(d)>>
           Good(s) == /\ s \in Seq(Parts) /\ Len(s) <= Cardinality(Kinds) + 1
                      /\ \A m \in Seq(Parts) :
                            Len(m) <= Floor /\ (\A x : Has(s, x) => Has(m, x))
                               => Delivers(Input!BuildTaskInput(m), d)
<1> SUFFICES Good(p)
  OBVIOUS
<1>1. p = IF files # {} THEN f \o t ELSE IF Input!HasOutput(d) THEN w ELSE <<>>
  BY Zenon DEF Input!DependencyParts
<1>2. files \in SUBSET Kinds /\ files \subseteq node[d].files
  BY DEF Nodes, IsNode, Input!FilterArtifacts
<1>3. Cardinality(Kinds) \in Nat
  BY InputLimits
<1> HIDE DEF files, f, p
<1>4. CASE files # {}
  <2>1. /\ f \in Seq(Parts) /\ Len(f) <= Cardinality(Kinds) /\ Len(f) \in Nat
        /\ \A k \in files : \E x \in Parts :
              /\ Has(f, x) /\ x.key = "file" /\ x.size > 0
              /\ x.uri = Input!Path(AgentOf[d], k)
    BY <1>2, FilePartsHold DEF f
  <2>2. t \in Seq(Parts) /\ Len(t) = 1
    BY PartsAreTyped
  <2> HIDE DEF t
  <2> DEFINE s == f \o t
  <2>3. s \in Seq(Parts) /\ Len(s) <= Cardinality(Kinds) + 1 /\ \A x : Has(f, x) => Has(s, x)
    <3>1. s \in Seq(Parts) /\ Len(s) = Len(f) + 1
      <4>1. \A u, v \in Seq(Parts) : u \o v \in Seq(Parts) /\ Len(u \o v) = Len(u) + Len(v)
        OBVIOUS
      <4> QED BY <2>1, <2>2, <4>1
    <3>2. ASSUME NEW x, Has(f, x) PROVE Has(s, x)
      BY <2>1, <2>2, <3>2, HasConcat
    <3> HIDE DEF s
    <3> QED BY <1>3, <2>1, <3>1, <3>2
  <2> HIDE DEF s
  <2>4. ASSUME NEW m \in Seq(Parts), Len(m) <= Floor, \A x : Has(s, x) => Has(m, x)
        PROVE  Delivers(Input!BuildTaskInput(m), d)
    <3>1. \A k \in files : Leads(Input!BuildTaskInput(m), Input!Path(AgentOf[d], k))
      BY <2>1, <2>3, <2>4, FileArrives
    <3> QED BY <1>4, <3>1 DEF Delivers, files
  <2>5. p = s
    BY <1>1, <1>4 DEF s
  <2> QED BY <2>3, <2>4, <2>5
<1>5. CASE files = {} /\ Input!HasOutput(d)
  <2>1. Input!FullPart(d) \in Parts
    BY FullPartIs
  <2>2. w \in Seq(Parts) /\ Len(w) = 1 /\ Has(w, Input!FullPart(d))
    BY <2>1 DEF Has
  <2> HIDE DEF w
  <2>3. ASSUME NEW m \in Seq(Parts), Len(m) <= Floor, \A x : Has(w, x) => Has(m, x)
        PROVE  Delivers(Input!BuildTaskInput(m), d)
    BY <1>5, <2>2, <2>3, FullPartDelivers
  <2>4. p = w
    BY <1>1, <1>5
  <2>5. Len(w) <= Cardinality(Kinds) + 1
    BY <1>3, <2>2
  <2> QED BY <2>2, <2>3, <2>4, <2>5
<1>6. CASE files = {} /\ ~Input!HasOutput(d)
  <2>1. p = <<>>
    BY <1>1, <1>6
  <2>2. <<>> \in Seq(Parts) /\ Len(<<>>) = 0
    OBVIOUS
  <2>3. \A m \in Seq(Parts) : Delivers(Input!BuildTaskInput(m), d)
    BY <1>6 DEF Delivers, files
  <2>4. 0 <= Cardinality(Kinds) + 1
    BY <1>3
  <2> QED BY <2>1, <2>2, <2>3, <2>4
<1> QED BY <1>4, <1>5, <1>6

\* The completed dependencies in the order they are told in, each once.
LEMMA CompletedInOrder ==
    LET n == Input!Cardinality(Input!Completed)
        o == Input!SetToSeq(Input!Completed)
    IN  /\ n \in Nat /\ n <= Cardinality(Deps)
        /\ o \in [1 .. n -> Deps]
        /\ \A d \in Input!Completed : \E i \in 1 .. n : o[i] = d
<1> DEFINE C == Input!Completed
           n == Input!Cardinality(C)
           o == Input!SetToSeq(C)
<1>1. C \in SUBSET Deps
  BY DEF Input!Completed
<1> HIDE DEF C
<1>2. n = Cardinality(C)
  BY Zenon DEF Input!Cardinality, Cardinality, Input!IsFiniteSet, IsFiniteSet
<1>3. IsFiniteSet(C) /\ Cardinality(C) <= Cardinality(Deps)
  BY <1>1, InputLimits, FS_Subset
<1>4. /\ Cardinality(C) \in Nat /\ o \in [1 .. Cardinality(C) -> C]
      /\ \A x \in C : \E i \in 1 .. Cardinality(C) : o[i] = x
  BY <1>3, ListOfSet
<1> HIDE DEF o, n
<1>5. /\ n \in Nat /\ n <= Cardinality(Deps)
      /\ o \in [1 .. n -> Deps]
      /\ \A d \in C : \E i \in 1 .. n : o[i] = d
  BY <1>1, <1>2, <1>3, <1>4
<1> QED BY <1>5 DEF n, o, C

\* buildDepPartsData has a part for whatever has an output.
LEMMA DepPartsHold ==
    ASSUME Nodes
    PROVE  /\ Input!DepParts \in Seq(Parts) /\ Len(Input!DepParts) <= Cardinality(Deps)
           /\ \A d \in Input!Completed :
                 Input!HasOutput(d) => Has(Input!DepParts, Input!FullPart(d))
<1> DEFINE n == Input!Cardinality(Input!Completed)
           o == Input!SetToSeq(Input!Completed)
           Of(d) == IF Input!HasOutput(d) THEN <<Input!FullPart(d)>> ELSE <<>>
           f == [i \in 1 .. n |-> Of(o[i])]
           c == Input!FlattenSeq(f)
<1>1. /\ n \in Nat /\ n <= Cardinality(Deps)
      /\ o \in [1 .. n -> Deps]
      /\ \A d \in Input!Completed : \E i \in 1 .. n : o[i] = d
  BY CompletedInOrder
<1>2. c = Input!DepParts
  BY Zenon DEF Input!DepParts
<1> HIDE DEF n, o
<1>3. \A d \in Deps : Of(d) \in Seq(Parts) /\ Len(Of(d)) <= 1
  <2>1. \A x \in Parts : <<x>> \in Seq(Parts) /\ Len(<<x>>) <= 1
    OBVIOUS
  <2>2. <<>> \in Seq(Parts) /\ Len(<<>>) <= 1
    OBVIOUS
  <2>3. \A d \in Deps : Input!FullPart(d) \in Parts
    BY FullPartIs
  <2> QED BY <2>1, <2>2, <2>3
<1>4. \A d \in Deps : Input!HasOutput(d) => Has(Of(d), Input!FullPart(d))
  BY DEF Has
<1> HIDE DEF Of
<1>5. f \in [1 .. n -> Seq(Parts)]
  BY <1>1, <1>3
<1>6. \A i \in 1 .. n : f[i] = Of(o[i])
  OBVIOUS
<1> HIDE DEF f
<1>7. f \in Seq(Seq(Parts)) /\ Len(f) = n
  BY <1>1, <1>5, FunctionIsSeq
<1>8. \A i \in 1 .. Len(f) : Len(f[i]) <= 1
  BY <1>1, <1>3, <1>6, <1>7
<1>9. /\ c \in Seq(Parts) /\ Len(c) <= Len(f) * 1
      /\ \A i \in 1 .. Len(f) : \A x : Has(f[i], x) => Has(c, x)
  BY <1>7, <1>8, FlattenHas
<1> HIDE DEF c
<1>10. Len(c) <= Cardinality(Deps)
  BY <1>1, <1>7, <1>9, InputLimits
<1>11. ASSUME NEW d \in Input!Completed, Input!HasOutput(d) PROVE Has(c, Input!FullPart(d))
  <2>1. PICK i \in 1 .. n : o[i] = d
    BY <1>1
  <2>2. d \in Deps
    BY DEF Input!Completed
  <2>3. Has(f[i], Input!FullPart(d))
    BY <1>4, <1>6, <1>11, <2>1, <2>2
  <2> QED BY <1>7, <1>9, <2>3
<1> QED BY <1>2, <1>9, <1>10, <1>11

\* Parts put together.
LEMMA PartsJoin ==
    ASSUME NEW u \in Seq(Parts), NEW v \in Seq(Parts)
    PROVE  /\ u \o v \in Seq(Parts) /\ Len(u \o v) = Len(u) + Len(v)
           /\ Len(u) \in Nat /\ Len(v) \in Nat
           /\ \A x : Has(u, x) \/ Has(v, x) => Has(u \o v, x)
<1>1. u \o v \in Seq(Parts) /\ Len(u \o v) = Len(u) + Len(v) /\ Len(u) \in Nat /\ Len(v) \in Nat
  OBVIOUS
<1>2. ASSUME NEW x, Has(u, x) \/ Has(v, x) PROVE Has(u \o v, x)
  BY <1>2, HasConcat
<1> QED BY <1>1, <1>2

\* What every assignment begins with.
LEMMA CommonIs ==
    ASSUME Nodes
    PROVE  Input!Common \in Seq(Parts) /\ Len(Input!Common) <= 5
<1> DEFINE files == {p \in Input!Shared : ~Input!IsArtifactNoise(p)}
           e == [Input!Part("existing") EXCEPT !.size = Input!Cardinality(files)]
           u == <<Input!Part("text"), e>>
           t == <<Input!Part("text"), Input!Part("request"), Input!Part("knowledge")>>
<1>1. Input!Cardinality(files) \in Nat
  <2> DEFINE g == [c \in Deps \X Kinds |-> Input!Path(AgentOf[c[1]], c[2])]
             S == {g[c] : c \in Deps \X Kinds}
  <2>1. g \in Surjection(Deps \X Kinds, S)
    BY DEF Surjection
  <2>2. IsFiniteSet(Deps \X Kinds)
    BY InputLimits, FS_Product
  <2>3. files \subseteq S
    <3>1. ASSUME NEW d \in Deps, NEW k \in node[d].files PROVE Input!Path(AgentOf[d], k) \in S
      <4>1. k \in Kinds
        BY DEF Nodes, IsNode
      <4>2. <<d, k>> \in Deps \X Kinds /\ g[<<d, k>>] = Input!Path(AgentOf[d], k)
        BY <4>1
      <4> QED BY <4>2
    <3> HIDE DEF g, S
    <3> QED BY <3>1 DEF Input!Shared
  <2>4. IsFiniteSet(S)
    <3> HIDE DEF g, S
    <3> QED BY <2>1, <2>2, FS_Surjection
  <2>5. IsFiniteSet(files)
    <3> HIDE DEF S, files
    <3> QED BY <2>3, <2>4, FS_Subset
  <2>6. Cardinality(files) \in Nat
    BY <2>5, FS_CardinalityType
  <2> QED BY <2>6, Zenon DEF Input!Cardinality, Cardinality, Input!IsFiniteSet, IsFiniteSet
<1> HIDE DEF files
<1>2. \A key \in Keys : Input!Part(key) \in Parts
  BY PartsAreTyped
<1>3. e \in Parts
  <2>1. Input!Part("existing") \in Parts
    BY <1>2 DEF Keys
  <2> QED BY <1>1, <2>1, PartsAreTyped
<1> HIDE DEF e
<1>4. t \in Seq(Parts) /\ Len(t) = 3
  <2>1. \A x, y, z \in Parts : <<x, y, z>> \in Seq(Parts) /\ Len(<<x, y, z>>) = 3
    OBVIOUS
  <2> QED BY <1>2, <2>1 DEF Keys
<1>5. Input!ExistingArtifacts \in Seq(Parts) /\ Len(Input!ExistingArtifacts) <= 2
  <2>1. \A x, y \in Parts : <<x, y>> \in Seq(Parts) /\ Len(<<x, y>>) = 2
    OBVIOUS
  <2>2. u \in Seq(Parts) /\ Len(u) = 2
    BY <1>2, <1>3, <2>1 DEF Keys
  <2>3. Input!ExistingArtifacts = IF files = {} THEN <<>> ELSE u
    BY Zenon DEF Input!ExistingArtifacts, files, e
  <2>4. <<>> \in Seq(Parts) /\ Len(<<>>) = 0
    OBVIOUS
  <2> HIDE DEF u
  <2>5. CASE files = {}
    BY <2>3, <2>4, <2>5
  <2>6. CASE files # {}
    <3>1. Input!ExistingArtifacts = u
      BY <2>3, <2>6
    <3>2. Len(u) <= 2
      BY <2>2
    <3> QED BY <2>2, <3>1, <3>2
  <2> QED BY <2>5, <2>6
<1>6. Input!Common = t \o Input!ExistingArtifacts
  BY Zenon DEF Input!Common
<1> HIDE DEF t
<1>7. /\ Input!Common \in Seq(Parts)
      /\ Len(Input!Common) = Len(t) + Len(Input!ExistingArtifacts)
      /\ Len(Input!ExistingArtifacts) \in Nat
  BY <1>4, <1>5, <1>6, PartsJoin
<1> QED BY <1>4, <1>5, <1>7

\* An assignment delivers every completed dependency.
LEMMA AssignmentDelivers ==
    ASSUME Nodes
    PROVE  /\ Input!Assignment \in Seq(Parts) /\ Len(Input!Assignment) <= Floor
           /\ \A d \in Input!Completed : Delivers(Input!BuildTaskInput(Input!Assignment), d)
<1> DEFINE n == Input!Cardinality(Input!Completed)
           o == Input!SetToSeq(Input!Completed)
           Of(d) == Input!DependencyParts(d)
           f == [i \in 1 .. n |-> Of(o[i])]
           c == Input!FlattenSeq(f)
           g == Input!Common \o Input!PipelineContext
           h == g \o Input!NoUpstream
           m == h \o c
           K == Cardinality(Kinds)
           D == Cardinality(Deps)
<1>1. /\ n \in Nat /\ n <= D
      /\ o \in [1 .. n -> Deps]
      /\ \A d \in Input!Completed : \E i \in 1 .. n : o[i] = d
  BY CompletedInOrder
<1>2. m = Input!Assignment
  BY Zenon DEF Input!Assignment
<1> HIDE DEF n, o
<1>3. \A d \in Deps : Of(d) \in Seq(Parts) /\ Len(Of(d)) <= K + 1
  BY DependencyPartsHold
<1>4. K \in Nat /\ D \in Nat /\ K + 1 \in Nat /\ 6 + D * (K + 1) <= Floor
  BY InputLimits
<1> HIDE DEF Of, K, D
<1>5. f \in [1 .. n -> Seq(Parts)]
  BY <1>1, <1>3
<1>6. \A i \in 1 .. n : f[i] = Of(o[i])
  OBVIOUS
<1> HIDE DEF f
<1>7. f \in Seq(Seq(Parts)) /\ Len(f) = n
  BY <1>1, <1>5, FunctionIsSeq
<1>8. \A i \in 1 .. Len(f) : Len(f[i]) <= K + 1
  BY <1>1, <1>3, <1>6, <1>7
<1>9. /\ c \in Seq(Parts) /\ Len(c) <= Len(f) * (K + 1)
      /\ \A i \in 1 .. Len(f) : \A x : Has(f[i], x) => Has(c, x)
  BY <1>4, <1>7, <1>8, FlattenHas
<1> HIDE DEF c
<1>10. Len(c) <= D * (K + 1) /\ Len(c) \in Nat
  <2>1. n * (K + 1) <= D * (K + 1)
    BY <1>1, <1>4, Multiples
  <2>2. n * (K + 1) \in Nat /\ D * (K + 1) \in Nat
    BY <1>1, <1>4
  <2> DEFINE x == n * (K + 1)
             y == D * (K + 1)
  <2>3. Len(c) <= x /\ x <= y /\ x \in Nat /\ y \in Nat /\ Len(c) \in Nat
    BY <1>7, <1>9, <2>1, <2>2
  <2> HIDE DEF x, y
  <2>4. Len(c) <= y
    BY <2>3
  <2> QED BY <2>3, <2>4 DEF y
<1>11. \A key \in Keys : <<Input!Part(key)>> \in Seq(Parts) /\ Len(<<Input!Part(key)>>) = 1
  <2>1. \A x \in Parts : <<x>> \in Seq(Parts) /\ Len(<<x>>) = 1
    OBVIOUS
  <2> QED BY <2>1, PartsAreTyped
<1>12. <<>> \in Seq(Parts) /\ Len(<<>>) = 0
  OBVIOUS
<1>13. /\ Input!PipelineContext \in Seq(Parts) /\ Input!NoUpstream \in Seq(Parts)
       /\ Len(Input!PipelineContext) + Len(Input!NoUpstream) = 1
  <2>1. CASE Deps = {}
    <3>1. Input!PipelineContext = <<>> /\ Input!NoUpstream = <<Input!Part("first")>>
      BY <2>1 DEF Input!PipelineContext, Input!NoUpstream
    <3>2. "first" \in Keys
      BY DEF Keys
    <3> QED BY <1>11, <1>12, <3>1, <3>2
  <2>2. CASE Deps # {}
    <3>1. Input!NoUpstream = <<>> /\ Input!PipelineContext = <<Input!Part("pipeline")>>
      BY <2>2 DEF Input!PipelineContext, Input!NoUpstream
    <3>2. "pipeline" \in Keys
      BY DEF Keys
    <3> QED BY <1>11, <1>12, <3>1, <3>2
  <2> QED BY <2>1, <2>2
<1>14. /\ Input!Common \in Seq(Parts) /\ Len(Input!Common) <= 5
       /\ g \in Seq(Parts) /\ Len(g) = Len(Input!Common) + Len(Input!PipelineContext)
       /\ Len(Input!Common) \in Nat /\ Len(Input!PipelineContext) \in Nat
  BY <1>13, CommonIs, PartsJoin
<1> HIDE DEF g
<1>15. h \in Seq(Parts) /\ Len(h) = Len(g) + Len(Input!NoUpstream) /\ Len(Input!NoUpstream) \in Nat
  BY <1>13, <1>14, PartsJoin
<1> HIDE DEF h
<1>16. m \in Seq(Parts) /\ Len(m) = Len(h) + Len(c) /\ \A x : Has(c, x) => Has(m, x)
  BY <1>9, <1>15, PartsJoin
<1> HIDE DEF m
<1>17. Len(m) <= Floor
  <2>1. Len(h) \in Nat /\ Len(h) <= 6
    BY <1>13, <1>14, <1>15
  <2> DEFINE y == D * (K + 1)
  <2>2. y \in Nat /\ Len(c) <= y /\ 6 + y <= Floor
    BY <1>4, <1>10
  <2> HIDE DEF y
  <2> QED BY <1>10, <1>16, <2>1, <2>2, InputLimits
<1>18. ASSUME NEW d \in Input!Completed PROVE Delivers(Input!BuildTaskInput(m), d)
  <2>1. PICK i \in 1 .. n : o[i] = d
    BY <1>1
  <2>2. d \in Deps
    BY DEF Input!Completed
  <2>3. f[i] = Of(d) /\ i \in 1 .. Len(f)
    BY <1>6, <1>7, <2>1
  <2>4. \A x : Has(Of(d), x) => Has(m, x)
    BY <1>9, <1>16, <2>3
  <2> QED BY <1>16, <1>17, <2>2, <2>4, DependencyPartsHold DEF Of
<1> QED BY <1>2, <1>16, <1>17, <1>18

\* The parts of a loop are few enough, and deliver what they have.
LEMMA LoopLimits ==
    /\ Cardinality(Deps) \in Nat /\ 6 + Cardinality(Deps) <= Floor
<1> DEFINE K == Cardinality(Kinds) + 1
           D == Cardinality(Deps)
<1>1. D \in Nat /\ K \in Nat /\ 1 <= K /\ 6 + D * K <= Floor
  BY InputLimits
<1>2. \A a, b \in Nat : 1 <= b => a <= a * b /\ a * b \in Nat
  <2> SUFFICES ASSUME NEW a \in Nat, NEW b \in Nat, 1 <= b PROVE a <= a * b /\ a * b \in Nat
    OBVIOUS
  <2>1. 1 * a <= b * a
    BY Multiples
  <2> QED BY <2>1
<1> HIDE DEF K, D
<1>3. D <= D * K /\ D * K \in Nat
  BY <1>1, <1>2
<1> DEFINE y == D * K
<1>4. D <= y /\ y \in Nat /\ 6 + y <= Floor
  BY <1>1, <1>3
<1> HIDE DEF y
<1>5. D \in Nat /\ 6 + D <= Floor
  BY <1>1, <1>4, InputLimits
<1> QED BY <1>5 DEF D

LEMMA LoopAssignmentDelivers ==
    ASSUME Nodes
    PROVE  /\ Input!LoopAssignment \in Seq(Parts) /\ Len(Input!LoopAssignment) <= Floor
           /\ \A d \in Input!Completed : Delivers(Input!BuildTaskInput(Input!LoopAssignment), d)
<1> DEFINE p == Input!DepParts
           h == Input!Common \o p
           t == <<Input!Part("context")>>
           m == h \o t
<1>1. /\ p \in Seq(Parts) /\ Len(p) <= Cardinality(Deps)
      /\ \A d \in Input!Completed : Input!HasOutput(d) => Has(p, Input!FullPart(d))
  BY DepPartsHold
<1>2. m = Input!LoopAssignment
  BY Zenon DEF Input!LoopAssignment
<1> HIDE DEF p
<1>3. t \in Seq(Parts) /\ Len(t) = 1
  <2>1. \A x \in Parts : <<x>> \in Seq(Parts) /\ Len(<<x>>) = 1
    OBVIOUS
  <2>2. "context" \in Keys
    BY DEF Keys
  <2> QED BY <2>1, <2>2, PartsAreTyped
<1> HIDE DEF t
<1>4. /\ h \in Seq(Parts) /\ Len(h) = Len(Input!Common) + Len(p)
      /\ Len(Input!Common) \in Nat /\ Len(Input!Common) <= 5 /\ Len(p) \in Nat
      /\ \A x : Has(p, x) => Has(h, x)
  BY <1>1, CommonIs, PartsJoin
<1> HIDE DEF h
<1>5. m \in Seq(Parts) /\ Len(m) = Len(h) + Len(t) /\ \A x : Has(h, x) => Has(m, x)
  BY <1>3, <1>4, PartsJoin
<1> HIDE DEF m
<1>6. Len(m) <= Floor
  BY <1>1, <1>3, <1>4, <1>5, LoopLimits, InputLimits
<1>7. ASSUME NEW d \in Input!Completed PROVE Delivers(Input!BuildTaskInput(m), d)
  <2>1. d \in Deps
    BY DEF Input!Completed
  <2>2. CASE Input!HasOutput(d)
    <3>1. Has(m, Input!FullPart(d))
      BY <1>1, <1>4, <1>5, <2>2
    <3> QED BY <1>5, <1>6, <2>1, <2>2, <3>1, FullPartDelivers
  <2>3. CASE ~Input!HasOutput(d)
    <3>1. node[d].files = {}
      BY <2>3 DEF Input!HasOutput
    <3>2. Input!FilterArtifacts(node[d].files) = {}
      BY <3>1 DEF Input!FilterArtifacts
    <3> QED BY <2>3, <3>2 DEF Delivers
  <2> QED BY <2>2, <2>3
<1> QED BY <1>2, <1>5, <1>6, <1>7

\* What a reader did not make itself, the filter keeps, if perhaps in short.
LEMMA FilterKeeps ==
    ASSUME NEW known \in Seq(Parts), NEW next, NEW toReview \in BOOLEAN, NEW verdict
    PROVE  LET f == Input!FilterDepParts(known, next, toReview, verdict)
           IN  /\ f \in Seq(Parts) /\ Len(f) <= Len(known)
               /\ \A x \in Parts : Has(known, x) /\ x.agent # next =>
                     Has(f, x) \/ Has(f, Input!Compact(x))
<1> DEFINE Of(x) == IF x.agent = next THEN <<>> ELSE <<x>>
           g == [i \in DOMAIN known |-> IF known[i].agent = next THEN <<>> ELSE <<known[i]>>]
           others == Input!FlattenSeq(g)
           short == [i \in DOMAIN others |-> Input!Compact(others[i])]
           f == Input!FilterDepParts(known, next, toReview, verdict)
           n == Len(known)
           Good(s) == /\ s \in Seq(Parts) /\ Len(s) <= n
                      /\ \A x \in Parts : Has(known, x) /\ x.agent # next =>
                            Has(s, x) \/ Has(s, Input!Compact(x))
<1> SUFFICES Good(f)
  OBVIOUS
<1>1. f = IF toReview THEN others ELSE IF verdict = "revise" THEN short ELSE known
  BY Zenon DEF Input!FilterDepParts
<1>2. n \in Nat /\ DOMAIN known = 1 .. n /\ \A i \in 1 .. n : known[i] \in Parts
  OBVIOUS
<1>3. \A i \in 1 .. n : g[i] = Of(known[i])
  BY <1>2
<1>4. DOMAIN g = 1 .. n
  BY <1>2
<1> HIDE DEF f, n
<1>5. \A x \in Parts : Of(x) \in Seq(Parts) /\ Len(Of(x)) <= 1
  <2>1. \A x \in Parts : <<x>> \in Seq(Parts) /\ Len(<<x>>) <= 1
    OBVIOUS
  <2>2. <<>> \in Seq(Parts) /\ Len(<<>>) <= 1
    OBVIOUS
  <2> QED BY <2>1, <2>2
<1>6. \A x \in Parts : x.agent # next => Has(Of(x), x)
  BY DEF Has
<1> HIDE DEF Of
<1>7. g \in [1 .. n -> Seq(Parts)]
  <2> DEFINE r == [i \in 1 .. n |-> g[i]]
  <2>1. r \in [1 .. n -> Seq(Parts)]
    BY <1>2, <1>3, <1>5
  <2>2. r = g
    BY <1>4
  <2> QED BY <2>1, <2>2
<1> HIDE DEF g
<1>8. g \in Seq(Seq(Parts)) /\ Len(g) = n
  BY <1>2, <1>7, FunctionIsSeq
<1>9. \A i \in 1 .. Len(g) : Len(g[i]) <= 1
  BY <1>2, <1>3, <1>5, <1>8
<1>10. /\ others \in Seq(Parts) /\ Len(others) <= Len(g) * 1
       /\ \A i \in 1 .. Len(g) : \A x : Has(g[i], x) => Has(others, x)
  BY <1>8, <1>9, FlattenHas
<1> HIDE DEF others
<1>11. others \in Seq(Parts) /\ Len(others) <= n /\ Len(others) \in Nat
  BY <1>2, <1>8, <1>10
<1>12. ASSUME NEW x \in Parts, Has(known, x), x.agent # next PROVE Has(others, x)
  <2>1. PICK i \in 1 .. n : known[i] = x
    BY <1>12 DEF Has, n
  <2>2. Has(g[i], x)
    BY <1>3, <1>6, <1>12, <2>1
  <2> QED BY <1>8, <1>10, <2>2
<1>13. Good(others)
  BY <1>11, <1>12
<1>14. Good(known)
  BY <1>2 DEF n
<1>15. Good(short)
  <2>1. \A x \in Parts : Input!Compact(x) \in Parts
    <3> SUFFICES ASSUME NEW x \in Parts PROVE Input!Compact(x) \in Parts
      OBVIOUS
    <3> DEFINE k == IF x.size > 1 THEN 1 ELSE x.size
    <3>1. Input!Compact(x) = [x EXCEPT !.size = k]
      BY DEF Input!Compact
    <3>2. k \in Nat
      BY DEF Parts
    <3> HIDE DEF k
    <3> QED BY <3>1, <3>2, PartsAreTyped
  <2> DEFINE l == Len(others)
  <2>2. l \in Nat /\ l <= n /\ DOMAIN others = 1 .. l /\ \A i \in 1 .. l : others[i] \in Parts
    BY <1>11
  <2>3. /\ short \in [1 .. l -> Parts]
        /\ \A i \in 1 .. l : short[i] = Input!Compact(others[i])
    <3> HIDE DEF l
    <3> QED BY <2>1, <2>2
  <2> HIDE DEF short
  <2>4. short \in Seq(Parts) /\ Len(short) = l
    BY <2>2, <2>3, FunctionIsSeq
  <2>5. ASSUME NEW x \in Parts, Has(known, x), x.agent # next
        PROVE  Has(short, Input!Compact(x))
    <3>1. PICK i \in 1 .. l : others[i] = x
      BY <1>12, <2>5 DEF Has
    <3> QED BY <2>3, <2>4, <3>1 DEF Has
  <2>6. Len(short) <= n
    BY <2>2, <2>4
  <2> QED BY <2>4, <2>5, <2>6
<1> HIDE DEF Good, short
<1>16. CASE toReview
  BY <1>1, <1>13, <1>16
<1>17. CASE ~toReview /\ verdict = "revise"
  BY <1>1, <1>15, <1>17
<1>18. CASE ~toReview /\ verdict # "revise"
  BY <1>1, <1>14, <1>18
<1> QED BY <1>16, <1>17, <1>18

\* What a loop hands on, see Forward.
Handed(next, toReview, verdict, from, files) ==
    <<Input!Part("text"), Input!Part("request")>>
      \o Input!FilterDepParts(Input!DepParts, next, toReview, verdict)
      \o <<Input!Feedback(from, files), Input!Part("context")>>

\* What a loop hands on delivers what its next reader did not make itself, and
\* what the loop has made.
LEMMA ForwardDelivers ==
    ASSUME Nodes, NEW toReview \in BOOLEAN, NEW verdict, NEW from \in {Worker, Reviewer},
           NEW files \in SUBSET Kinds, NEW next, NEW m,
           m = Handed(next, toReview, verdict, from, files)
    PROVE  /\ m \in Seq(Parts) /\ Len(m) <= Floor
           /\ \A d \in Input!Completed :
                 AgentOf[d] # next => Delivers(Input!BuildTaskInput(m), d)
           /\ \A k \in files : Leads(Input!BuildTaskInput(m), Input!Path(Worker, k))
<1> DEFINE p == Input!DepParts
           f == Input!FilterDepParts(p, next, toReview, verdict)
           b == <<Input!Part("text"), Input!Part("request")>>
           x == Input!Feedback(from, files)
           e == <<x, Input!Part("context")>>
           g == b \o f
<1>0. m = g \o e
  BY Zenon DEF Handed
<1>1. /\ p \in Seq(Parts) /\ Len(p) <= Cardinality(Deps) /\ Len(p) \in Nat
      /\ \A d \in Input!Completed : Input!HasOutput(d) => Has(p, Input!FullPart(d))
  BY DepPartsHold
<1> HIDE DEF p
<1>2. /\ f \in Seq(Parts) /\ Len(f) <= Len(p) /\ Len(f) \in Nat
      /\ \A y \in Parts : Has(p, y) /\ y.agent # next => Has(f, y) \/ Has(f, Input!Compact(y))
  BY <1>1, FilterKeeps
<1> HIDE DEF f
<1> DEFINE u == IF files = {} THEN <<>> ELSE <<"artifacts", Worker>>
<1>3. x \in Parts /\ x.key = "dependency" /\ x.uri = u /\ x.size = 1
  <2> DEFINE c == Input!Part("dependency")
             New(q, a, n) == [q EXCEPT !.dep = "self", !.agent = a, !.files = files, !.uri = n]
  <2>1. c \in Parts /\ c.key = "dependency" /\ c.size = 1
    BY PartsAreTyped DEF Keys
  <2>2. from \in People /\ u \in Uris
    <3>1. from \in People /\ Worker \in People
      BY DEF People
    <3>2. <<>> \in Uris /\ \A a \in People : <<"artifacts", a>> \in Uris
      BY DEF Uris
    <3> QED BY <3>1, <3>2
  <2>3. x = New(c, from, u)
    BY Zenon DEF Input!Feedback
  <2> HIDE DEF x, c, u
  <2>4. \A q \in Parts, a \in People, n \in Uris : New(q, a, n) \in Parts
    BY DEF Parts
  <2>5. \A q \in Parts, a \in People, n \in Uris :
           /\ New(q, a, n).key = q.key /\ New(q, a, n).size = q.size /\ New(q, a, n).uri = n
    BY DEF Parts
  <2> HIDE DEF New
  <2> QED BY <2>1, <2>2, <2>3, <2>4, <2>5
<1> HIDE DEF x
<1>4. \A v, w \in Parts : /\ <<v, w>> \in Seq(Parts) /\ Len(<<v, w>>) = 2
                          /\ Has(<<v, w>>, v)
  BY DEF Has
<1>5. Input!Part("text") \in Parts /\ Input!Part("request") \in Parts /\ Input!Part("context") \in Parts
  BY PartsAreTyped DEF Keys
<1>6. b \in Seq(Parts) /\ Len(b) = 2 /\ e \in Seq(Parts) /\ Len(e) = 2 /\ Has(e, x)
  BY <1>3, <1>4, <1>5
<1> HIDE DEF b, e
<1>7. g \in Seq(Parts) /\ Len(g) = Len(b) + Len(f) /\ \A y : Has(f, y) => Has(g, y)
  BY <1>2, <1>6, PartsJoin
<1> HIDE DEF g
<1>8. m \in Seq(Parts) /\ Len(m) = Len(g) + Len(e) /\ \A y : Has(g, y) \/ Has(e, y) => Has(m, y)
  BY <1>0, <1>6, <1>7, PartsJoin
<1>9. Len(m) <= Floor
  BY <1>1, <1>2, <1>6, <1>7, <1>8, LoopLimits, InputLimits
<1>10. ASSUME NEW d \in Input!Completed, AgentOf[d] # next
       PROVE  Delivers(Input!BuildTaskInput(m), d)
  <2>1. d \in Deps
    BY DEF Input!Completed
  <2>2. CASE Input!HasOutput(d)
    <3> DEFINE y == Input!FullPart(d)
    <3>1. y \in Parts /\ y.agent # next
      BY <1>10, <2>1, FullPartIs
    <3>2. Has(p, y)
      BY <1>1, <2>2
    <3> HIDE DEF y
    <3>3. Has(m, y) \/ Has(m, Input!Compact(y))
      BY <1>2, <1>7, <1>8, <3>1, <3>2
    <3> QED BY <1>8, <1>9, <2>1, <2>2, <3>3, FullPartDelivers DEF y
  <2>3. CASE ~Input!HasOutput(d)
    <3>1. node[d].files = {}
      BY <2>3 DEF Input!HasOutput
    <3>2. Input!FilterArtifacts(node[d].files) = {}
      BY <3>1 DEF Input!FilterArtifacts
    <3> QED BY <2>3, <3>2 DEF Delivers
  <2> QED BY <2>2, <2>3
<1>11. ASSUME NEW k \in files PROVE Leads(Input!BuildTaskInput(m), Input!Path(Worker, k))
  <2> DEFINE q == Input!Path(Worker, k)
             place == <<"artifacts", Worker>>
  <2>1. u = place
    OBVIOUS
  <2>2. Len(place) = 2 /\ place # <<>>
    OBVIOUS
  <2>3. Len(q) = 3 /\ SubSeq(q, 1, 2) = place
    BY PathShape
  <2> HIDE DEF u, place, q
  <2>4. Input!IsPrefixOf(place, q)
    BY <2>2, <2>3 DEF Input!IsPrefixOf
  <2>5. Has(m, x)
    BY <1>6, <1>8
  <2>6. PICK s \in Input!ToSet(Input!BuildTaskInput(m)) : s.size > 0 /\ s.uri = place
    BY <1>3, <1>8, <1>9, <2>1, <2>5, DependencyArrives
  <2>7. Leads(Input!BuildTaskInput(m), q)
    BY <2>2, <2>4, <2>6 DEF Leads
  <2> QED BY <2>7 DEF q
<1> QED BY <1>8, <1>9, <1>10, <1>11

-----------------------------------------------------------------------------
\* The nodes are what their results made them, and the input delivers.
InputInv ==
    /\ Nodes /\ review \in BOOLEAN /\ work \in SUBSET Kinds /\ hops \in Nat
    /\ Input!InputsReachTheAgent

LEMMA InputInitially ==
    ASSUME Input!InputInit
    PROVE  InputInv
<1>1. PICK f \in [Deps -> (SUBSET Kinds) \X Results \X BOOLEAN] :
         node = [d \in Deps |-> Input!NodeOf(d, f[d][1], f[d][2], f[d][3])]
  BY DEF Input!InputInit
<1>2. Nodes
  <2> SUFFICES ASSUME NEW d \in Deps PROVE IsNode(node[d], d)
    BY DEF Nodes
  <2>1. f[d][1] \in SUBSET Kinds /\ f[d][2] \in Results /\ f[d][3] \in BOOLEAN
    OBVIOUS
  <2>2. node[d] = Input!NodeOf(d, f[d][1], f[d][2], f[d][3])
    BY <1>1
  <2> QED BY <2>1, <2>2, NodesLead
<1>3. /\ hops = 0 /\ review = FALSE /\ work = {}
      /\ parts \in {Input!LoopAssignment, Input!Assignment}
      /\ sections = Input!BuildTaskInput(parts)
  BY DEF Input!InputInit
<1>4. /\ parts \in Seq(Parts) /\ Len(parts) <= Floor
      /\ \A d \in Input!Completed : Delivers(sections, d)
  BY <1>2, <1>3, AssignmentDelivers, LoopAssignmentDelivers
<1>5. Input!TotalSize(sections) <= (IF Room < Floor THEN Floor ELSE Room)
  BY <1>3, <1>4, SectionArrives
<1>6. Input!InputsReachTheAgent
  <2>1. ~(hops > 0)
    BY <1>3
  <2> QED BY <1>4, <1>5, <2>1
         DEF Input!InputsReachTheAgent, Delivers, Leads, SaysOf, Input!LeadsTo
<1> QED BY <1>2, <1>3, <1>6 DEF InputInv

LEMMA InputStep ==
    ASSUME InputInv, [Input!InputNext]_(Input!inputVars)
    PROVE  InputInv'
<1>1. CASE UNCHANGED Input!inputVars
  BY <1>1 DEF InputInv, Nodes, IsNode, Input!inputVars, Input!InputsReachTheAgent, Input!Completed,
        Input!Reader, Input!LeadsTo, Input!HasOutput
<1>2. ASSUME NEW files \in SUBSET Kinds, NEW verdict,
             Input!Forward(files, verdict)
      PROVE  InputInv'
  <2> DEFINE next == IF review' THEN Reviewer ELSE Worker
             from == IF review THEN Reviewer ELSE Worker
  <2>1. /\ node' = node /\ review' \in BOOLEAN /\ hops' = hops + 1
        /\ work' = work \cup files
        /\ sections' = Input!BuildTaskInput(parts')
        /\ parts' = Handed(next, review', verdict, from, work')
    BY <1>2 DEF Input!Forward, Input!MergeArtifactFiles, InputInv, Handed
  <2>2. Nodes /\ Nodes' /\ work' \in SUBSET Kinds /\ hops' \in Nat /\ from \in {Worker, Reviewer}
    <3>1. Nodes /\ hops \in Nat /\ work \in SUBSET Kinds
      BY DEF InputInv
    <3>2. node' = node /\ hops' = hops + 1 /\ work' = work \cup files
      BY <2>1
    <3>3. Nodes'
      BY <3>1, <3>2 DEF Nodes, IsNode
    <3>4. hops' \in Nat
      <4>1. \A h \in Nat : h + 1 \in Nat
        OBVIOUS
      <4> QED BY ONLY <3>1, <3>2, <4>1
    <3>5. work' \in SUBSET Kinds
      BY <3>1, <3>2
    <3> QED BY <3>1, <3>3, <3>4, <3>5
  <2>3. /\ parts' \in Seq(Parts) /\ Len(parts') <= Floor
        /\ \A d \in Input!Completed : AgentOf[d] # next => Delivers(sections', d)
        /\ \A k \in work' : Leads(sections', Input!Path(Worker, k))
    <3> HIDE DEF next, from
    <3> QED BY <2>1, <2>2, ForwardDelivers
  <2>4. Input!TotalSize(sections') <= (IF Room < Floor THEN Floor ELSE Room)
    BY <2>1, <2>3, SectionArrives
  <2>5. hops' # 0
    <3>1. hops \in Nat /\ hops' = hops + 1
      BY <2>1 DEF InputInv
    <3>2. \A h \in Nat : h + 1 # 0
      OBVIOUS
    <3> QED BY ONLY <3>1, <3>2
  <2>6. Input!InputsReachTheAgent'
    BY <2>1, <2>3, <2>4, <2>5
       DEF Input!InputsReachTheAgent, Delivers, Leads, SaysOf, Input!LeadsTo, Input!Completed,
           Input!Reader, Input!HasOutput, Input!TotalSize
  <2> QED BY <2>1, <2>2, <2>6 DEF InputInv
<1> QED BY <1>1, <1>2 DEF Input!InputNext

LEMMA InputInvariant == Input!InputSpec => []InputInv
  BY InputInitially, InputStep, PTL DEF Input!InputSpec

(* What was made upstream reaches the agent of whatever depends on it: in   *)
(* the input of its task, however little of it fits, and in the files that  *)
(* it works on, whatever others write meanwhile.                            *)
THEOREM Arrives == Input!InputSpec /\ WorkspaceSpec => []UpstreamArrives
<1>1. InputInv /\ UpstreamIsVisible => UpstreamArrives
  BY DEF InputInv, UpstreamArrives
<1> QED BY <1>1, InputInvariant, Visible, PTL

-----------------------------------------------------------------------------
(* Knowledge: a lookup.                                                     *)

\* SetToSeq lists a finite set, as above.
LEMMA SetIsListed ==
    ASSUME NEW S, IsFiniteSet(S)
    PROVE  /\ SetToSeq(S) \in Seq(S)
           /\ Len(SetToSeq(S)) = Cardinality(S)
           /\ \A x \in S : Has(SetToSeq(S), x)
<1> DEFINE c == Cardinality(S)
           o == SetToSeq(S)
<1>1. Input!SetToSeq(S) = o
  <2>1. Input!Cardinality(S) = Cardinality(S)
    BY Zenon DEF Input!Cardinality, Cardinality, Input!IsFiniteSet, IsFiniteSet
  <2>2. \A f : Input!IsInjective(f) <=> IsInjective(f)
    BY Zenon DEF Input!IsInjective, IsInjective
  <2> QED BY <2>1, <2>2, Zenon DEF Input!SetToSeq, SetToSeq
<1>2. /\ c \in Nat /\ o \in [1 .. c -> S]
      /\ \A x \in S : \E i \in 1 .. c : o[i] = x
  BY <1>1, ListOfSet
<1> HIDE DEF c, o
<1>3. o \in Seq(S) /\ Len(o) = c
  BY <1>2, FunctionIsSeq
<1> QED BY <1>2, <1>3 DEF Has, c, o

\* There is a path of k edges over nodes that stand.
PathTo(g, from, id, k) ==
    \E path \in [0 .. k -> IDsOf(g)] :
        /\ path[0] \in from /\ path[k] = id
        /\ \A i \in 1 .. k : path[i] \in Standing(g) \cap Neighbors(g, path[i - 1])

LEMMA PathGrows ==
    ASSUME NEW g, NEW from, NEW a, NEW b, NEW k \in Nat, PathTo(g, from, a, k),
           b \in Neighbors(g, a) \cap Standing(g)
    PROVE  PathTo(g, from, b, k + 1)
<1>1. PICK path \in [0 .. k -> IDsOf(g)] :
         /\ path[0] \in from /\ path[k] = a
         /\ \A i \in 1 .. k : path[i] \in Standing(g) \cap Neighbors(g, path[i - 1])
  BY DEF PathTo
<1>2. b \in IDsOf(g)
  BY DEF Standing
<1> DEFINE longer == [i \in 0 .. k + 1 |-> IF i = k + 1 THEN b ELSE path[i]]
<1>3. longer \in [0 .. k + 1 -> IDsOf(g)]
  BY <1>2
<1>4. longer[k + 1] = b /\ \A i \in 0 .. k : longer[i] = path[i]
  OBVIOUS
<1> HIDE DEF longer
<1>5. longer[0] \in from
  BY <1>1, <1>4
<1>6. ASSUME NEW i \in 1 .. k + 1
      PROVE  longer[i] \in Standing(g) \cap Neighbors(g, longer[i - 1])
  <2>1. CASE i = k + 1
    <3>1. i - 1 = k /\ k \in 0 .. k
      BY <2>1
    <3> QED BY <1>1, <1>4, <2>1, <3>1
  <2>2. CASE i # k + 1
    <3>1. i \in 1 .. k /\ i \in 0 .. k /\ i - 1 \in 0 .. k
      BY <2>2
    <3> QED BY <1>1, <1>4, <3>1
  <2> QED BY <2>1, <2>2
<1> QED BY <1>3, <1>4, <1>5, <1>6 DEF PathTo

\* What is true of a search between two rounds.  Every node that was met is at
\* the end of a path as long as its depth; the queue is in the order of depths and
\* no node is more than one further away than its head; and what is not queued
\* any more has led on.
Searching(g, seeds, maxDepth, s) ==
    LET d == s.depth
        q == s.queue
    IN  /\ DOMAIN d \subseteq Standing(g) /\ d \in [DOMAIN d -> 0 .. maxDepth]
        /\ q \in Seq(DOMAIN d)
        /\ \A id \in seeds : id \in DOMAIN d /\ d[id] = 0
        /\ \A id \in DOMAIN d : PathTo(g, seeds, id, d[id])
        /\ \A i, j \in 1 .. Len(q) : i <= j => d[q[i]] <= d[q[j]]
        /\ q # <<>> => \A id \in DOMAIN d : d[id] <= d[q[1]] + 1
        /\ \A id \in DOMAIN d : \/ Has(q, id)
                                \/ d[id] >= maxDepth
                                \/ \A m \in Neighbors(g, id) \cap Standing(g) :
                                      m \in DOMAIN d /\ d[m] <= d[id] + 1

LEMMA VisitSearches ==
    ASSUME NEW g, IsFiniteSet(IDsOf(g)), NEW seeds, NEW maxDepth \in Nat, NEW s,
           Searching(g, seeds, maxDepth, s), s.queue # <<>>
    PROVE  /\ Searching(g, seeds, maxDepth, Visit(g, s, maxDepth))
           /\ Len(Visit(g, s, maxDepth).queue) + Cardinality(DOMAIN s.depth) + 1
                = Len(s.queue) + Cardinality(DOMAIN Visit(g, s, maxDepth).depth)
<1> DEFINE d == s.depth
           q == s.queue
           cur == Head(q)
           met == IF d[cur] >= maxDepth THEN {}
                  ELSE (Neighbors(g, cur) \cap Standing(g)) \ DOMAIN d
           fresh == SetToSeq(met)
           q2 == Tail(q) \o fresh
           d2 == [id \in DOMAIN d \cup met |-> IF id \in met THEN d[cur] + 1 ELSE d[id]]
           v == Visit(g, s, maxDepth)
<1>1. v.queue = q2 /\ v.depth = d2
  BY DEF Visit
<1>2. /\ DOMAIN d \subseteq Standing(g) /\ d \in [DOMAIN d -> 0 .. maxDepth]
      /\ q \in Seq(DOMAIN d) /\ q # <<>>
      /\ \A id \in seeds : id \in DOMAIN d /\ d[id] = 0
      /\ \A id \in DOMAIN d : PathTo(g, seeds, id, d[id])
      /\ \A i, j \in 1 .. Len(q) : i <= j => d[q[i]] <= d[q[j]]
      /\ \A id \in DOMAIN d : d[id] <= d[q[1]] + 1
      /\ \A id \in DOMAIN d : \/ Has(q, id)
                              \/ d[id] >= maxDepth
                              \/ \A m \in Neighbors(g, id) \cap Standing(g) :
                                    m \in DOMAIN d /\ d[m] <= d[id] + 1
  BY DEF Searching
<1>3. /\ Len(q) \in Nat /\ Len(q) >= 1 /\ cur = q[1] /\ cur \in DOMAIN d
      /\ Tail(q) \in Seq(DOMAIN d) /\ Len(Tail(q)) = Len(q) - 1
      /\ \A i \in 1 .. Len(q) - 1 : Tail(q)[i] = q[i + 1]
      /\ \A i \in 1 .. Len(q) : q[i] \in DOMAIN d
  <2> HIDE DEF d, q
  <2> QED BY <1>2
<1>4. met \subseteq Neighbors(g, cur) \cap Standing(g) /\ met \cap DOMAIN d = {}
  OBVIOUS
<1>5. met # {} => d[cur] < maxDepth
  <2> HIDE DEF d, q, cur
  <2>1. d[cur] \in Nat
    BY <1>2, <1>3
  <2> QED BY <2>1
<1>6. d[cur] < maxDepth => \A m \in Neighbors(g, cur) \cap Standing(g) : m \in DOMAIN d \/ m \in met
  <2> HIDE DEF d, q, cur
  <2>1. d[cur] \in Nat
    BY <1>2, <1>3
  <2> QED BY <2>1
<1>7. DOMAIN d \subseteq IDsOf(g) /\ met \subseteq IDsOf(g)
  BY <1>2, <1>4 DEF Standing
<1>8. IsFiniteSet(DOMAIN d) /\ IsFiniteSet(met)
  BY <1>7, FS_Subset
<1> HIDE DEF met
<1>9. /\ fresh \in Seq(met) /\ Len(fresh) = Cardinality(met) /\ Cardinality(met) \in Nat
      /\ \A x \in met : Has(fresh, x)
  BY <1>8, SetIsListed, FS_CardinalityType
<1>10. /\ DOMAIN d2 = DOMAIN d \cup met
       /\ \A id \in DOMAIN d : d2[id] = d[id]
       /\ \A id \in met : d2[id] = d[cur] + 1
  BY <1>4
<1> HIDE DEF fresh, d2, q, d, cur
<1>11. /\ fresh \in Seq(DOMAIN d2) /\ Tail(q) \in Seq(DOMAIN d2)
       /\ \A i \in 1 .. Len(fresh) : fresh[i] \in met
  BY <1>3, <1>9, <1>10
<1>12. /\ q2 \in Seq(DOMAIN d2) /\ Len(q2) = Len(q) - 1 + Len(fresh)
       /\ \A i \in 1 .. Len(q) - 1 : q2[i] = q[i + 1]
       /\ \A i \in 1 .. Len(q2) : i > Len(q) - 1 => q2[i] \in met
  <2>1. /\ Len(fresh) \in Nat /\ q2 \in Seq(DOMAIN d2) /\ Len(q2) = Len(q) - 1 + Len(fresh)
    BY <1>3, <1>9, <1>11
  <2>2. /\ \A i \in 1 .. Len(q) - 1 : q2[i] = Tail(q)[i]
        /\ \A i \in 1 .. Len(fresh) : q2[Len(q) - 1 + i] = fresh[i]
    BY <1>3, <1>11
  <2>3. ASSUME NEW i \in 1 .. Len(q2), i > Len(q) - 1 PROVE q2[i] \in met
    <3>1. i - (Len(q) - 1) \in 1 .. Len(fresh) /\ Len(q) - 1 + (i - (Len(q) - 1)) = i
      BY <1>3, <2>1, <2>3
    <3>2. q2[i] = fresh[i - (Len(q) - 1)]
      BY <2>2, <3>1
    <3> QED BY <1>11, <3>1, <3>2
  <2> HIDE DEF q2
  <2> QED BY <1>3, <2>1, <2>2, <2>3
<1>13. \A x : Has(q2, x) <=> Has(Tail(q), x) \/ Has(fresh, x)
  BY <1>11, HasConcat
<1> HIDE DEF q2
<1>14. /\ d[cur] \in Nat /\ \A id \in DOMAIN d : d[id] \in Nat /\ d[id] <= maxDepth
       /\ \A id \in DOMAIN d : d[id] <= d[cur] + 1
  BY <1>2, <1>3
<1>15. d2 \in [DOMAIN d2 -> 0 .. maxDepth]
  <2>1. ASSUME NEW id \in DOMAIN d2 PROVE d2[id] \in 0 .. maxDepth
    <3>1. CASE id \in DOMAIN d
      BY <1>10, <1>14, <3>1
    <3>2. CASE id \in met
      BY <1>5, <1>10, <1>14, <3>2
    <3> QED BY <1>10, <3>1, <3>2
  <2>2. d2 = [id \in DOMAIN d2 |-> d2[id]]
    BY DEF d2
  <2> QED BY <2>1, <2>2
<1>16. \A id \in seeds : id \in DOMAIN d2 /\ d2[id] = 0
  BY <1>2, <1>10
<1>17. ASSUME NEW id \in DOMAIN d2 PROVE PathTo(g, seeds, id, d2[id])
  <2>1. CASE id \in DOMAIN d
    BY <1>2, <1>10, <2>1
  <2>2. CASE id \in met
    <3>1. PathTo(g, seeds, cur, d[cur])
      BY <1>2, <1>3
    <3>2. PathTo(g, seeds, id, d[cur] + 1)
      BY <1>4, <1>14, <2>2, <3>1, PathGrows
    <3> QED BY <1>10, <2>2, <3>2
  <2> QED BY <1>10, <2>1, <2>2
<1>18. ASSUME NEW i \in 1 .. Len(q2)
       PROVE  \/ /\ i <= Len(q) - 1 /\ i + 1 \in 1 .. Len(q) /\ d2[q2[i]] = d[q[i + 1]]
                 /\ d[q[i + 1]] \in Nat /\ d[cur] <= d[q[i + 1]] /\ d[q[i + 1]] <= d[cur] + 1
              \/ i > Len(q) - 1 /\ d2[q2[i]] = d[cur] + 1
  <2>1. CASE i <= Len(q) - 1
    <3>1. i \in 1 .. Len(q) - 1 /\ i + 1 \in 1 .. Len(q) /\ 1 \in 1 .. Len(q) /\ 1 <= i + 1
      BY <1>3, <2>1
    <3>2. q2[i] = q[i + 1] /\ q[i + 1] \in DOMAIN d
      BY <1>3, <1>12, <3>1
    <3>3. d[q[1]] <= d[q[i + 1]]
      BY <1>2, <3>1
    <3> QED BY <1>3, <1>10, <1>14, <2>1, <3>1, <3>2, <3>3
  <2>2. CASE i > Len(q) - 1
    BY <1>10, <1>12, <2>2
  <2> QED BY <1>3, <2>1, <2>2
<1>19. ASSUME NEW i \in 1 .. Len(q2), NEW j \in 1 .. Len(q2), i <= j
       PROVE  d2[q2[i]] <= d2[q2[j]]
  <2>1. CASE j <= Len(q) - 1
    <3>1. i <= Len(q) - 1 /\ ~(i > Len(q) - 1) /\ ~(j > Len(q) - 1)
      BY <1>3, <1>19, <2>1
    <3>2. /\ i + 1 \in 1 .. Len(q) /\ d2[q2[i]] = d[q[i + 1]]
          /\ j + 1 \in 1 .. Len(q) /\ d2[q2[j]] = d[q[j + 1]]
          /\ i + 1 <= j + 1
      BY <1>18, <1>19, <3>1
    <3> QED BY <1>2, <3>2
  <2>2. CASE j > Len(q) - 1
    <3>1. d2[q2[j]] = d[cur] + 1
      BY <1>3, <1>18, <2>2
    <3>2. d2[q2[i]] <= d[cur] + 1
      BY <1>14, <1>18
    <3> QED BY <3>1, <3>2
  <2> QED BY <1>3, <2>1, <2>2
<1>20. ASSUME q2 # <<>>, NEW id \in DOMAIN d2 PROVE d2[id] <= d2[q2[1]] + 1
  <2>1. Len(q2) \in Nat /\ 1 \in 1 .. Len(q2)
    BY <1>12, <1>20
  <2>2. d[cur] <= d2[q2[1]] /\ d2[q2[1]] \in Nat
    BY <1>14, <1>18, <2>1
  <2>3. d2[id] <= d[cur] + 1 /\ d2[id] \in Nat
    BY <1>10, <1>14
  <2> QED BY <1>14, <2>2, <2>3
<1>21. ASSUME NEW id \in DOMAIN d2
       PROVE  \/ Has(q2, id)
              \/ d2[id] >= maxDepth
              \/ \A m \in Neighbors(g, id) \cap Standing(g) : m \in DOMAIN d2 /\ d2[m] <= d2[id] + 1
  <2>1. CASE id \in met
    BY <1>9, <1>13, <2>1
  <2>2. CASE id = cur
    <3>1. d2[id] = d[cur]
      BY <1>3, <1>10, <2>2
    <3>2. CASE d[cur] < maxDepth
      <4>1. ASSUME NEW m \in Neighbors(g, id) \cap Standing(g)
            PROVE  m \in DOMAIN d2 /\ d2[m] <= d2[id] + 1
        <5>1. m \in DOMAIN d \/ m \in met
          BY <1>6, <2>2, <3>2
        <5> QED BY <1>10, <1>14, <3>1, <5>1
      <4> QED BY <4>1
    <3> QED BY <1>14, <3>1, <3>2
  <2>3. CASE id \in DOMAIN d /\ id # cur
    <3>1. d2[id] = d[id]
      BY <1>10, <2>3
    <3>2. CASE Has(q, id)
      <4>1. PICK i \in 1 .. Len(q) : q[i] = id
        BY <3>2 DEF Has
      <4>2. i - 1 \in 1 .. Len(q) - 1 /\ i = i - 1 + 1
        BY <1>3, <2>3, <4>1
      <4>3. Tail(q)[i - 1] = id
        BY <1>3, <4>1, <4>2
      <4>4. Has(Tail(q), id)
        BY <1>3, <4>2, <4>3 DEF Has
      <4> QED BY <1>13, <4>4
    <3>3. CASE d[id] >= maxDepth
      BY <3>1, <3>3
    <3>4. CASE \A m \in Neighbors(g, id) \cap Standing(g) : m \in DOMAIN d /\ d[m] <= d[id] + 1
      BY <1>10, <3>1, <3>4
    <3> QED BY <1>2, <2>3, <3>2, <3>3, <3>4
  <2> QED BY <1>10, <2>1, <2>2, <2>3
<1>22. DOMAIN d2 \subseteq Standing(g)
  BY <1>2, <1>4, <1>10
<1>23. Searching(g, seeds, maxDepth, v)
  BY <1>1, <1>12, <1>15, <1>16, <1>17, <1>19, <1>20, <1>21, <1>22 DEF Searching
<1>24. Len(q2) + Cardinality(DOMAIN d) + 1 = Len(q) + Cardinality(DOMAIN d2)
  <2>1. Cardinality(DOMAIN d2) = Cardinality(DOMAIN d) + Cardinality(met)
    <3>1. DOMAIN d \cap met = {}
      BY <1>4
    <3>2. Cardinality(DOMAIN d \cup met)
            = Cardinality(DOMAIN d) + Cardinality(met) - Cardinality(DOMAIN d \cap met)
      BY <1>8, FS_Union
    <3>3. Cardinality({}) = 0 /\ Cardinality(DOMAIN d) \in Nat
      BY <1>8, FS_EmptySet, FS_CardinalityType
    <3>4. DOMAIN d2 = DOMAIN d \cup met
      BY <1>10
    <3>5. Cardinality(DOMAIN d2) = Cardinality(DOMAIN d) + Cardinality(met) - 0
      BY ONLY <3>1, <3>2, <3>3, <3>4
    <3> QED BY <1>9, <3>3, <3>5
  <2>2. Cardinality(DOMAIN d) \in Nat
    BY <1>8, FS_CardinalityType
  <2> QED BY <1>3, <1>9, <1>12, <2>1, <2>2
<1> QED BY <1>1, <1>23, <1>24 DEF d, q

\* Before the first round the seeds are queued.
LEMMA SeedsAreSearched ==
    ASSUME NEW g, IsFiniteSet(IDsOf(g)), NEW seeds, seeds \subseteq Standing(g), NEW maxDepth \in Nat
    PROVE  LET s == [queue |-> SetToSeq(seeds), depth |-> [id \in seeds |-> 0]]
           IN  /\ Searching(g, seeds, maxDepth, s)
               /\ Len(s.queue) \in Nat
               /\ Len(s.queue) = Cardinality(DOMAIN s.depth)
<1> DEFINE q == SetToSeq(seeds)
           d == [id \in seeds |-> 0]
<1>1. seeds \subseteq IDsOf(g) /\ IsFiniteSet(seeds)
  <2>1. seeds \subseteq IDsOf(g)
    BY DEF Standing
  <2> QED BY <2>1, FS_Subset
<1>2. /\ q \in Seq(seeds) /\ Len(q) = Cardinality(seeds) /\ Cardinality(seeds) \in Nat
      /\ \A x \in seeds : Has(q, x)
  BY <1>1, SetIsListed, FS_CardinalityType
<1>3. DOMAIN d = seeds /\ \A id \in seeds : d[id] = 0
  OBVIOUS
<1>4. d \in [DOMAIN d -> 0 .. maxDepth]
  BY <1>3
<1> HIDE DEF q, d
<1>5. ASSUME NEW id \in seeds PROVE PathTo(g, seeds, id, 0)
  <2> DEFINE path == [i \in 0 .. 0 |-> id]
  <2>1. path \in [0 .. 0 -> IDsOf(g)] /\ path[0] = id
    BY <1>1
  <2>2. \A i \in 1 .. 0 : path[i] \in Standing(g) \cap Neighbors(g, path[i - 1])
    OBVIOUS
  <2> HIDE DEF path
  <2> QED BY <2>1, <2>2 DEF PathTo
<1>6. \A i \in 1 .. Len(q) : q[i] \in seeds
  BY <1>2
<1>7. q # <<>> => \A id \in seeds : d[id] <= d[q[1]] + 1
  <2> SUFFICES ASSUME q # <<>> PROVE \A id \in seeds : d[id] <= d[q[1]] + 1
    OBVIOUS
  <2>1. 1 \in 1 .. Len(q)
    BY <1>2
  <2> QED BY <1>3, <1>6, <2>1
<1>8. Searching(g, seeds, maxDepth, [queue |-> q, depth |-> d])
  BY <1>2, <1>3, <1>4, <1>5, <1>6, <1>7 DEF Searching
<1> QED BY <1>2, <1>3, <1>8 DEF q, d

SearchRounds(g, seeds, maxDepth) ==
    CHOOSE search : search = [n \in 0 .. Cardinality(IDsOf(g)) |->
        IF n = 0 THEN [queue |-> SetToSeq(seeds), depth |-> [id \in seeds |-> 0]]
        ELSE LET prior == search[n - 1]
             IN IF prior.queue = <<>> THEN prior ELSE Visit(g, prior, maxDepth)]

\* A search ends with an empty queue.
LEMMA SearchEnds ==
    ASSUME NEW g, IsFiniteSet(IDsOf(g)), NEW seeds, seeds \subseteq Standing(g), NEW maxDepth \in Nat
    PROVE  \E s : /\ Searching(g, seeds, maxDepth, s) /\ s.queue = <<>>
                  /\ Search(g, seeds, maxDepth) = s.depth
<1> DEFINE N == Cardinality(IDsOf(g))
           first == [queue |-> SetToSeq(seeds), depth |-> [id \in seeds |-> 0]]
           Again(s) == IF s.queue = <<>> THEN s ELSE Visit(g, s, maxDepth)
           Maps == UNION {[T -> 0 .. maxDepth] : T \in SUBSET Standing(g)}
           V == {s \in [queue : Seq(Standing(g)), depth : Maps] : Searching(g, seeds, maxDepth, s)}
           round == [e \in (1 .. N) \X V |-> Again(e[2])]
           run == SearchRounds(g, seeds, maxDepth)
<1>1. N \in Nat
  BY FS_CardinalityType
<1>2. ASSUME NEW q, NEW d, Searching(g, seeds, maxDepth, [queue |-> q, depth |-> d])
      PROVE  [queue |-> q, depth |-> d] \in V
  <2>1. /\ DOMAIN d \subseteq Standing(g) /\ d \in [DOMAIN d -> 0 .. maxDepth]
        /\ q \in Seq(DOMAIN d)
    BY <1>2 DEF Searching
  <2>2. d \in Maps
    BY <2>1
  <2>3. q \in Seq(Standing(g))
    BY <2>1
  <2> HIDE DEF Maps
  <2> QED BY <1>2, <2>2, <2>3
<1>3. first \in V
  BY <1>2, SeedsAreSearched
<1>4. ASSUME NEW s \in V
      PROVE  /\ Again(s) \in V
             /\ s.queue # <<>> => Len(Again(s).queue) + Cardinality(DOMAIN s.depth) + 1
                                    = Len(s.queue) + Cardinality(DOMAIN Again(s).depth)
  <2>1. CASE s.queue = <<>>
    BY <2>1
  <2>2. CASE s.queue # <<>>
    <3>1. Searching(g, seeds, maxDepth, s)
      BY <1>4
    <3>2. /\ Searching(g, seeds, maxDepth, Visit(g, s, maxDepth))
          /\ Len(Visit(g, s, maxDepth).queue) + Cardinality(DOMAIN s.depth) + 1
               = Len(s.queue) + Cardinality(DOMAIN Visit(g, s, maxDepth).depth)
      <4> HIDE DEF V
      <4> QED BY <2>2, <3>1, VisitSearches
    <3>3. \E q, d : Visit(g, s, maxDepth) = [queue |-> q, depth |-> d]
      BY Zenon DEF Visit
    <3>4. Visit(g, s, maxDepth) \in V
      <4> HIDE DEF V
      <4> QED BY <1>2, <3>2, <3>3
    <3> HIDE DEF V
    <3> QED BY <2>2, <3>2, <3>4
  <2> QED BY <2>1, <2>2
<1> HIDE DEF V, Again, first
<1>5. /\ round \in [(1 .. N) \X V -> V]
      /\ \A n \in 1 .. N, s \in V : round[<<n, s>>] = Again(s)
  BY <1>4
<1>6. PICK f \in [0 .. N -> V] : Follows(f, first, round, N)
  <2> HIDE DEF round
  <2> QED BY <1>1, <1>3, <1>5, Recursion
<1>7. /\ f[0] = first
      /\ \A n \in 1 .. N : f[n - 1] \in V /\ f[n] = Again(f[n - 1])
  <2> HIDE DEF round
  <2>1. \A n \in 1 .. N : f[n - 1] \in V
    BY <1>1, <1>6
  <2> QED BY <1>5, <1>6, <2>1 DEF Follows
<1>8. f = [n \in 0 .. N |-> IF n = 0 THEN first ELSE Again(f[n - 1])]
  <2>1. \A n \in 0 .. N : n # 0 => n \in 1 .. N
    BY <1>1
  <2> QED BY <1>6, <1>7, <2>1
<1>9. run = [n \in 0 .. N |-> IF n = 0 THEN first ELSE Again(run[n - 1])]
  BY <1>8, Zenon DEF SearchRounds, first, Again
<1>10. run[0] = first /\ \A n \in 1 .. N : run[n] = Again(run[n - 1])
  <2> HIDE DEF run
  <2>1. 0 \in 0 .. N /\ \A n \in 1 .. N : n \in 0 .. N /\ n # 0
    BY <1>1
  <2> QED BY <1>9, <2>1
<1>11. Search(g, seeds, maxDepth) = run[N].depth
  BY Zenon DEF Search, SearchRounds
<1> HIDE DEF run
<1> DEFINE S == {n \in 0 .. N : /\ run[n] \in V
                                /\ \/ run[n].queue = <<>>
                                   \/ Len(run[n].queue) + n = Cardinality(DOMAIN run[n].depth)}
<1>12. ASSUME NEW s \in V
       PROVE  /\ Searching(g, seeds, maxDepth, s)
              /\ Len(s.queue) \in Nat /\ (s.queue # <<>> => Len(s.queue) > 0)
              /\ Cardinality(DOMAIN s.depth) \in Nat /\ Cardinality(DOMAIN s.depth) <= N
  <2>1. Searching(g, seeds, maxDepth, s) /\ s.queue \in Seq(Standing(g))
    BY DEF V
  <2>2. DOMAIN s.depth \subseteq IDsOf(g)
    BY <2>1 DEF Searching, Standing
  <2>3. IsFiniteSet(DOMAIN s.depth) /\ Cardinality(DOMAIN s.depth) <= N
    BY <2>2, FS_Subset
  <2>4. Len(s.queue) \in Nat /\ (s.queue # <<>> => Len(s.queue) > 0)
    BY <2>1
  <2> QED BY <2>1, <2>3, <2>4, FS_CardinalityType
<1>13. 0 \in S
  <2>1. Len(first.queue) \in Nat /\ Len(first.queue) = Cardinality(DOMAIN first.depth)
    BY SeedsAreSearched DEF first
  <2> QED BY <1>1, <1>3, <1>10, <2>1
<1>14. ASSUME NEW n \in 1 .. N, n - 1 \in S PROVE n \in S
  <2>1. run[n] = Again(run[n - 1]) /\ run[n - 1] \in V /\ run[n] \in V /\ n \in 0 .. N
    BY <1>1, <1>4, <1>10, <1>14
  <2>2. CASE run[n - 1].queue = <<>>
    BY <2>1, <2>2 DEF Again
  <2>3. CASE run[n - 1].queue # <<>>
    <3> DEFINE a == Len(run[n - 1].queue)
               b == Cardinality(DOMAIN run[n - 1].depth)
               c == Len(run[n].queue)
               e == Cardinality(DOMAIN run[n].depth)
    <3>1. a + (n - 1) = b
      BY <1>14, <2>3
    <3>2. c + b + 1 = a + e
      BY <1>4, <2>1, <2>3
    <3>3. a \in Nat /\ b \in Nat /\ c \in Nat /\ e \in Nat
      BY <1>12, <2>1
    <3>4. c + n = e
      <4> HIDE DEF a, b, c, e
      <4> QED BY <3>1, <3>2, <3>3
    <3> QED BY <2>1, <3>4
  <2> QED BY <2>2, <2>3
<1>15. N \in S
  <2> HIDE DEF S
  <2>1. 0 .. N \subseteq S
    BY <1>1, <1>13, <1>14, Induction
  <2> QED BY <1>1, <2>1
<1>16. run[N].queue = <<>>
  <2> SUFFICES ASSUME run[N].queue # <<>> PROVE FALSE
    OBVIOUS
  <2> DEFINE a == Len(run[N].queue)
             b == Cardinality(DOMAIN run[N].depth)
  <2>1. a + N = b
    BY <1>15
  <2>2. a \in Nat /\ a > 0 /\ b \in Nat /\ b <= N
    BY <1>12, <1>15
  <2> HIDE DEF a, b
  <2> QED BY <1>1, <2>1, <2>2
<1> QED BY <1>11, <1>12, <1>15, <1>16

(* A breadth-first search from nodes that stand meets the nodes that paths   *)
(* of at most maxDepth edges lead to (bfsRelated), and no others.            *)
THEOREM SearchFinds ==
    ASSUME NEW g, IsFiniteSet(IDsOf(g)), NEW seeds, seeds \subseteq Standing(g), NEW maxDepth \in Nat
    PROVE  DOMAIN Search(g, seeds, maxDepth)
             = {id \in Standing(g) : Within(g, seeds, id, maxDepth)}
<1>1. PICK s : /\ Searching(g, seeds, maxDepth, s) /\ s.queue = <<>>
               /\ Search(g, seeds, maxDepth) = s.depth
  BY SearchEnds
<1> DEFINE d == s.depth
<1>2. /\ DOMAIN d \subseteq Standing(g) /\ d \in [DOMAIN d -> 0 .. maxDepth]
      /\ \A id \in seeds : id \in DOMAIN d /\ d[id] = 0
      /\ \A id \in DOMAIN d : PathTo(g, seeds, id, d[id])
      /\ \A id \in DOMAIN d : \/ Has(<<>>, id)
                              \/ d[id] >= maxDepth
                              \/ \A m \in Neighbors(g, id) \cap Standing(g) :
                                    m \in DOMAIN d /\ d[m] <= d[id] + 1
  BY <1>1 DEF Searching
<1>3. \A id : ~Has(<<>>, id)
  BY DEF Has
<1> HIDE DEF d
<1>4. ASSUME NEW id \in DOMAIN d PROVE Within(g, seeds, id, maxDepth)
  <2>1. d[id] \in 0 .. maxDepth /\ PathTo(g, seeds, id, d[id])
    BY <1>2
  <2> QED BY <2>1 DEF Within, PathTo
<1>5. ASSUME NEW id, Within(g, seeds, id, maxDepth) PROVE id \in DOMAIN d
  <2>0. PICK k \in 0 .. maxDepth : PathTo(g, seeds, id, k)
    BY <1>5 DEF Within, PathTo
  <2>1. PICK path \in [0 .. k -> IDsOf(g)] :
           /\ path[0] \in seeds /\ path[k] = id
           /\ \A i \in 1 .. k : path[i] \in Standing(g) \cap Neighbors(g, path[i - 1])
    BY <2>0 DEF PathTo
  <2> DEFINE S == {i \in 0 .. k : path[i] \in DOMAIN d /\ d[path[i]] <= i}
  <2>2. 0 \in S
    BY <1>2, <2>1
  <2>3. ASSUME NEW i \in 1 .. k, i - 1 \in S PROVE i \in S
    <3>1. path[i - 1] \in DOMAIN d /\ d[path[i - 1]] <= i - 1
      BY <2>3
    <3>2. d[path[i - 1]] \in Nat /\ ~(d[path[i - 1]] >= maxDepth)
      BY <1>2, <3>1
    <3>3. path[i] \in DOMAIN d /\ d[path[i]] <= d[path[i - 1]] + 1
      BY <1>2, <1>3, <2>1, <3>1, <3>2
    <3>4. d[path[i]] \in Nat
      BY <1>2, <3>3
    <3> QED BY <3>1, <3>2, <3>3, <3>4
  <2>4. k \in S
    <3> HIDE DEF S
    <3>1. 0 .. k \subseteq S
      BY <2>2, <2>3, Induction
    <3> QED BY <3>1
  <2> QED BY <2>1, <2>4
<1> QED BY <1>1, <1>2, <1>4, <1>5 DEF d

\* Of no more than may be returned, all are.
LEMMA AllAreBest ==
    ASSUME NEW ids, IsFiniteSet(ids), NEW n \in Nat, Cardinality(ids) <= n, NEW T \in SUBSET ids,
           Cardinality(T) = IF n < Cardinality(ids) THEN n ELSE Cardinality(ids)
    PROVE  T = ids
<1>1. Cardinality(ids) \in Nat
  BY FS_CardinalityType
<1>2. Cardinality(T) = Cardinality(ids)
  BY <1>1
<1> QED BY <1>2, FS_Subset

(* What a lookup finds of a graph: whatever the keywords add to the seeds,   *)
(* what is near to them (Lookup).                                           *)
LEMMA LookupIsRight ==
    ASSUME NEW g, IsFiniteSet(IDsOf(g)), NEW keywords, NEW maxDepth \in Nat, NEW own,
           own = {id \in Standing(g) : g.node[id].agent = Agent}
    PROVE  {r.related : r \in Lookup(g, Agent, keywords, maxDepth, Cardinality(IDsOf(g)))}
             = {{id \in Standing(g) : g.node[id].agent # Agent /\ Within(g, seeds, id, maxDepth)} :
                  seeds \in AddKeywordSeeds(g, keywords, own)}
<1> DEFINE N == Cardinality(IDsOf(g))
           A == AddKeywordSeeds(g, keywords, own)
           Near(s) == {id \in Standing(g) : g.node[id].agent # Agent /\ Within(g, s, id, maxDepth)}
           Reached(s) == BfsRelated(g, s, Agent, maxDepth)
           Chosen(s) == {T \in SUBSET DOMAIN Reached(s) :
                           /\ Cardinality(T) = IF N < Cardinality(DOMAIN Reached(s)) THEN N
                                               ELSE Cardinality(DOMAIN Reached(s))
                           /\ \A x \in T, y \in DOMAIN Reached(s) \ T :
                                 Relevance(g, Reached(s), keywords, x) >= Relevance(g, Reached(s), keywords, y)}
           L == Lookup(g, Agent, keywords, maxDepth, N)
<1>1. L = {[own |-> own, related |-> r] : r \in UNION {Chosen(s) : s \in A}}
  BY DEF Lookup, LookupDual, Best
<1>2. ASSUME NEW s \in A PROVE s \subseteq Standing(g)
  BY DEF AddKeywordSeeds, Best
<1>3. ASSUME NEW s \in A PROVE DOMAIN Reached(s) = Near(s)
  <2>1. DOMAIN Search(g, s, maxDepth) = {id \in Standing(g) : Within(g, s, id, maxDepth)}
    <3> HIDE DEF A
    <3> QED BY <1>2, SearchFinds
  <2>2. DOMAIN Reached(s) = {id \in DOMAIN Search(g, s, maxDepth) : g.node[id].agent # Agent}
    BY DEF BfsRelated, Restrict
  <2> HIDE DEF Reached
  <2> QED BY <2>1, <2>2
<1> HIDE DEF A, Reached, L
<1>4. ASSUME NEW s \in A PROVE Chosen(s) = {Near(s)}
  <2> DEFINE I == DOMAIN Reached(s)
  <2>1. I \subseteq IDsOf(g)
    BY <1>3 DEF Standing
  <2>2. IsFiniteSet(I) /\ Cardinality(I) <= N /\ N \in Nat /\ Cardinality(I) \in Nat
    <3> HIDE DEF I
    <3> QED BY <2>1, FS_Subset, FS_CardinalityType
  <2>3. ASSUME NEW T \in Chosen(s) PROVE T = I
    <3> HIDE DEF N
    <3> QED BY <2>2, <2>3, AllAreBest
  <2>4. I \in Chosen(s)
    <3>1. Cardinality(I) = IF N < Cardinality(I) THEN N ELSE Cardinality(I)
      <4> HIDE DEF N, I
      <4> QED BY <2>2
    <3> QED BY <3>1
  <2>5. I = Near(s)
    BY <1>3
  <2> HIDE DEF Chosen, I, Near
  <2> QED BY <2>3, <2>4, <2>5
<1> HIDE DEF Chosen, Near
<1>5. {r.related : r \in L} = UNION {Chosen(s) : s \in A}
  <2> DEFINE U == UNION {Chosen(s) : s \in A}
             Result(r) == [own |-> own, related |-> r]
  <2>1. L = {Result(r) : r \in U}
    BY <1>1
  <2>2. \A r : Result(r).related = r
    OBVIOUS
  <2> HIDE DEF U, Result
  <2>3. \A x : x \in {r.related : r \in L} <=> x \in U
    BY <2>1, <2>2
  <2> QED BY <2>3 DEF U
<1>6. UNION {Chosen(s) : s \in A} = {Near(s) : s \in A}
  BY <1>4
<1> QED BY <1>5, <1>6 DEF A, L, Near, N

-----------------------------------------------------------------------------
(* Knowledge: the files.                                                    *)

\* A graph, or a file that does not parse.
IsFile(f) == f = Torn \/ IsGraph(f)

\* What a curation has taken out of the graph is in cold storage, and new there.
IsArchived == \A id \in IDsOf(curation.seen) \ IDsOf(curation.graph) :
                 id \in IDsOf(cold) /\ cold.node[id].old = FALSE

\* What it reads is a part of what it read: all that is left, and the edges.
IsPart == /\ IDsOf(curation.graph) \subseteq IDsOf(curation.seen)
          /\ \A id \in IDsOf(curation.graph) : curation.graph.node[id] = curation.seen.node[id]
          /\ curation.graph.edges \subseteq curation.seen.edges

CurationInv ==
    /\ DOMAIN curation = {"pc", "seen", "graph"}
    /\ curation.pc \in {"off", "move", "ask", "save"}
    /\ IsGraph(curation.seen) /\ IsGraph(curation.graph)
    /\ curation.pc = "move" => curation.graph = curation.seen
    /\ curation.pc \in {"ask", "save"} =>
          /\ IsGraph(cold) /\ IsArchived
          /\ Tagged(curation.seen, "decision") \subseteq IDsOf(curation.graph)
    /\ curation.pc = "ask" => IsPart

WritersInv ==
    /\ DOMAIN writer = Writers
    /\ \A w \in Writers : /\ DOMAIN writer[w] = {"pc", "manifest", "shared", "agent"}
                          /\ IsGraph(writer[w].manifest) /\ IsGraph(writer[w].agent)

\* Whoever chats is alone with the graph.
ChatInv == stage = "chat" => /\ sharedGraph \in Pools
                             /\ \A w \in Writers : writer[w].pc = "off"
                             /\ ~asleep /\ curation.pc = "off"

KnowledgeInv == /\ IsFile(active) /\ IsFile(cold) /\ IsGraph(mine) /\ faults \in Nat
                /\ asleep \in BOOLEAN
                /\ WritersInv /\ CurationInv /\ ChatInv

-----------------------------------------------------------------------------
\* What the algorithms leave is a graph.
LEMMA NewIsGraph == IsGraph(NewGraph)
  BY DEF IsGraph, NewGraph

LEMMA GraphParses == ASSUME NEW g, IsGraph(g) PROVE g # Torn
<1>1. DOMAIN Torn = {"torn"}
  BY DEF Torn
<1> QED BY <1>1 DEF IsGraph

LEMMA LoadedIsGraph == ASSUME NEW f, IsFile(f) PROVE IsGraph(Loaded(f))
  BY NewIsGraph DEF Loaded, IsFile

\* A graph that has its nodes replaced is one when they have their fields.
LEMMA NodesReplaced ==
    ASSUME NEW g, IsGraph(g), NEW n, \A id \in DOMAIN n : DOMAIN n[id] = Fields
    PROVE  LET h == [g EXCEPT !.node = n]
           IN  IsGraph(h) /\ h.node = n /\ h.edges = g.edges
  BY DEF IsGraph

LEMMA EdgesReplaced ==
    ASSUME NEW g, IsGraph(g), NEW e
    PROVE  LET h == [g EXCEPT !.edges = e]
           IN  IsGraph(h) /\ h.node = g.node /\ h.edges = e
  BY DEF IsGraph

LEMMA CleanIsGraph ==
    ASSUME NEW g, IsGraph(g)
    PROVE  IsGraph(Clean(g)) /\ Clean(g).node = g.node
  BY EdgesReplaced DEF Clean

LEMMA OnlyIsGraph ==
    ASSUME NEW g, IsGraph(g), NEW ids, ids \subseteq IDsOf(g)
    PROVE  /\ IsGraph(OnlyNodes(g, ids)) /\ IDsOf(OnlyNodes(g, ids)) = ids
           /\ \A id \in ids : OnlyNodes(g, ids).node[id] = g.node[id]
<1> DEFINE n == [id \in ids |-> g.node[id]]
<1>1. OnlyNodes(g, ids) = [g EXCEPT !.node = n]
  BY DEF OnlyNodes, Restrict
<1>2. \A id \in DOMAIN n : DOMAIN n[id] = Fields
  BY DEF IsGraph, IDsOf
<1>3. DOMAIN n = ids /\ \A id \in ids : n[id] = g.node[id]
  OBVIOUS
<1> HIDE DEF n
<1>4. IsGraph(OnlyNodes(g, ids)) /\ OnlyNodes(g, ids).node = n
  BY <1>1, <1>2, NodesReplaced
<1> QED BY <1>3, <1>4 DEF IDsOf

LEMMA MergeIsGraph ==
    ASSUME NEW g, IsGraph(g), NEW m, IsGraph(m)
    PROVE  IsGraph(Merge(g, m))
<1>1. DOMAIN Merge(g, m) = {"node", "edges"} /\ DOMAIN Merge(g, m).node = IDsOf(g) \cup IDsOf(m)
  BY DEF Merge
<1>2. ASSUME NEW id \in IDsOf(g) \cup IDsOf(m) PROVE DOMAIN Merge(g, m).node[id] = Fields
  <2>1. Merge(g, m).node[id] \in {g.node[id], m.node[id], MergedNode(g.node[id], m.node[id])}
    BY DEF Merge
  <2>2. DOMAIN MergedNode(g.node[id], m.node[id]) = DOMAIN m.node[id]
    BY DEF MergedNode
  <2>3. CASE id \in IDsOf(m)
    <3>1. Merge(g, m).node[id] \in {m.node[id], MergedNode(g.node[id], m.node[id])}
      BY <2>3 DEF Merge
    <3> QED BY <2>2, <2>3, <3>1 DEF IsGraph, IDsOf
  <2>4. CASE id \notin IDsOf(m)
    <3>1. Merge(g, m).node[id] = g.node[id] /\ id \in IDsOf(g)
      BY <2>4 DEF Merge
    <3> QED BY <3>1 DEF IsGraph, IDsOf
  <2> QED BY <2>3, <2>4
<1> QED BY <1>1, <1>2 DEF IsGraph

LEMMA PruneIsGraph ==
    ASSUME NEW g, IsGraph(g), NEW max, NEW h \in Prune(g, max)
    PROVE  IsGraph(h)
<1>1. PICK ids \in SUBSET IDsOf(g) : h = IF ids = IDsOf(g) THEN g ELSE Clean(OnlyNodes(g, ids))
  BY DEF Prune, Best
<1> QED BY <1>1, OnlyIsGraph, CleanIsGraph

LEMMA PartIsGraph ==
    ASSUME NEW m, IsGraph(m), NEW known, NEW a
    PROVE  IsGraph(AgentPart(m, known, a))
  BY DEF AgentPart, IsGraph, IDsOf, Restrict

LEMMA AgedIsFile == ASSUME NEW f, IsFile(f) PROVE IsFile(Aged(f))
<1> SUFFICES ASSUME f # Torn PROVE IsGraph(Aged(f))
  BY DEF IsFile, Aged
<1>1. IsGraph(f)
  BY DEF IsFile
<1>2. DOMAIN Aged(f) = {"node", "edges"} /\ DOMAIN Aged(f).node = DOMAIN f.node
  BY <1>1 DEF Aged, IsGraph
<1>3. ASSUME NEW id \in DOMAIN f.node PROVE DOMAIN Aged(f).node[id] = DOMAIN f.node[id]
  BY <1>1 DEF Aged, IsGraph
<1> QED BY <1>1, <1>2, <1>3 DEF IsGraph

\* What moves is new in cold storage, where the rest stays as it is.
HasMoved(g, store, gone, moved) ==
    /\ IsGraph(moved.active) /\ IsGraph(moved.cold)
    /\ IDsOf(moved.active) = IDsOf(g) \ gone
    /\ \A id \in IDsOf(g) \ gone : moved.active.node[id] = g.node[id]
    /\ moved.active.edges \subseteq g.edges
    /\ IDsOf(moved.cold) = IDsOf(store) \cup gone
    /\ \A id \in gone : moved.cold.node[id].old = FALSE
    /\ \A id \in IDsOf(store) \ gone : moved.cold.node[id] = store.node[id]

LEMMA WhatMoves ==
    ASSUME NEW g, IsGraph(g), NEW store, IsGraph(store), NEW gone, gone \subseteq IDsOf(g)
    PROVE  HasMoved(g, store, gone, Move(g, store, gone))
<1> DEFINE left == Move(g, store, gone).active
           stored == Move(g, store, gone).cold
<1>1. /\ DOMAIN left = {"node", "edges"} /\ left.edges \subseteq g.edges
      /\ DOMAIN left.node = IDsOf(g) \ gone
      /\ \A id \in IDsOf(g) \ gone : left.node[id] = g.node[id]
  BY DEF Move, Restrict
<1>2. /\ DOMAIN stored = {"node", "edges"} /\ DOMAIN stored.node = IDsOf(store) \cup gone
      /\ \A id \in gone : stored.node[id] = [g.node[id] EXCEPT !.old = FALSE]
      /\ \A id \in IDsOf(store) \ gone : stored.node[id] = store.node[id]
  BY DEF Move
<1> HIDE DEF left, stored
<1>3. \A id \in IDsOf(g) : DOMAIN g.node[id] = Fields
  BY DEF IsGraph, IDsOf
<1>4. \A id \in IDsOf(store) : DOMAIN store.node[id] = Fields
  BY DEF IsGraph, IDsOf
<1>5. IsGraph(left)
  BY <1>1, <1>3 DEF IsGraph
<1>6. ASSUME NEW id \in gone PROVE DOMAIN stored.node[id] = Fields /\ stored.node[id].old = FALSE
  <2>1. DOMAIN g.node[id] = Fields /\ "old" \in Fields
    BY <1>3 DEF Fields
  <2> QED BY <1>2, <2>1
<1>7. IsGraph(stored)
  BY <1>2, <1>4, <1>6 DEF IsGraph
<1>8. /\ IsGraph(left) /\ IsGraph(stored)
      /\ IDsOf(left) = IDsOf(g) \ gone
      /\ \A id \in IDsOf(g) \ gone : left.node[id] = g.node[id]
      /\ left.edges \subseteq g.edges
      /\ IDsOf(stored) = IDsOf(store) \cup gone
      /\ \A id \in gone : stored.node[id].old = FALSE
      /\ \A id \in IDsOf(store) \ gone : stored.node[id] = store.node[id]
  BY <1>1, <1>2, <1>5, <1>6, <1>7 DEF IDsOf
<1> QED BY <1>8 DEF HasMoved, left, stored

\* What has not expired stays in cold storage.
LEMMA Purged ==
    ASSUME NEW g, IsGraph(g)
    PROVE  LET h == PurgeColdExpired(g, Expired(g))
           IN  /\ IsGraph(h)
               /\ \A id \in IDsOf(g) : g.node[id].old = FALSE =>
                     id \in IDsOf(h) /\ h.node[id].old = FALSE
<1> DEFINE gone == Expired(g)
           left == OnlyNodes(g, IDsOf(g) \ gone)
<1>1. \A id \in IDsOf(g) : g.node[id].old = FALSE => id \notin gone
  BY DEF Expired
<1>2. /\ IsGraph(left) /\ IDsOf(left) = IDsOf(g) \ gone
      /\ \A id \in IDsOf(g) \ gone : left.node[id] = g.node[id]
  BY OnlyIsGraph
<1> HIDE DEF left
<1>3. IsGraph(Clean(left)) /\ Clean(left).node = left.node
  BY <1>2, CleanIsGraph
<1>4. PurgeColdExpired(g, gone) \in {g, Clean(left)}
  BY DEF PurgeColdExpired, left
<1> HIDE DEF gone
<1>5. \A id \in IDsOf(g) : g.node[id].old = FALSE =>
         id \in IDsOf(Clean(left)) /\ Clean(left).node[id].old = FALSE
  BY <1>1, <1>2, <1>3 DEF IDsOf
<1>6. CASE PurgeColdExpired(g, gone) = g
  BY <1>6 DEF gone
<1>7. CASE PurgeColdExpired(g, gone) = Clean(left)
  BY <1>3, <1>5, <1>7 DEF gone
<1> QED BY <1>4, <1>6, <1>7

LEMMA CuratedIsGraph ==
    ASSUME NEW g, IsGraph(g), NEW ids, NEW tags, NEW edges
    PROVE  IsGraph(Curated(g, ids, tags, edges)) /\ IDsOf(Curated(g, ids, tags, edges)) = ids
<1> DEFINE h == Curated(g, ids, tags, edges)
<1>1. DOMAIN h = {"node", "edges"} /\ DOMAIN h.node = ids
  BY DEF Curated
<1>2. ASSUME NEW id \in ids, id \in IDsOf(g) PROVE DOMAIN h.node[id] = Fields
  <2>1. h.node[id] = [g.node[id] EXCEPT !.tags = tags[id], !.old = TRUE]
    BY <1>2 DEF Curated
  <2>2. DOMAIN g.node[id] = Fields
    BY <1>2 DEF IsGraph, IDsOf
  <2> QED BY <2>1, <2>2
<1>3. ASSUME NEW id \in ids, id \notin IDsOf(g) PROVE DOMAIN h.node[id] = Fields
  BY <1>3 DEF Curated, Fields
<1> QED BY <1>1, <1>2, <1>3 DEF IsGraph, IDsOf

-----------------------------------------------------------------------------
\* Nobody else does anything while there is a chat, which is there from the start.
LEMMA ChatIsAlone ==
    ASSUME KnowledgeInv, KnowledgeNext
    PROVE  stage # "chat" /\ stage' # "chat"
<1>1. stage # "chat"
  <2> SUFFICES ASSUME stage = "chat" PROVE FALSE
    OBVIOUS
  <2>1. /\ \A w \in Writers : writer[w].pc = "off"
        /\ ~asleep /\ curation.pc = "off"
    BY DEF KnowledgeInv, ChatInv
  <2>2. \A q \in Requests : <<q, "refresh">> \in Writers
    BY DEF Writers
  <2>3. ASSUME NEW q \in Requests, LoadShared(q) \/ RefreshLoads(q) \/ Rehydrate(q) PROVE FALSE
    BY <2>1, <2>2, <2>3 DEF LoadShared, RefreshLoads, Rehydrate, At
  <2>4. ~SaveRequest /\ ~Consult /\ ~PersistHitCounters /\ ~ScheduleRefresh
    BY DEF SaveRequest, Consult, PersistHitCounters, ScheduleRefresh
  <2>5. \A ok \in BOOLEAN : ~ExecuteReturns(ok)
    BY DEF ExecuteReturns
  <2>6. ~Extract
    BY <2>1 DEF Extract, GenerateManifest, GenerateFails, SaveAgent, SaveShared, At
  <2>7. ~Curate
    BY <2>1 DEF Curate, WakeForCuration, MoveToCold, ConsolidateFails, SaveCurated, Consolidate
  <2>8. ~TimePasses /\ ~Crash
    BY DEF TimePasses, Crash
  <2>9. ~SaveFails
    BY <2>1 DEF SaveFails
  <2> QED BY <2>3, <2>4, <2>5, <2>6, <2>7, <2>8, <2>9 DEF KnowledgeNext
<1>2. stage' = stage \/ stage' \in {"load", "execute", "persist", "idle"}
  <2>1. ASSUME NEW q \in Requests, LoadShared(q) \/ RefreshLoads(q) \/ Rehydrate(q)
        PROVE  stage' \in {stage, "load"}
    BY <2>1 DEF LoadShared, RefreshLoads, Rehydrate, requestVars
  <2>2. ASSUME SaveRequest \/ Consult \/ PersistHitCounters \/ ScheduleRefresh
        PROVE  stage' \in {stage, "execute", "idle"}
    BY <2>2 DEF SaveRequest, Consult, PersistHitCounters, ScheduleRefresh, requestVars
  <2>3. ASSUME NEW ok \in BOOLEAN, ExecuteReturns(ok) PROVE stage' \in {"persist", "idle"}
    BY <2>3 DEF ExecuteReturns
  <2>4. ASSUME Extract PROVE stage' = stage
    BY <2>4 DEF Extract, GenerateManifest, GenerateFails, SaveAgent, SaveShared, requestVars
  <2>5. ASSUME Curate PROVE stage' = stage
    BY <2>5 DEF Curate, WakeForCuration, MoveToCold, ConsolidateFails, SaveCurated, Consolidate, requestVars
  <2>6. ASSUME TimePasses \/ SaveFails \/ Crash PROVE stage' \in {stage, "idle"}
    BY <2>6 DEF TimePasses, SaveFails, Crash, requestVars
  <2> QED BY <2>1, <2>2, <2>3, <2>4, <2>5, <2>6 DEF KnowledgeNext
<1> QED BY <1>1, <1>2

\* A goroutine that is given graphs has graphs.
LEMMA WriterMoves ==
    ASSUME WritersInv, NEW w, NEW r, writer' = [writer EXCEPT ![w] = r],
           w \in Writers => /\ DOMAIN r = {"pc", "manifest", "shared", "agent"}
                            /\ IsGraph(r.manifest) /\ IsGraph(r.agent)
    PROVE  WritersInv'
<1>1. DOMAIN writer' = Writers /\ \A v \in Writers : writer'[v] = IF v = w THEN r ELSE writer[v]
  BY DEF WritersInv
<1>2. \A v \in Writers : /\ DOMAIN writer'[v] = {"pc", "manifest", "shared", "agent"}
                         /\ IsGraph(writer'[v].manifest) /\ IsGraph(writer'[v].agent)
  BY <1>1 DEF WritersInv
<1>3. Writers' = Writers
  BY DEF Writers
<1> QED BY <1>1, <1>2, <1>3 DEF WritersInv, IsGraph

LEMMA RestingIsSound ==
    \A place, known : LET r == [Resting EXCEPT !.pc = place, !.shared = known]
                   IN  /\ DOMAIN r = {"pc", "manifest", "shared", "agent"}
                       /\ IsGraph(r.manifest) /\ IsGraph(r.agent)
  BY NewIsGraph DEF Resting

LEMMA CurationKeeps ==
    ASSUME CurationInv, UNCHANGED <<curation, cold>>
    PROVE  CurationInv'
  BY DEF CurationInv, IsArchived, IsPart

LEMMA CurationEnds ==
    ASSUME curation' = Awake
    PROVE  CurationInv'
<1>1. /\ DOMAIN Awake = {"pc", "seen", "graph"} /\ Awake.pc = "off"
      /\ IsGraph(Awake.seen) /\ IsGraph(Awake.graph)
  BY NewIsGraph DEF Awake
<1> QED BY <1>1 DEF CurationInv

\* What stands with a tag still does when other nodes and edges have gone.
LEMMA StandsWithLess ==
    ASSUME NEW g, NEW h, NEW tag, IDsOf(h) \subseteq IDsOf(g), h.edges \subseteq g.edges,
           \A id \in IDsOf(h) : h.node[id] = g.node[id]
    PROVE  Tagged(g, tag) \cap IDsOf(h) \subseteq Tagged(h, tag)
<1> SUFFICES ASSUME NEW id \in Tagged(g, tag), id \in IDsOf(h) PROVE id \in Tagged(h, tag)
  OBVIOUS
<1>1. /\ id \in IDsOf(g) /\ ~IsStale(g.node[id]) /\ ~IsSuperseded(g, id) /\ HasTag(g.node[id], tag)
  BY DEF Tagged, Standing
<1>2. ~IsSuperseded(h, id)
  BY <1>1 DEF IsSuperseded
<1> QED BY <1>1, <1>2 DEF Tagged, Standing

\* MoveToCold takes no decision, and what it takes is in cold storage.
LEMMA MoveToColdKeeps ==
    ASSUME KnowledgeInv, MoveToCold
    PROVE  IsFile(cold') /\ CurationInv'
<1> DEFINE g == curation.graph
           gone == ColdEligible(g)
           moved == Move(g, Archive, gone)
<1>1. /\ curation.pc = "move" /\ IsGraph(g) /\ g = curation.seen
      /\ DOMAIN curation = {"pc", "seen", "graph"}
  BY DEF KnowledgeInv, CurationInv, MoveToCold
<1>2. CASE cold = Torn
  <2>1. cold' = cold /\ curation' = Awake
    BY <1>2 DEF MoveToCold
  <2> QED BY <2>1, CurationEnds DEF KnowledgeInv, IsFile
<1>3. CASE cold # Torn
  <2>1. /\ cold' = PurgeColdExpired(moved.cold, Expired(moved.cold))
        /\ curation' = [curation EXCEPT !.graph = moved.active,
                            !.pc = IF Cardinality(IDsOf(moved.active)) >= Threshold THEN "ask"
                                   ELSE "save"]
    BY <1>3 DEF MoveToCold
  <2>2. IsGraph(Archive) /\ gone \subseteq IDsOf(g)
    BY LoadedIsGraph DEF KnowledgeInv, Archive, ColdEligible
  <2> HIDE DEF gone
  <2>3. HasMoved(g, Archive, gone, moved)
    BY <1>1, <2>2, WhatMoves
  <2>4. Tagged(g, "decision") \cap gone = {}
    BY DEF Tagged, ColdEligible, gone
  <2>5. Tagged(g, "decision") \subseteq IDsOf(g)
    BY DEF Tagged, Standing
  <2> HIDE DEF moved, gone, g
  <2>6. /\ IsGraph(cold')
        /\ \A id \in gone : id \in IDsOf(cold') /\ cold'.node[id].old = FALSE
    BY <2>1, <2>3, Purged DEF HasMoved
  <2>7. /\ DOMAIN curation' = {"pc", "seen", "graph"} /\ curation'.seen = g
        /\ curation'.graph = moved.active /\ curation'.pc \in {"ask", "save"}
    BY <1>1, <2>1 DEF g
  <2>8. IsArchived'
    BY <2>3, <2>6, <2>7 DEF HasMoved, IsArchived, IDsOf
  <2>9. IsPart'
    BY <2>3, <2>7 DEF HasMoved, IsPart, IDsOf
  <2>10. Tagged(g, "decision") \subseteq IDsOf(moved.active)
    BY <2>3, <2>4, <2>5 DEF HasMoved
  <2>11. IsFile(cold')
    BY <2>6 DEF IsFile
  <2>12. CurationInv'
    BY <1>1, <2>3, <2>6, <2>7, <2>8, <2>9, <2>10 DEF CurationInv, HasMoved
  <2> QED BY <2>11, <2>12
<1> QED BY <1>2, <1>3

\* An answer that is valid has the decisions, and what it leaves out goes to cold
\* storage next to what has gone there before.
LEMMA ConsolidateKeeps ==
    ASSUME KnowledgeInv, NEW ids, NEW dropped, NEW edges, Consolidate(ids, dropped, edges)
    PROVE  IsFile(cold') /\ CurationInv'
<1> DEFINE g == curation.graph
           Tags(id) == IF id \notin IDsOf(g) THEN {} ELSE g.node[id].tags \ dropped
           answer == Curated(g, ids, [id \in ids |-> Tags(id)], edges)
           gone == IDsOf(g) \ ids
           swapped == Move(g, Archive, gone).cold
<1>1. /\ curation.pc = "ask" /\ IsGraph(g) /\ IsGraph(curation.seen) /\ IsGraph(cold)
      /\ DOMAIN curation = {"pc", "seen", "graph"}
      /\ IsArchived /\ IsPart /\ Tagged(curation.seen, "decision") \subseteq IDsOf(g)
  BY DEF KnowledgeInv, CurationInv, Consolidate
<1>2. /\ ValidateCurated(g, answer)
      /\ cold' = PurgeColdExpired(swapped, Expired(swapped))
      /\ curation' = [curation EXCEPT !.graph = answer, !.pc = "save"]
  BY Zenon DEF Consolidate
<1>3. Archive = cold
  BY <1>1, GraphParses DEF Archive, Loaded
<1>4. IsGraph(answer) /\ IDsOf(answer) = ids
  BY <1>1, CuratedIsGraph
<1> HIDE DEF answer, g
<1>5. /\ IsGraph(swapped) /\ IDsOf(swapped) = IDsOf(cold) \cup gone
      /\ \A id \in gone : swapped.node[id].old = FALSE
      /\ \A id \in IDsOf(cold) \ gone : swapped.node[id] = cold.node[id]
  <2> HIDE DEF gone
  <2>1. gone \subseteq IDsOf(g) /\ IsGraph(Archive)
    BY <1>1, <1>3 DEF gone, g
  <2>2. HasMoved(g, Archive, gone, Move(g, Archive, gone))
    BY <1>1, <2>1, WhatMoves DEF g
  <2> QED BY <1>3, <2>2 DEF HasMoved
<1> HIDE DEF swapped, gone
<1>6. /\ IsGraph(cold')
      /\ \A id \in IDsOf(swapped) : swapped.node[id].old = FALSE =>
            id \in IDsOf(cold') /\ cold'.node[id].old = FALSE
  BY <1>2, <1>5, Purged
<1>7. /\ DOMAIN curation' = {"pc", "seen", "graph"} /\ curation'.seen = curation.seen
      /\ curation'.graph = answer /\ curation'.pc = "save"
  BY <1>1, <1>2
<1>8. ASSUME NEW id \in IDsOf(curation.seen) \ ids
      PROVE  id \in IDsOf(cold') /\ cold'.node[id].old = FALSE
  <2>1. CASE id \in gone
    BY <1>5, <1>6, <2>1
  <2>2. CASE id \notin gone
    <3>1. id \notin IDsOf(g)
      BY <1>8, <2>2 DEF gone
    <3>2. id \in IDsOf(cold) /\ cold.node[id].old = FALSE
      BY <1>1, <1>8, <3>1 DEF IsArchived, g
    <3> QED BY <1>5, <1>6, <2>2, <3>2
  <2> QED BY <2>1, <2>2
<1>9. IsArchived'
  BY <1>4, <1>7, <1>8 DEF IsArchived, IDsOf
<1>10. Tagged(curation.seen, "decision") \subseteq IDsOf(answer)
  <2>1. Tagged(curation.seen, "decision") \cap IDsOf(g) \subseteq Tagged(g, "decision")
    BY <1>1, StandsWithLess DEF IsPart, g
  <2>2. Tagged(g, "decision") \subseteq IDsOf(answer)
    BY <1>2 DEF ValidateCurated, Tagged
  <2> QED BY <1>1, <2>1, <2>2
<1>11. CurationInv'
  BY <1>1, <1>4, <1>6, <1>7, <1>9, <1>10 DEF CurationInv
<1> QED BY <1>6, <1>11 DEF IsFile

\* What one step of a goroutine that extracts leaves of its graphs.
LEMMA ExtractKeeps ==
    ASSUME KnowledgeInv, NEW w \in Writers,
           \/ \E m \in Manifests : GenerateManifest(w, m)
           \/ GenerateFails(w) \/ SaveAgent(w) \/ SaveShared(w)
    PROVE  WritersInv' /\ IsFile(active')
<1> DEFINE Sound(r) == /\ DOMAIN r = {"pc", "manifest", "shared", "agent"}
                       /\ IsGraph(r.manifest) /\ IsGraph(r.agent)
<1>1. /\ WritersInv /\ DOMAIN writer = Writers /\ Sound(writer[w]) /\ IsFile(active)
  BY DEF KnowledgeInv, WritersInv
<1>2. Sound(Resting) /\ \A place : Sound([Resting EXCEPT !.pc = place])
  BY NewIsGraph DEF Resting
<1>3. \A r : writer' = [writer EXCEPT ![w] = r] /\ Sound(r) => WritersInv'
  BY <1>1, WriterMoves
<1> HIDE DEF Sound
<1>4. ASSUME NEW m \in Manifests, GenerateManifest(w, m) PROVE WritersInv' /\ IsFile(active')
  <2> DEFINE r == [writer[w] EXCEPT !.pc = "agent", !.manifest = m, !.agent = Loaded(active)]
  <2>1. writer' = [writer EXCEPT ![w] = r] /\ active' = active
    BY <1>1, <1>4 DEF GenerateManifest, fileVars
  <2>2. IsGraph(m) /\ IsGraph(Loaded(active))
    BY <1>1, KnowledgeAssumption, LoadedIsGraph
  <2>3. Sound(r)
    BY <1>1, <2>2 DEF Sound
  <2> QED BY <1>1, <1>3, <2>1, <2>3
<1>5. CASE GenerateFails(w)
  BY <1>1, <1>2, <1>3, <1>5 DEF GenerateFails, fileVars
<1>6. CASE SaveAgent(w)
  <2> DEFINE part == AgentPart(writer[w].manifest, writer[w].shared, Agent)
             r == [writer[w] EXCEPT !.pc = "shared"]
  <2>1. writer' = [writer EXCEPT ![w] = r]
    BY <1>1, <1>6 DEF SaveAgent
  <2>2. Sound(r)
    BY <1>1 DEF Sound
  <2>3. IsGraph(part)
    BY <1>1, PartIsGraph DEF Sound
  <2> HIDE DEF r, part
  <2>4. \/ active' = active
        \/ \E max \in LimitsOf(w) : active' \in Prune(Merge(writer[w].agent, part), max)
    BY <1>6 DEF SaveAgent, part
  <2>5. IsGraph(Merge(writer[w].agent, part))
    BY <1>1, <2>3, MergeIsGraph DEF Sound
  <2>6. IsFile(active')
    BY <1>1, <2>4, <2>5, PruneIsGraph DEF IsFile
  <2> QED BY <1>3, <2>1, <2>2, <2>6
<1>7. CASE SaveShared(w)
  <2>1. active' = active
    BY <1>7 DEF SaveShared
  <2>2. PICK r : writer' = [writer EXCEPT ![w] = r] /\ r \in {Resting, [Resting EXCEPT !.pc = "rehydrate"]}
    BY <1>7 DEF SaveShared
  <2>3. Sound(r)
    BY <1>2, <2>2
  <2> QED BY <1>1, <1>3, <2>1, <2>2, <2>3
<1> QED BY <1>4, <1>5, <1>6, <1>7

\* A step keeps all that: the graphs in memory and in the files are graphs, or do
\* not parse, and a curation has archived what it left out.
LEMMA KnowledgeStep ==
    ASSUME KnowledgeInv, KnowledgeNext
    PROVE  KnowledgeInv'
<1> DEFINE Preserved == /\ IsFile(active') /\ IsFile(cold') /\ IsGraph(mine') /\ faults' \in Nat
                   /\ asleep' \in BOOLEAN /\ WritersInv' /\ CurationInv'
<1>1. /\ IsFile(active) /\ IsFile(cold) /\ IsGraph(mine) /\ faults \in Nat /\ asleep \in BOOLEAN
      /\ WritersInv /\ CurationInv
  BY DEF KnowledgeInv
<1>2. ChatInv'
  BY ChatIsAlone DEF ChatInv
<1>3. UNCHANGED writer => WritersInv'
  BY <1>1 DEF WritersInv, Writers
<1>4. UNCHANGED <<curation, cold>> => CurationInv'
  BY <1>1, CurationKeeps
<1>5. \A w, r : /\ writer' = [writer EXCEPT ![w] = r]
                /\ w \in Writers => /\ DOMAIN r = {"pc", "manifest", "shared", "agent"}
                                    /\ IsGraph(r.manifest) /\ IsGraph(r.agent)
                => WritersInv'
  BY <1>1, WriterMoves
<1>6. \A w \in Writers : /\ DOMAIN writer[w] = {"pc", "manifest", "shared", "agent"}
                         /\ IsGraph(writer[w].manifest) /\ IsGraph(writer[w].agent)
  BY <1>1 DEF WritersInv
<1>7. IsGraph(Loaded(active))
  BY <1>1, LoadedIsGraph
<1>8. /\ DOMAIN Resting = {"pc", "manifest", "shared", "agent"}
      /\ IsGraph(Resting.manifest) /\ IsGraph(Resting.agent)
  BY NewIsGraph DEF Resting
<1>9. ASSUME NEW q \in Requests, LoadShared(q) PROVE Preserved
  BY <1>1, <1>3, <1>4, <1>9 DEF LoadShared, fileVars
<1>10. ASSUME NEW q \in Requests, RefreshLoads(q) PROVE Preserved
  <2> DEFINE w == <<q, "refresh">>
             r == [writer[w] EXCEPT !.pc = IF sharedGraph = Torn THEN "off" ELSE "generate",
                                    !.shared = Loaded(sharedGraph)]
  <2>1. w \in Writers
    BY DEF Writers
  <2>2. writer' = [writer EXCEPT ![w] = r]
    <3>1. DOMAIN writer = Writers
      BY <1>1 DEF WritersInv
    <3>2. writer' = [writer EXCEPT ![w].pc = IF sharedGraph = Torn THEN "off" ELSE "generate",
                                   ![w].shared = Loaded(sharedGraph)]
      BY <1>10 DEF RefreshLoads
    <3> HIDE DEF w
    <3> QED BY <2>1, <3>1, <3>2
  <2> HIDE DEF w
  <2>3. /\ DOMAIN r = {"pc", "manifest", "shared", "agent"}
        /\ IsGraph(r.manifest) /\ IsGraph(r.agent)
    BY <1>6, <2>1
  <2>4. WritersInv'
    BY <1>5, <2>2, <2>3
  <2> QED BY <1>1, <1>4, <1>10, <2>4 DEF RefreshLoads, fileVars, requestVars
<1>11. ASSUME NEW q \in Requests, Rehydrate(q) PROVE Preserved
  <2>1. WritersInv'
    BY <1>5, <1>8, <1>11 DEF Rehydrate
  <2>2. IsGraph(mine')
    <3>1. mine' = IF q = req /\ stage \in {"execute", "persist"} /\ Torn \notin {sharedGraph, active}
                  THEN active ELSE mine
      BY <1>11 DEF Rehydrate
    <3> QED BY <1>1, <3>1 DEF IsFile
  <2> QED BY <1>1, <1>4, <1>11, <2>1, <2>2 DEF Rehydrate, fileVars
<1>12. ASSUME SaveRequest PROVE Preserved
  BY <1>1, <1>3, <1>4, <1>7, <1>12 DEF SaveRequest
<1>13. ASSUME Consult PROVE Preserved
  <2>1. PICK own : mine' = [mine EXCEPT !.node = [id \in IDsOf(mine) |->
                               IF id \in own THEN RecordHit(@[id]) ELSE @[id]]]
    BY <1>13 DEF Consult
  <2> DEFINE n == [id \in IDsOf(mine) |-> IF id \in own THEN RecordHit(mine.node[id]) ELSE mine.node[id]]
  <2>2. mine' = [mine EXCEPT !.node = n]
    BY <2>1
  <2>3. \A id \in IDsOf(mine) : /\ DOMAIN mine.node[id] = Fields
                                /\ DOMAIN RecordHit(mine.node[id]) = DOMAIN mine.node[id]
    BY <1>1 DEF IsGraph, IDsOf, RecordHit
  <2>4. \A id \in DOMAIN n : DOMAIN n[id] = Fields
    BY <2>3
  <2> HIDE DEF n
  <2>5. IsGraph(mine')
    BY <1>1, <2>2, <2>4, NodesReplaced
  <2> QED BY <1>1, <1>3, <1>4, <1>13, <2>5 DEF Consult, fileVars
<1>14. ASSUME PersistHitCounters PROVE Preserved
  BY <1>1, <1>3, <1>4, <1>14 DEF PersistHitCounters, IsFile
<1>15. ASSUME ScheduleRefresh PROVE Preserved
  <2> DEFINE w == <<req, "refresh">>
             r == [writer[w] EXCEPT !.pc = "load"]
  <2>1. writer' = [writer EXCEPT ![w] = r]
    BY <1>15 DEF ScheduleRefresh
  <2> HIDE DEF w
  <2>2. WritersInv'
    BY <1>5, <1>6, <2>1
  <2> QED BY <1>1, <1>4, <1>15, <2>2 DEF ScheduleRefresh, fileVars, requestVars
<1>16. ASSUME NEW ok \in BOOLEAN, ExecuteReturns(ok) PROVE Preserved
  <2>1. writer' = writer \/ writer' = [writer EXCEPT ![<<req, "learn">>] =
                                          [Resting EXCEPT !.pc = "generate", !.shared = base]]
    BY <1>16 DEF ExecuteReturns
  <2>2. WritersInv'
    BY <1>3, <1>5, <2>1, RestingIsSound
  <2> QED BY <1>1, <1>4, <1>16, <2>2 DEF ExecuteReturns, fileVars
<1>17. ASSUME Extract PROVE Preserved
  <2>1. PICK w \in Writers : \/ \E m \in Manifests : GenerateManifest(w, m)
                             \/ GenerateFails(w) \/ SaveAgent(w) \/ SaveShared(w)
    BY <1>17 DEF Extract
  <2>2. WritersInv' /\ IsFile(active')
    BY <2>1, ExtractKeeps
  <2> QED BY <1>1, <1>4, <2>1, <2>2
          DEF GenerateManifest, GenerateFails, SaveAgent, SaveShared, fileVars, requestVars
<1>18. ASSUME Curate PROVE Preserved
  <2>1. CASE WakeForCuration
    <3>1. \/ curation' = Awake
          \/ active # Torn /\ curation' = [pc |-> "move", seen |-> active, graph |-> active]
      BY <2>1 DEF WakeForCuration
    <3>2. CurationInv'
      <4>1. CASE curation' = Awake
        BY <4>1, CurationEnds
      <4>2. CASE active # Torn /\ curation' = [pc |-> "move", seen |-> active, graph |-> active]
        BY <1>1, <4>2 DEF CurationInv, IsFile, IsGraph
      <4> QED BY <3>1, <4>1, <4>2
    <3> QED BY <1>1, <1>3, <2>1, <3>2 DEF WakeForCuration, fileVars, requestVars
  <2>2. CASE MoveToCold
    BY <1>1, <1>3, <2>2, MoveToColdKeeps DEF MoveToCold, requestVars
  <2>3. ASSUME NEW ids, NEW dropped, NEW edges, Consolidate(ids, dropped, edges) PROVE Preserved
    BY <1>1, <1>3, <2>3, ConsolidateKeeps DEF Consolidate, requestVars
  <2>4. CASE ConsolidateFails
    <3>1. CurationInv'
      BY <1>1, <2>4 DEF ConsolidateFails, CurationInv, fileVars, IsArchived
    <3> QED BY <1>1, <1>3, <2>4, <3>1 DEF ConsolidateFails, fileVars, requestVars
  <2>5. CASE SaveCurated
    <3>1. IsFile(active')
      BY <1>1, <2>5 DEF SaveCurated, CurationInv, IsFile
    <3> QED BY <1>1, <1>3, <2>5, <3>1, CurationEnds DEF SaveCurated, requestVars
  <2> QED BY <1>18, <2>1, <2>2, <2>3, <2>4, <2>5 DEF Curate
<1>19. ASSUME TimePasses PROVE Preserved
  <2>1. IsFile(active') /\ IsFile(cold')
    BY <1>1, <1>19, AgedIsFile DEF TimePasses
  <2>2. CurationInv'
    BY <1>1, <1>19 DEF TimePasses, CurationInv
  <2> QED BY <1>1, <1>3, <1>19, <2>1, <2>2 DEF TimePasses, requestVars
<1>20. ASSUME SaveFails PROVE Preserved
  <2>1. faults' \in Nat /\ UNCHANGED <<fileVars, requestVars, asleep, ages>>
    BY <1>1, <1>20 DEF SaveFails
  <2>2. CASE \E w \in Writers :
                /\ writer[w].pc \in {"agent", "shared"}
                /\ writer' = [writer EXCEPT ![w] = IF At(w, "agent") THEN [@ EXCEPT !.pc = "shared"]
                                                   ELSE Resting]
                /\ UNCHANGED curation
    <3>1. PICK w \in Writers :
             /\ writer' = [writer EXCEPT ![w] = IF At(w, "agent") THEN [@ EXCEPT !.pc = "shared"]
                                                ELSE Resting]
             /\ UNCHANGED curation
      BY <2>2
    <3> DEFINE r == IF At(w, "agent") THEN [writer[w] EXCEPT !.pc = "shared"] ELSE Resting
    <3>2. writer' = [writer EXCEPT ![w] = r]
      BY <3>1
    <3>3. /\ DOMAIN r = {"pc", "manifest", "shared", "agent"}
          /\ IsGraph(r.manifest) /\ IsGraph(r.agent)
      BY <1>6, <1>8
    <3>4. WritersInv'
      BY <1>5, <3>2, <3>3
    <3> QED BY <1>1, <1>4, <2>1, <3>1, <3>4 DEF fileVars, requestVars
  <2>3. CASE curation' = Awake /\ UNCHANGED writer
    BY <1>1, <1>3, <2>1, <2>3, CurationEnds DEF fileVars, requestVars
  <2> QED BY <1>20, <2>2, <2>3 DEF SaveFails
<1>21. ASSUME Crash PROVE Preserved
  <2>1. IsFile(active') /\ IsFile(cold')
    BY <1>1, <1>21 DEF Crash, IsFile, fileVars
  <2>2. WritersInv'
    <3>1. writer' = [w \in Writers |-> Resting]
      BY <1>21 DEF Crash
    <3>2. Writers' = Writers
      BY DEF Writers
    <3> QED BY <1>8, <3>1, <3>2 DEF WritersInv, IsGraph
  <2>3. CurationInv' /\ asleep' \in BOOLEAN
    BY <1>21, CurationEnds DEF Crash
  <2>4. IsGraph(mine') /\ faults' \in Nat
    BY <1>1, <1>21, NewIsGraph DEF Crash
  <2> QED BY <2>1, <2>2, <2>3, <2>4
<1> HIDE DEF Preserved
<1>22. Preserved
  BY <1>9, <1>10, <1>11, <1>12, <1>13, <1>14, <1>15, <1>16, <1>17, <1>18, <1>19, <1>20, <1>21
     DEF KnowledgeNext
<1> QED BY <1>2, <1>22 DEF Preserved, KnowledgeInv, IsFile, IsGraph

\* A curation writes what it has, next to a cold storage that has the rest.
LEMMA CurationIsKept ==
    ASSUME KnowledgeInv, KnowledgeNext,
           curation.pc = "save", active' # active, curation' = Awake, faults' = faults
    PROVE  /\ IDsOf(curation.seen) \subseteq IDsOf(active') \cup IDsOf(cold)
           /\ Tagged(curation.seen, "decision") \subseteq IDsOf(active')
<1>1. /\ IsArchived /\ Tagged(curation.seen, "decision") \subseteq IDsOf(curation.graph)
  BY DEF KnowledgeInv, CurationInv
<1>2. curation # Awake /\ faults \in Nat
  BY DEF Awake, KnowledgeInv
<1>3. active' = curation.graph
  <2>1. ASSUME NEW q \in Requests, LoadShared(q) \/ RefreshLoads(q) \/ Rehydrate(q) PROVE FALSE
    BY <1>2, <2>1 DEF LoadShared, RefreshLoads, Rehydrate, fileVars
  <2>2. ~SaveRequest /\ ~Consult /\ ~PersistHitCounters /\ ~ScheduleRefresh
    BY <1>2 DEF SaveRequest, Consult, PersistHitCounters, ScheduleRefresh, fileVars
  <2>3. \A ok \in BOOLEAN : ~ExecuteReturns(ok)
    BY <1>2 DEF ExecuteReturns, fileVars
  <2>4. ~Extract
    BY <1>2 DEF Extract, GenerateManifest, GenerateFails, SaveAgent, SaveShared, fileVars
  <2>5. ~TimePasses
    BY DEF TimePasses
  <2>6. ~SaveFails /\ ~Crash
    BY <1>2 DEF SaveFails, Crash
  <2>7. SaveCurated
    BY <2>1, <2>2, <2>3, <2>4, <2>5, <2>6
       DEF KnowledgeNext, Curate, WakeForCuration, MoveToCold, Consolidate, ConsolidateFails
  <2> QED BY <2>7 DEF SaveCurated
<1>4. IDsOf(curation.seen) \subseteq IDsOf(curation.graph) \cup IDsOf(cold)
  BY <1>1 DEF IsArchived
<1> QED BY <1>1, <1>3, <1>4

\* A chat has one of the graphs assumed, and a lookup in it is right.
LEMMA ChatFinds == KnowledgeInv => LookupFindsTheNear
<1> SUFFICES ASSUME KnowledgeInv, stage = "chat", NEW keywords \in SUBSET Keywords, NEW depth \in 1 .. 2
    PROVE  LET g == sharedGraph
               own == {id \in Standing(g) : g.node[id].agent = Agent}
           IN {r.related : r \in Lookup(g, Agent, keywords, depth, Cardinality(IDsOf(g)))}
                = {{id \in Standing(g) : g.node[id].agent # Agent /\ Within(g, seeds, id, depth)} :
                     seeds \in AddKeywordSeeds(g, keywords, own)}
  BY DEF LookupFindsTheNear
<1>1. IsFiniteSet(IDsOf(sharedGraph)) /\ depth \in Nat
  BY KnowledgeAssumption DEF KnowledgeInv, ChatInv
<1> QED BY <1>1, LookupIsRight

(* Whatever is extracted, moved, answered, saved or lost in a crash, a      *)
(* curation writes a graph that has every decision it read, with all the    *)
(* rest of what it read in cold storage; and a lookup in any graph finds    *)
(* what is near, and nothing that does not stand (CurateAgent, Lookup).     *)
THEOREM Known == KnowledgeSpec => KnowledgeIsKeptAndFound
<1>1. KnowledgeInit => KnowledgeInv
  <2> SUFFICES ASSUME KnowledgeInit PROVE KnowledgeInv
    OBVIOUS
  <2>1. IsFile(active) /\ IsFile(cold) /\ IsGraph(mine) /\ faults \in Nat /\ asleep \in BOOLEAN
    BY NewIsGraph DEF KnowledgeInit, IsFile
  <2>2. WritersInv
    BY NewIsGraph DEF KnowledgeInit, WritersInv, Resting
  <2>3. CurationInv
    BY NewIsGraph DEF KnowledgeInit, CurationInv, Awake
  <2>4. ChatInv
    BY DEF KnowledgeInit, ChatInv, Resting, Awake
  <2> QED BY <2>1, <2>2, <2>3, <2>4 DEF KnowledgeInv
<1>2. KnowledgeInv /\ [KnowledgeNext]_knowledgeVars => KnowledgeInv'
  <2>1. ASSUME KnowledgeInv, UNCHANGED knowledgeVars PROVE KnowledgeInv'
    BY <2>1 DEF knowledgeVars, fileVars, requestVars, KnowledgeInv, WritersInv, Writers, CurationInv,
                IsArchived, IsPart, ChatInv
  <2> QED BY <2>1, KnowledgeStep
<1>3. KnowledgeInv /\ [KnowledgeNext]_knowledgeVars
      => [curation.pc = "save" /\ active' # active /\ curation' = Awake /\ faults' = faults =>
            /\ IDsOf(curation.seen) \subseteq IDsOf(active') \cup IDsOf(cold)
            /\ Tagged(curation.seen, "decision") \subseteq IDsOf(active')]_knowledgeVars
  BY CurationIsKept
<1> QED BY <1>1, <1>2, <1>3, ChatFinds, PTL
        DEF KnowledgeSpec, KnowledgeIsKeptAndFound, CurationForgetsNothing
=============================================================================
