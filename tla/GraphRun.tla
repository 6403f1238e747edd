------------------------------- MODULE GraphRun -------------------------------
(***************************************************************************)
(* What the execution of a task graph promises, whoever schedules it and   *)
(* however: a graph with a cycle is refused, a task starts after all it    *)
(* depends on delivered, a failure reaches the tasks that wait for it, and *)
(* the run ends.  Scheduler implements this module.                        *)
(***************************************************************************)
EXTENDS TaskGraph

CONSTANTS Tasks,      (* the task IDs of a graph, numbers                   *)
          Graphs      (* the dependency functions considered                *)

ASSUME GraphAssumption == /\ IsFiniteSet(Tasks) /\ Tasks \subseteq Nat
                          /\ \A d \in Graphs : d \in [Tasks -> SUBSET Tasks]

VARIABLES deps,       (* the graph                                          *)
          status      (* of each task                                       *)

vars == <<deps, status>>

TypeOK == /\ deps \in Graphs
          /\ status \in [Tasks -> Status]

\* Every set of tasks has one that waits for none of the others or itself.
Acyclic == \A S \in (SUBSET Tasks) \ {{}} : {t \in S : deps[t] \cap S = {}} # {}

\* The tasks that every closed set of waiting tasks around a failure contains.
Doomed(failed) ==
    LET open == {t \in Tasks : status[t] \notin {"failed", "completed"}}
    IN {t \in open : \A S \in SUBSET open :
            Children(deps, S \cup {failed}) \cap open \subseteq S => t \in S}

Init == /\ deps \in Graphs
        /\ status = [t \in Tasks |-> "pending"]

Start(t) == /\ Acyclic
            /\ t \in ReadyTasks(deps, status)
            /\ status' = [status EXCEPT ![t] = "running"]
            /\ UNCHANGED deps

Finish(t) == /\ status[t] = "running"
             /\ \E s \in {"completed", "failed", "escalated"} :
                    status' = [status EXCEPT ![t] = s]
             /\ UNCHANGED deps

\* A dispatch that is to be tried again: a lost instance, a stronger model.
Requeue(t) == /\ status[t] = "running"
              /\ status' = [status EXCEPT ![t] = "pending"]
              /\ UNCHANGED deps

Cascade(t) == /\ status[t] = "failed"
              /\ status' = [u \in Tasks |-> IF u \in Doomed(t) THEN "failed" ELSE status[u]]
              /\ UNCHANGED deps

Next == \E t \in Tasks : Start(t) \/ Finish(t) \/ Requeue(t) \/ Cascade(t)

Safe == Init /\ [][Next]_vars

-----------------------------------------------------------------------------
(* TopologicalSort refuses exactly the graphs that could not be executed,   *)
(* and orders every other one so that each task follows what it waits for.  *)
SortFindsEveryCycle ==
    LET sorted == TopologicalSort(deps)
    IN /\ Validate(deps) <=> Acyclic
       /\ Acyclic => \A i, j \in 1 .. Len(sorted) : sorted[j] \in deps[sorted[i]] => j < i

(* The breadth-first FailDependents fails the smallest set of waiting tasks *)
(* closed under dependency, never a task that completed.                    *)
CascadeIsClosure ==
    \A t \in Tasks : status[t] = "failed" => Cascaded(deps, status, t) = Doomed(t)

(* Both agree with their definitions, in every graph and at every moment.   *)
GraphIsJudgedRight == SortFindsEveryCycle /\ CascadeIsClosure

(* A task runs, or ran, on delivered inputs only: whatever failed, was      *)
(* retried or was cascaded meanwhile, everything it depends on is completed *)
(* or escalated.                                                            *)
RunsOnDelivered ==
    \A t \in Tasks : status[t] \in {"running", "completed", "escalated"} =>
        \A d \in deps[t] : status[d] \in Satisfied

(* What a task ended with is final.  FailDependents passes completed tasks  *)
(* but not escalated ones: no cascade ever reaches one.                     *)
EndsAreFinal ==
    [][\A t \in Tasks : status[t] \in {"completed", "escalated", "failed"} =>
           status'[t] = status[t]]_vars

(* No deadlock: once every failure is cascaded and nothing runs, the graph  *)
(* is done or has a task ready to start.                                    *)
NeverStuck ==
    /\ Acyclic
    /\ ~AllDone(deps, status)
    /\ \A t \in Tasks : status[t] # "running"
    /\ \A t \in Tasks : status[t] = "failed" => Doomed(t) = {}
    => ReadyTasks(deps, status) # {}
=============================================================================
