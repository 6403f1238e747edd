------------------------------ MODULE TaskGraph ------------------------------
(***************************************************************************)
(* The algorithms of internal/taskgraph over a task graph.  A graph is the *)
(* function `deps` from its task IDs (numbers, in the order of g.Tasks) to *)
(* the set of IDs each depends on; `status` gives every task its status.   *)
(* The breadth-first walks of the code are recursive functions over the    *)
(* number of rounds, so that proofs may use this module.                   *)
(***************************************************************************)
EXTENDS Naturals, FiniteSets, Sequences

Status == {"pending", "running", "completed", "failed", "escalated", "cancelled"}

\* What a dependent takes as input: an escalated loop delivered its best effort.
Satisfied == {"completed", "escalated"}

\* Mutant: one delivered dependency is enough.
ReadyTasksEager(deps, status) ==
    {t \in DOMAIN deps : /\ status[t] = "pending"
                         /\ deps[t] = {} \/ \E d \in deps[t] : status[d] \in Satisfied}

\* Mutant: an escalated dependency does not count as delivered.
ReadyTasksStrict(deps, status) ==
    {t \in DOMAIN deps : /\ status[t] = "pending"
                         /\ \A d \in deps[t] : status[d] = "completed"}

ReadyTasks(deps, status) ==
    {t \in DOMAIN deps : /\ status[t] = "pending"
                         /\ \A d \in deps[t] : status[d] \in Satisfied}

AllDone(deps, status) ==
    \A t \in DOMAIN deps : status[t] \notin {"pending", "running"}

Children(deps, parents) == {t \in DOMAIN deps : deps[t] \cap parents # {}}

\* The tasks a walk over dependents meets when it passes only those in `open`.
Walk(deps, open, from) ==
    LET met[n \in 0 .. Cardinality(DOMAIN deps)] ==
            IF n = 0 THEN {}
            ELSE met[n - 1] \cup (Children(deps, met[n - 1] \cup {from}) \cap open)
    IN met[Cardinality(DOMAIN deps)]

\* Mutant: only the direct dependents.
CascadedShallow(deps, status, failed) ==
    {t \in Children(deps, {failed}) : status[t] \notin {"failed", "completed"}}

\* The walk that fails a task's dependents passes neither failed nor completed tasks.
Cascaded(deps, status, failed) ==
    Walk(deps, {t \in DOMAIN deps : status[t] \notin {"failed", "completed"}}, failed)

FailDependents(deps, status, failed) ==
    [t \in DOMAIN status |->
        IF t \in Cascaded(deps, status, failed) THEN "failed" ELSE status[t]]

HasRunningDependents(deps, status, task) ==
    \E t \in Walk(deps, DOMAIN deps, task) : status[t] = "running"

-----------------------------------------------------------------------------
(* TopologicalSort: Kahn's algorithm.  The queue is the tail of the order   *)
(* found so far; the n-th round takes its n-th task and appends, in the     *)
(* order of g.Tasks, the tasks whose last dependency that was.              *)

InOrder(tasks) ==
    [i \in 1 .. Cardinality(tasks) |->
        CHOOSE t \in tasks : Cardinality({u \in tasks : u < t}) = i - 1]

TopologicalSort(deps) ==
    LET order[n \in 0 .. Cardinality(DOMAIN deps)] ==
            IF n = 0 THEN InOrder({t \in DOMAIN deps : deps[t] = {}})
            ELSE LET o     == order[n - 1]
                     taken == {o[i] : i \in 1 .. n}
                 IN IF n > Len(o) THEN o
                    ELSE o \o InOrder({t \in Children(deps, {o[n]}) : deps[t] \subseteq taken})
    IN order[Cardinality(DOMAIN deps)]

\* Known dependencies, none of a task on itself, and no cycle.
Validate(deps) ==
    /\ \A t \in DOMAIN deps : deps[t] \subseteq DOMAIN deps \ {t}
    /\ Len(TopologicalSort(deps)) = Cardinality(DOMAIN deps)
=============================================================================
