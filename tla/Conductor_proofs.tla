--------------------------- MODULE Conductor_proofs ---------------------------
(***************************************************************************)
(* Proofs about Conductor, for any number of conductors, requests, tasks   *)
(* and faults, where every conductor has an ID of its own.                 *)
(***************************************************************************)
EXTENDS Conductor, FiniteSetTheorems, WellFoundedInduction, TLAPS

-----------------------------------------------------------------------------
(* The inductive invariant.                                                 *)

\* Requests in the hands of HandleRequest, before anything is written of them.
Unwritten == {"clarify", "asking", "wait", "decompose", "record"}

\* The recovery after its listing.
Settling == {"next", "release", "mark", "settle"}

\* Who has a lease has the one in force, unless the history says otherwise.
LeaderInv ==
    /\ \A c \in Conductors : pc[c] \in {"off", "acquire"} => held[c] = 0
    /\ \A c \in Conductors : pc[c] \in Recovering => held[c] # 0
    /\ ~lapsed => \A c \in Conductors : held[c] # 0 => Leads(c) /\ ~elapsed

\* A request is handled by one process, which leads.
HandleInv ==
    /\ \A c \in Conductors : req[c] # None => req[c] \in begun
    /\ \A c, d \in Conductors : req[c] = req[d] /\ req[c] # None => c = d
    /\ \A c \in Conductors : stage[c] # "idle" =>
          /\ pc[c] \in {"serve", "leave", "exit"}
          /\ req[c] # None
          /\ ~lapsed => held[c] # 0 /\ state[req[c]] \in {"none", "running"}
    /\ \A c \in Conductors : stage[c] = "close" => verdict[c] \in Ended

\* A number that is not given out, or not executed yet.
New(r) == r \notin begun \/ \E c \in Conductors : req[c] = r /\ stage[c] \in Unwritten

\* Of such a number nothing is recorded.
Blank(r) ==
    /\ state[r] = "none"
    /\ \A t \in Tasks : /\ task[r][t] = "none" /\ lease[r][t] = None
                        /\ \A c \in Conductors : <<r, t>> \notin placed[c]

NewInv == \A r \in Requests : New(r) => Blank(r)

\* The record of a task says this, if its last write was not lost.
Shown(r, t, status) == task[r][t] = status \/ <<r, t>> \in unsaved

\* What the graph in the hands of a process has to do with the records.
GraphInv(c) ==
    /\ \A t \in Tasks : node[c][t] # "interrupted"
    /\ stage[c] = "idle" \/ req[c] \notin amended => first[c] = Absent
    /\ stage[c] = "execute" /\ req[c] \notin amended /\ ~lapsed =>
          \A t \in Tasks : Shown(req[c], t, Recorded(node[c][t]))
    /\ stage[c] = "close" /\ verdict[c] = "completed" /\ req[c] \notin amended /\ ~lapsed =>
          Delivered(req[c])

\* The lease of a dispatch is its own or gone, and dispatches are of the process
\* that handles the request, as long as one does.
RecordInv ==
    /\ \A c \in Conductors, r \in Requests, t \in Tasks :
          <<r, t>> \in placed[c] => lease[r][t] \in {None, ConductorID[c]}
    /\ \A c, d \in Conductors, r \in Requests, t \in Tasks :
          <<r, t>> \in placed[d] /\ stage[c] # "idle" /\ req[c] = r => c = d
    /\ \A c \in Conductors : GraphInv(c)

\* How far the recovery of a process is.
RecoveryOf(c) ==
    /\ left[c] \subseteq found[c]
    /\ \A r \in found[c] : state[r] # "none"
    /\ pc[c] \in Settling \cup {"setup", "serve"} =>
          \A r \in found[c] : state[r] # "running" \/ (r \in left[c] /\ pc[c] \in Settling)
    /\ pc[c] \in {"release", "mark", "settle"} => left[c] # {}
    /\ pc[c] \in {"release", "mark"} => ToDo(c) # {}
    /\ pc[c] = "settle" => ToDo(c) = {}
    /\ ~lapsed =>
          /\ pc[c] \in Settling => \A r \in left[c] : state[r] = "running"
          /\ pc[c] \in {"release", "mark", "settle"} => \A t \in Tasks :
                /\ seen[c][t] = "none" => AtRest(AtHand(c), t)
                /\ seen[c][t] # "none" /\ Recoverable(task[AtHand(c)][t]) => Recoverable(seen[c][t])
          /\ pc[c] = "mark" => lease[AtHand(c)][Min(ToDo(c))] = None

RecoveryInv == \A c \in Conductors : RecoveryOf(c)

ConductorInv == /\ TypeOK /\ LeaderInv /\ HandleInv /\ NewInv /\ RecordInv /\ RecoveryInv
                /\ RecoveredIsAtRest /\ CompletedIsDelivered

-----------------------------------------------------------------------------
(* Operators.                                                               *)

\* A set of numbers that has a member has a least one.
LEMMA MinOfSet ==
    ASSUME NEW S \in SUBSET Nat, S # {}
    PROVE  Min(S) \in S
<1>1. PICK m \in S : \A n \in S : ~ (<<n, m>> \in OpToRel(<, Nat))
  BY NatLessThanWellFounded, WFMin
<1>2. ASSUME NEW n \in S
      PROVE  m =< n
  <2>1. ~ (<<n, m>> \in OpToRel(<, Nat))
    BY <1>1
  <2>2. <<n, m>> \in Nat \X Nat /\ <<n, m>>[1] = n /\ <<n, m>>[2] = m
    OBVIOUS
  <2>3. ~ (n < m)
    BY <2>1, <2>2 DEF OpToRel
  <2>4. QED
    BY <2>3
<1>3. QED
  BY <1>2 DEF Min

\* The request at hand is one of those that are left.
LEMMA AtHandIsLeft ==
    ASSUME TypeOK, NEW c \in Conductors, left[c] # {}
    PROVE  AtHand(c) \in left[c] /\ AtHand(c) \in Requests
<1>1. left[c] \in SUBSET Requests /\ left[c] \in SUBSET Nat
  BY ConductorAssumption DEF TypeOK, StartTypeOK
<1>2. QED
  BY <1>1, MinOfSet DEF AtHand

\* The next task is one of those to be looked at.
LEMMA ToDoIsATask ==
    ASSUME TypeOK, NEW c \in Conductors, ToDo(c) # {}
    PROVE  Min(ToDo(c)) \in ToDo(c) /\ Min(ToDo(c)) \in Tasks
<1>1. ToDo(c) \in SUBSET Tasks /\ ToDo(c) \in SUBSET Nat
  BY ConductorAssumption DEF ToDo
<1>2. QED
  BY <1>1, MinOfSet

\* A function of functions, changed at one place.
LEMMA OneChange ==
    ASSUME NEW A, NEW B, NEW V, NEW f \in [A -> [B -> V]], NEW a \in A, NEW b \in B, NEW v \in V
    PROVE  /\ [f EXCEPT ![a][b] = v] \in [A -> [B -> V]]
           /\ \A i \in A, j \in B : [f EXCEPT ![a][b] = v][i][j] = IF i = a /\ j = b THEN v ELSE f[i][j]
OBVIOUS

\* A request of which a step changes no lease, no task and no outcome.
Untouched(r) == /\ task'[r] = task[r] /\ lease'[r] = lease[r] /\ outcome'[r] = outcome[r]
                /\ \A t \in Tasks : <<r, t>> \in unsaved' <=> <<r, t>> \in unsaved

\* What a step that writes some tasks of a request does to the records.
Written(r, g, T) ==
    /\ task' \in [Requests -> [Tasks -> Status]]
    /\ unsaved' \subseteq Requests \X Tasks
    /\ \A q \in Requests : q # r => task'[q] = task[q]
    /\ \A q \in Requests, t \in Tasks :
          q # r \/ t \notin T => /\ task'[q][t] = task[q][t]
                                 /\ <<q, t>> \in unsaved' <=> <<q, t>> \in unsaved
    /\ \A t \in T : /\ task'[r][t] = Recorded(g[t]) \/ <<r, t>> \in unsaved'
                    /\ task'[r][t] \in {task[r][t], Recorded(g[t])}

LEMMA WriteEffect ==
    ASSUME TypeOK, NEW r \in Requests, NEW g \in [Tasks -> Status], NEW T \in SUBSET Tasks,
           NEW lost \in SUBSET T, Write(r, g, T, lost)
    PROVE  Written(r, g, T)
<1>1. task \in [Requests -> [Tasks -> Status]] /\ unsaved \subseteq Requests \X Tasks
  BY DEF TypeOK, RecordTypeOK
<1>2. \A t \in Tasks : Recorded(g[t]) \in Status
  BY DEF Recorded, Status
<1> DEFINE h == [t \in Tasks |-> IF t \in T \ lost THEN Recorded(g[t]) ELSE task[r][t]]
<1>3. h \in [Tasks -> Status]
  BY <1>1, <1>2
<1>4. task' = [task EXCEPT ![r] = h]
  BY DEF Write
<1>5. \A t \in Tasks : h[t] = IF t \in T \ lost THEN Recorded(g[t]) ELSE task[r][t]
  OBVIOUS
<1> HIDE DEF h
<1>6. /\ task' \in [Requests -> [Tasks -> Status]]
      /\ task'[r] = h
      /\ \A q \in Requests : q # r => task'[q] = task[q]
  BY <1>1, <1>3, <1>4
<1>7. unsaved' = (unsaved \ ({r} \X T)) \cup ({r} \X lost)
  BY DEF Write
<1>8. /\ unsaved' \subseteq Requests \X Tasks
      /\ \A q \in Requests, t \in Tasks :
            <<q, t>> \in unsaved' <=> (<<q, t>> \in unsaved /\ ~(q = r /\ t \in T)) \/ (q = r /\ t \in lost)
  BY <1>1, <1>7
<1>9. \A q \in Requests, t \in Tasks :
         q # r \/ t \notin T => /\ task'[q][t] = task[q][t]
                                /\ <<q, t>> \in unsaved' <=> <<q, t>> \in unsaved
  BY <1>5, <1>6, <1>8
<1>10. \A t \in T : /\ task'[r][t] = Recorded(g[t]) \/ <<r, t>> \in unsaved'
                    /\ task'[r][t] \in {task[r][t], Recorded(g[t])}
  BY <1>5, <1>6, <1>8
<1>11. QED
  BY <1>6, <1>8, <1>9, <1>10 DEF Written

LEMMA SaveEffect ==
    ASSUME TypeOK, NEW r \in Requests, NEW g \in [Tasks -> Status], NEW T \in SUBSET Tasks, Save(r, g, T)
    PROVE  Written(r, g, T) /\ faults' \in Nat
<1>1. PICK lost \in SUBSET T : Write(r, g, T, lost) /\ MayFail(lost # {})
  BY DEF Save
<1>2. QED
  BY <1>1, WriteEffect DEF MayFail, Fault, TypeOK

\* The status of one task is set, here and in the control plane.
LEMMA SetEffect ==
    ASSUME TypeOK, NEW c \in Conductors, req[c] \in Requests, NEW t \in Tasks, NEW s \in Status, Set(c, t, s)
    PROVE  /\ node' \in [Conductors -> [Tasks -> Status]]
           /\ \A d \in Conductors : d # c => node'[d] = node[d]
           /\ \A u \in Tasks : node'[c][u] = IF u = t THEN s ELSE node[c][u]
           /\ Written(req[c], node'[c], {t})
           /\ faults' \in Nat
<1>1. node \in [Conductors -> [Tasks -> Status]]
  BY DEF TypeOK, HandleTypeOK
<1>2. node' = [node EXCEPT ![c][t] = s] /\ Save(req[c], node'[c], {t})
  BY DEF Set
<1>3. /\ node' \in [Conductors -> [Tasks -> Status]]
      /\ \A d \in Conductors : d # c => node'[d] = node[d]
      /\ \A u \in Tasks : node'[c][u] = IF u = t THEN s ELSE node[c][u]
  BY <1>1, <1>2
<1>4. node'[c] \in [Tasks -> Status] /\ {t} \in SUBSET Tasks
  BY <1>3
<1>5. QED
  BY <1>2, <1>3, <1>4, SaveEffect

\* The tasks that wait or run are cancelled.
LEMMA CancelEffect ==
    ASSUME TypeOK, NEW c \in Conductors, req[c] \in Requests, NEW lost \in SUBSET Active(c),
           CancelExecution(c, lost)
    PROVE  \/ stage[c] # "execute" /\ UNCHANGED <<node, task, unsaved>>
           \/ /\ stage[c] = "execute"
              /\ node' \in [Conductors -> [Tasks -> Status]]
              /\ \A d \in Conductors : d # c => node'[d] = node[d]
              /\ \A t \in Tasks : node'[c][t] = IF t \in Active(c) THEN "cancelled" ELSE node[c][t]
              /\ Written(req[c], node'[c], Active(c))
<1>1. CASE stage[c] # "execute"
  BY <1>1 DEF CancelExecution
<1>2. CASE stage[c] = "execute"
  <2> DEFINE h == [t \in Tasks |-> IF t \in Active(c) THEN "cancelled" ELSE node[c][t]]
  <2>1. node \in [Conductors -> [Tasks -> Status]] /\ "cancelled" \in Status
    BY DEF TypeOK, HandleTypeOK, Status, Ended
  <2>2. h \in [Tasks -> Status] /\ \A t \in Tasks : h[t] = IF t \in Active(c) THEN "cancelled" ELSE node[c][t]
    BY <2>1
  <2>3. node' = [node EXCEPT ![c] = h] /\ Write(req[c], node'[c], Active(c), lost)
    BY <1>2 DEF CancelExecution
  <2> HIDE DEF h
  <2>4. /\ node' \in [Conductors -> [Tasks -> Status]] /\ node'[c] = h
        /\ \A d \in Conductors : d # c => node'[d] = node[d]
    BY <2>1, <2>2, <2>3
  <2>5. Written(req[c], node'[c], Active(c))
    BY <2>2, <2>3, <2>4, WriteEffect DEF Active
  <2>6. QED
    BY <1>2, <2>2, <2>4, <2>5
<1>3. QED
  BY <1>1, <1>2

-----------------------------------------------------------------------------
(* Types.                                                                   *)

\* Groups of variables that a step leaves alone keep their types.
LEMMA StartUnchanged == StartTypeOK /\ UNCHANGED startVars => StartTypeOK'
  BY DEF StartTypeOK, startVars

LEMMA HandleUnchanged == HandleTypeOK /\ UNCHANGED handleVars => HandleTypeOK'
  BY DEF HandleTypeOK, handleVars

LEMMA LeaderUnchanged == LeaderTypeOK /\ UNCHANGED leaderVars => LeaderTypeOK'
  BY DEF LeaderTypeOK, leaderVars

LEMMA RecordUnchanged == RecordTypeOK /\ UNCHANGED recordVars => RecordTypeOK'
  BY DEF RecordTypeOK, recordVars

LEMMA HistoryUnchanged == HistoryTypeOK /\ UNCHANGED historyVars => HistoryTypeOK'
  BY DEF HistoryTypeOK, historyVars

LEMMA FaultType == TypeOK /\ Fault => faults' \in Nat
  BY DEF TypeOK, Fault

\* AcquireLeader keeps the types of the lease.
LEMMA AcquireType ==
    ASSUME TypeOK, NEW c \in Conductors, AcquireLeader(c)
    PROVE  LeaderTypeOK' /\ held' \in [Conductors -> Nat]
<1>1. ConductorID[c] \in IDs
  BY ConductorAssumption
<1>2. CASE HeldByOther(c)
  BY <1>2, LeaderUnchanged DEF AcquireLeader, TypeOK, StartTypeOK
<1>3. CASE ~HeldByOther(c)
  <2>0. leader' = ConductorID[c] /\ epoch' = epoch + 1 /\ elapsed' = FALSE
    BY <1>3 DEF AcquireLeader
  <2>1. leader' \in IDs /\ epoch' \in Nat
    BY <1>1, <2>0 DEF TypeOK, LeaderTypeOK
  <2>2. held' \in [Conductors -> Nat]
    BY <1>3, <2>1 DEF AcquireLeader, TypeOK, StartTypeOK
  <2>3. QED
    BY <2>0, <2>1, <2>2 DEF LeaderTypeOK
<1>4. QED
  BY <1>2, <1>3

\* Steps of Start, of the recovery and of the heartbeat keep the types.
LEMMA TypeStart ==
    ASSUME TypeOK, RecoveryInv, NEW c \in Conductors,
           Starting(c) \/ StartFails(c) \/ Beat(c)
    PROVE  TypeOK'
<1> USE DEF TypeOK
<1>1. /\ UNCHANGED handleVars
      /\ UNCHANGED placed
  BY DEF Starting, StartFails, Beat, Start, Lead, Reconcile, ListRequests, ListTasks, ReleaseStale,
         InterruptTask, InterruptRequest, Setup, Renew, RenewFails, Reacquire
<1>2. HandleTypeOK'
  BY <1>1, HandleUnchanged
<1>3. CASE Start(c) \/ Setup(c)
  <2>1. StartTypeOK'
    BY <1>3 DEF StartTypeOK, Start, Setup, Go, Places
  <2>2. QED
    BY <1>1, <1>2, <1>3, <2>1, LeaderUnchanged, RecordUnchanged, HistoryUnchanged DEF Start, Setup
<1>4. CASE Lead(c)
  <2>1. LeaderTypeOK' /\ held' \in [Conductors -> Nat]
    BY <1>4, AcquireType DEF Lead
  <2>2. StartTypeOK'
    BY <1>4, <2>1 DEF StartTypeOK, Lead, Go, Places, Recovering
  <2>3. QED
    BY <1>1, <1>2, <1>4, <2>1, <2>2, RecordUnchanged, HistoryUnchanged DEF Lead
<1>5. CASE StartFails(c)
  <2>1. StartTypeOK'
    BY <1>5 DEF StartTypeOK, StartFails, Go, Places
  <2>2. QED
    BY <1>1, <1>2, <1>5, <2>1, FaultType, LeaderUnchanged, RecordUnchanged, HistoryUnchanged DEF StartFails
<1>6. CASE Reacquire(c)
  <2>1. LeaderTypeOK' /\ held' \in [Conductors -> Nat]
    BY <1>6, AcquireType DEF Reacquire
  <2>2. StartTypeOK'
    BY <1>6, <2>1 DEF StartTypeOK, Reacquire
  <2>3. QED
    BY <1>1, <1>2, <1>6, <2>1, <2>2, RecordUnchanged, HistoryUnchanged DEF Reacquire
<1>7. CASE Renew(c) \/ RenewFails(c)
  <2>1. held' \in [Conductors -> Nat]
    BY <1>7 DEF StartTypeOK, Renew, RenewFails
  <2>2. StartTypeOK'
    BY <1>7, <2>1 DEF StartTypeOK, Renew, RenewFails
  <2>3. HistoryTypeOK'
    BY <1>7 DEF HistoryTypeOK, Renew, RenewFails
  <2>4. faults' \in Nat
    BY <1>7, FaultType DEF Renew, RenewFails
  <2>5. QED
    BY <1>1, <1>2, <1>7, <2>2, <2>3, <2>4, LeaderUnchanged, RecordUnchanged DEF Renew, RenewFails
<1>8. CASE Reconcile(c)
  <2>1. UNCHANGED leaderVars /\ UNCHANGED historyVars /\ UNCHANGED faults
    BY <1>8 DEF Reconcile, ListRequests, ListTasks, ReleaseStale, InterruptTask, InterruptRequest
  <2>2. pc' \in [Conductors -> Places]
    BY <1>8 DEF StartTypeOK, Reconcile, ListRequests, ListTasks, ReleaseStale, InterruptTask,
                InterruptRequest, NextTask, Go, Places, Recovering
  <2>3. left' \in [Conductors -> SUBSET Requests] /\ found' \in [Conductors -> SUBSET Requests]
    <3>1. CASE ListRequests(c)
      <4>1. found' \in [Conductors -> SUBSET Requests]
        BY <3>1 DEF StartTypeOK, ListRequests
      <4>2. QED
        BY <3>1, <4>1 DEF StartTypeOK, ListRequests
    <3>2. CASE ~ListRequests(c)
      BY <1>8, <3>2 DEF StartTypeOK, Reconcile, ListTasks, ReleaseStale, InterruptTask, InterruptRequest
    <3>3. QED
      BY <3>1, <3>2
  <2>4. seen' \in [Conductors -> [Tasks -> Status]]
    <3>1. CASE ListTasks(c)
      <4>1. left[c] # {} => task[AtHand(c)] \in [Tasks -> Status]
        BY AtHandIsLeft DEF RecordTypeOK
      <4>2. QED
        BY <3>1, <4>1 DEF StartTypeOK, ListTasks
    <3>2. CASE ReleaseStale(c) \/ InterruptTask(c)
      <4>1. Min(ToDo(c)) \in Tasks
        BY <3>2, ToDoIsATask DEF RecoveryInv, RecoveryOf, ReleaseStale, InterruptTask
      <4>2. seen' = seen \/ seen' = [seen EXCEPT ![c][Min(ToDo(c))] = "none"]
        BY <3>2 DEF ReleaseStale, InterruptTask, NextTask
      <4>3. "none" \in Status
        BY DEF Status
      <4>4. [seen EXCEPT ![c][Min(ToDo(c))] = "none"] \in [Conductors -> [Tasks -> Status]]
        BY <4>1, <4>3, OneChange DEF StartTypeOK
      <4>5. QED
        BY <4>2, <4>4 DEF StartTypeOK
    <3>3. CASE ListRequests(c) \/ InterruptRequest(c)
      BY <3>3 DEF StartTypeOK, ListRequests, InterruptRequest
    <3>4. QED
      BY <1>8, <3>1, <3>2, <3>3 DEF Reconcile
  <2>5. StartTypeOK'
    <3>1. UNCHANGED <<held, beating>>
      BY <1>8 DEF Reconcile, ListRequests, ListTasks, ReleaseStale, InterruptTask, InterruptRequest
    <3>2. QED
      BY <2>2, <2>3, <2>4, <3>1 DEF StartTypeOK
  <2>6. RecordTypeOK'
    <3>1. CASE ListRequests(c) \/ ListTasks(c)
      BY <3>1, RecordUnchanged DEF ListRequests, ListTasks
    <3>2. CASE ReleaseStale(c)
      <4>1. AtHand(c) \in Requests /\ Min(ToDo(c)) \in Tasks
        BY <3>2, AtHandIsLeft, ToDoIsATask DEF RecoveryInv, RecoveryOf, ReleaseStale
      <4>2. /\ lease' = [lease EXCEPT ![AtHand(c)][Min(ToDo(c))] = None]
            /\ UNCHANGED <<state, task, unsaved>>
        BY <3>2 DEF ReleaseStale
      <4>3. QED
        BY <4>1, <4>2, OneChange DEF RecordTypeOK
    <3>3. CASE InterruptTask(c)
      <4>1. AtHand(c) \in Requests /\ Min(ToDo(c)) \in Tasks
        BY <3>3, AtHandIsLeft, ToDoIsATask DEF RecoveryInv, RecoveryOf, InterruptTask
      <4>2. /\ task' = [task EXCEPT ![AtHand(c)][Min(ToDo(c))] = "interrupted"]
            /\ UNCHANGED <<state, lease>> /\ unsaved' \subseteq unsaved
        BY <3>3 DEF InterruptTask
      <4>3. "interrupted" \in Status
        BY DEF Status
      <4>4. QED
        BY <4>1, <4>2, <4>3, OneChange DEF RecordTypeOK
    <3>4. CASE InterruptRequest(c)
      BY <3>4 DEF RecordTypeOK, InterruptRequest, Status
    <3>5. QED
      BY <1>8, <3>1, <3>2, <3>3, <3>4 DEF Reconcile
  <2>7. QED
    BY <1>1, <1>2, <2>1, <2>5, <2>6, LeaderUnchanged, HistoryUnchanged
<1>9. QED
  BY <1>3, <1>4, <1>5, <1>6, <1>7, <1>8 DEF Starting, Beat

\* So do those of HandleRequest.
LEMMA TypeHandle ==
    ASSUME TypeOK, HandleInv, NEW c \in Conductors, Handling(c)
    PROVE  TypeOK'
<1> USE DEF TypeOK
<1>0. stage[c] # "idle" => req[c] \in Requests
  BY DEF HandleTypeOK, HandleInv
<1>1. /\ UNCHANGED startVars
      /\ UNCHANGED leaderVars
      /\ UNCHANGED <<begun, amended, lapsed>>
  BY DEF Handling, Disambiguate, UserAnswers, WaitForKnowledge, Decompose, Record, Executing, Dispatch,
         Place, LoseLease, Result, Return, Close, historyVars
<1>2. StartTypeOK' /\ LeaderTypeOK' /\ HistoryTypeOK'
  <2>1. outcome' = outcome \/ (stage[c] # "idle" /\ outcome' = [outcome EXCEPT ![req[c]] = node[c]])
    BY DEF Handling, Disambiguate, UserAnswers, WaitForKnowledge, Decompose, Record, Executing, Dispatch,
           Place, LoseLease, Result, Return, Close, historyVars
  <2>2. outcome' \in [Requests -> [Tasks -> Status]]
    BY <1>0, <2>1 DEF HistoryTypeOK, HandleTypeOK
  <2>3. QED
    BY <1>1, <2>2, StartUnchanged, LeaderUnchanged DEF HistoryTypeOK
<1>3. Leave(c) /\ UNCHANGED <<req, learning>> => HandleTypeOK'
  BY DEF HandleTypeOK, Leave, Enter, Stages, Absent, Status
<1>4. CASE Disambiguate(c) \/ WaitForKnowledge(c)
  <2>1. HandleTypeOK'
    BY <1>4 DEF HandleTypeOK, Disambiguate, WaitForKnowledge, Enter, Stages
  <2>2. QED
    BY <1>2, <1>4, <2>1, RecordUnchanged DEF Disambiguate, WaitForKnowledge
<1>5. CASE UserAnswers(c)
  <2>1. HandleTypeOK'
    <3>1. CASE stopped[c]
      BY <1>3, <1>5, <3>1 DEF UserAnswers
    <3>2. CASE ~stopped[c]
      BY <1>5, <3>2 DEF HandleTypeOK, UserAnswers, Enter, Stages
    <3>3. QED
      BY <3>1, <3>2
  <2>2. QED
    BY <1>2, <1>5, <2>1, RecordUnchanged DEF UserAnswers
<1>6. CASE Decompose(c)
  <2>1. HandleTypeOK'
    <3>1. CASE Leave(c)
      BY <1>3, <1>6, <3>1 DEF Decompose
    <3>2. CASE ~Leave(c)
      <4>1. PICK S \in Plans[req[c]] : /\ node' = [node EXCEPT ![c] = Graph(S)]
                                       /\ Enter(c, "record")
                                       /\ UNCHANGED <<stopped, first, verdict>>
        BY <1>6, <3>2 DEF Decompose
      <4>2. Graph(S) \in [Tasks -> Status]
        BY DEF Graph, Status
      <4>3. QED
        BY <1>6, <4>1, <4>2 DEF HandleTypeOK, Decompose, Enter, Stages
    <3>3. QED
      BY <3>1, <3>2
  <2>2. QED
    BY <1>2, <1>6, <2>1, RecordUnchanged DEF Decompose
<1>7. CASE Record(c)
  <2>1. HandleTypeOK'
    BY <1>7 DEF HandleTypeOK, Record, Enter, Stages
  <2>2. PICK recorded \in BOOLEAN, lost \in SUBSET InGraph(node[c]) :
           /\ state' = IF recorded THEN [state EXCEPT ![req[c]] = "running"] ELSE state
           /\ Write(req[c], node[c], InGraph(node[c]), lost)
           /\ MayFail(~recorded \/ lost # {})
    BY <1>7 DEF Record
  <2>3. Written(req[c], node[c], InGraph(node[c]))
    BY <1>0, <1>7, <2>2, WriteEffect DEF Record, InGraph, HandleTypeOK
  <2>4. state' \in [Requests -> Status]
    BY <1>0, <1>7, <2>2 DEF RecordTypeOK, Record, Status
  <2>5. RecordTypeOK' /\ faults' \in Nat
    BY <1>7, <2>2, <2>3, <2>4 DEF RecordTypeOK, Record, Written, MayFail, Fault
  <2>6. QED
    BY <1>2, <1>7, <2>1, <2>5 DEF Record
<1>8. ASSUME NEW t \in Tasks, NEW s \in Status, Set(c, t, s), stage[c] # "idle"
      PROVE  /\ node' \in [Conductors -> [Tasks -> Status]]
             /\ task' \in [Requests -> [Tasks -> Status]]
             /\ unsaved' \subseteq Requests \X Tasks
             /\ faults' \in Nat
  BY <1>0, <1>8, SetEffect DEF Written
<1>9. ASSUME NEW t \in Tasks, stage[c] # "idle", Unplace(c, req[c], t)
      PROVE  /\ lease' \in [Requests -> [Tasks -> IDs \cup {None}]]
             /\ placed' \in [Conductors -> SUBSET (Requests \X Tasks)]
  <2>1. [lease EXCEPT ![req[c]][t] = None] \in [Requests -> [Tasks -> IDs \cup {None}]]
    BY <1>0, <1>9, OneChange DEF RecordTypeOK
  <2>2. QED
    BY <1>9, <2>1 DEF Unplace, RecordTypeOK
<1>10. ASSUME NEW t \in Tasks, Dispatch(c, t)
       PROVE  TypeOK'
  <2>1. /\ node' \in [Conductors -> [Tasks -> Status]] /\ task' \in [Requests -> [Tasks -> Status]]
        /\ unsaved' \subseteq Requests \X Tasks /\ faults' \in Nat
    BY <1>8, <1>10 DEF Dispatch, Status
  <2>2. QED
    BY <1>2, <1>10, <2>1 DEF HandleTypeOK, RecordTypeOK, Dispatch, KeepsHandling
<1>11. ASSUME NEW t \in Tasks, NEW s \in Status,
              stage[c] # "idle", Set(c, t, s), Unplace(c, req[c], t), KeepsHandling,
              UNCHANGED <<stage, state>>
       PROVE  TypeOK'
  <2>1. /\ node' \in [Conductors -> [Tasks -> Status]] /\ task' \in [Requests -> [Tasks -> Status]]
        /\ unsaved' \subseteq Requests \X Tasks /\ faults' \in Nat
        /\ lease' \in [Requests -> [Tasks -> IDs \cup {None}]]
        /\ placed' \in [Conductors -> SUBSET (Requests \X Tasks)]
    BY <1>8, <1>9, <1>11
  <2>2. QED
    BY <1>2, <1>11, <2>1 DEF HandleTypeOK, RecordTypeOK, KeepsHandling
<1>12. ASSUME NEW t \in Tasks, LoseLease(c, t)
       PROVE  TypeOK'
  BY <1>11, <1>12 DEF LoseLease, Status
<1>13. ASSUME NEW t \in Tasks, NEW s \in Ends(t), Result(c, t, s)
       PROVE  TypeOK'
  BY <1>11, <1>13 DEF Result, Ends, Status, Ended
<1>14. ASSUME NEW t \in Tasks, Place(c, t)
       PROVE  TypeOK'
  <2>1. CASE Lease(c, t) \in {None, ConductorID[c]}
    <3>1. /\ lease' = [lease EXCEPT ![req[c]][t] = ConductorID[c]]
          /\ placed' = [placed EXCEPT ![c] = @ \cup {<<req[c], t>>}]
          /\ UNCHANGED <<node, task, unsaved, faults>> /\ UNCHANGED <<stage, state>> /\ stage[c] = "execute"
      BY <1>14, <2>1 DEF Place
    <3>2. ConductorID[c] \in IDs
      BY ConductorAssumption
    <3>3. [lease EXCEPT ![req[c]][t] = ConductorID[c]] \in [Requests -> [Tasks -> IDs \cup {None}]]
      BY <1>0, <3>1, <3>2, OneChange DEF RecordTypeOK
    <3>4. placed' \in [Conductors -> SUBSET (Requests \X Tasks)]
      BY <1>0, <3>1
    <3>5. QED
      BY <1>2, <1>14, <3>1, <3>3, <3>4 DEF HandleTypeOK, RecordTypeOK, Place, KeepsHandling
  <2>2. CASE Lease(c, t) \notin {None, ConductorID[c]}
    <3>1. /\ Set(c, t, "failed")
          /\ UNCHANGED <<lease, placed>> /\ UNCHANGED <<stage, state>> /\ stage[c] = "execute"
          /\ KeepsHandling
      BY <1>14, <2>2 DEF Place
    <3>2. /\ node' \in [Conductors -> [Tasks -> Status]] /\ task' \in [Requests -> [Tasks -> Status]]
          /\ unsaved' \subseteq Requests \X Tasks /\ faults' \in Nat
      BY <1>8, <3>1 DEF Status, Ended
    <3>3. QED
      BY <1>2, <3>1, <3>2 DEF HandleTypeOK, RecordTypeOK, KeepsHandling
  <2>3. QED
    BY <2>1, <2>2
<1>15. CASE Return(c)
  <2>1. PICK failed \in BOOLEAN :
           /\ IF failed THEN stopped[c] /\ UNCHANGED <<task, unsaved, faults>>
              ELSE Active(c) = {} /\ Save(req[c], node[c], InGraph(node[c]))
           /\ verdict' = [verdict EXCEPT ![c] = Verdict(Judged(c), failed)]
           /\ learning' = [learning EXCEPT ![c] = @ \/ (verdict'[c] # "cancelled" /\ ~failed)]
    BY <1>15 DEF Return
  <2>2. Verdict(Judged(c), failed) \in Ended
    BY DEF Verdict, Ended
  <2>3. HandleTypeOK'
    BY <1>15, <2>1, <2>2 DEF HandleTypeOK, Return, Enter, Stages
  <2>4. req[c] \in Requests
    BY <1>0, <1>15 DEF Return
  <2>5. /\ task' \in [Requests -> [Tasks -> Status]] /\ unsaved' \subseteq Requests \X Tasks
        /\ faults' \in Nat
    <3>1. node[c] \in [Tasks -> Status] /\ InGraph(node[c]) \in SUBSET Tasks
      BY DEF HandleTypeOK, InGraph
    <3>2. QED
      BY <2>1, <2>4, <3>1, SaveEffect DEF RecordTypeOK, Written
  <2>6. QED
    BY <1>2, <1>15, <2>3, <2>5 DEF RecordTypeOK, Return
<1>16. CASE Close(c)
  <2>1. HandleTypeOK'
    BY <1>3, <1>16 DEF Close
  <2>2. verdict[c] \in Status /\ req[c] \in Requests
    BY <1>0, <1>16 DEF Close, HandleInv, Status
  <2>3. RecordTypeOK'
    BY <1>16, <2>2 DEF RecordTypeOK, Close
  <2>4. faults' \in Nat
    BY <1>16, FaultType DEF Close
  <2>5. QED
    BY <1>2, <1>16, <2>1, <2>3, <2>4 DEF Close
<1>17. QED
  BY <1>4, <1>5, <1>6, <1>7, <1>10, <1>12, <1>13, <1>14, <1>15, <1>16 DEF Handling, Executing

\* So do all.
LEMMA TypeStep ==
    ASSUME TypeOK, HandleInv, RecoveryInv, [Next]_vars
    PROVE  TypeOK'
<1> USE DEF TypeOK
<1>1. CASE UNCHANGED vars
  <2>1. /\ UNCHANGED startVars /\ UNCHANGED handleVars /\ UNCHANGED leaderVars
        /\ UNCHANGED recordVars /\ UNCHANGED historyVars /\ UNCHANGED <<placed, faults>>
    BY <1>1 DEF vars
  <2>2. QED
    BY <2>1, StartUnchanged, HandleUnchanged, LeaderUnchanged, RecordUnchanged, HistoryUnchanged
<1>2. CASE Elapse
  <2>1. HistoryTypeOK' /\ faults' \in Nat
    BY <1>2, FaultType DEF Elapse, HistoryTypeOK
  <2>2. LeaderTypeOK'
    BY <1>2 DEF Elapse, LeaderTypeOK
  <2>3. QED
    BY <1>2, <2>1, <2>2, StartUnchanged, HandleUnchanged, RecordUnchanged DEF Elapse
<1>3. ASSUME NEW c \in Conductors, Starting(c) \/ StartFails(c) \/ Beat(c)
      PROVE  TypeOK'
  BY <1>3, TypeStart
<1>4. ASSUME NEW c \in Conductors, Handling(c)
      PROVE  TypeOK'
  BY <1>4, TypeHandle
<1>5. ASSUME NEW c \in Conductors, Begin(c)
      PROVE  TypeOK'
  <2>1. Min(Fresh) \in Requests
    <3>1. Fresh \in SUBSET Nat /\ Fresh # {}
      BY <1>5, ConductorAssumption DEF Begin, Fresh
    <3>2. QED
      BY <3>1, MinOfSet DEF Fresh
  <2>2. HandleTypeOK'
    BY <1>5, <2>1 DEF HandleTypeOK, Begin, Enter, Stages
  <2>3. HistoryTypeOK'
    <3>1. begun' \subseteq Requests /\ UNCHANGED <<amended, outcome>>
      BY <1>5, <2>1 DEF HistoryTypeOK, Begin
    <3>2. lapsed' \in BOOLEAN
      BY <1>5 DEF Begin
    <3>3. QED
      BY <3>1, <3>2 DEF HistoryTypeOK
  <2>4. QED
    BY <1>5, <2>2, <2>3, StartUnchanged, LeaderUnchanged, RecordUnchanged DEF Begin
<1>6. ASSUME NEW c \in Conductors, Learn(c)
      PROVE  TypeOK'
  <2>1. HandleTypeOK'
    BY <1>6 DEF HandleTypeOK, Learn
  <2>2. QED
    BY <1>6, <2>1, StartUnchanged, LeaderUnchanged, RecordUnchanged, HistoryUnchanged DEF Learn
<1>7. ASSUME NEW c \in Conductors, NEW lost \in SUBSET Active(c), CancelExecution(c, lost), stage[c] # "idle"
      PROVE  HandleTypeOK' /\ RecordTypeOK'
  <2>1. req[c] \in Requests
    BY <1>7 DEF HandleTypeOK, HandleInv
  <2>2. /\ node' \in [Conductors -> [Tasks -> Status]]
        /\ task' \in [Requests -> [Tasks -> Status]] /\ unsaved' \subseteq Requests \X Tasks
    BY <1>7, <2>1, CancelEffect DEF Written, RecordTypeOK, HandleTypeOK
  <2>3. QED
    BY <1>7, <2>2 DEF CancelExecution, HandleTypeOK, RecordTypeOK
<1>8. ASSUME NEW c \in Conductors, Cancel(c)
      PROVE  TypeOK'
  <2>1. HandleTypeOK' /\ RecordTypeOK' /\ faults' \in Nat
    BY <1>7, <1>8 DEF Cancel, MayFail, Fault
  <2>2. QED
    BY <1>8, <2>1, StartUnchanged, LeaderUnchanged, HistoryUnchanged DEF Cancel
<1>9. ASSUME NEW c \in Conductors, Restructure(c)
      PROVE  TypeOK'
  <2>1. req[c] \in Requests
    BY <1>9 DEF HandleTypeOK, HandleInv, Restructure
  <2>2. PICK S : node' = [node EXCEPT ![c] =
                   [t \in Tasks |-> IF t \in {u \in Tasks : node[c][u] = "completed"} THEN "completed"
                                    ELSE Graph(S)[t]]]
    BY <1>9 DEF Restructure
  <2>3. Graph(S) \in [Tasks -> Status] /\ "completed" \in Status
    BY DEF Graph, Status, Ended
  <2>4. node' \in [Conductors -> [Tasks -> Status]]
    BY <2>2, <2>3 DEF HandleTypeOK
  <2>5. HandleTypeOK'
    BY <1>9, <2>4 DEF HandleTypeOK, Restructure
  <2>6. HistoryTypeOK'
    BY <1>9, <2>1 DEF HistoryTypeOK, Restructure
  <2>7. QED
    BY <1>9, <2>5, <2>6, StartUnchanged, LeaderUnchanged, RecordUnchanged DEF Restructure
<1>10. ASSUME NEW c \in Conductors, NEW r \in Requests, NEW t \in Tasks, Unwind(c, r, t)
       PROVE  TypeOK'
  <2>1. "failed" \in Status
    BY DEF Status, Ended
  <2>2. lease' \in [Requests -> [Tasks -> IDs \cup {None}]]
    BY <1>10, OneChange DEF Unwind, Unplace, RecordTypeOK
  <2>3. placed' \in [Conductors -> SUBSET (Requests \X Tasks)]
    BY <1>10 DEF Unwind, Unplace
  <2>4. /\ task' \in [Requests -> [Tasks -> Status]] /\ unsaved' \subseteq Requests \X Tasks
        /\ faults' \in Nat
    <3>1. [u \in Tasks |-> "failed"] \in [Tasks -> Status] /\ {t} \in SUBSET Tasks
      BY <2>1
    <3>2. QED
      BY <1>10, <3>1, SaveEffect DEF Unwind, RecordTypeOK, Written
  <2>5. node' \in [Conductors -> [Tasks -> Status]]
    <3>1. [node EXCEPT ![c][t] = "failed"] \in [Conductors -> [Tasks -> Status]]
      BY <2>1, OneChange DEF HandleTypeOK
    <3>2. QED
      BY <1>10, <3>1 DEF Unwind, HandleTypeOK
  <2>6. HandleTypeOK' /\ RecordTypeOK'
    BY <1>10, <2>2, <2>4, <2>5 DEF Unwind, KeepsHandling, HandleTypeOK, RecordTypeOK
  <2>7. QED
    BY <1>10, <2>3, <2>4, <2>6, StartUnchanged, LeaderUnchanged, HistoryUnchanged DEF Unwind
<1>11. ASSUME NEW c \in Conductors, Shutdown(c)
       PROVE  TypeOK'
  <2>1. StartTypeOK'
    BY <1>11 DEF StartTypeOK, Shutdown, Go, Places
  <2>2. HandleTypeOK' /\ RecordTypeOK'
    BY <1>7, <1>11, HandleUnchanged, RecordUnchanged DEF Shutdown, Handles
  <2>3. QED
    BY <1>11, <2>1, <2>2, FaultType, LeaderUnchanged, HistoryUnchanged DEF Shutdown
<1>12. ASSUME NEW c \in Conductors, ReleaseLeader(c)
       PROVE  TypeOK'
  <2>1. StartTypeOK'
    BY <1>12 DEF StartTypeOK, ReleaseLeader, Go, Places
  <2>2. LeaderTypeOK'
    BY <1>12 DEF LeaderTypeOK, ReleaseLeader
  <2>3. HistoryTypeOK'
    BY <1>12 DEF HistoryTypeOK, ReleaseLeader
  <2>4. QED
    BY <1>12, <2>1, <2>2, <2>3, HandleUnchanged, RecordUnchanged DEF ReleaseLeader
<1>13. ASSUME NEW c \in Conductors, Gone(c)
       PROVE  /\ StartTypeOK' /\ HandleTypeOK' /\ LeaderTypeOK' /\ RecordTypeOK' /\ HistoryTypeOK'
              /\ placed' \in [Conductors -> SUBSET (Requests \X Tasks)]
  <2>1. Absent \in [Tasks -> Status]
    BY DEF Absent, Status
  <2>2. StartTypeOK'
    BY <1>13, <2>1 DEF StartTypeOK, Gone, Go, Places
  <2>3. HandleTypeOK'
    BY <1>13, <2>1 DEF HandleTypeOK, Gone, Leave, Enter, Stages
  <2>4. placed' \in [Conductors -> SUBSET (Requests \X Tasks)]
    BY <1>13 DEF Gone
  <2>5. QED
    BY <1>13, <2>2, <2>3, <2>4, LeaderUnchanged, RecordUnchanged, HistoryUnchanged DEF Gone
<1>14. ASSUME NEW c \in Conductors, Exit(c) \/ Crash(c)
       PROVE  TypeOK'
  BY <1>13, <1>14, FaultType DEF Exit, Crash
<1>15. QED
  BY <1>1, <1>2, <1>3, <1>4, <1>5, <1>6, <1>8, <1>9, <1>10, <1>11, <1>12, <1>14 DEF Next

-----------------------------------------------------------------------------
(* The lease of the leader.                                                 *)

\* Every conductor is given an ID of its own, as WithConductorID is for: those
\* that are not all have the default one.
DistinctIDs == \A c, d \in Conductors : ConductorID[c] = ConductorID[d] => c = d

\* Without a lapse the leader lease is in one process.
LEMMA OneHolder ==
    ASSUME DistinctIDs, LeaderInv, ~lapsed,
           NEW c \in Conductors, NEW d \in Conductors, held[c] # 0, held[d] # 0
    PROVE  c = d
BY DEF DistinctIDs, LeaderInv, Leads

\* What happens in HandleRequest has nothing to do with the lease.
LEMMA HandlingKeepsLease ==
    ASSUME NEW c \in Conductors,
           \/ Handling(c) \/ Learn(c) \/ Cancel(c) \/ Restructure(c)
           \/ \E r \in Requests, t \in Tasks : Unwind(c, r, t)
    PROVE  UNCHANGED startVars /\ UNCHANGED leaderVars /\ UNCHANGED <<begun, lapsed>>
BY DEF Handling, Disambiguate, UserAnswers, WaitForKnowledge, Decompose, Record, Executing, Dispatch,
       Place, LoseLease, Result, Return, Close, Learn, Cancel, Restructure, Unwind, historyVars

\* A step that has nothing to do with the lease.
LEMMA LeaderInvKept ==
    ASSUME LeaderInv, UNCHANGED <<pc, held>>, UNCHANGED leaderVars, UNCHANGED lapsed
    PROVE  LeaderInv'
BY DEF LeaderInv, Leads, leaderVars

\* Who acquires the lease takes it from nobody that has it.
LEMMA AcquireKeepsLeader ==
    ASSUME TypeOK, LeaderInv, DistinctIDs, NEW c \in Conductors, AcquireLeader(c), UNCHANGED lapsed,
           pc \in [Conductors -> Places], pc[c] # "off", held[c] = 0
    PROVE  /\ \A d \in Conductors : d # c => held'[d] = held[d]
           /\ held'[c] # 0 <=> ~HeldByOther(c)
           /\ ~lapsed => \A d \in Conductors : held'[d] # 0 => Leads(d)' /\ ~elapsed'
<1>1. CASE HeldByOther(c)
  <2>1. UNCHANGED held /\ UNCHANGED leaderVars
    BY <1>1 DEF AcquireLeader
  <2>2. QED
    BY <1>1, <2>1 DEF LeaderInv, Leads, leaderVars
<1>2. CASE ~HeldByOther(c)
  <2>1. /\ leader' = ConductorID[c] /\ epoch' = epoch + 1 /\ elapsed' = FALSE
        /\ held' = [held EXCEPT ![c] = epoch']
    BY <1>2 DEF AcquireLeader
  <2>2. /\ held'[c] = epoch' /\ epoch' # 0
        /\ \A d \in Conductors : d # c => held'[d] = held[d]
    BY <2>1 DEF TypeOK, StartTypeOK, LeaderTypeOK
  <2>3. ASSUME ~lapsed, NEW d \in Conductors, d # c, held[d] # 0
        PROVE  FALSE
    <3>1. leader = ConductorID[d] /\ ~elapsed /\ leader # None
      BY <2>3, ConductorAssumption DEF LeaderInv, Leads
    <3>2. QED
      BY <1>2, <2>3, <3>1 DEF HeldByOther, DistinctIDs
  <2>4. QED
    BY <1>2, <2>1, <2>2, <2>3 DEF Leads
<1>3. QED
  BY <1>1, <1>2

\* Every step keeps who has the lease the one in force.
LEMMA LeaderStep ==
    ASSUME TypeOK, LeaderInv, DistinctIDs, [Next]_vars
    PROVE  LeaderInv'
<1>1. CASE UNCHANGED vars
  <2>1. UNCHANGED <<pc, held>> /\ UNCHANGED leaderVars /\ UNCHANGED lapsed
    BY <1>1 DEF vars, startVars, historyVars
  <2>2. QED
    BY <2>1, LeaderInvKept
<1>2. CASE Elapse
  <2>1. UNCHANGED <<pc, held>> /\ UNCHANGED <<leader, epoch>>
    BY <1>2 DEF Elapse, startVars
  <2>2. ASSUME ~lapsed', NEW c \in Conductors, held[c] # 0
        PROVE  FALSE
    <3>1. ~lapsed /\ ~(Alive(c) /\ Leads(c))
      BY <1>2, <2>2 DEF Elapse
    <3>2. QED
      BY <2>2, <3>1 DEF LeaderInv, Alive
  <2>3. QED
    BY <2>1, <2>2 DEF LeaderInv
<1>3. ASSUME NEW c \in Conductors,
             \/ Handling(c) \/ Learn(c) \/ Cancel(c) \/ Restructure(c)
             \/ \E r \in Requests, t \in Tasks : Unwind(c, r, t)
      PROVE  LeaderInv'
  <2>1. UNCHANGED <<pc, held>> /\ UNCHANGED leaderVars /\ UNCHANGED lapsed
    BY <1>3, HandlingKeepsLease DEF startVars
  <2>2. QED
    BY <2>1, LeaderInvKept
<1>4. ASSUME NEW c \in Conductors, Lead(c) \/ Reacquire(c)
      PROVE  LeaderInv'
  <2>1. pc[c] # "off" /\ held[c] = 0 /\ UNCHANGED lapsed /\ AcquireLeader(c)
    BY <1>4 DEF Lead, Reacquire, historyVars, LeaderInv
  <2>2. /\ \A d \in Conductors : d # c => held'[d] = held[d] /\ pc'[d] = pc[d]
        /\ held'[c] # 0 <=> ~HeldByOther(c)
        /\ ~lapsed => \A d \in Conductors : held'[d] # 0 => Leads(d)' /\ ~elapsed'
    BY <1>4, <2>1, AcquireKeepsLeader DEF TypeOK, StartTypeOK, Lead, Reacquire, Go
  <2>3. \/ pc'[c] = "leave" /\ HeldByOther(c)
        \/ pc'[c] = "list" /\ ~HeldByOther(c)
        \/ pc'[c] = pc[c] /\ pc[c] \in {"setup", "serve", "leave", "exit"}
    BY <1>4 DEF TypeOK, StartTypeOK, Lead, Reacquire, Go
  <2>4. QED
    BY <2>1, <2>2, <2>3 DEF LeaderInv, Recovering
<1>5. ASSUME NEW c \in Conductors,
             Start(c) \/ StartFails(c) \/ Setup(c) \/ Reconcile(c) \/ Begin(c) \/ Shutdown(c)
      PROVE  LeaderInv'
  <2>0. ~lapsed' => ~lapsed
    BY <1>5 DEF Start, StartFails, Setup, Reconcile, ListRequests, ListTasks, ReleaseStale,
                InterruptTask, InterruptRequest, Begin, Shutdown, historyVars
  <2>1. UNCHANGED held /\ UNCHANGED leaderVars
    BY <1>5 DEF Start, StartFails, Setup, Reconcile, ListRequests, ListTasks, ReleaseStale,
                InterruptTask, InterruptRequest, Begin, Shutdown, startVars
  <2>2. /\ \A d \in Conductors : d # c => pc'[d] = pc[d]
        /\ pc'[c] \in {"off", "acquire"} => pc[c] = "off"
        /\ pc'[c] \in Recovering => pc[c] \in Recovering
    BY <1>5 DEF TypeOK, StartTypeOK, Start, StartFails, Setup, Reconcile, ListRequests, ListTasks,
                ReleaseStale, InterruptTask, InterruptRequest, NextTask, Begin, Shutdown, Go, Recovering,
                startVars
  <2>3. QED
    BY <2>0, <2>1, <2>2 DEF LeaderInv, Leads, leaderVars
<1>6. ASSUME NEW c \in Conductors,
             Renew(c) \/ RenewFails(c) \/ ReleaseLeader(c) \/ Exit(c) \/ Crash(c)
      PROVE  LeaderInv'
  <2>0. ~lapsed' => ~lapsed
    BY <1>6 DEF Renew, RenewFails, ReleaseLeader, Exit, Crash, Gone, historyVars
  <2>1. /\ \A d \in Conductors : d # c => held'[d] = held[d] /\ pc'[d] = pc[d]
        /\ held'[c] \in {0, held[c]}
        /\ pc'[c] = "off" => held'[c] = 0
        /\ pc'[c] # "acquire" /\ pc'[c] \notin Recovering
    <3>1. CASE Renew(c) \/ RenewFails(c)
      BY <3>1 DEF TypeOK, StartTypeOK, Renew, RenewFails, Recovering
    <3>2. CASE ReleaseLeader(c)
      BY <3>2 DEF TypeOK, StartTypeOK, ReleaseLeader, Go, Recovering
    <3>3. CASE Exit(c) \/ Crash(c)
      BY <3>3 DEF TypeOK, StartTypeOK, Exit, Crash, Gone, Go, Recovering
    <3>4. QED
      BY <1>6, <3>1, <3>2, <3>3
  <2>2. UNCHANGED leaderVars \/ (Leads(c) /\ held'[c] = 0 /\ UNCHANGED <<epoch, elapsed>>)
    BY <1>6 DEF TypeOK, StartTypeOK, Renew, RenewFails, ReleaseLeader, Exit, Crash, Gone, leaderVars
  <2>3. CASE UNCHANGED leaderVars
    BY <2>0, <2>1, <2>3 DEF LeaderInv, Leads, leaderVars
  <2>4. CASE Leads(c) /\ held'[c] = 0 /\ UNCHANGED <<epoch, elapsed>>
    <3>1. ~lapsed' => \A d \in Conductors : held'[d] = 0
      BY <2>0, <2>1, <2>4, OneHolder DEF Leads
    <3>2. QED
      BY <2>1, <2>4, <3>1 DEF LeaderInv
  <2>5. QED
    BY <2>2, <2>3, <2>4
<1>7. QED
  BY <1>1, <1>2, <1>3, <1>4, <1>5, <1>6 DEF Next, Starting, Beat

-----------------------------------------------------------------------------
(* Who handles which request.                                               *)

\* HandleRequest goes on as it was, while its process still serves or ends.
LEMMA HandleInvKept ==
    ASSUME HandleInv, UNCHANGED handleVars, UNCHANGED begun, UNCHANGED state, ~lapsed' => ~lapsed,
           \A c \in Conductors : stage[c] # "idle" =>
               /\ pc'[c] \in {"serve", "leave", "exit"}
               /\ ~lapsed' => held'[c] # 0
    PROVE  HandleInv'
BY DEF HandleInv, handleVars

\* A step of HandleRequest itself.
LEMMA HandleInvOfStep ==
    ASSUME HandleInv, UNCHANGED startVars, UNCHANGED <<begun, lapsed>>, UNCHANGED req, NEW c \in Conductors,
           stage' \in [Conductors -> Stages], verdict' \in [Conductors -> Ended \cup {None}],
           \A d \in Conductors : d # c => stage'[d] = stage[d] /\ verdict'[d] = verdict[d],
           stage'[c] = "idle" \/ stage[c] # "idle",
           stage'[c] = "close" => verdict'[c] \in Ended,
           \A r \in Requests : r # req[c] => state'[r] = state[r],
           stage'[c] # "idle" => state'[req[c]] \in {state[req[c]], "running"},
           req \in [Conductors -> Requests \cup {None}]
    PROVE  HandleInv'
<1>1. UNCHANGED <<pc, held>>
  BY DEF startVars
<1>2. ASSUME NEW d \in Conductors, stage'[d] # "idle"
      PROVE  /\ stage[d] # "idle"
             /\ ~lapsed => state'[req[d]] \in {"none", "running"}
  <2>1. stage[d] # "idle" /\ req[d] \in Requests
    BY <1>2 DEF HandleInv
  <2>2. CASE d = c
    BY <1>2, <2>1, <2>2 DEF HandleInv
  <2>3. CASE d # c
    BY <2>1, <2>3 DEF HandleInv
  <2>4. QED
    BY <2>1, <2>2, <2>3
<1>3. QED
  BY <1>1, <1>2 DEF HandleInv

\* A process that starts has no request.
LEMMA StartingIsIdle ==
    ASSUME HandleInv, NEW c \in Conductors, Starting(c) \/ StartFails(c)
    PROVE  stage[c] = "idle" /\ pc[c] \notin {"serve", "leave", "exit"}
BY DEF HandleInv, Starting, StartFails, Start, Lead, Setup, Reconcile, ListRequests, ListTasks,
       ReleaseStale, InterruptTask, InterruptRequest, Recovering

\* While one process recovers, and leads, no other does, and none handles a request.
LEMMA RecoveryIsAlone ==
    ASSUME LeaderInv, HandleInv, DistinctIDs, ~lapsed,
           NEW c \in Conductors, pc[c] \in Recovering, NEW d \in Conductors
    PROVE  /\ stage[d] = "idle"
           /\ pc[d] \in Recovering => c = d
<1>1. held[c] # 0
  BY DEF LeaderInv
<1>2. stage[d] # "idle" => held[d] # 0 /\ pc[d] \notin Recovering
  BY DEF HandleInv, Recovering
<1>3. QED
  BY <1>1, <1>2, OneHolder DEF LeaderInv

\* A request stays in the hands of one process, which leads.
LEMMA HandleStep ==
    ASSUME TypeOK, LeaderInv, HandleInv, NewInv, DistinctIDs, [Next]_vars
    PROVE  HandleInv'
<1>1. CASE UNCHANGED vars
  <2>1. UNCHANGED startVars /\ UNCHANGED handleVars /\ UNCHANGED recordVars /\ UNCHANGED historyVars
    BY <1>1 DEF vars
  <2>2. QED
    BY <2>1, HandleInvKept DEF HandleInv, startVars, recordVars, historyVars
<1>2. CASE Elapse
  <2>1. ~lapsed' => ~lapsed
    BY <1>2 DEF Elapse
  <2>2. UNCHANGED startVars /\ UNCHANGED handleVars /\ UNCHANGED begun /\ UNCHANGED state
    BY <1>2 DEF Elapse, recordVars
  <2>3. QED
    BY <2>1, <2>2, HandleInvKept DEF HandleInv, startVars
<1>3. ASSUME NEW c \in Conductors, Start(c) \/ Setup(c) \/ StartFails(c) \/ Lead(c) \/ Reconcile(c)
      PROVE  HandleInv'
  <2>1. /\ UNCHANGED handleVars /\ UNCHANGED historyVars
        /\ \A d \in Conductors : d # c => pc'[d] = pc[d]
    BY <1>3 DEF Start, Setup, StartFails, Lead, Reconcile, ListRequests, ListTasks, ReleaseStale,
                InterruptTask, InterruptRequest, NextTask, Go, TypeOK, StartTypeOK
  <2>2. \A d \in Conductors : d # c => held'[d] = held[d]
    <3>1. CASE Lead(c)
      BY <3>1 DEF Lead, AcquireLeader, TypeOK, StartTypeOK
    <3>2. CASE ~Lead(c)
      BY <1>3, <3>2 DEF Start, Setup, StartFails, Reconcile, ListRequests, ListTasks, ReleaseStale,
                        InterruptTask, InterruptRequest
    <3>3. QED
      BY <3>1, <3>2
  <2>3. stage[c] = "idle"
    BY <1>3, StartingIsIdle DEF Starting
  <2>4. CASE UNCHANGED state
    BY <2>1, <2>2, <2>3, <2>4, HandleInvKept DEF HandleInv, historyVars
  <2>5. CASE InterruptRequest(c)
    <3>1. pc[c] \in Recovering /\ UNCHANGED held
      BY <2>5 DEF InterruptRequest, Recovering
    <3>2. ~lapsed => \A d \in Conductors : stage[d] = "idle"
      BY <3>1, RecoveryIsAlone
    <3>3. QED
      BY <2>1, <2>3, <3>1, <3>2 DEF HandleInv, handleVars, historyVars
  <2>6. QED
    BY <1>3, <2>4, <2>5 DEF Start, Setup, StartFails, Lead, Reconcile, ListRequests, ListTasks, ReleaseStale,
                            InterruptTask, recordVars
<1>4. ASSUME NEW c \in Conductors, Renew(c) \/ RenewFails(c) \/ Reacquire(c) \/ ReleaseLeader(c)
      PROVE  HandleInv'
  <2>1. UNCHANGED handleVars /\ UNCHANGED begun /\ UNCHANGED state
    BY <1>4 DEF Renew, RenewFails, Reacquire, ReleaseLeader, recordVars, historyVars
  <2>2. ~lapsed' => ~lapsed
    BY <1>4 DEF Renew, RenewFails, Reacquire, ReleaseLeader, historyVars
  <2>3. ASSUME NEW d \in Conductors, stage[d] # "idle"
        PROVE  pc'[d] \in {"serve", "leave", "exit"}
    BY <1>4, <2>3 DEF HandleInv, TypeOK, StartTypeOK, Renew, RenewFails, Reacquire, ReleaseLeader, Go
  <2>4. ASSUME NEW d \in Conductors, stage[d] # "idle", ~lapsed'
        PROVE  held'[d] # 0
    <3>1. held[d] # 0 /\ Handles(d)
      BY <2>2, <2>4 DEF HandleInv, Handles, Alive
    <3>2. CASE d = c
      BY <1>4, <2>4, <3>1, <3>2 DEF Renew, RenewFails, Reacquire, ReleaseLeader
    <3>3. CASE d # c
      BY <1>4, <3>1, <3>3 DEF TypeOK, StartTypeOK, Renew, RenewFails, Reacquire, AcquireLeader, ReleaseLeader
    <3>4. QED
      BY <3>2, <3>3
  <2>5. QED
    BY <2>1, <2>2, <2>3, <2>4, HandleInvKept
<1>5. ASSUME NEW c \in Conductors, Begin(c)
      PROVE  HandleInv'
  <2> DEFINE r == Min(Fresh)
  <2>1. r \in Requests /\ r \notin begun
    <3>1. Fresh \in SUBSET Nat /\ Fresh # {}
      BY <1>5, ConductorAssumption DEF Begin, Fresh
    <3>2. QED
      BY <3>1, MinOfSet DEF Fresh
  <2>2. state[r] = "none"
    BY <2>1 DEF NewInv, New, Blank
  <2>3. r # None
    BY <2>1, ConductorAssumption
  <2> HIDE DEF r
  <2>4. /\ req' = [req EXCEPT ![c] = r] /\ begun' = begun \cup {r}
        /\ stage' = [stage EXCEPT ![c] = "clarify"]
        /\ UNCHANGED startVars /\ UNCHANGED recordVars /\ UNCHANGED verdict /\ pc[c] = "serve"
    BY <1>5 DEF Begin, Enter, r
  <2>5. ~lapsed' => ~lapsed /\ held[c] # 0
    BY <1>5 DEF Begin
  <2>6. UNCHANGED <<pc, held>> /\ UNCHANGED state
    BY <2>4 DEF startVars, recordVars
  <2>7. QED
    BY <2>1, <2>2, <2>3, <2>4, <2>5, <2>6 DEF HandleInv, TypeOK, HandleTypeOK
<1>6. ASSUME NEW c \in Conductors, Handling(c)
      PROVE  HandleInv'
  <2>1. UNCHANGED startVars /\ UNCHANGED <<begun, lapsed>>
    BY <1>6, HandlingKeepsLease
  <2>2. /\ UNCHANGED req /\ stage[c] # "idle"
        /\ \A d \in Conductors : d # c => stage'[d] = stage[d] /\ verdict'[d] = verdict[d]
    BY <1>6 DEF Handling, Disambiguate, UserAnswers, WaitForKnowledge, Decompose, Record, Executing, Dispatch,
                Place, LoseLease, Result, Return, Close, KeepsHandling, Leave, Enter, TypeOK, HandleTypeOK
  <2>3. stage'[c] = "close" => verdict'[c] \in Ended
    <3>1. CASE Return(c)
      <4>1. \A failed \in BOOLEAN : Verdict(Judged(c), failed) \in Ended
        BY DEF Verdict, Ended
      <4>2. QED
        BY <3>1, <4>1 DEF Return, TypeOK, HandleTypeOK
    <3>2. CASE ~Return(c)
      BY <1>6, <3>2 DEF Handling, Disambiguate, UserAnswers, WaitForKnowledge, Decompose, Record, Executing,
                        Dispatch, Place, LoseLease, Result, Close, KeepsHandling, Leave, Enter, TypeOK,
                        HandleTypeOK, HandleInv
    <3>3. QED
      BY <3>1, <3>2
  <2>4. /\ \A r \in Requests : r # req[c] => state'[r] = state[r]
        /\ stage'[c] # "idle" => state'[req[c]] \in {state[req[c]], "running"}
    <3>1. CASE Record(c) \/ Close(c)
      BY <3>1 DEF Record, Close, Leave, Enter, TypeOK, RecordTypeOK, HandleTypeOK, HandleInv
    <3>2. CASE ~(Record(c) \/ Close(c))
      BY <1>6, <3>2 DEF Handling, Disambiguate, UserAnswers, WaitForKnowledge, Decompose, Executing,
                        Dispatch, Place, LoseLease, Result, Return, recordVars
    <3>3. QED
      BY <3>1, <3>2
  <2>5. TypeOK'
    BY <1>6, TypeHandle
  <2>6. QED
    BY <2>1, <2>2, <2>3, <2>4, <2>5, HandleInvOfStep DEF TypeOK, HandleTypeOK
<1>7. ASSUME NEW c \in Conductors,
             \/ Learn(c) \/ Cancel(c) \/ Restructure(c)
             \/ \E r \in Requests, t \in Tasks : Unwind(c, r, t)
      PROVE  HandleInv'
  <2>1. UNCHANGED startVars /\ UNCHANGED <<begun, lapsed>>
    BY <1>7, HandlingKeepsLease
  <2>2. UNCHANGED <<stage, req, verdict, state>>
    BY <1>7 DEF Learn, Cancel, Restructure, Unwind, CancelExecution, KeepsHandling, recordVars
  <2>3. QED
    BY <2>1, <2>2 DEF HandleInv, startVars
<1>8. ASSUME NEW c \in Conductors, Shutdown(c)
      PROVE  HandleInv'
  <2>1. UNCHANGED <<stage, req, verdict, state>> /\ UNCHANGED historyVars /\ UNCHANGED held
    BY <1>8 DEF Shutdown, CancelExecution, handleVars, recordVars
  <2>2. \A d \in Conductors : pc'[d] = IF d = c THEN "leave" ELSE pc[d]
    BY <1>8 DEF Shutdown, Go, TypeOK, StartTypeOK
  <2>3. QED
    BY <2>1, <2>2 DEF HandleInv, historyVars
<1>9. ASSUME NEW c \in Conductors, Exit(c) \/ Crash(c)
      PROVE  HandleInv'
  <2>1. UNCHANGED req /\ UNCHANGED recordVars /\ UNCHANGED historyVars
    BY <1>9 DEF Exit, Crash, Gone
  <2>2. /\ \A d \in Conductors : d # c => /\ pc'[d] = pc[d] /\ held'[d] = held[d]
                                          /\ stage'[d] = stage[d] /\ verdict'[d] = verdict[d]
        /\ stage'[c] = "idle"
    BY <1>9 DEF Exit, Crash, Gone, Go, Leave, Enter, TypeOK, StartTypeOK, HandleTypeOK
  <2>3. QED
    BY <2>1, <2>2 DEF HandleInv, recordVars, historyVars
<1>10. QED
  BY <1>1, <1>2, <1>3, <1>4, <1>5, <1>6, <1>7, <1>8, <1>9 DEF Next, Starting, Beat

-----------------------------------------------------------------------------
(* What is recorded of a request, and when.                                 *)

\* HandleRequest changes records, leases and placements of its request only.
LEMMA HandlingTouchesItsOwn ==
    ASSUME TypeOK, HandleInv, NEW c \in Conductors, Handling(c)
    PROVE  /\ req[c] \in Requests
           /\ \A r \in Requests : r # req[c] => Untouched(r)
           /\ \A d \in Conductors : placed'[d] \ placed[d] # {} =>
                 d = c /\ placed'[d] \ placed[d] \subseteq {req[c]} \X Tasks
           /\ stage'[c] \in Unwritten =>
                 stage[c] \in Unwritten /\ UNCHANGED recordVars /\ UNCHANGED placed
           /\ outcome' = outcome \/ Return(c)
<1>0. req[c] \in Requests /\ stage[c] # "idle"
  BY DEF Handling, Disambiguate, UserAnswers, WaitForKnowledge, Decompose, Record, Executing, Dispatch,
         Place, LoseLease, Result, Return, Close, HandleInv, TypeOK, HandleTypeOK
<1>1. CASE Disambiguate(c) \/ UserAnswers(c) \/ WaitForKnowledge(c) \/ Decompose(c)
  <2>1. UNCHANGED recordVars /\ UNCHANGED <<placed, outcome>> /\ stage[c] \in Unwritten
    BY <1>1 DEF Disambiguate, UserAnswers, WaitForKnowledge, Decompose, Unwritten, historyVars
  <2>2. QED
    BY <1>0, <2>1 DEF recordVars, Untouched
<1>2. ASSUME NEW g \in [Tasks -> Status], NEW T \in SUBSET Tasks, Written(req[c], g, T), NEW r \in Requests,
             r # req[c], lease'[r] = lease[r], outcome'[r] = outcome[r]
      PROVE  Untouched(r)
  BY <1>2 DEF Written, Untouched
<1>3. /\ node[c] \in [Tasks -> Status] /\ InGraph(node[c]) \in SUBSET Tasks
      /\ task \in [Requests -> [Tasks -> Status]] /\ lease \in [Requests -> [Tasks -> IDs \cup {None}]]
      /\ outcome \in [Requests -> [Tasks -> Status]]
  BY DEF TypeOK, HandleTypeOK, RecordTypeOK, HistoryTypeOK, InGraph
<1>4. CASE Record(c)
  <2>1. UNCHANGED <<lease, placed, outcome>> /\ stage'[c] \notin Unwritten
    BY <1>4 DEF Record, Enter, TypeOK, HandleTypeOK, Unwritten, historyVars
  <2>2. PICK lost \in SUBSET InGraph(node[c]) : Write(req[c], node[c], InGraph(node[c]), lost)
    BY <1>4 DEF Record
  <2>3. Written(req[c], node[c], InGraph(node[c]))
    BY <1>0, <1>3, <2>2, WriteEffect
  <2>4. QED
    BY <1>0, <1>2, <1>3, <2>1, <2>3
<1>5. CASE Return(c)
  <2>1. UNCHANGED <<lease, placed>> /\ stage'[c] \notin Unwritten
        /\ outcome' = [outcome EXCEPT ![req[c]] = node[c]]
    BY <1>5 DEF Return, Enter, TypeOK, HandleTypeOK, Unwritten
  <2>2. UNCHANGED <<task, unsaved>> \/ Save(req[c], node[c], InGraph(node[c]))
    BY <1>5 DEF Return
  <2>3. UNCHANGED <<task, unsaved>> \/ Written(req[c], node[c], InGraph(node[c]))
    BY <1>0, <1>3, <2>2, SaveEffect
  <2>4. \A r \in Requests : r # req[c] => outcome'[r] = outcome[r]
    BY <1>0, <1>3, <2>1
  <2>5. QED
    BY <1>0, <1>2, <1>3, <1>5, <2>1, <2>3, <2>4 DEF Untouched
<1>6. CASE Close(c)
  <2>1. UNCHANGED <<lease, placed, task, unsaved, outcome>> /\ stage'[c] \notin Unwritten
    BY <1>6 DEF Close, Leave, Enter, TypeOK, HandleTypeOK, Unwritten, historyVars
  <2>2. QED
    BY <1>0, <2>1 DEF Untouched
<1>7. ASSUME NEW t \in Tasks,
             \/ Dispatch(c, t) \/ Place(c, t) \/ LoseLease(c, t)
             \/ \E s \in Ends(t) : Result(c, t, s)
      PROVE  /\ stage'[c] \notin Unwritten
             /\ \A r \in Requests : r # req[c] => Untouched(r)
             /\ \A d \in Conductors : placed'[d] \ placed[d] # {} =>
                   d = c /\ placed'[d] \ placed[d] \subseteq {req[c]} \X Tasks
             /\ outcome' = outcome
  <2>1. stage'[c] \notin Unwritten /\ outcome' = outcome
    BY <1>7 DEF Dispatch, Place, LoseLease, Result, Unwritten, historyVars
  <2>2. UNCHANGED <<task, unsaved>> \/ \E s \in Status : Set(c, t, s)
    <3>1. Ends(t) \subseteq Status /\ {"running", "pending", "failed"} \subseteq Status
      BY DEF Ends, Status, Ended
    <3>2. QED
      BY <1>7, <3>1 DEF Dispatch, Place, LoseLease, Result
  <2>3. UNCHANGED <<task, unsaved>> \/ (node'[c] \in [Tasks -> Status] /\ Written(req[c], node'[c], {t}))
    BY <1>0, <2>2, SetEffect
  <2>4. \A r \in Requests : r # req[c] => lease'[r] = lease[r]
    BY <1>0, <1>3, <1>7 DEF Dispatch, Place, LoseLease, Result, Unplace
  <2>5. \A d \in Conductors : placed'[d] \ placed[d] # {} =>
            d = c /\ placed'[d] \ placed[d] \subseteq {req[c]} \X Tasks
    BY <1>7 DEF Dispatch, Place, LoseLease, Result, Unplace, TypeOK
  <2>6. \A r \in Requests : r # req[c] => Untouched(r)
    BY <1>2, <2>1, <2>3, <2>4 DEF Untouched
  <2>7. QED
    BY <2>1, <2>5, <2>6
<1>8. QED
  BY <1>0, <1>1, <1>4, <1>5, <1>6, <1>7 DEF Handling, Executing

\* Nothing new is recorded of a number that is not executed yet.
LEMMA NewInvKept ==
    ASSUME NewInv,
           \A r \in Requests : New(r)' =>
               /\ New(r)
               /\ state'[r] = state[r] /\ task'[r] = task[r] /\ lease'[r] = lease[r]
               /\ \A c \in Conductors, t \in Tasks : <<r, t>> \in placed'[c] => <<r, t>> \in placed[c]
    PROVE  NewInv'
BY DEF NewInv, Blank

\* Nor does CancelExecution change records of other requests.
LEMMA CancelTouchesItsOwn ==
    ASSUME TypeOK, HandleInv, NEW c \in Conductors, stage[c] # "idle", NEW lost \in SUBSET Active(c),
           CancelExecution(c, lost), UNCHANGED outcome
    PROVE  /\ req[c] \in Requests
           /\ \A r \in Requests : r # req[c] => Untouched(r)
           /\ stage[c] # "execute" => UNCHANGED <<task, unsaved>>
           /\ UNCHANGED <<stage, req, first, verdict, state, lease>>
<1>1. req[c] \in Requests
  BY DEF HandleInv, TypeOK, HandleTypeOK
<1>2. UNCHANGED <<stage, req, first, verdict, state, lease>>
  BY DEF CancelExecution
<1>3. QED
  BY <1>1, <1>2, CancelEffect DEF Untouched, Written

\* Cancel and Shutdown cancel the request in hand, if there is one.
LEMMA CancelOrNothing ==
    ASSUME NEW c \in Conductors, Cancel(c) \/ Shutdown(c)
    PROVE  \/ stage[c] # "idle" /\ \E lost \in SUBSET Active(c) : CancelExecution(c, lost)
           \/ UNCHANGED handleVars /\ UNCHANGED recordVars
BY DEF Cancel, Shutdown, Handles

\* A dispatch that unwinds gives its lease up, and may have its task fail.
LEMMA UnwindSettles ==
    ASSUME TypeOK, RecordInv, NEW c \in Conductors, NEW r \in Requests, NEW t \in Tasks, Unwind(c, r, t)
    PROVE  /\ UNCHANGED startVars /\ UNCHANGED <<state, stage, req, first, verdict>>
           /\ UNCHANGED historyVars
           /\ \A q \in Requests : q # r => Untouched(q)
           /\ \A q \in Requests, u \in Tasks :
                 /\ lease'[q][u] \in {lease[q][u], None}
                 /\ task'[q][u] = task[q][u] \/ (task'[q][u] = "failed" /\ lease'[q][u] = None)
           /\ \/ UNCHANGED <<node, task, unsaved>> /\ ~Running(c, r, t)
              \/ /\ StillRuns(c, r, t)
                 /\ Written(r, [u \in Tasks |-> "failed"], {t})
                 /\ \A d \in Conductors : d # c => node'[d] = node[d]
                 /\ \A u \in Tasks : node'[c][u] = IF Running(c, r, t) /\ u = t THEN "failed" ELSE node[c][u]
<1>1. /\ UNCHANGED startVars /\ UNCHANGED <<state, stage, req, first, verdict>> /\ UNCHANGED historyVars
      /\ Unplace(c, r, t) /\ <<r, t>> \in placed[c]
  BY DEF Unwind, KeepsHandling
<1>2. /\ node \in [Conductors -> [Tasks -> Status]] /\ "failed" \in Status
      /\ lease \in [Requests -> [Tasks -> IDs \cup {None}]]
      /\ [u \in Tasks |-> "failed"] \in [Tasks -> Status] /\ {t} \in SUBSET Tasks
  BY DEF TypeOK, HandleTypeOK, RecordTypeOK, Status, Ended
<1>3. lease[r][t] \in {None, ConductorID[c]}
  BY <1>1 DEF RecordInv
<1>4. /\ lease'[r][t] = None
      /\ \A q \in Requests : q # r => lease'[q] = lease[q]
      /\ \A q \in Requests, u \in Tasks : lease'[q][u] \in {lease[q][u], None}
  BY <1>1, <1>2, <1>3 DEF Unplace
<1>5. outcome' = outcome
  BY <1>1 DEF historyVars
<1>6. CASE UNCHANGED <<node, task, unsaved>> /\ ~Running(c, r, t)
  BY <1>1, <1>4, <1>5, <1>6 DEF Untouched
<1>7. CASE ~(UNCHANGED <<node, task, unsaved>> /\ ~Running(c, r, t))
  <2>1. /\ StillRuns(c, r, t) /\ Save(r, [u \in Tasks |-> "failed"], {t})
        /\ node' = IF Running(c, r, t) THEN [node EXCEPT ![c][t] = "failed"] ELSE node
    BY <1>7 DEF Unwind
  <2>2. Written(r, [u \in Tasks |-> "failed"], {t})
    BY <1>2, <2>1, SaveEffect
  <2>3. /\ \A d \in Conductors : d # c => node'[d] = node[d]
        /\ \A u \in Tasks : node'[c][u] = IF Running(c, r, t) /\ u = t THEN "failed" ELSE node[c][u]
    BY <1>2, <2>1
  <2>4. \A q \in Requests : q # r => Untouched(q)
    BY <1>4, <1>5, <2>2 DEF Untouched, Written
  <2>5. \A q \in Requests, u \in Tasks :
           task'[q][u] = task[q][u] \/ (task'[q][u] = "failed" /\ lease'[q][u] = None)
    BY <1>4, <2>2 DEF Written, Recorded
  <2>6. QED
    BY <1>1, <1>4, <2>1, <2>2, <2>3, <2>4, <2>5
<1>8. QED
  BY <1>6, <1>7

\* Every step leaves those numbers blank.
LEMMA NewStep ==
    ASSUME TypeOK, HandleInv, NewInv, RecordInv, RecoveryInv, [Next]_vars
    PROVE  NewInv'
<1>0. ASSUME NEW r \in Requests, NEW c \in Conductors, req[c] = r, stage[c] # "idle", stage[c] \notin Unwritten
      PROVE  ~New(r)
  BY <1>0, ConductorAssumption DEF New, HandleInv
<1>1. ASSUME UNCHANGED <<begun, req, stage>>, UNCHANGED recordVars,
             \A c \in Conductors : placed'[c] \subseteq placed[c]
      PROVE  NewInv'
  BY <1>1, NewInvKept DEF New, recordVars
<1>2. CASE UNCHANGED vars \/ Elapse
  BY <1>1, <1>2 DEF vars, Elapse, handleVars, historyVars
<1>3. ASSUME NEW c \in Conductors,
             Start(c) \/ Setup(c) \/ StartFails(c) \/ Lead(c) \/ Beat(c) \/ Learn(c) \/ ReleaseLeader(c)
      PROVE  NewInv'
  BY <1>1, <1>3 DEF Start, Setup, StartFails, Lead, Beat, Renew, RenewFails, Reacquire, Learn, ReleaseLeader,
                    handleVars, historyVars
<1>4. ASSUME NEW c \in Conductors, Reconcile(c)
      PROVE  NewInv'
  <2>1. CASE ListRequests(c) \/ ListTasks(c)
    BY <1>1, <2>1 DEF ListRequests, ListTasks, handleVars, historyVars
  <2>2. CASE ReleaseStale(c) \/ InterruptTask(c) \/ InterruptRequest(c)
    <3>1. AtHand(c) \in Requests /\ ~New(AtHand(c))
      <4>1. left[c] # {}
        BY <2>2 DEF RecoveryInv, RecoveryOf, ReleaseStale, InterruptTask, InterruptRequest
      <4>2. AtHand(c) \in Requests /\ AtHand(c) \in left[c]
        BY <4>1, AtHandIsLeft
      <4>3. state[AtHand(c)] # "none"
        BY <4>2 DEF RecoveryInv, RecoveryOf
      <4>4. QED
        BY <4>2, <4>3 DEF NewInv, Blank
    <3>2. UNCHANGED handleVars /\ UNCHANGED historyVars /\ UNCHANGED placed
      BY <2>2 DEF ReleaseStale, InterruptTask, InterruptRequest
    <3>3. \A r \in Requests : New(r)' <=> New(r)
      BY <3>2 DEF New, handleVars, historyVars
    <3>4. \A r \in Requests : r # AtHand(c) => state'[r] = state[r] /\ task'[r] = task[r] /\ lease'[r] = lease[r]
      BY <2>2, <3>1 DEF ReleaseStale, InterruptTask, InterruptRequest, TypeOK, RecordTypeOK
    <3>5. QED
      BY <3>1, <3>2, <3>3, <3>4, NewInvKept
  <2>3. QED
    BY <1>4, <2>1, <2>2 DEF Reconcile
<1>5. ASSUME NEW c \in Conductors, Begin(c)
      PROVE  NewInv'
  <2>1. UNCHANGED recordVars /\ UNCHANGED placed
    BY <1>5 DEF Begin
  <2>2. Min(Fresh) \in Requests /\ Min(Fresh) \notin begun
    <3>1. Fresh \in SUBSET Nat /\ Fresh # {}
      BY <1>5, ConductorAssumption DEF Begin, Fresh
    <3>2. QED
      BY <3>1, MinOfSet DEF Fresh
  <2>3. ASSUME NEW r \in Requests, New(r)'
        PROVE  New(r)
    BY <1>5, <2>2, <2>3 DEF New, Begin, Enter, TypeOK, HandleTypeOK
  <2>4. QED
    BY <2>1, <2>3, NewInvKept DEF recordVars
<1>6. ASSUME NEW c \in Conductors, Handling(c)
      PROVE  NewInv'
  <2>1. /\ UNCHANGED req /\ UNCHANGED begun
        /\ \A d \in Conductors : d # c => stage'[d] = stage[d]
        /\ \A r \in Requests : r # req[c] => state'[r] = state[r]
    BY <1>6 DEF Handling, Disambiguate, UserAnswers, WaitForKnowledge, Decompose, Record, Executing, Dispatch,
                Place, LoseLease, Result, Return, Close, KeepsHandling, Leave, Enter, TypeOK, HandleTypeOK,
                RecordTypeOK, recordVars, historyVars
  <2>2. ASSUME NEW r \in Requests, New(r)'
        PROVE  /\ New(r)
               /\ state'[r] = state[r] /\ task'[r] = task[r] /\ lease'[r] = lease[r]
               /\ \A d \in Conductors, t \in Tasks : <<r, t>> \in placed'[d] => <<r, t>> \in placed[d]
    <3>1. CASE r # req[c]
      <4>1. New(r)
        BY <2>1, <2>2, <3>1 DEF New
      <4>2. QED
        BY <1>6, <2>1, <3>1, <4>1, HandlingTouchesItsOwn DEF Untouched
    <3>2. CASE r = req[c]
      <4>1. stage'[c] \in Unwritten \/ r \notin begun
        BY <2>1, <2>2, <3>2, ConductorAssumption DEF New, HandleInv
      <4>2. stage'[c] \in Unwritten
        BY <4>1, <3>2, ConductorAssumption DEF HandleInv
      <4>3. QED
        BY <1>6, <3>2, <4>2, HandlingTouchesItsOwn DEF New, recordVars
    <3>3. QED
      BY <3>1, <3>2
  <2>3. QED
    BY <2>2, NewInvKept
<1>7. ASSUME NEW c \in Conductors, stage[c] # "idle", NEW lost \in SUBSET Active(c), CancelExecution(c, lost),
             UNCHANGED placed, UNCHANGED historyVars
      PROVE  NewInv'
  <2>0. UNCHANGED <<begun, outcome>>
    BY <1>7 DEF historyVars
  <2>1. \A r \in Requests : New(r)' <=> New(r)
    BY <1>7, <2>0, CancelTouchesItsOwn DEF New
  <2>2. ASSUME NEW r \in Requests, New(r)
        PROVE  task'[r] = task[r]
    BY <1>0, <1>7, <2>0, <2>2, CancelTouchesItsOwn DEF Unwritten, Untouched
  <2>3. QED
    BY <1>7, <2>0, <2>1, <2>2, CancelTouchesItsOwn, NewInvKept
<1>8. ASSUME NEW c \in Conductors, Cancel(c) \/ Shutdown(c)
      PROVE  NewInv'
  <2>1. UNCHANGED placed /\ UNCHANGED historyVars
    BY <1>8 DEF Cancel, Shutdown
  <2>2. CASE stage[c] # "idle" /\ \E lost \in SUBSET Active(c) : CancelExecution(c, lost)
    BY <1>7, <2>1, <2>2
  <2>3. CASE UNCHANGED handleVars /\ UNCHANGED recordVars
    BY <1>1, <2>1, <2>3 DEF handleVars, historyVars
  <2>4. QED
    BY <1>8, <2>2, <2>3, CancelOrNothing
<1>9. ASSUME NEW c \in Conductors, Restructure(c)
      PROVE  NewInv'
  BY <1>1, <1>9 DEF Restructure
<1>10. ASSUME NEW c \in Conductors, NEW r \in Requests, NEW t \in Tasks, Unwind(c, r, t)
       PROVE  NewInv'
  <2>1. UNCHANGED <<stage, req, state>> /\ UNCHANGED begun /\ <<r, t>> \in placed[c]
    BY <1>10 DEF Unwind, KeepsHandling, historyVars
  <2>2. ~New(r)
    BY <2>1 DEF NewInv, Blank
  <2>3. \A q \in Requests : q # r => task'[q] = task[q] /\ lease'[q] = lease[q]
    BY <1>10, UnwindSettles DEF Untouched
  <2>4. \A d \in Conductors : placed'[d] \subseteq placed[d]
    BY <1>10 DEF Unwind, Unplace, TypeOK
  <2>5. \A q \in Requests : New(q)' <=> New(q)
    BY <2>1 DEF New
  <2>6. QED
    BY <2>1, <2>2, <2>3, <2>4, <2>5, NewInvKept
<1>11. ASSUME NEW c \in Conductors, Exit(c) \/ Crash(c)
       PROVE  NewInv'
  <2>1. UNCHANGED <<begun, req>> /\ UNCHANGED recordVars
    BY <1>11 DEF Exit, Crash, Gone, historyVars
  <2>2. /\ \A d \in Conductors : d # c => stage'[d] = stage[d]
        /\ stage'[c] = "idle"
        /\ \A d \in Conductors : placed'[d] \subseteq placed[d]
    BY <1>11 DEF Exit, Crash, Gone, Leave, Enter, TypeOK, HandleTypeOK
  <2>3. \A r \in Requests : New(r)' => New(r)
    BY <2>1, <2>2 DEF New, Unwritten
  <2>4. QED
    BY <2>1, <2>2, <2>3, NewInvKept DEF recordVars
<1>12. QED
  BY <1>2, <1>3, <1>4, <1>5, <1>6, <1>8, <1>9, <1>10, <1>11 DEF Next, Starting

-----------------------------------------------------------------------------
(* The graph in hand and the records.                                       *)

\* A step of process c, or of a dispatch of its, about request r.
LEMMA RecordInvOfStep ==
    ASSUME TypeOK, HandleInv, RecordInv, NEW c \in Conductors, NEW r \in Requests,
           UNCHANGED <<req, lapsed>>, amended \subseteq amended',
           \A d \in Conductors : d # c => /\ stage'[d] = stage[d] /\ node'[d] = node[d]
                                          /\ first'[d] = first[d] /\ verdict'[d] = verdict[d],
           stage'[c] # "idle" => stage[c] # "idle",
           \A d \in Conductors : d # c /\ stage[d] # "idle" => req[d] # r,
           \A q \in Requests : q # r => Untouched(q),
           \A d \in Conductors, q \in Requests, t \in Tasks :
               <<q, t>> \in placed'[d] => <<q, t>> \in placed[d] \/ (d = c /\ q = r),
           \A d \in Conductors, t \in Tasks :
               <<r, t>> \in placed'[d] => lease'[r][t] \in {None, ConductorID[d]},
           GraphInv(c)'
    PROVE  RecordInv'
<1>1. \A d \in Conductors, q \in Requests, t \in Tasks :
          <<q, t>> \in placed'[d] => lease'[q][t] \in {None, ConductorID[d]}
  BY DEF RecordInv, Untouched
<1>2. ASSUME NEW d \in Conductors, NEW e \in Conductors, NEW q \in Requests, NEW t \in Tasks,
             <<q, t>> \in placed'[d], stage'[e] # "idle", req[e] = q
      PROVE  e = d
  <2>1. stage[e] # "idle"
    BY <1>2
  <2>2. CASE <<q, t>> \in placed[d]
    BY <1>2, <2>1, <2>2 DEF RecordInv
  <2>3. CASE d = c /\ q = r
    BY <1>2, <2>1, <2>3
  <2>4. QED
    BY <1>2, <2>2, <2>3
<1>3. ASSUME NEW d \in Conductors, d # c
      PROVE  GraphInv(d)'
  <2>1. /\ UNCHANGED <<stage[d], node[d], first[d], verdict[d], req[d]>>
        /\ stage[d] # "idle" => req[d] \in Requests /\ Untouched(req[d])
    BY <1>3 DEF HandleInv, TypeOK, HandleTypeOK
  <2>2. GraphInv(d)
    BY DEF RecordInv
  <2>3. QED
    BY <2>1, <2>2 DEF GraphInv, Delivered, Shown, Untouched
<1>4. QED
  BY <1>1, <1>2, <1>3 DEF RecordInv

\* A step that leaves the graph in hand alone, and its records or the leader.
LEMMA GraphInvKept ==
    ASSUME NEW c \in Conductors, GraphInv(c),
           UNCHANGED <<stage, req, node, first, verdict>>, UNCHANGED amended, ~lapsed' => ~lapsed,
           lapsed' \/ stage[c] = "idle" \/ UNCHANGED <<task, unsaved, outcome>>
    PROVE  GraphInv(c)'
BY DEF GraphInv, Delivered, Shown

\* A step that leaves tasks and placements alone too.
LEMMA RecordInvKept ==
    ASSUME RecordInv,
           UNCHANGED <<stage, req, node, first, verdict>>, UNCHANGED amended, ~lapsed' => ~lapsed,
           UNCHANGED <<task, unsaved, outcome>>, UNCHANGED <<lease, placed>>
    PROVE  RecordInv'
<1>1. \A c \in Conductors : GraphInv(c)'
  BY GraphInvKept DEF RecordInv
<1>2. QED
  BY <1>1 DEF RecordInv

\* A request in hand is in nobody else's.
LEMMA HandledIsOne ==
    ASSUME TypeOK, HandleInv, NEW c \in Conductors, stage[c] # "idle"
    PROVE  /\ req[c] \in Requests
           /\ \A d \in Conductors : d # c => req[d] # req[c]
BY DEF HandleInv, TypeOK, HandleTypeOK

\* HandleRequest returns, and has no graph any more.
LEMMA GraphInvOfLeave ==
    ASSUME TypeOK, NEW c \in Conductors, Leave(c)
    PROVE  GraphInv(c)' /\ stage'[c] = "idle"
<1>1. stage'[c] = "idle" /\ node'[c] = Absent /\ first'[c] = Absent
  BY DEF Leave, Enter, TypeOK, HandleTypeOK
<1>2. QED
  BY <1>1 DEF GraphInv, Absent

\* Some tasks of the graph in hand change, here and in the control plane.
LEMMA GraphInvOfWrite ==
    ASSUME TypeOK, HandleInv, RecordInv, NEW c \in Conductors, NEW T \in SUBSET Tasks,
           stage[c] = "execute", Written(req[c], node'[c], T),
           \A t \in Tasks \ T : node'[c][t] = node[c][t],
           \A t \in T : node'[c][t] # "interrupted",
           UNCHANGED <<stage, req, first, verdict, amended, lapsed>>
    PROVE  GraphInv(c)'
<1>1. req[c] \in Requests /\ GraphInv(c)
  BY HandledIsOne DEF RecordInv
<1>2. \A t \in Tasks : node'[c][t] # "interrupted"
  BY <1>1 DEF GraphInv
<1>3. ASSUME req[c] \notin amended, ~lapsed, NEW t \in Tasks
      PROVE  task'[req[c]][t] = Recorded(node'[c][t]) \/ <<req[c], t>> \in unsaved'
  <2>1. CASE t \in T
    BY <2>1 DEF Written
  <2>2. CASE t \notin T
    <3>1. Shown(req[c], t, Recorded(node[c][t]))
      BY <1>1, <1>3 DEF GraphInv
    <3>2. QED
      BY <1>1, <2>2, <3>1 DEF Shown, Written
  <2>3. QED
    BY <2>1, <2>2
<1>4. QED
  BY <1>1, <1>2, <1>3 DEF GraphInv, Shown

\* Steps of HandleRequest keep the records what its graph says, but for lost writes.
LEMMA RecordHandle ==
    ASSUME TypeOK, HandleInv, NewInv, RecordInv, NEW c \in Conductors, Handling(c)
    PROVE  RecordInv'
<1>0. /\ stage[c] # "idle" /\ req[c] \in Requests
      /\ \A d \in Conductors : d # c => req[d] # req[c]
      /\ GraphInv(c)
  <2>1. stage[c] # "idle"
    BY DEF Handling, Disambiguate, UserAnswers, WaitForKnowledge, Decompose, Record, Executing, Dispatch,
           Place, LoseLease, Result, Return, Close
  <2>2. QED
    BY <2>1, HandledIsOne DEF RecordInv
<1>1. UNCHANGED <<req, lapsed, amended>>
  BY HandlingKeepsLease DEF Handling, Disambiguate, UserAnswers, WaitForKnowledge, Decompose, Record, Executing,
     Dispatch, Place, LoseLease, Result, Return, Close, KeepsHandling, historyVars
<1>2. \A d \in Conductors : d # c => /\ stage'[d] = stage[d] /\ node'[d] = node[d]
                                     /\ first'[d] = first[d] /\ verdict'[d] = verdict[d]
  BY DEF Handling, Disambiguate, UserAnswers, WaitForKnowledge, Decompose, Record, Executing, Dispatch,
         Place, LoseLease, Result, Return, Close, KeepsHandling, Leave, Enter, Set, TypeOK, HandleTypeOK
<1>3. \A d \in Conductors, q \in Requests, t \in Tasks :
          <<q, t>> \in placed'[d] => <<q, t>> \in placed[d] \/ (d = c /\ q = req[c])
  BY HandlingTouchesItsOwn
<1>4. \A d \in Conductors, t \in Tasks :
          <<req[c], t>> \in placed'[d] => lease'[req[c]][t] \in {None, ConductorID[d]}
  <2>1. SUFFICES ASSUME NEW d \in Conductors, NEW t \in Tasks, <<req[c], t>> \in placed'[d]
                 PROVE  lease'[req[c]][t] \in {None, ConductorID[d]}
    OBVIOUS
  <2>2. CASE UNCHANGED <<lease, placed>>
    BY <1>0, <2>1, <2>2 DEF RecordInv
  <2>3. ASSUME NEW u \in Tasks, Unplace(c, req[c], u)
        PROVE  lease'[req[c]][t] \in {None, ConductorID[d]}
    <3>1. <<req[c], t>> \in placed[d] /\ lease'[req[c]][t] \in {lease[req[c]][t], None}
      BY <1>0, <2>1, <2>3 DEF Unplace, TypeOK, RecordTypeOK
    <3>2. QED
      BY <1>0, <3>1 DEF RecordInv
  <2>4. ASSUME NEW u \in Tasks, lease' = [lease EXCEPT ![req[c]][u] = ConductorID[c]],
               placed' = [placed EXCEPT ![c] = @ \cup {<<req[c], u>>}]
        PROVE  lease'[req[c]][t] \in {None, ConductorID[d]}
    <3>1. /\ d = c \/ <<req[c], t>> \in placed[d]
          /\ t # u => <<req[c], t>> \in placed[d]
          /\ lease'[req[c]][t] = IF t = u THEN ConductorID[c] ELSE lease[req[c]][t]
      BY <1>0, <2>1, <2>4 DEF TypeOK, RecordTypeOK
    <3>2. <<req[c], t>> \in placed[d] => d = c
      BY <1>0 DEF RecordInv
    <3>3. QED
      BY <1>0, <3>1, <3>2 DEF RecordInv
  <2>5. QED
    BY <2>2, <2>3, <2>4 DEF Handling, Disambiguate, UserAnswers, WaitForKnowledge, Decompose, Record, Executing,
       Dispatch, Place, LoseLease, Result, Return, Close, recordVars
<1>5. SUFFICES GraphInv(c)'
  BY <1>0, <1>1, <1>2, <1>3, <1>4, HandlingTouchesItsOwn, RecordInvOfStep
<1>6. CASE Disambiguate(c) \/ WaitForKnowledge(c)
  <2>1. UNCHANGED <<req, node, first, verdict>> /\ stage'[c] \notin {"idle", "execute", "close"}
    BY <1>6 DEF Disambiguate, WaitForKnowledge, Enter, TypeOK, HandleTypeOK
  <2>2. QED
    BY <1>0, <1>1, <2>1 DEF GraphInv
<1>7. CASE UserAnswers(c)
  <2>1. CASE stopped[c]
    BY <1>7, <2>1, GraphInvOfLeave DEF UserAnswers
  <2>2. CASE ~stopped[c]
    <3>1. UNCHANGED <<req, node, first, verdict>> /\ stage'[c] = "wait"
      BY <1>7, <2>2 DEF UserAnswers, Enter, TypeOK, HandleTypeOK
    <3>2. QED
      BY <1>0, <1>1, <3>1 DEF GraphInv
  <2>3. QED
    BY <2>1, <2>2
<1>8. CASE Decompose(c)
  <2>1. CASE Leave(c)
    BY <2>1, GraphInvOfLeave
  <2>2. CASE ~Leave(c)
    <3>1. PICK S \in Plans[req[c]] : /\ node' = [node EXCEPT ![c] = Graph(S)]
                                     /\ Enter(c, "record")
                                     /\ UNCHANGED <<stopped, first, verdict>>
      BY <1>8, <2>2 DEF Decompose
    <3>2. node'[c] = Graph(S) /\ stage'[c] = "record"
      BY <3>1 DEF Enter, TypeOK, HandleTypeOK
    <3>3. \A t \in Tasks : Graph(S)[t] # "interrupted"
      BY DEF Graph
    <3>4. QED
      BY <1>0, <1>1, <3>1, <3>2, <3>3 DEF GraphInv
  <2>3. QED
    BY <2>1, <2>2
<1>9. CASE Record(c)
  <2>1. stage[c] = "record" /\ New(req[c])
    BY <1>9 DEF Record, New, Unwritten
  <2>2. \A t \in Tasks : task[req[c]][t] = "none"
    BY <1>0, <2>1 DEF NewInv, Blank
  <2>3. UNCHANGED <<node, first>> /\ stage'[c] = "execute"
    BY <1>9 DEF Record, Enter, TypeOK, HandleTypeOK
  <2>4. PICK lost \in SUBSET InGraph(node[c]) : Write(req[c], node[c], InGraph(node[c]), lost)
    BY <1>9 DEF Record
  <2>5. node[c] \in [Tasks -> Status] /\ InGraph(node[c]) \in SUBSET Tasks
    BY DEF TypeOK, HandleTypeOK, InGraph
  <2>6. Written(req[c], node[c], InGraph(node[c]))
    BY <1>0, <2>4, <2>5, WriteEffect
  <2>7. \A t \in Tasks : task'[req[c]][t] = Recorded(node[c][t]) \/ <<req[c], t>> \in unsaved'
    BY <1>0, <2>2, <2>6 DEF Written, InGraph, Recorded
  <2>8. QED
    BY <1>0, <1>1, <2>1, <2>3, <2>7 DEF GraphInv, Shown
<1>10. ASSUME NEW t \in Tasks, NEW s \in Status \ {"none", "interrupted"}, stage[c] = "execute", Set(c, t, s),
              UNCHANGED <<stage, req, first, verdict>>
       PROVE  GraphInv(c)'
  <2>1. /\ \A u \in Tasks : node'[c][u] = IF u = t THEN s ELSE node[c][u]
        /\ Written(req[c], node'[c], {t})
    BY <1>0, <1>10, SetEffect
  <2>2. QED
    BY <1>1, <1>10, <2>1, GraphInvOfWrite
<1>11. ASSUME NEW t \in Tasks, Dispatch(c, t)
       PROVE  GraphInv(c)'
  BY <1>10, <1>11 DEF Dispatch, KeepsHandling, Status
<1>12. ASSUME NEW t \in Tasks, Place(c, t)
       PROVE  GraphInv(c)'
  <2>1. CASE Set(c, t, "failed")
    BY <1>10, <1>12, <2>1 DEF Place, KeepsHandling, Status, Ended
  <2>2. CASE ~Set(c, t, "failed")
    <3>1. UNCHANGED <<node, task, unsaved>> /\ UNCHANGED <<stage, req, first, verdict>> /\ stage[c] = "execute"
      BY <1>12, <2>2 DEF Place, KeepsHandling
    <3>2. QED
      BY <1>0, <1>1, <3>1 DEF GraphInv, Shown
  <2>3. QED
    BY <2>1, <2>2
<1>13. ASSUME NEW t \in Tasks, LoseLease(c, t) \/ \E s \in Ends(t) : Result(c, t, s)
       PROVE  GraphInv(c)'
  <2>1. PICK s \in Status \ {"none", "interrupted"} : Set(c, t, s)
    BY <1>13 DEF LoseLease, Result, Ends, Status, Ended
  <2>2. UNCHANGED <<stage, req, first, verdict>> /\ stage[c] = "execute"
    BY <1>13 DEF LoseLease, Result, KeepsHandling
  <2>3. QED
    BY <1>10, <2>1, <2>2
<1>14. CASE Return(c)
  <2>1. /\ UNCHANGED <<node, first, lease>> /\ stage'[c] = "close" /\ stage[c] = "execute"
        /\ outcome'[req[c]] = node[c]
    BY <1>0, <1>14 DEF Return, Enter, TypeOK, HandleTypeOK, HistoryTypeOK
  <2>2. PICK failed \in BOOLEAN :
          /\ IF failed THEN stopped[c] /\ UNCHANGED <<task, unsaved, faults>>
             ELSE Active(c) = {} /\ Save(req[c], node[c], InGraph(node[c]))
          /\ verdict' = [verdict EXCEPT ![c] = Verdict(Judged(c), failed)]
    BY <1>14 DEF Return
  <2>3. node[c] \in [Tasks -> Status] /\ InGraph(node[c]) \in SUBSET Tasks
    BY DEF TypeOK, HandleTypeOK, InGraph
  <2>4. ASSUME verdict'[c] = "completed", req[c] \notin amended, ~lapsed
        PROVE  Delivered(req[c])'
    <3>1. Verdict(Judged(c), failed) = "completed" /\ Judged(c) = node[c]
      BY <1>0, <2>2, <2>4 DEF GraphInv, Judged, TypeOK, HandleTypeOK
    <3>2. ~failed /\ {"failed", "cancelled", "fruitless"} \cap Outcomes(node[c]) = {}
      BY <3>1 DEF Verdict
    <3>3. Written(req[c], node[c], InGraph(node[c]))
      BY <1>0, <2>2, <2>3, <3>2, SaveEffect
    <3>4. ASSUME NEW t \in Tasks
          PROVE  node[c][t] \in {"none", "completed", "escalated"}
      <4>1. node[c][t] \in Status /\ node[c][t] # "interrupted"
        BY <1>0 DEF GraphInv, TypeOK, HandleTypeOK
      <4>2. node[c][t] \notin {"pending", "running"}
        BY <2>2, <3>2 DEF Active
      <4>3. node[c][t] \notin {"failed", "cancelled", "fruitless"}
        BY <3>2 DEF Outcomes
      <4>4. QED
        BY <4>1, <4>2, <4>3 DEF Status, Ended
    <3>5. ASSUME NEW t \in Tasks
          PROVE  task'[req[c]][t] = node[c][t] \/ <<req[c], t>> \in unsaved'
      <4>1. Recorded(node[c][t]) = node[c][t]
        BY <3>4 DEF Recorded
      <4>2. Shown(req[c], t, node[c][t])
        BY <1>0, <2>1, <2>4, <4>1 DEF GraphInv
      <4>3. QED
        BY <1>0, <3>3, <4>1, <4>2 DEF Shown, Written
    <3>6. QED
      BY <1>1, <2>1, <3>4, <3>5 DEF Delivered
  <2>5. QED
    BY <1>0, <1>1, <2>1, <2>4 DEF GraphInv
<1>15. CASE Close(c)
  BY <1>15, GraphInvOfLeave DEF Close
<1>16. QED
  BY <1>6, <1>7, <1>8, <1>9, <1>11, <1>12, <1>13, <1>14, <1>15 DEF Handling, Executing

\* So does CancelExecution.
LEMMA RecordCancel ==
    ASSUME TypeOK, HandleInv, RecordInv, NEW c \in Conductors, stage[c] # "idle",
           NEW lost \in SUBSET Active(c), CancelExecution(c, lost),
           UNCHANGED placed, UNCHANGED historyVars
    PROVE  RecordInv'
<1>0. /\ req[c] \in Requests /\ GraphInv(c)
      /\ \A d \in Conductors : d # c => req[d] # req[c]
      /\ UNCHANGED <<outcome, amended, lapsed>>
  BY HandledIsOne DEF RecordInv, historyVars
<1>1. /\ UNCHANGED <<stage, req, first, verdict, state, lease>>
      /\ \A q \in Requests : q # req[c] => Untouched(q)
  BY <1>0, CancelTouchesItsOwn
<1>2. CASE stage[c] # "execute"
  <2>1. UNCHANGED <<node, task, unsaved>>
    BY <1>0, <1>2, CancelEffect
  <2>2. QED
    BY <1>0, <1>1, <2>1, RecordInvKept
<1>3. CASE stage[c] = "execute"
  <2>1. /\ \A d \in Conductors : d # c => node'[d] = node[d]
        /\ \A t \in Tasks : node'[c][t] = IF t \in Active(c) THEN "cancelled" ELSE node[c][t]
        /\ Written(req[c], node'[c], Active(c))
    BY <1>0, <1>3, CancelEffect
  <2>2. GraphInv(c)'
    <3>1. Active(c) \in SUBSET Tasks
      BY DEF Active
    <3>2. QED
      BY <1>0, <1>1, <1>3, <2>1, <3>1, GraphInvOfWrite
  <2>3. \A d \in Conductors, t \in Tasks :
           <<req[c], t>> \in placed'[d] => lease'[req[c]][t] \in {None, ConductorID[d]}
    BY <1>0, <1>1 DEF RecordInv
  <2>4. QED
    BY <1>0, <1>1, <2>1, <2>2, <2>3, RecordInvOfStep
<1>4. QED
  BY <1>2, <1>3

\* A dispatch that unwinds is of the request in hand, or of one that nobody has.
LEMMA RecordUnwind ==
    ASSUME TypeOK, HandleInv, RecordInv, NEW c \in Conductors, NEW r \in Requests, NEW t \in Tasks,
           Unwind(c, r, t)
    PROVE  RecordInv'
<1>1. /\ UNCHANGED <<stage, req, first, verdict>> /\ UNCHANGED <<outcome, amended, lapsed>>
      /\ \A q \in Requests : q # r => Untouched(q)
      /\ \A q \in Requests, u \in Tasks : lease'[q][u] \in {lease[q][u], None}
  BY UnwindSettles DEF historyVars
<1>2. <<r, t>> \in placed[c] /\ \A d \in Conductors : placed'[d] \subseteq placed[d]
  BY DEF Unwind, Unplace, TypeOK
<1>3. \A d \in Conductors : d # c /\ stage[d] # "idle" => req[d] # r
  BY <1>2 DEF RecordInv
<1>4. GraphInv(c) /\ (stage[c] # "idle" => req[c] \in Requests)
  BY HandledIsOne DEF RecordInv
<1>5. \A d \in Conductors, u \in Tasks :
         <<r, u>> \in placed'[d] => lease'[r][u] \in {None, ConductorID[d]}
  BY <1>1, <1>2 DEF RecordInv
<1>6. /\ \A d \in Conductors : d # c => node'[d] = node[d]
      /\ GraphInv(c)'
  <2>1. CASE UNCHANGED <<node, task, unsaved>>
    BY <1>1, <1>4, <2>1 DEF GraphInv, Delivered, Shown
  <2>2. CASE ~UNCHANGED <<node, task, unsaved>>
    <3>1. /\ StillRuns(c, r, t) /\ Written(r, [u \in Tasks |-> "failed"], {t})
          /\ \A d \in Conductors : d # c => node'[d] = node[d]
          /\ \A u \in Tasks : node'[c][u] = IF Running(c, r, t) /\ u = t THEN "failed" ELSE node[c][u]
      BY <2>2, UnwindSettles
    <3>2. CASE Running(c, r, t)
      <4>1. stage[c] = "execute" /\ req[c] = r
        BY <3>2 DEF Running, Executes
      <4>2. Written(req[c], node'[c], {t})
        BY <3>1, <3>2, <4>1 DEF Written
      <4>3. QED
        BY <1>1, <3>1, <3>2, <4>1, <4>2, GraphInvOfWrite
    <3>3. CASE ~Running(c, r, t)
      <4>1. /\ \A u \in Tasks : node'[c][u] = node[c][u]
            /\ r \in amended \/ (~Executes(c, r) /\ outcome[r][t] = "running")
        BY <3>1, <3>3 DEF StillRuns
      <4>2. CASE stage[c] \in {"execute", "close"} /\ req[c] = r /\ r \notin amended
        <5>1. stage[c] = "close" /\ ~Delivered(r)
          BY <4>1, <4>2 DEF Executes, Delivered
        <5>2. QED
          BY <1>1, <1>4, <3>1, <4>1, <4>2, <5>1 DEF GraphInv
      <4>3. CASE stage[c] \in {"execute", "close"} /\ req[c] # r
        <5>1. Untouched(req[c])
          BY <1>1, <1>4, <4>3
        <5>2. QED
          BY <1>1, <1>4, <3>1, <4>1, <4>3, <5>1 DEF GraphInv, Delivered, Shown, Untouched
      <4>4. CASE stage[c] \notin {"execute", "close"} \/ req[c] \in amended
        BY <1>1, <1>4, <3>1, <4>1, <4>4 DEF GraphInv
      <4>5. QED
        BY <4>2, <4>3, <4>4
    <3>4. QED
      BY <3>1, <3>2, <3>3
  <2>3. QED
    BY <2>1, <2>2
<1>7. QED
  BY <1>1, <1>2, <1>3, <1>5, <1>6, RecordInvOfStep

\* So do all steps.
LEMMA RecordStep ==
    ASSUME TypeOK, LeaderInv, HandleInv, NewInv, RecordInv, RecoveryInv, DistinctIDs, [Next]_vars
    PROVE  RecordInv'
<1>0. \A c \in Conductors : stage[c] # "idle" => req[c] \in Requests
  BY HandledIsOne
<1>1. ASSUME UNCHANGED <<stage, req, node, first, verdict>>, UNCHANGED <<amended, outcome>>,
             UNCHANGED recordVars, ~lapsed' => ~lapsed, UNCHANGED placed
      PROVE  RecordInv'
  BY <1>1, RecordInvKept DEF recordVars
<1>2. CASE UNCHANGED vars \/ Elapse
  BY <1>1, <1>2 DEF vars, Elapse, handleVars, historyVars
<1>3. ASSUME NEW c \in Conductors,
             Start(c) \/ Setup(c) \/ StartFails(c) \/ Lead(c) \/ Beat(c) \/ Learn(c) \/ ReleaseLeader(c)
      PROVE  RecordInv'
  BY <1>1, <1>3 DEF Start, Setup, StartFails, Lead, Beat, Renew, RenewFails, Reacquire, Learn, ReleaseLeader,
                    handleVars, historyVars
<1>4. ASSUME NEW c \in Conductors, Reconcile(c)
      PROVE  RecordInv'
  <2>1. UNCHANGED handleVars /\ UNCHANGED historyVars /\ UNCHANGED placed /\ pc[c] \in Recovering
    BY <1>4 DEF Reconcile, ListRequests, ListTasks, ReleaseStale, InterruptTask, InterruptRequest, Recovering
  <2>2. ~lapsed => \A d \in Conductors : stage[d] = "idle"
    BY <2>1, RecoveryIsAlone
  <2>3. \A r \in Requests, t \in Tasks : lease'[r][t] \in {lease[r][t], None}
    <3>1. CASE ReleaseStale(c)
      <4>1. AtHand(c) \in Requests /\ Min(ToDo(c)) \in Tasks
        BY <3>1, AtHandIsLeft, ToDoIsATask DEF RecoveryInv, RecoveryOf, ReleaseStale
      <4>2. lease' = [lease EXCEPT ![AtHand(c)][Min(ToDo(c))] = None]
        BY <3>1 DEF ReleaseStale
      <4>3. QED
        BY <4>1, <4>2 DEF TypeOK, RecordTypeOK
    <3>2. CASE ~ReleaseStale(c)
      <4>1. UNCHANGED lease
        BY <1>4, <3>2 DEF Reconcile, ListRequests, ListTasks, InterruptTask, InterruptRequest, recordVars
      <4>2. QED
        BY <4>1
    <3>3. QED
      BY <3>1, <3>2
  <2>4. /\ UNCHANGED <<stage, req, node, first, verdict>> /\ UNCHANGED <<amended, placed>>
        /\ ~lapsed' => ~lapsed
    BY <2>1 DEF handleVars, historyVars
  <2>5. ASSUME NEW d \in Conductors
        PROVE  GraphInv(d)'
    <3>1. GraphInv(d)
      BY DEF RecordInv
    <3>2. lapsed' \/ stage[d] = "idle"
      BY <2>1, <2>2 DEF historyVars
    <3>3. QED
      BY <2>4, <3>1, <3>2, GraphInvKept
  <2>6. QED
    BY <2>3, <2>4, <2>5 DEF RecordInv
<1>5. ASSUME NEW c \in Conductors, Begin(c)
      PROVE  RecordInv'
  <2> DEFINE r == Min(Fresh)
  <2>1. r \in Requests /\ r \notin begun
    <3>1. Fresh \in SUBSET Nat /\ Fresh # {}
      BY <1>5, ConductorAssumption DEF Begin, Fresh
    <3>2. QED
      BY <3>1, MinOfSet DEF Fresh
  <2>2. \A t \in Tasks, d \in Conductors : <<r, t>> \notin placed[d]
    BY <2>1 DEF NewInv, New, Blank
  <2> HIDE DEF r
  <2>3. /\ req' = [req EXCEPT ![c] = r] /\ stage' = [stage EXCEPT ![c] = "clarify"]
        /\ UNCHANGED <<node, first, verdict>> /\ UNCHANGED <<amended, outcome, placed>>
        /\ UNCHANGED <<lease, task, unsaved>> /\ stage[c] = "idle"
    BY <1>5 DEF Begin, Enter, r, recordVars
  <2>4. ~lapsed' => ~lapsed
    BY <1>5 DEF Begin
  <2>5. /\ req'[c] = r /\ stage'[c] = "clarify"
        /\ \A d \in Conductors : d # c => req'[d] = req[d] /\ stage'[d] = stage[d]
    BY <2>3 DEF TypeOK, HandleTypeOK
  <2>6. ASSUME NEW d \in Conductors
        PROVE  GraphInv(d)'
    <3>1. GraphInv(d)
      BY DEF RecordInv
    <3>2. CASE d = c
      BY <2>3, <2>5, <3>1, <3>2 DEF GraphInv
    <3>3. CASE d # c
      BY <2>3, <2>4, <2>5, <3>1, <3>3 DEF GraphInv, Delivered, Shown
    <3>4. QED
      BY <3>2, <3>3
  <2>7. ASSUME NEW d \in Conductors, NEW e \in Conductors, NEW q \in Requests, NEW t \in Tasks,
               <<q, t>> \in placed[e], stage'[d] # "idle", req'[d] = q
        PROVE  d = e
    BY <2>2, <2>5, <2>7 DEF RecordInv
  <2>8. QED
    BY <2>3, <2>6, <2>7 DEF RecordInv
<1>6. ASSUME NEW c \in Conductors, Cancel(c) \/ Shutdown(c)
      PROVE  RecordInv'
  <2>1. UNCHANGED placed /\ UNCHANGED historyVars
    BY <1>6 DEF Cancel, Shutdown
  <2>2. CASE UNCHANGED handleVars /\ UNCHANGED recordVars
    BY <1>1, <2>1, <2>2 DEF handleVars, historyVars
  <2>3. ASSUME stage[c] # "idle", NEW lost \in SUBSET Active(c), CancelExecution(c, lost)
        PROVE  RecordInv'
    BY <2>1, <2>3, RecordCancel
  <2>4. QED
    BY <1>6, <2>2, <2>3, CancelOrNothing
<1>7. ASSUME NEW c \in Conductors, Restructure(c)
      PROVE  RecordInv'
  <2>1. /\ stage[c] = "execute" /\ amended' = amended \cup {req[c]}
        /\ UNCHANGED <<stage, req, verdict>> /\ UNCHANGED recordVars /\ UNCHANGED <<placed, lapsed, outcome>>
        /\ req[c] \in Requests /\ \A d \in Conductors : d # c => req[d] # req[c]
    BY <1>7, HandledIsOne DEF Restructure
  <2>2. \A d \in Conductors : d # c => node'[d] = node[d] /\ first'[d] = first[d]
    BY <1>7 DEF Restructure, TypeOK, HandleTypeOK
  <2>3. \A t \in Tasks : node'[c][t] \in {"completed", "pending", "none"}
    <3>1. PICK S \in Plans[req[c]] :
             node' = [node EXCEPT ![c] = [t \in Tasks |-> IF node[c][t] = "completed" THEN "completed"
                                                          ELSE Graph(S)[t]]]
      BY <1>7 DEF Restructure
    <3>2. QED
      BY <3>1 DEF Graph, TypeOK, HandleTypeOK
  <2>4. GraphInv(c)'
    BY <2>1, <2>3 DEF GraphInv
  <2>5. \A q \in Requests : Untouched(q)
    BY <2>1 DEF recordVars, Untouched
  <2>6. \A d \in Conductors, t \in Tasks :
           <<req[c], t>> \in placed'[d] => lease'[req[c]][t] \in {None, ConductorID[d]}
    BY <2>1 DEF RecordInv, recordVars
  <2>7. QED
    BY <2>1, <2>2, <2>4, <2>5, <2>6, RecordInvOfStep
<1>8. ASSUME NEW c \in Conductors, Exit(c) \/ Crash(c)
      PROVE  RecordInv'
  <2>1. Gone(c)
    BY <1>8 DEF Exit, Crash
  <2>2. /\ Leave(c) /\ UNCHANGED <<task, unsaved, lease>> /\ UNCHANGED <<amended, outcome, lapsed>>
        /\ UNCHANGED req
        /\ \A d \in Conductors : placed'[d] \subseteq placed[d]
    BY <2>1 DEF Gone, recordVars, historyVars, TypeOK
  <2>3. GraphInv(c)' /\ stage'[c] = "idle"
    BY <2>2, GraphInvOfLeave
  <2>4. \A d \in Conductors : d # c => /\ stage'[d] = stage[d] /\ node'[d] = node[d]
                                       /\ first'[d] = first[d] /\ verdict'[d] = verdict[d]
    BY <2>2 DEF Leave, Enter, TypeOK, HandleTypeOK
  <2>5. \A d \in Conductors : GraphInv(d)'
    <3>1. ASSUME NEW d \in Conductors, d # c
          PROVE  GraphInv(d)'
      BY <2>2, <2>4, <3>1 DEF RecordInv, GraphInv, Delivered, Shown
    <3>2. QED
      BY <2>3, <3>1
  <2>6. ASSUME NEW d \in Conductors, NEW e \in Conductors, NEW q \in Requests, NEW t \in Tasks,
               <<q, t>> \in placed'[e], stage'[d] # "idle", req[d] = q
        PROVE  d = e
    BY <2>2, <2>3, <2>4, <2>6 DEF RecordInv
  <2>7. QED
    BY <2>2, <2>5, <2>6 DEF RecordInv
<1>9. QED
  BY <1>2, <1>3, <1>4, <1>5, <1>6, <1>7, <1>8, RecordHandle, RecordUnwind DEF Next, Starting

-----------------------------------------------------------------------------
(* The recovery.                                                            *)

\* A step that is not of the recovery of c.
LEMMA RecoveryKept ==
    ASSUME TypeOK, NEW c \in Conductors, RecoveryOf(c),
           found'[c] = found[c], left'[c] = left[c], seen'[c] = seen[c],
           \/ pc'[c] = pc[c]
           \/ pc'[c] \notin Settling \cup {"setup"} /\ (pc'[c] = "serve" => pc[c] = "setup"),
           \A r \in Requests : state[r] # "none" => /\ state'[r] # "none"
                                                    /\ state[r] # "running" => state'[r] # "running",
           ~lapsed' => ~lapsed,
           ~lapsed' /\ pc[c] \in Settling => UNCHANGED state,
           ~lapsed' /\ pc[c] \in Settling =>
               \A r \in Requests, t \in Tasks : /\ lease'[r][t] \in {lease[r][t], None}
                                                /\ \/ task'[r][t] = task[r][t]
                                                   \/ ~Recoverable(task'[r][t]) /\ lease'[r][t] = None
    PROVE  RecoveryOf(c)'
<1>1. ToDo(c)' = ToDo(c) /\ AtHand(c)' = AtHand(c)
  BY DEF ToDo, AtHand
<1>2. found[c] \subseteq Requests
  BY DEF TypeOK, StartTypeOK
<1>3. pc[c] \in {"release", "mark", "settle"} => AtHand(c) \in Requests
  BY AtHandIsLeft DEF RecoveryOf
<1>4. pc[c] \in {"release", "mark"} => Min(ToDo(c)) \in Tasks
  BY ToDoIsATask DEF RecoveryOf
<1>5. /\ \A r \in found[c] : state'[r] # "none"
      /\ pc'[c] \in Settling \cup {"setup", "serve"} =>
            \A r \in found[c] : state'[r] # "running" \/ (r \in left[c] /\ pc'[c] \in Settling)
  BY <1>2 DEF RecoveryOf, Settling
<1>6. /\ pc'[c] \in {"release", "mark", "settle"} => left[c] # {}
      /\ pc'[c] \in {"release", "mark"} => ToDo(c) # {}
      /\ pc'[c] = "settle" => ToDo(c) = {}
  BY DEF RecoveryOf, Settling
<1>7. ASSUME ~lapsed', pc'[c] \in Settling
      PROVE  /\ \A r \in left[c] : state'[r] = "running"
             /\ pc'[c] \in {"release", "mark", "settle"} => \A t \in Tasks :
                   /\ seen[c][t] = "none" => AtRest(AtHand(c), t)'
                   /\ seen[c][t] # "none" /\ Recoverable(task'[AtHand(c)][t]) => Recoverable(seen[c][t])
             /\ pc'[c] = "mark" => lease'[AtHand(c)][Min(ToDo(c))] = None
  <2>1. pc'[c] = pc[c] /\ ~lapsed
    BY <1>7
  <2>2. \A r \in left[c] : state'[r] = "running"
    BY <1>7, <2>1 DEF RecoveryOf
  <2>3. ASSUME pc[c] \in {"release", "mark", "settle"}, NEW t \in Tasks
        PROVE  /\ seen[c][t] = "none" => AtRest(AtHand(c), t)'
               /\ seen[c][t] # "none" /\ Recoverable(task'[AtHand(c)][t]) => Recoverable(seen[c][t])
    <3>1. /\ lease'[AtHand(c)][t] \in {lease[AtHand(c)][t], None}
          /\ \/ task'[AtHand(c)][t] = task[AtHand(c)][t]
             \/ ~Recoverable(task'[AtHand(c)][t]) /\ lease'[AtHand(c)][t] = None
      BY <1>3, <1>7, <2>1, <2>3
    <3>2. /\ seen[c][t] = "none" => AtRest(AtHand(c), t)
          /\ seen[c][t] # "none" /\ Recoverable(task[AtHand(c)][t]) => Recoverable(seen[c][t])
      BY <2>1, <2>3 DEF RecoveryOf
    <3>3. QED
      BY <1>1, <3>1, <3>2 DEF AtRest, Recoverable
  <2>4. pc[c] = "mark" => lease'[AtHand(c)][Min(ToDo(c))] = None
    BY <1>3, <1>4, <1>7, <2>1 DEF RecoveryOf, Settling
  <2>5. QED
    BY <2>1, <2>2, <2>3, <2>4
<1>8. QED
  BY <1>1, <1>5, <1>6, <1>7 DEF RecoveryOf, Settling

\* The recovery goes on to the next task.
LEMMA NextTaskStep ==
    ASSUME TypeOK, NEW c \in Conductors, ToDo(c) # {}, NextTask(c)
    PROVE  /\ ToDo(c)' = ToDo(c) \ {Min(ToDo(c))}
           /\ pc'[c] = IF ToDo(c)' = {} THEN "settle" ELSE "release"
           /\ seen'[c] = [seen[c] EXCEPT ![Min(ToDo(c))] = "none"]
           /\ \A d \in Conductors : d # c => pc'[d] = pc[d] /\ seen'[d] = seen[d]
<1> DEFINE u == Min(ToDo(c))
<1>1. u \in ToDo(c) /\ u \in Tasks
  BY ToDoIsATask
<1>2. seen' = [seen EXCEPT ![c][u] = "none"]
  BY DEF NextTask
<1>3. pc' = [pc EXCEPT ![c] = IF Cardinality(ToDo(c)) = 1 THEN "settle" ELSE "release"]
  BY DEF NextTask, Go
<1> HIDE DEF u
<1>4. /\ seen'[c] = [seen[c] EXCEPT ![u] = "none"]
      /\ \A d \in Conductors : d # c => seen'[d] = seen[d]
  BY <1>2 DEF TypeOK, StartTypeOK
<1>5. ToDo(c)' = ToDo(c) \ {u}
  BY <1>1, <1>4 DEF ToDo, TypeOK, StartTypeOK
<1>6. Cardinality(ToDo(c)) = 1 <=> ToDo(c)' = {}
  <2>1. IsFiniteSet(ToDo(c))
    BY ConductorAssumption, FS_Subset DEF ToDo
  <2>2. Cardinality(ToDo(c)) = 1 <=> \E x \in ToDo(c) : ToDo(c) = {x}
    BY <2>1, FS_Singleton
  <2>3. QED
    BY <1>1, <1>5, <2>2
<1>7. QED
  BY <1>3, <1>4, <1>5, <1>6 DEF u, TypeOK, StartTypeOK

\* The recovery of c itself.
LEMMA RecoveryOwnStep ==
    ASSUME TypeOK, RecordInv, NEW c \in Conductors, RecoveryOf(c), Reconcile(c)
    PROVE  RecoveryOf(c)'
<1>0. found[c] \subseteq Requests /\ left[c] \subseteq Requests
  BY DEF TypeOK, StartTypeOK
<1>1. CASE ListRequests(c)
  <2>1. /\ found'[c] = {r \in Requests : state[r] = "running"} /\ left'[c] = found'[c]
        /\ pc'[c] = "next" /\ UNCHANGED state
    BY <1>1 DEF ListRequests, Go, TypeOK, StartTypeOK, recordVars
  <2>2. QED
    BY <2>1 DEF RecoveryOf, Settling
<1>2. CASE ListTasks(c) /\ left[c] = {}
  <2>1. /\ pc'[c] = "setup" /\ pc[c] = "next" /\ UNCHANGED <<found, left>> /\ UNCHANGED state
    BY <1>2 DEF ListTasks, Go, TypeOK, StartTypeOK, recordVars
  <2>2. QED
    BY <1>2, <2>1 DEF RecoveryOf, Settling
<1>3. CASE ListTasks(c) /\ left[c] # {}
  <2>1. /\ seen'[c] = task[AtHand(c)] /\ pc'[c] = IF ToDo(c)' = {} THEN "settle" ELSE "release"
        /\ pc[c] = "next" /\ UNCHANGED <<found, left>> /\ UNCHANGED recordVars
        /\ ~lapsed' => ~lapsed
    BY <1>3 DEF ListTasks, Go, TypeOK, StartTypeOK, historyVars
  <2>2. AtHand(c) \in Requests /\ AtHand(c)' = AtHand(c)
    BY <1>3, <2>1, AtHandIsLeft DEF AtHand
  <2>3. ASSUME NEW t \in Tasks, seen'[c][t] = "none"
        PROVE  AtRest(AtHand(c), t)'
    BY <2>1, <2>2, <2>3 DEF AtRest, recordVars
  <2>4. QED
    BY <1>3, <2>1, <2>2, <2>3 DEF RecoveryOf, Settling, recordVars
<1>4. CASE ReleaseStale(c)
  <2> DEFINE u == Min(ToDo(c))
  <2>1. /\ pc[c] = "release" /\ left[c] # {} /\ ToDo(c) # {}
        /\ AtHand(c) \in Requests /\ u \in ToDo(c) /\ u \in Tasks
    BY <1>4, AtHandIsLeft, ToDoIsATask DEF ReleaseStale, RecoveryOf
  <2>2. /\ lease' = [lease EXCEPT ![AtHand(c)][u] = None]
        /\ UNCHANGED <<found, left>> /\ UNCHANGED <<state, task>> /\ (~lapsed' => ~lapsed)
    BY <1>4 DEF ReleaseStale, historyVars
  <2>3. AtHand(c)' = AtHand(c)
    BY <2>2 DEF AtHand
  <2>4. IF Recoverable(seen[c][u]) THEN pc'[c] = "mark" /\ seen'[c] = seen[c] ELSE NextTask(c)
    BY <1>4 DEF ReleaseStale, Go, TypeOK, StartTypeOK
  <2>5. /\ lease'[AtHand(c)][u] = None
        /\ \A t \in Tasks : t # u => lease'[AtHand(c)][t] = lease[AtHand(c)][t]
    BY <2>1, <2>2 DEF TypeOK, RecordTypeOK
  <2>6. CASE Recoverable(seen[c][u])
    <3>1. pc'[c] = "mark" /\ seen'[c] = seen[c] /\ ToDo(c)' = ToDo(c)
      BY <2>4, <2>6 DEF ToDo
    <3>2. ASSUME NEW t \in Tasks, seen[c][t] = "none"
          PROVE  t # u
      BY <2>1, <3>2 DEF ToDo
    <3>3. Min(ToDo(c))' = u
      BY <3>1
    <3> HIDE DEF u
    <3>4. QED
      BY <2>1, <2>2, <2>3, <2>5, <3>1, <3>2, <3>3 DEF RecoveryOf, Settling, AtRest
  <2>7. CASE ~Recoverable(seen[c][u])
    <3>1. /\ ToDo(c)' = ToDo(c) \ {u} /\ pc'[c] = IF ToDo(c)' = {} THEN "settle" ELSE "release"
          /\ seen'[c] = [seen[c] EXCEPT ![u] = "none"]
      BY <2>1, <2>4, <2>7, NextTaskStep
    <3>2. \A t \in Tasks : seen'[c][t] = IF t = u THEN "none" ELSE seen[c][t]
      BY <2>1, <3>1 DEF TypeOK, StartTypeOK
    <3>3. seen[c][u] # "none"
      BY <2>1 DEF ToDo
    <3> HIDE DEF u
    <3>4. QED
      BY <2>1, <2>2, <2>3, <2>5, <2>7, <3>1, <3>2, <3>3 DEF RecoveryOf, Settling, AtRest, Recoverable
  <2>8. QED
    BY <2>6, <2>7
<1>5. CASE InterruptTask(c)
  <2> DEFINE u == Min(ToDo(c))
  <2>1. /\ pc[c] = "mark" /\ left[c] # {} /\ ToDo(c) # {}
        /\ AtHand(c) \in Requests /\ u \in ToDo(c) /\ u \in Tasks
    BY <1>5, AtHandIsLeft, ToDoIsATask DEF InterruptTask, RecoveryOf
  <2>2. /\ task' = [task EXCEPT ![AtHand(c)][u] = "interrupted"]
        /\ UNCHANGED <<found, left>> /\ UNCHANGED <<state, lease>> /\ (~lapsed' => ~lapsed)
        /\ NextTask(c)
    BY <1>5 DEF InterruptTask, historyVars
  <2>3. AtHand(c)' = AtHand(c)
    BY <2>2 DEF AtHand
  <2>4. \A t \in Tasks : task'[AtHand(c)][t] = IF t = u THEN "interrupted" ELSE task[AtHand(c)][t]
    BY <2>1, <2>2 DEF TypeOK, RecordTypeOK
  <2>5. /\ ToDo(c)' = ToDo(c) \ {u} /\ pc'[c] = IF ToDo(c)' = {} THEN "settle" ELSE "release"
        /\ seen'[c] = [seen[c] EXCEPT ![u] = "none"]
    BY <2>1, <2>2, NextTaskStep
  <2>6. \A t \in Tasks : seen'[c][t] = IF t = u THEN "none" ELSE seen[c][t]
    BY <2>1, <2>5 DEF TypeOK, StartTypeOK
  <2>7. ~lapsed => lease[AtHand(c)][u] = None
    BY <2>1 DEF RecoveryOf
  <2>8. ~Recoverable("interrupted")
    BY DEF Recoverable
  <2> HIDE DEF u
  <2>9. QED
    BY <2>1, <2>2, <2>3, <2>4, <2>5, <2>6, <2>7, <2>8 DEF RecoveryOf, Settling, AtRest, Recoverable
<1>6. CASE InterruptRequest(c)
  <2>1. /\ state' = [state EXCEPT ![AtHand(c)] = "interrupted"] /\ UNCHANGED <<found, seen>>
        /\ left'[c] = left[c] \ {AtHand(c)} /\ pc[c] = "settle" /\ pc'[c] = "next"
        /\ ~lapsed' => ~lapsed
    BY <1>6 DEF InterruptRequest, Go, TypeOK, StartTypeOK, historyVars
  <2>2. \A r \in Requests : state'[r] = IF r = AtHand(c) THEN "interrupted" ELSE state[r]
    BY <2>1 DEF TypeOK, RecordTypeOK
  <2>3. QED
    BY <1>0, <2>1, <2>2 DEF RecoveryOf, Settling
<1>7. QED
  BY <1>1, <1>2, <1>3, <1>4, <1>5, <1>6 DEF Reconcile

\* What handlers write of the state of a request.
LEMMA StateOfHandling ==
    ASSUME TypeOK, HandleInv, NewInv, NEW c \in Conductors, Handling(c)
    PROVE  /\ \A r \in Requests : r # req[c] => state'[r] = state[r]
           /\ state'[req[c]] = state[req[c]] \/ state'[req[c]] \in {"running"} \cup Ended
           /\ state'[req[c]] = "running" => state[req[c]] \in {"running", "none"}
           /\ state'[req[c]] = "completed" /\ state[req[c]] # "completed" =>
                 stage[c] = "close" /\ verdict[c] = "completed" /\ UNCHANGED <<task, unsaved, outcome>>
<1>0. stage[c] # "idle"
  BY DEF Handling, Disambiguate, UserAnswers, WaitForKnowledge, Decompose, Record, Executing, Dispatch,
         Place, LoseLease, Result, Return, Close
<1>1. req[c] \in Requests
  BY <1>0, HandledIsOne
<1>2. CASE Record(c)
  <2>1. state[req[c]] = "none"
    BY <1>1, <1>2 DEF Record, NewInv, New, Blank, Unwritten
  <2>2. state' = state \/ state' = [state EXCEPT ![req[c]] = "running"]
    BY <1>2 DEF Record
  <2>3. QED
    BY <1>1, <2>1, <2>2 DEF TypeOK, RecordTypeOK, Ended
<1>3. CASE Close(c)
  <2>1. verdict[c] \in Ended /\ stage[c] = "close" /\ UNCHANGED <<task, unsaved, outcome>>
    BY <1>3 DEF Close, HandleInv, historyVars
  <2>2. state' = state \/ state' = [state EXCEPT ![req[c]] = verdict[c]]
    BY <1>3 DEF Close
  <2>3. QED
    BY <1>1, <2>1, <2>2 DEF TypeOK, RecordTypeOK, Ended
<1>4. CASE ~(Record(c) \/ Close(c))
  <2>1. UNCHANGED state
    BY <1>4 DEF Handling, Disambiguate, UserAnswers, WaitForKnowledge, Decompose, Executing, Dispatch,
                Place, LoseLease, Result, Return, recordVars
  <2>2. QED
    BY <2>1
<1>5. QED
  BY <1>2, <1>3, <1>4

\* Every step leaves a recovery where it is or takes it further.
LEMMA RecoveryStep ==
    ASSUME TypeOK, LeaderInv, HandleInv, NewInv, RecordInv, RecoveryInv, DistinctIDs, [Next]_vars
    PROVE  RecoveryInv'
<1> SUFFICES ASSUME NEW c \in Conductors
             PROVE  RecoveryOf(c)'
  BY DEF RecoveryInv
<1>0. RecoveryOf(c)
  BY DEF RecoveryInv
<1>1. ASSUME UNCHANGED <<found, left, seen>>, UNCHANGED recordVars, ~lapsed' => ~lapsed,
             \/ pc'[c] = pc[c]
             \/ pc'[c] \notin Settling \cup {"setup"} /\ (pc'[c] = "serve" => pc[c] = "setup")
      PROVE  RecoveryOf(c)'
  BY <1>0, <1>1, RecoveryKept DEF recordVars
<1>2. CASE UNCHANGED vars \/ Elapse
  BY <1>1, <1>2 DEF vars, Elapse, startVars, historyVars
<1>3. ASSUME NEW d \in Conductors,
             Start(d) \/ Setup(d) \/ StartFails(d) \/ Beat(d) \/ Learn(d) \/ ReleaseLeader(d)
      PROVE  RecoveryOf(c)'
  <2>1. \/ pc'[c] = pc[c]
        \/ pc'[c] \notin Settling \cup {"setup"} /\ (pc'[c] = "serve" => pc[c] = "setup")
    <3>1. CASE Start(d) \/ Setup(d) \/ StartFails(d) \/ ReleaseLeader(d)
      <4>1. \/ pc[d] = "setup" /\ pc' = [pc EXCEPT ![d] = "serve"]
            \/ \E place \in {"acquire", "leave", "exit"} : pc' = [pc EXCEPT ![d] = place]
        BY <3>1 DEF Start, Setup, StartFails, ReleaseLeader, Go
      <4>2. QED
        BY <4>1 DEF Settling, TypeOK, StartTypeOK
    <3>2. CASE Beat(d) \/ Learn(d)
      BY <3>2 DEF Beat, Renew, RenewFails, Reacquire, Learn, startVars
    <3>3. QED
      BY <1>3, <3>1, <3>2
  <2>2. UNCHANGED <<found, left, seen>> /\ UNCHANGED recordVars
    BY <1>3 DEF Start, Setup, StartFails, Beat, Renew, RenewFails, Reacquire, Learn, ReleaseLeader, startVars
  <2>3. ~lapsed' => ~lapsed
    BY <1>3 DEF Start, Setup, StartFails, Beat, Renew, RenewFails, Reacquire, Learn, ReleaseLeader, historyVars
  <2>4. QED
    BY <1>1, <2>1, <2>2, <2>3
<1>4. ASSUME NEW d \in Conductors, Lead(d)
      PROVE  RecoveryOf(c)'
  <2>1. UNCHANGED <<found, left, seen>> /\ UNCHANGED recordVars /\ (~lapsed' => ~lapsed)
    BY <1>4 DEF Lead, historyVars
  <2>2. pc'[c] = pc[c] \/ pc'[c] \in {"leave", "list"}
    BY <1>4 DEF Lead, Go, TypeOK, StartTypeOK
  <2>3. QED
    BY <1>1, <2>1, <2>2 DEF Settling
<1>5. CASE Reconcile(c)
  BY <1>0, <1>5, RecoveryOwnStep
<1>6. ASSUME NEW d \in Conductors, d # c, Reconcile(d)
      PROVE  RecoveryOf(c)'
  <2>1. /\ pc'[c] = pc[c] /\ found'[c] = found[c] /\ left'[c] = left[c] /\ seen'[c] = seen[c]
        /\ pc[d] \in Recovering /\ UNCHANGED historyVars
    BY <1>6 DEF Reconcile, ListRequests, ListTasks, ReleaseStale, InterruptTask, InterruptRequest, NextTask,
                Go, Recovering, TypeOK, StartTypeOK
  <2>2. UNCHANGED state \/ state' = [state EXCEPT ![AtHand(d)] = "interrupted"]
    BY <1>6 DEF Reconcile, ListRequests, ListTasks, ReleaseStale, InterruptTask, InterruptRequest, recordVars
  <2>3. \A r \in Requests : state'[r] \in {state[r], "interrupted"}
    BY <2>2 DEF TypeOK, RecordTypeOK
  <2>4. ~lapsed' => ~lapsed /\ pc[c] \notin Settling
    <3>1. ~lapsed' => ~lapsed
      BY <2>1 DEF historyVars
    <3>2. ~lapsed => pc[c] \notin Recovering
      BY <1>6, <2>1, RecoveryIsAlone
    <3>3. QED
      BY <3>1, <3>2 DEF Recovering, Settling
  <2>5. QED
    BY <1>0, <2>1, <2>3, <2>4, RecoveryKept
<1>7. ASSUME NEW d \in Conductors, Begin(d) \/ Restructure(d)
      PROVE  RecoveryOf(c)'
  BY <1>1, <1>7 DEF Begin, Restructure, startVars
<1>8. ASSUME NEW d \in Conductors, Handling(d)
      PROVE  RecoveryOf(c)'
  <2>1. UNCHANGED startVars /\ UNCHANGED lapsed /\ stage[d] # "idle" /\ req[d] \in Requests
    BY <1>8, HandlingKeepsLease, HandlingTouchesItsOwn DEF Handling, Disambiguate, UserAnswers, WaitForKnowledge,
       Decompose, Record, Executing, Dispatch, Place, LoseLease, Result, Return, Close
  <2>2. \A r \in Requests : state[r] # "none" => /\ state'[r] # "none"
                                                 /\ state[r] # "running" => state'[r] # "running"
    BY <1>8, <2>1, StateOfHandling DEF Ended
  <2>3. ~lapsed' => ~lapsed /\ pc[c] \notin Settling
    <3>1. ~lapsed' => ~lapsed
      BY <2>1
    <3>2. ~lapsed => pc[c] \notin Recovering
      BY <2>1, RecoveryIsAlone
    <3>3. QED
      BY <3>1, <3>2 DEF Recovering, Settling
  <2>4. QED
    BY <1>0, <2>1, <2>2, <2>3, RecoveryKept DEF startVars
<1>9. ASSUME NEW d \in Conductors, stage[d] # "idle", NEW lost \in SUBSET Active(d),
             CancelExecution(d, lost), UNCHANGED historyVars,
             UNCHANGED <<found, left, seen>>, pc'[c] = pc[c] \/ pc'[c] = "leave"
      PROVE  RecoveryOf(c)'
  <2>1. UNCHANGED state
    BY <1>9 DEF CancelExecution
  <2>2. ~lapsed' => ~lapsed /\ pc[c] \notin Settling
    <3>1. ~lapsed' => ~lapsed
      BY <1>9 DEF historyVars
    <3>2. ~lapsed => pc[c] \notin Recovering
      BY <1>9, RecoveryIsAlone
    <3>3. QED
      BY <3>1, <3>2 DEF Recovering, Settling
  <2>3. QED
    BY <1>0, <1>9, <2>1, <2>2, RecoveryKept DEF Settling
<1>10. ASSUME NEW d \in Conductors, Cancel(d) \/ Shutdown(d)
       PROVE  RecoveryOf(c)'
  <2>1. UNCHANGED <<found, left, seen>> /\ UNCHANGED historyVars /\ (pc'[c] = pc[c] \/ pc'[c] = "leave")
    BY <1>10 DEF Cancel, Shutdown, startVars, Go, TypeOK, StartTypeOK
  <2>2. CASE UNCHANGED recordVars
    BY <1>1, <2>1, <2>2 DEF Settling, historyVars
  <2>3. QED
    BY <1>9, <1>10, <2>1, <2>2, CancelOrNothing
<1>11. ASSUME NEW d \in Conductors, NEW r \in Requests, NEW t \in Tasks, Unwind(d, r, t)
       PROVE  RecoveryOf(c)'
  <2>1. UNCHANGED startVars /\ UNCHANGED state /\ UNCHANGED historyVars
    BY <1>11, UnwindSettles
  <2>2. \A q \in Requests, u \in Tasks : /\ lease'[q][u] \in {lease[q][u], None}
                                         /\ \/ task'[q][u] = task[q][u]
                                            \/ ~Recoverable(task'[q][u]) /\ lease'[q][u] = None
    BY <1>11, UnwindSettles DEF Recoverable
  <2>3. ~lapsed' => ~lapsed
    BY <2>1 DEF historyVars
  <2>4. QED
    BY <1>0, <2>1, <2>2, <2>3, RecoveryKept DEF startVars
<1>12. ASSUME NEW d \in Conductors, Exit(d) \/ Crash(d)
       PROVE  RecoveryOf(c)'
  <2>1. UNCHANGED recordVars /\ UNCHANGED historyVars
    BY <1>12 DEF Exit, Crash, Gone
  <2>2. CASE d = c
    <3>1. pc'[c] = "off" /\ found'[c] = {} /\ left'[c] = {}
      BY <1>12, <2>2 DEF Exit, Crash, Gone, Go, TypeOK, StartTypeOK
    <3>2. QED
      BY <3>1 DEF RecoveryOf, Settling
  <2>3. CASE d # c
    <3>1. pc'[c] = pc[c] /\ found'[c] = found[c] /\ left'[c] = left[c] /\ seen'[c] = seen[c]
      BY <1>12, <2>3 DEF Exit, Crash, Gone, Go, TypeOK, StartTypeOK
    <3>2. ~lapsed' => ~lapsed
      BY <2>1 DEF historyVars
    <3>3. QED
      BY <1>0, <2>1, <3>1, <3>2, RecoveryKept DEF recordVars
  <2>4. QED
    BY <2>2, <2>3
<1>13. QED
  BY <1>2, <1>3, <1>4, <1>5, <1>6, <1>7, <1>8, <1>10, <1>11, <1>12 DEF Next, Starting

-----------------------------------------------------------------------------
(* The properties.                                                          *)

\* Handlers, the recovery and dispatches that unwind keep what is at rest.
LEMMA RestStep ==
    ASSUME TypeOK, LeaderInv, HandleInv, NewInv, RecordInv, RecoveryInv, RecoveredIsAtRest, DistinctIDs,
           [Next]_vars,
           RecoveryInv'
    PROVE  RecoveredIsAtRest'
<1> DEFINE Settled(r) == state[r] = "interrupted" /\ ~lapsed => \A t \in Tasks : AtRest(r, t)
<1>1. \A c \in Conductors : \A r \in found'[c] : pc'[c] \in {"setup", "serve"} => state'[r] # "running"
  BY DEF RecoveryInv, RecoveryOf, Settling
<1>2. \A r \in Requests : Settled(r)
  BY DEF RecoveredIsAtRest
<1>3. SUFFICES ASSUME NEW r \in Requests
               PROVE  Settled(r)'
  BY <1>1 DEF RecoveredIsAtRest
<1>4. ASSUME UNCHANGED recordVars, ~lapsed' => ~lapsed
      PROVE  Settled(r)'
  BY <1>2, <1>4 DEF recordVars, AtRest
<1>5. CASE UNCHANGED vars \/ Elapse
  BY <1>4, <1>5 DEF vars, Elapse, historyVars
<1>6. ASSUME NEW c \in Conductors,
             \/ Start(c) \/ Setup(c) \/ StartFails(c) \/ Lead(c) \/ Beat(c) \/ Learn(c) \/ ReleaseLeader(c)
             \/ Begin(c) \/ Restructure(c) \/ Exit(c) \/ Crash(c)
      PROVE  Settled(r)'
  <2>1. UNCHANGED recordVars
    BY <1>6 DEF Start, Setup, StartFails, Lead, Beat, Renew, RenewFails, Reacquire, Learn, ReleaseLeader,
                Begin, Restructure, Exit, Crash, Gone
  <2>2. ~lapsed' => ~lapsed
    BY <1>6 DEF Start, Setup, StartFails, Lead, Beat, Renew, RenewFails, Reacquire, Learn, ReleaseLeader,
                Begin, Restructure, Exit, Crash, Gone, historyVars
  <2>3. QED
    BY <1>4, <2>1, <2>2
<1>7. ASSUME NEW c \in Conductors, Reconcile(c)
      PROVE  Settled(r)'
  <2>1. RecoveryOf(c) /\ UNCHANGED lapsed
    BY <1>7 DEF RecoveryInv, Reconcile, ListRequests, ListTasks, ReleaseStale, InterruptTask,
                InterruptRequest, historyVars
  <2>2. CASE ListRequests(c) \/ ListTasks(c)
    BY <1>4, <2>1, <2>2 DEF ListRequests, ListTasks
  <2>3. CASE ReleaseStale(c) \/ InterruptTask(c)
    <3>1. /\ AtHand(c) \in Requests /\ Min(ToDo(c)) \in Tasks
          /\ ~lapsed => state[AtHand(c)] = "running"
      BY <2>1, <2>3, AtHandIsLeft, ToDoIsATask DEF ReleaseStale, InterruptTask, RecoveryOf, Settling
    <3>2. /\ UNCHANGED state
          /\ lease' = lease \/ lease' = [lease EXCEPT ![AtHand(c)][Min(ToDo(c))] = None]
          /\ task' = task \/ task' = [task EXCEPT ![AtHand(c)][Min(ToDo(c))] = "interrupted"]
      BY <2>3 DEF ReleaseStale, InterruptTask
    <3>3. ASSUME NEW t \in Tasks
          PROVE  lease'[r][t] \in {lease[r][t], None}
      BY <3>1, <3>2 DEF TypeOK, RecordTypeOK
    <3>4. r # AtHand(c) => task'[r] = task[r]
      BY <3>2 DEF TypeOK, RecordTypeOK
    <3>5. QED
      BY <1>2, <2>1, <3>1, <3>2, <3>3, <3>4 DEF AtRest
  <2>4. CASE InterruptRequest(c)
    <3>1. AtHand(c) \in Requests /\ pc[c] = "settle" /\ ToDo(c) = {}
      BY <2>1, <2>4, AtHandIsLeft DEF InterruptRequest, RecoveryOf
    <3>2. ~lapsed => \A t \in Tasks : AtRest(AtHand(c), t)
      BY <2>1, <3>1 DEF RecoveryOf, ToDo
    <3>3. /\ state' = [state EXCEPT ![AtHand(c)] = "interrupted"]
          /\ UNCHANGED <<task, lease>>
      BY <2>4 DEF InterruptRequest
    <3>4. r # AtHand(c) => state'[r] = state[r]
      BY <3>3 DEF TypeOK, RecordTypeOK
    <3>5. QED
      BY <1>2, <2>1, <3>2, <3>3, <3>4 DEF AtRest
  <2>5. QED
    BY <1>7, <2>2, <2>3, <2>4 DEF Reconcile
<1>8. ASSUME NEW c \in Conductors, Handling(c)
      PROVE  Settled(r)'
  <2>1. /\ UNCHANGED lapsed /\ req[c] \in Requests
        /\ ~lapsed => state[req[c]] \in {"none", "running"}
    BY <1>8, HandlingKeepsLease, HandlingTouchesItsOwn
       DEF HandleInv, Handling, Disambiguate, UserAnswers, WaitForKnowledge, Decompose, Record, Executing,
           Dispatch, Place, LoseLease, Result, Return, Close
  <2>2. CASE r = req[c]
    <3>1. ~lapsed => state'[r] # "interrupted"
      BY <1>8, <2>1, <2>2, StateOfHandling DEF Ended
    <3>2. QED
      BY <2>1, <3>1
  <2>3. CASE r # req[c]
    <3>1. state'[r] = state[r] /\ task'[r] = task[r] /\ lease'[r] = lease[r]
      BY <1>8, <2>3, StateOfHandling, HandlingTouchesItsOwn DEF Untouched
    <3>2. QED
      BY <1>2, <2>1, <3>1 DEF AtRest
  <2>4. QED
    BY <2>2, <2>3
<1>9. ASSUME NEW c \in Conductors, stage[c] # "idle", NEW lost \in SUBSET Active(c),
             CancelExecution(c, lost), UNCHANGED historyVars
      PROVE  Settled(r)'
  <2>1. (~lapsed => state[req[c]] \in {"none", "running"}) /\ UNCHANGED <<outcome, amended, lapsed>>
    BY <1>9 DEF HandleInv, historyVars
  <2>2. UNCHANGED <<state, lease>> /\ (r # req[c] => Untouched(r))
    BY <1>9, <2>1, CancelTouchesItsOwn
  <2>3. CASE r = req[c]
    BY <2>1, <2>2, <2>3
  <2>4. CASE r # req[c]
    BY <1>2, <2>1, <2>2, <2>4 DEF AtRest, Untouched
  <2>5. QED
    BY <2>3, <2>4
<1>10. ASSUME NEW c \in Conductors, Cancel(c) \/ Shutdown(c)
       PROVE  Settled(r)'
  <2>1. UNCHANGED historyVars
    BY <1>10 DEF Cancel, Shutdown
  <2>2. CASE UNCHANGED recordVars
    BY <1>4, <2>1, <2>2 DEF historyVars
  <2>3. QED
    BY <1>9, <1>10, <2>1, <2>2, CancelOrNothing
<1>11. ASSUME NEW c \in Conductors, NEW q \in Requests, NEW t \in Tasks, Unwind(c, q, t)
       PROVE  Settled(r)'
  <2>1. /\ UNCHANGED state /\ UNCHANGED lapsed
        /\ \A u \in Tasks : /\ lease'[r][u] \in {lease[r][u], None}
                            /\ task'[r][u] = task[r][u] \/ (task'[r][u] = "failed" /\ lease'[r][u] = None)
    BY <1>11, UnwindSettles DEF historyVars
  <2>2. QED
    BY <1>2, <2>1 DEF AtRest
<1>12. QED
  BY <1>5, <1>6, <1>7, <1>8, <1>10, <1>11 DEF Next, Starting

\* Nobody but the handler that closes a request completes it, and nobody changes its tasks after.
LEMMA DeliveredStep ==
    ASSUME TypeOK, LeaderInv, HandleInv, NewInv, RecordInv, RecoveryInv, CompletedIsDelivered, DistinctIDs,
           [Next]_vars
    PROVE  CompletedIsDelivered'
<1> DEFINE Done(r) == state[r] = "completed" /\ r \notin amended /\ ~lapsed => Delivered(r)
<1>1. \A r \in Requests : Done(r)
  BY DEF CompletedIsDelivered
<1>2. SUFFICES ASSUME NEW r \in Requests
               PROVE  Done(r)'
  BY DEF CompletedIsDelivered
<1>3. ASSUME UNCHANGED recordVars, UNCHANGED outcome, ~lapsed' => ~lapsed, amended \subseteq amended'
      PROVE  Done(r)'
  BY <1>1, <1>3 DEF recordVars, Delivered
<1>4. CASE UNCHANGED vars \/ Elapse
  BY <1>3, <1>4 DEF vars, Elapse, historyVars
<1>5. ASSUME NEW c \in Conductors,
             \/ Start(c) \/ Setup(c) \/ StartFails(c) \/ Lead(c) \/ Beat(c) \/ Learn(c) \/ ReleaseLeader(c)
             \/ Begin(c) \/ Restructure(c) \/ Exit(c) \/ Crash(c)
      PROVE  Done(r)'
  <2>1. UNCHANGED recordVars
    BY <1>5 DEF Start, Setup, StartFails, Lead, Beat, Renew, RenewFails, Reacquire, Learn, ReleaseLeader,
                Begin, Restructure, Exit, Crash, Gone
  <2>2. ~lapsed' => ~lapsed
    BY <1>5 DEF Start, Setup, StartFails, Lead, Beat, Renew, RenewFails, Reacquire, Learn, ReleaseLeader,
                Begin, Restructure, Exit, Crash, Gone, historyVars
  <2>3. amended \subseteq amended' /\ UNCHANGED outcome
    BY <1>5 DEF Start, Setup, StartFails, Lead, Beat, Renew, RenewFails, Reacquire, Learn, ReleaseLeader,
                Begin, Restructure, Exit, Crash, Gone, historyVars
  <2>4. QED
    BY <1>3, <2>1, <2>2, <2>3
<1>6. ASSUME NEW c \in Conductors, Reconcile(c)
      PROVE  Done(r)'
  <2>1. RecoveryOf(c) /\ UNCHANGED <<amended, outcome, lapsed>>
    BY <1>6 DEF RecoveryInv, Reconcile, ListRequests, ListTasks, ReleaseStale, InterruptTask,
                InterruptRequest, historyVars
  <2>2. CASE ListRequests(c) \/ ListTasks(c) \/ ReleaseStale(c)
    <3>1. UNCHANGED <<state, task, unsaved>>
      BY <2>2 DEF ListRequests, ListTasks, ReleaseStale, recordVars
    <3>2. QED
      BY <1>1, <2>1, <3>1 DEF Delivered
  <2>3. CASE InterruptTask(c)
    <3>1. /\ AtHand(c) \in Requests /\ Min(ToDo(c)) \in Tasks
          /\ ~lapsed => state[AtHand(c)] = "running"
      BY <2>1, <2>3, AtHandIsLeft, ToDoIsATask DEF InterruptTask, RecoveryOf, Settling
    <3>2. /\ UNCHANGED state
          /\ task' = [task EXCEPT ![AtHand(c)][Min(ToDo(c))] = "interrupted"]
          /\ unsaved' = unsaved \ {<<AtHand(c), Min(ToDo(c))>>}
      BY <2>3 DEF InterruptTask
    <3>3. r # AtHand(c) => Untouched(r)
      BY <2>1, <2>3, <3>2 DEF InterruptTask, Untouched, TypeOK, RecordTypeOK
    <3>4. QED
      BY <1>1, <2>1, <3>1, <3>2, <3>3 DEF Delivered, Untouched
  <2>4. CASE InterruptRequest(c)
    <3>1. state' = [state EXCEPT ![AtHand(c)] = "interrupted"] /\ UNCHANGED <<task, unsaved>>
      BY <2>4 DEF InterruptRequest
    <3>2. state'[r] = "completed" => state[r] = "completed"
      BY <3>1 DEF TypeOK, RecordTypeOK
    <3>3. QED
      BY <1>1, <2>1, <3>1, <3>2 DEF Delivered
  <2>5. QED
    BY <1>6, <2>2, <2>3, <2>4 DEF Reconcile
<1>7. ASSUME NEW c \in Conductors, Handling(c)
      PROVE  Done(r)'
  <2>1. /\ UNCHANGED <<amended, lapsed>> /\ req[c] \in Requests
        /\ ~lapsed => state[req[c]] \in {"none", "running"}
    BY <1>7, HandlingKeepsLease, HandlingTouchesItsOwn
       DEF HandleInv, Handling, Disambiguate, UserAnswers, WaitForKnowledge, Decompose, Record, Executing,
           Dispatch, Place, LoseLease, Result, Return, Close, historyVars
  <2>2. CASE r = req[c]
    <3>1. ASSUME state'[r] = "completed", r \notin amended, ~lapsed
          PROVE  Delivered(r)'
      <4>1. stage[c] = "close" /\ verdict[c] = "completed" /\ UNCHANGED <<task, unsaved, outcome>>
        BY <1>7, <2>1, <2>2, <3>1, StateOfHandling
      <4>2. GraphInv(c)
        BY DEF RecordInv
      <4>3. QED
        BY <2>2, <3>1, <4>1, <4>2 DEF GraphInv, Delivered
    <3>2. QED
      BY <2>1, <3>1
  <2>3. CASE r # req[c]
    <3>1. state'[r] = state[r] /\ Untouched(r)
      BY <1>7, <2>3, StateOfHandling, HandlingTouchesItsOwn
    <3>2. QED
      BY <1>1, <2>1, <3>1 DEF Delivered, Untouched
  <2>4. QED
    BY <2>2, <2>3
<1>8. ASSUME NEW c \in Conductors, stage[c] # "idle", NEW lost \in SUBSET Active(c),
             CancelExecution(c, lost), UNCHANGED historyVars
      PROVE  Done(r)'
  <2>1. (~lapsed => state[req[c]] \in {"none", "running"}) /\ UNCHANGED <<outcome, amended, lapsed>>
    BY <1>8 DEF HandleInv, historyVars
  <2>2. UNCHANGED state /\ (r # req[c] => Untouched(r))
    BY <1>8, <2>1, CancelTouchesItsOwn
  <2>3. CASE r = req[c]
    BY <2>1, <2>2, <2>3
  <2>4. CASE r # req[c]
    BY <1>1, <2>1, <2>2, <2>4 DEF Delivered, Untouched
  <2>5. QED
    BY <2>3, <2>4
<1>9. ASSUME NEW c \in Conductors, Cancel(c) \/ Shutdown(c)
      PROVE  Done(r)'
  <2>1. UNCHANGED historyVars
    BY <1>9 DEF Cancel, Shutdown
  <2>2. CASE UNCHANGED recordVars
    BY <1>3, <2>1, <2>2 DEF historyVars
  <2>3. QED
    BY <1>8, <1>9, <2>1, <2>2, CancelOrNothing
<1>10. ASSUME NEW c \in Conductors, NEW q \in Requests, NEW t \in Tasks, Unwind(c, q, t)
       PROVE  Done(r)'
  <2>1. /\ UNCHANGED <<state, outcome, amended, lapsed>>
        /\ r # q => Untouched(r)
        /\ UNCHANGED <<task, unsaved>> \/ StillRuns(c, q, t)
    BY <1>10, UnwindSettles DEF historyVars
  <2>2. CASE UNCHANGED <<task, unsaved>> \/ r # q
    BY <1>1, <2>1, <2>2 DEF Delivered, Untouched
  <2>3. CASE StillRuns(c, q, t) /\ r = q
    <3>1. r \in amended \/ Executes(c, r) \/ ~Delivered(r)
      BY <2>3 DEF StillRuns, Running, Delivered
    <3>2. Executes(c, r) /\ ~lapsed => state[r] \in {"none", "running"}
      BY DEF Executes, HandleInv
    <3>3. QED
      BY <1>1, <2>1, <3>1, <3>2
  <2>4. QED
    BY <2>1, <2>2, <2>3
<1>11. QED
  BY <1>4, <1>5, <1>6, <1>7, <1>9, <1>10 DEF Next, Starting

-----------------------------------------------------------------------------
\* The inductive invariant holds at first, and each step keeps it.
LEMMA InitConductorInv ==
    ASSUME Init
    PROVE  ConductorInv
<1>1. TypeOK
  BY ConductorAssumption DEF Init, TypeOK, StartTypeOK, HandleTypeOK, RecordTypeOK, LeaderTypeOK, HistoryTypeOK,
     Places, Stages, Status, Absent
<1>2. LeaderInv /\ HandleInv
  BY DEF Init, LeaderInv, HandleInv, Recovering
<1>3. NewInv /\ RecordInv
  BY DEF Init, NewInv, Blank, RecordInv, GraphInv, Absent
<1>4. RecoveryInv
  BY DEF Init, RecoveryInv, RecoveryOf, Settling
<1>5. RecoveredIsAtRest /\ CompletedIsDelivered
  BY DEF Init, RecoveredIsAtRest, CompletedIsDelivered
<1>6. QED
  BY <1>1, <1>2, <1>3, <1>4, <1>5 DEF ConductorInv

LEMMA NextConductorInv ==
    ASSUME ConductorInv, DistinctIDs, [Next]_vars
    PROVE  ConductorInv'
<1> USE DEF ConductorInv
<1>1. TypeOK' /\ LeaderInv' /\ HandleInv' /\ NewInv'
  BY TypeStep, LeaderStep, HandleStep, NewStep
<1>2. RecordInv' /\ RecoveryInv'
  BY RecordStep, RecoveryStep
<1>3. RecoveredIsAtRest' /\ CompletedIsDelivered'
  BY <1>2, RestStep, DeliveredStep
<1>4. QED
  BY <1>1, <1>2, <1>3

(* The inductive invariant: who leads, who handles what, what was recovered *)
(* and what the records say of the graph in hand, where syncTaskState did   *)
(* not lose a write, fit as long as the fabric runs, if conductors have IDs *)
(* of their own.                                                            *)
THEOREM ConductorIsSound ==
    ASSUME DistinctIDs
    PROVE  Spec => []ConductorInv
<1>1. Init => ConductorInv
  BY InitConductorInv
<1>2. ConductorInv /\ [Next]_vars => ConductorInv'
  BY NextConductorInv
<1>3. QED
  BY <1>1, <1>2, PTL DEF Spec

(* The variables of conductors, records and leases keep their types.        *)
THEOREM TypeCorrect ==
    ASSUME DistinctIDs
    PROVE  Spec => []TypeOK
<1>1. ConductorInv => TypeOK
  BY DEF ConductorInv
<1>2. QED
  BY <1>1, ConductorIsSound, PTL

(* A fabric has one active conductor leader (Start and                      *)
(* runLeaderHeartbeatLoop), however many conductors start, crash, are shut  *)
(* down or fail to renew, unless one was late or let go with work in hand.  *)
THEOREM OneLeader ==
    ASSUME DistinctIDs
    PROVE  Spec => []OneActiveLeader
<1>1. ConductorInv => OneActiveLeader
  BY OneHolder DEF ConductorInv, OneActiveLeader, Leading
<1>2. QED
  BY <1>1, ConductorIsSound, PTL

(* reconcileRecoveredRequests leaves nothing that counts as running, and no *)
(* task on record of an interrupted request waits, runs or has a lease,     *)
(* wherever the conductor before was when it ended, and wherever the        *)
(* recovery was.                                                            *)
THEOREM Recovered ==
    ASSUME DistinctIDs
    PROVE  Spec => []RecoveredIsAtRest
<1>1. ConductorInv => RecoveredIsAtRest
  BY DEF ConductorInv
<1>2. QED
  BY <1>1, ConductorIsSound, PTL

(* Of a request that HandleRequest records as completed, Execute left each  *)
(* task completed or escalated with what it has, and its record is that of  *)
(* this task or a write of it was lost; whatever is cancelled, recovered,   *)
(* or fails to be written on the way.                                       *)
THEOREM CompletedDelivers ==
    ASSUME DistinctIDs
    PROVE  Spec => []CompletedIsDelivered
<1>1. ConductorInv => CompletedIsDelivered
  BY DEF ConductorInv
<1>2. QED
  BY <1>1, ConductorIsSound, PTL
=============================================================================
