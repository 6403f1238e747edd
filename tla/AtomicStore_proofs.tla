-------------------------- MODULE AtomicStore_proofs ------------------------
(***************************************************************************)
(* Two stores that are the atomic store: the one in a file, for any number *)
(* of processes and goroutines, any contents and any faults, whatever      *)
(* Apply does; and the one behind the control-plane API, for any number of *)
(* clients, handlers and calls.                                            *)
(***************************************************************************)
EXTENDS FileStore, RemoteStore, TLAPS

USE FileAssumption

-----------------------------------------------------------------------------
(* What is asked carries the clock of the asking.                           *)
LEMMA AskedNow ==
    ASSUME NEW o, NEW mine, NEW t, NEW c \in Calls(o, mine, t)
    PROVE  c.now = t
BY DEF Calls

LEMMA AskedCall ==
    ASSUME NEW o, NEW mine, NEW t, NEW c \in Calls(o, mine, t)
    PROVE  IsCall(c)
BY DEF Calls, IsCall

LEMMA InvInit == Init => FileInv
BY DEF Init, FileInv, LockInv, WorkInv, ClockInv, CallInv, ShapeInv, Phases, Locked

LEMMA ShapeStep == FileInv /\ [Next]_vars => ShapeInv'
<1> SUFFICES ASSUME ShapeInv, [Next]_vars PROVE ShapeInv'
  BY DEF FileInv
<1> USE DEF ShapeInv, Go, Leave, Unlock, vars, files, stores, callers
<1>1. ASSUME NEW p \in Callers, Begin(p) PROVE ShapeInv' BY <1>1 DEF Begin
<1>2. ASSUME NEW p \in Callers, LockMutex(p) PROVE ShapeInv' BY <1>2 DEF LockMutex
<1>3. ASSUME NEW p \in Callers, LockFile(p) PROVE ShapeInv' BY <1>3 DEF LockFile
<1>4. ASSUME NEW p \in Callers, Load(p) PROVE ShapeInv' BY <1>4 DEF Load
<1>5. ASSUME NEW p \in Callers, Run(p) PROVE ShapeInv' BY <1>5 DEF Run
<1>6. ASSUME NEW p \in Callers, Write(p) PROVE ShapeInv' BY <1>6 DEF Write
<1>7. ASSUME NEW p \in Callers, Rename(p) PROVE ShapeInv' BY <1>7 DEF Rename
<1>8. ASSUME NEW p \in Callers, Return(p) PROVE ShapeInv' BY <1>8 DEF Return
<1>9. ASSUME NEW p \in Callers, Fail(p) PROVE ShapeInv' BY <1>9 DEF Fail
<1>10. ASSUME NEW s \in Stores, Crash(s) PROVE ShapeInv' BY <1>10 DEF Crash
<1>11. ASSUME NEW s \in Stores, Open(s) PROVE ShapeInv' BY <1>11 DEF Open
<1>12. CASE Tick BY <1>12 DEF Tick
<1>13. CASE UNCHANGED vars BY <1>13
<1> QED BY <1>1, <1>2, <1>3, <1>4, <1>5, <1>6, <1>7, <1>8, <1>9, <1>10, <1>11, <1>12, <1>13
        DEF Next, Step

LEMMA ClockStep == FileInv /\ [Next]_vars => ClockInv'
<1> SUFFICES ASSUME ClockInv, ShapeInv, [Next]_vars PROVE ClockInv'
  BY DEF FileInv
<1> USE DEF ClockInv, ShapeInv, Go, Leave, vars, files, stores, callers
<1>1. ASSUME NEW p \in Callers, Begin(p) PROVE ClockInv'
  BY <1>1, AskedNow DEF Begin
<1>2. ASSUME NEW p \in Callers, LockMutex(p) PROVE ClockInv'
  BY <1>2 DEF LockMutex
<1>3. ASSUME NEW p \in Callers, LockFile(p) PROVE ClockInv'
  BY <1>3 DEF LockFile
<1>4. ASSUME NEW p \in Callers, Load(p) PROVE ClockInv'
  BY <1>4 DEF Load
<1>5. ASSUME NEW p \in Callers, Run(p) PROVE ClockInv'
  BY <1>5 DEF Run
<1>6. ASSUME NEW p \in Callers, Write(p) PROVE ClockInv'
  BY <1>6 DEF Write
<1>7. ASSUME NEW p \in Callers, Rename(p) PROVE ClockInv'
  BY <1>7 DEF Rename
<1>8. ASSUME NEW p \in Callers, Return(p) PROVE ClockInv'
  BY <1>8 DEF Return
<1>9. ASSUME NEW p \in Callers, Fail(p) PROVE ClockInv'
  BY <1>9 DEF Fail
<1>10. ASSUME NEW s \in Stores, Crash(s) PROVE ClockInv'
  BY <1>10 DEF Crash, Of
<1>11. ASSUME NEW s \in Stores, Open(s) PROVE ClockInv'
  BY <1>11 DEF Open
<1>12. CASE Tick BY <1>12 DEF Tick
<1>13. CASE UNCHANGED vars BY <1>13
<1> QED BY <1>1, <1>2, <1>3, <1>4, <1>5, <1>6, <1>7, <1>8, <1>9,
        <1>10, <1>11, <1>12, <1>13 DEF Next, Step

LEMMA CallStep == FileInv /\ [Next]_vars => CallInv'
<1> SUFFICES ASSUME CallInv, LockInv, ShapeInv, [Next]_vars PROVE CallInv'
  BY DEF FileInv
<1> USE DEF CallInv, ShapeInv, Go, Leave, vars, files, stores, callers
<1>1. ASSUME NEW p \in Callers, Begin(p) PROVE CallInv'
  BY <1>1, AskedCall DEF Begin
<1>2. ASSUME NEW p \in Callers, Step(p) \/ Fail(p) PROVE CallInv'
  BY <1>2 DEF Step, LockMutex, LockFile, Load, Run, Write, Rename, Return, Fail
<1>3. ASSUME NEW s \in Stores, Crash(s) \/ Open(s) PROVE CallInv'
  BY <1>3 DEF Crash, Open, Of
<1>4. CASE Tick \/ UNCHANGED vars
  BY <1>4 DEF Tick
<1> QED BY <1>1, <1>2, <1>3, <1>4 DEF Next

LEMMA LockStep == FileInv /\ [Next]_vars => LockInv'
<1> SUFFICES ASSUME LockInv, ShapeInv, [Next]_vars PROVE LockInv'
  BY DEF FileInv
<1> USE DEF LockInv, ShapeInv, Phases, Locked, Go, Leave, Unlock, vars, files, stores, callers
<1>1. ASSUME NEW p \in Callers, Begin(p) PROVE LockInv'
  BY <1>1 DEF Begin
<1>2. ASSUME NEW p \in Callers, LockMutex(p) PROVE LockInv'
  BY <1>2 DEF LockMutex
<1>3. ASSUME NEW p \in Callers, LockFile(p) PROVE LockInv'
  BY <1>3 DEF LockFile
<1>4. ASSUME NEW p \in Callers, Load(p) PROVE LockInv'
  BY <1>4 DEF Load
<1>5. ASSUME NEW p \in Callers, Run(p) PROVE LockInv'
  BY <1>5 DEF Run
<1>6. ASSUME NEW p \in Callers, Write(p) PROVE LockInv'
  BY <1>6 DEF Write
<1>7. ASSUME NEW p \in Callers, Rename(p) PROVE LockInv'
  BY <1>7 DEF Rename
<1>8. ASSUME NEW p \in Callers, Return(p) PROVE LockInv'
  <2>1. mu[StoreOf[p]] = p BY <1>8 DEF Return
  <2>2. ASSUME NEW q \in Callers, q # p, phase[q] \notin {"idle", "called"}
        PROVE  mu'[StoreOf[q]] = q
    BY <2>1, <2>2, <1>8 DEF Return
  <2>3. ASSUME NEW q \in Callers, q # p, phase[q] \in Locked
        PROVE  flock' = q
    BY <2>3, <1>8 DEF Return
  <2>4. phase'[p] = "idle" /\ \A q \in Callers \ {p} : phase'[q] = phase[q]
    BY <1>8 DEF Return
  <2>5. open' = open BY <1>8 DEF Return
  <2> HIDE DEF Go, Leave, Unlock
  <2> QED BY <2>2, <2>3, <2>4, <2>5
<1>9. ASSUME NEW p \in Callers, Fail(p) PROVE LockInv'
  <2>1. mu[StoreOf[p]] = p BY <1>9 DEF Fail
  <2>2. ASSUME NEW q \in Callers, q # p, phase[q] \notin {"idle", "called"}
        PROVE  mu'[StoreOf[q]] = q
    BY <2>1, <2>2, <1>9 DEF Fail
  <2>3. ASSUME NEW q \in Callers, q # p, phase[q] \in Locked
        PROVE  flock' = q
    <3>1. flock = q BY <2>3
    <3>2. flock' = IF flock = p THEN None ELSE flock BY <1>9 DEF Fail
    <3> QED BY <3>1, <3>2, <2>3
  <2>4. phase'[p] = "idle" /\ \A q \in Callers \ {p} : phase'[q] = phase[q]
    BY <1>9 DEF Fail
  <2>5. open' = open BY <1>9 DEF Fail
  <2> HIDE DEF Go, Leave, Unlock
  <2> QED BY <2>2, <2>3, <2>4, <2>5
<1>10. ASSUME NEW s \in Stores, Crash(s) PROVE LockInv'
  BY <1>10 DEF Crash, Of
<1>11. ASSUME NEW s \in Stores, Open(s) PROVE LockInv'
  BY <1>11 DEF Open
<1>12. CASE Tick BY <1>12 DEF Tick
<1>13. CASE UNCHANGED vars BY <1>13
<1> QED BY <1>1, <1>2, <1>3, <1>4, <1>5, <1>6, <1>7, <1>8, <1>9,
        <1>10, <1>11, <1>12, <1>13 DEF Next, Step

LEMMA WorkStep == FileInv /\ [Next]_vars => WorkInv'
<1> SUFFICES ASSUME LockInv, WorkInv, ClockInv, ShapeInv, [Next]_vars PROVE WorkInv'
  BY DEF FileInv
<1> USE DEF LockInv, WorkInv, ClockInv, ShapeInv, Phases, Locked, Go, Leave, Unlock, vars, files, stores, callers
<1>1. ASSUME NEW p \in Callers, Begin(p) PROVE WorkInv'
  <2>1. phase'[p] = "called" /\ \A q \in Callers \ {p} : phase'[q] = phase[q] /\ call'[q] = call[q]
    BY <1>1 DEF Begin
  <2>2. UNCHANGED <<clock, disk, memory, ran, reply, temp>>
    BY <1>1 DEF Begin
  <2> QED BY <2>1, <2>2
<1>2. ASSUME NEW p \in Callers, LockMutex(p) PROVE WorkInv'
  BY <1>2 DEF LockMutex
<1>3. ASSUME NEW p \in Callers, LockFile(p) PROVE WorkInv'
  BY <1>3 DEF LockFile
<1>4. ASSUME NEW p \in Callers, Load(p) PROVE WorkInv'
  BY <1>4 DEF Load
<1>5. ASSUME NEW p \in Callers, Run(p) PROVE WorkInv'
  <2> DEFINE result == Apply(memory[StoreOf[p]], call[p], clock)
  <2>1. /\ memory[StoreOf[p]] = disk
        /\ mu[StoreOf[p]] = p
        /\ clock \in call[p].now .. clock
    <3>1. phase[p] = "loaded" BY <1>5 DEF Run
    <3>2. call[p].now \in Nat /\ call[p].now <= clock /\ clock \in Nat BY <3>1
    <3>3. clock \in call[p].now .. clock BY <3>2
    <3> QED BY <3>1, <3>3
  <2>2. /\ memory'[StoreOf[p]] = result.contents
        /\ reply'[p] = result.answer /\ ran'[p] = clock
        /\ phase'[p] \in {"ran", "done"}
    <3>1. memory' = [memory EXCEPT ![StoreOf[p]] = result.contents] BY <1>5 DEF Run
    <3>2. reply' = [reply EXCEPT ![p] = result.answer] BY <1>5 DEF Run
    <3>3. ran' = [ran EXCEPT ![p] = clock] BY <1>5 DEF Run
    <3>4. phase' = [phase EXCEPT ![p] = "ran"] \/ phase' = [phase EXCEPT ![p] = "done"]
      BY <1>5 DEF Run
    <3> HIDE DEF result
    <3> QED BY <3>1, <3>2, <3>3, <3>4
  <2>3. \A q \in Callers \ {p} : /\ phase'[q] = phase[q]
                                /\ reply'[q] = reply[q]
                                /\ ran'[q] = ran[q]
    BY <1>5 DEF Run
  <2>4. ASSUME NEW q \in Callers \ {p}, phase[q] \notin {"idle", "called"}
        PROVE  memory'[StoreOf[q]] = memory[StoreOf[q]]
    <3>1. memory' = [memory EXCEPT ![StoreOf[p]] = result.contents] BY <1>5 DEF Run
    <3>2. StoreOf[q] # StoreOf[p] BY <2>1, <2>4
    <3> HIDE DEF result
    <3> QED BY <3>1, <3>2
  <2>5. UNCHANGED <<clock, disk, call, temp>>
    BY <1>5 DEF Run
  <2> QED BY <2>1, <2>2, <2>3, <2>4, <2>5
<1>6. ASSUME NEW p \in Callers, Write(p) PROVE WorkInv'
  BY <1>6 DEF Write
<1>7. ASSUME NEW p \in Callers, Rename(p) PROVE WorkInv'
  BY <1>7 DEF Rename
<1>8. ASSUME NEW p \in Callers, Return(p) PROVE WorkInv'
  BY <1>8 DEF Return
<1>9. ASSUME NEW p \in Callers, Fail(p) PROVE WorkInv'
  BY <1>9 DEF Fail
<1>10. ASSUME NEW s \in Stores, Crash(s) PROVE WorkInv'
  BY <1>10 DEF Crash, Of
<1>11. ASSUME NEW s \in Stores, Open(s) PROVE WorkInv'
  BY <1>11 DEF Open
<1>12. CASE Tick
  <2>1. \A q \in Callers : phase[q] \in {"ran", "written"} => ran[q] \in call[q].now .. clock'
    <3> SUFFICES ASSUME NEW q \in Callers, phase[q] \in {"ran", "written"}
                 PROVE  ran[q] \in call[q].now .. clock'
      OBVIOUS
    <3>1. call[q].now \in Nat /\ ran[q] \in call[q].now .. clock OBVIOUS
    <3>2. clock \in Nat /\ clock' = clock + 1 BY <1>12 DEF Tick
    <3> QED BY <3>1, <3>2
  <2>2. UNCHANGED <<phase, disk, memory, call, ran, reply, temp>>
    BY <1>12 DEF Tick
  <2> QED BY <2>1, <2>2
<1>13. CASE UNCHANGED vars BY <1>13
<1> QED BY <1>1, <1>2, <1>3, <1>4, <1>5, <1>6, <1>7, <1>8, <1>9,
        <1>10, <1>11, <1>12, <1>13 DEF Next, Step

(* Locks, phases, samples and the file agree in every state of a store in a *)
(* file, whoever crashes with or without a lock (withFileLock, saveLocked). *)
THEOREM Invariance == Spec => []FileInv
<1>1. FileInv /\ [Next]_vars => FileInv'
  BY ShapeStep, ClockStep, CallStep, LockStep, WorkStep DEF FileInv
<1> QED BY InvInit, <1>1, PTL DEF Spec

-----------------------------------------------------------------------------
(* What a caller and the file show, before and after a step.                *)

LEMMA InitRefines == Init => Atomic!Init
BY DEF Init, Atomic!Init, Stage, Told

\* A step of a call that shows nothing.
LEMMA Hidden ==
    ASSUME ShapeInv, UNCHANGED <<clock, disk, call, answer>>, NEW p \in Callers,
           NEW to,
           phase' = [phase EXCEPT ![p] = to],
           phase[p] \notin {"idle", "done"}, to \notin {"idle", "done"},
           \A q \in Callers \ {p} : reply'[q] = reply[q]
    PROVE  UNCHANGED Atomic!vars
<1>1. \A q \in Callers : /\ phase'[q] \in {"idle", "done"} <=> phase[q] \in {"idle", "done"}
                         /\ phase[q] \in {"idle", "done"} => phase'[q] = phase[q] /\ q # p
  BY DEF ShapeInv
<1>2. UNCHANGED Stage BY <1>1 DEF Stage
<1>3. \A q \in Callers : phase[q] = "done" => reply'[q] = reply[q]
  OBVIOUS
<1>4. UNCHANGED Told BY <1>1, <1>3 DEF Told
<1> QED BY <1>2, <1>4 DEF Atomic!vars

\* A call takes effect at a time t, with the time it was given.
LEMMA Effect ==
    ASSUME NEW p \in Callers, NEW t \in call[p].now .. clock,
           call[p].now \in Nat, clock \in Nat, IsCall(call[p]),
           Stage[p] = "called", Stage' = [Stage EXCEPT ![p] = "done"],
           \/ disk' = Apply(disk, call[p], t).contents
           \/ ~Apply(disk, call[p], t).save /\ disk' = disk,
           Told' = [Told EXCEPT ![p] = Apply(disk, call[p], t).answer],
           UNCHANGED <<clock, call>>
    PROVE  Atomic!Do(p)
<1>1. [call[p] EXCEPT !.now = call[p].now] = call[p]
  BY DEF IsCall
<1>2. call[p].now \in call[p].now .. clock
  OBVIOUS
<1>3. \/ disk' = Apply(disk, [call[p] EXCEPT !.now = call[p].now], t).contents
      \/ ~Apply(disk, [call[p] EXCEPT !.now = call[p].now], t).save /\ UNCHANGED disk
  BY <1>1, Zenon
<1>4. Told' = [Told EXCEPT ![p] = Apply(disk, [call[p] EXCEPT !.now = call[p].now], t).answer]
  BY <1>1, Zenon
<1> QED BY <1>2, <1>3, <1>4 DEF Atomic!Do

LEMMA StepRefines == FileInv /\ [Next]_vars => [Atomic!Next]_Atomic!vars
<1> SUFFICES ASSUME FileInv, [Next]_vars PROVE Atomic!Next \/ UNCHANGED Atomic!vars
  OBVIOUS
<1> USE DEF FileInv
<1>1. ASSUME NEW p \in Callers, Begin(p) PROVE Atomic!Begin(p)
  BY <1>1 DEF Begin, Atomic!Begin, Go, Stage, Told, ShapeInv, files, stores
<1>2. ASSUME NEW p \in Callers, LockMutex(p) PROVE UNCHANGED Atomic!vars
  <2>1. UNCHANGED <<clock, disk, call, answer, reply>> BY <1>2 DEF LockMutex, files
  <2>2. \E to \in {"locking", "locked", "loaded", "written"} : phase' = [phase EXCEPT ![p] = to]
    BY <1>2 DEF LockMutex, Go
  <2>3. phase[p] \notin {"idle", "done"} BY <1>2 DEF LockMutex
  <2> QED BY <2>1, <2>2, <2>3, Hidden
<1>3. ASSUME NEW p \in Callers, LockFile(p) PROVE UNCHANGED Atomic!vars
  <2>1. UNCHANGED <<clock, disk, call, answer, reply>> BY <1>3 DEF LockFile
  <2>2. \E to \in {"locking", "locked", "loaded", "written"} : phase' = [phase EXCEPT ![p] = to]
    BY <1>3 DEF LockFile, Go
  <2>3. phase[p] \notin {"idle", "done"} BY <1>3 DEF LockFile
  <2> QED BY <2>1, <2>2, <2>3, Hidden
<1>4. ASSUME NEW p \in Callers, Load(p) PROVE UNCHANGED Atomic!vars
  <2>1. UNCHANGED <<clock, disk, call, answer, reply>> BY <1>4 DEF Load, files
  <2>2. \E to \in {"locking", "locked", "loaded", "written"} : phase' = [phase EXCEPT ![p] = to]
    BY <1>4 DEF Load, Go
  <2>3. phase[p] \notin {"idle", "done"} BY <1>4 DEF Load
  <2> QED BY <2>1, <2>2, <2>3, Hidden
<1>6. ASSUME NEW p \in Callers, Write(p) PROVE UNCHANGED Atomic!vars
  <2>1. UNCHANGED <<clock, disk, call, answer, reply>> BY <1>6 DEF Write, files
  <2>2. \E to \in {"locking", "locked", "loaded", "written"} : phase' = [phase EXCEPT ![p] = to]
    BY <1>6 DEF Write, Go
  <2>3. phase[p] \notin {"idle", "done"} BY <1>6 DEF Write
  <2> QED BY <2>1, <2>2, <2>3, Hidden
<1>5. ASSUME NEW p \in Callers, Run(p) PROVE Atomic!Do(p) \/ UNCHANGED Atomic!vars
  <2> DEFINE result == Apply(memory[StoreOf[p]], call[p], clock)
  <2>1. phase[p] = "loaded" BY <1>5 DEF Run
  <2>2. UNCHANGED <<clock, disk, call, answer>> BY <1>5 DEF Run, files
  <2>3. CASE result.save
    <3>1. phase' = [phase EXCEPT ![p] = "ran"] BY <2>3, <1>5 DEF Run, Go
    <3>2. \A q \in Callers \ {p} : reply'[q] = reply[q] BY <1>5 DEF Run, ShapeInv
    <3> QED BY <2>1, <2>2, <3>1, <3>2, Hidden
  <2>4. CASE ~result.save
    <3>1. phase' = [phase EXCEPT ![p] = "done"] BY <2>4, <1>5 DEF Run, Go
    <3>2. memory[StoreOf[p]] = disk BY <2>1 DEF WorkInv
    <3>3. reply' = [reply EXCEPT ![p] = result.answer] BY <1>5 DEF Run
    <3>4. clock \in call[p].now .. clock
      <4>1. call[p].now \in Nat /\ call[p].now <= clock /\ clock \in Nat
        BY <2>1 DEF ClockInv
      <4> QED BY <4>1
    <3>5. Stage' = [Stage EXCEPT ![p] = "done"] /\ Stage[p] = "called"
      BY <2>1, <3>1 DEF Stage, ShapeInv
    <3>6. Told' = [Told EXCEPT ![p] = Apply(disk, call[p], clock).answer]
      BY <2>1, <2>2, <3>1, <3>2, <3>3 DEF Told, ShapeInv
    <3>7. call[p].now \in Nat /\ clock \in Nat /\ IsCall(call[p])
      BY <2>1 DEF ClockInv, CallInv
    <3> QED BY <2>2, <2>4, <3>2, <3>4, <3>5, <3>6, <3>7, Effect
  <2> QED BY <2>3, <2>4
<1>7. ASSUME NEW p \in Callers, Rename(p) PROVE Atomic!Do(p)
  <2>1. phase[p] = "written" /\ phase' = [phase EXCEPT ![p] = "done"]
    BY <1>7 DEF Rename, Go
  <2>2. UNCHANGED <<clock, call, answer, reply>> /\ disk' = temp[p]
    BY <1>7 DEF Rename
  <2>3. /\ ran[p] \in call[p].now .. clock
        /\ Apply(disk, call[p], ran[p]).contents = disk'
        /\ Apply(disk, call[p], ran[p]).answer = reply[p]
    BY <2>1, <2>2 DEF WorkInv
  <2>4. Stage' = [Stage EXCEPT ![p] = "done"] /\ Stage[p] = "called"
    BY <2>1 DEF Stage, ShapeInv
  <2>5. Told' = [Told EXCEPT ![p] = reply[p]]
    BY <2>1, <2>2 DEF Told, ShapeInv
  <2>6. call[p].now \in Nat /\ clock \in Nat /\ IsCall(call[p])
    BY <2>1 DEF ClockInv, CallInv
  <2> QED BY <2>2, <2>3, <2>4, <2>5, <2>6, Effect
<1>8. ASSUME NEW p \in Callers, Return(p) PROVE Atomic!Return(p)
  <2>1. /\ phase[p] = "done" /\ phase' = [phase EXCEPT ![p] = "idle"]
        /\ call' = [call EXCEPT ![p] = None]
        /\ answer' = [answer EXCEPT ![p] = reply[p]]
        /\ reply' = [reply EXCEPT ![p] = Nothing]
        /\ UNCHANGED <<clock, disk>>
    BY <1>8 DEF Return, Leave, Go
  <2>2. Stage[p] = "done" /\ Stage' = [Stage EXCEPT ![p] = "idle"]
    BY <2>1 DEF Stage, ShapeInv
  <2>3. UNCHANGED Told BY <2>1 DEF Told, ShapeInv
  <2> QED BY <2>1, <2>2, <2>3 DEF Atomic!Return
<1>9. ASSUME NEW p \in Callers, Fail(p) PROVE Atomic!Lose({p})
  <2>1. /\ phase[p] # "done" /\ phase' = [phase EXCEPT ![p] = "idle"]
        /\ call' = [call EXCEPT ![p] = None]
        /\ answer' = [answer EXCEPT ![p] = Nothing]
        /\ reply' = [reply EXCEPT ![p] = Nothing]
        /\ UNCHANGED <<clock, disk>>
    BY <1>9 DEF Fail, Leave, Go
  <2> QED BY <2>1 DEF Stage, Told, ShapeInv, Atomic!Lose
<1>10. ASSUME NEW s \in Stores, Crash(s) PROVE Atomic!Lose(Of(s)) /\ Of(s) \in SUBSET Callers
  BY <1>10 DEF Crash, Of, Stage, Told, ShapeInv, Atomic!Lose
<1>11. ASSUME NEW s \in Stores, Open(s) PROVE UNCHANGED Atomic!vars
  BY <1>11 DEF Open, files, callers, Stage, Told, Atomic!vars
<1>12. CASE Tick BY <1>12 DEF Tick, files, callers, Stage, Told, Atomic!Tick, Atomic!Next
<1>13. CASE UNCHANGED vars BY <1>13 DEF vars, files, callers, Stage, Told, Atomic!vars
<1>14. Next \/ UNCHANGED vars OBVIOUS
<1> QED BY <1>1, <1>2, <1>3, <1>4, <1>5, <1>6, <1>7, <1>8, <1>9, <1>10, <1>11, <1>12, <1>13, <1>14
        DEF Next, Step, Atomic!Next

(* A store in a file does each operation at one moment of the call, or not  *)
(* at all, whoever crashes and whatever fails (file.go).                    *)
THEOREM Atomicity == Spec => AtomicSpec
<1>1. Spec => []FileInv BY Invariance
<1> QED BY <1>1, InitRefines, StepRefines, PTL DEF Spec, AtomicSpec, Atomic!Spec

-----------------------------------------------------------------------------
HIDE FileAssumption

(* What goes over the wire comes back.                                      *)

LEMMA NoLeaseIsProper == ProperLease(NoLease) /\ NoLease \in Lease
BY DEF ProperLease, Lease, NoLease

\* A view of a lease leaves nothing out.
LEMMA ViewBack ==
    ASSUME NEW l, ProperLease(l)
    PROVE  FromView(l.key, ToView(l.key, l)) = l
<1> USE StoreAssumption DEF ProperLease, Lease
<1>1. l = [key |-> l.key, owner |-> l.owner, inst |-> l.inst, epoch |-> l.epoch,
           until |-> l.until]
  OBVIOUS
<1>2. CASE l.key = Leader
  BY <1>1, <1>2 DEF FromView, ToView, LeaderLeaseFromView, LeaderLeaseToProto
<1>3. CASE l.key # Leader /\ l.key \in TaskKeys
  BY <1>1, <1>3 DEF FromView, ToView, TaskLeaseFromView, TaskLeaseToProto
<1>4. CASE l.key # Leader /\ l.key \notin TaskKeys
  BY <1>1, <1>4 DEF FromView, ToView, ProfileLeaseFromView, ProfileLeaseToProto
<1> QED BY <1>2, <1>3, <1>4

Asking(c, op, key, o, inst, value, lease, t) ==
    c = [op |-> op, key |-> key, owner |-> o, inst |-> inst, value |-> value,
         lease |-> lease, now |-> t]

LEMMA CallKinds ==
    ASSUME NEW o, NEW mine, NEW t, NEW c \in Calls(o, mine, t)
    PROVE  \/ \E k \in {Leader} \cup TaskKeys : Asking(c, "acquire", k, o, None, None, NoLease, t)
           \/ \E k \in Profiles, i \in Instances : Asking(c, "acquire", k, o, i, None, NoLease, t)
           \/ \E k \in Keys : Asking(c, "get", k, o, None, None, NoLease, t)
           \/ \E op \in {"renew", "release"}, k \in Keys \cap {mine.key} :
                 Asking(c, op, k, o, None, None, mine, t)
           \/ \E n \in Nodes, st \in {"ready", "unavailable"} :
                 Asking(c, "register", n, o, None, st, NoLease, t)
           \/ \E i \in Instances, n \in Nodes : Asking(c, "register", i, o, None, n, NoLease, t)
           \/ \E op \in {"heartbeat", "look"}, m \in Members :
                 Asking(c, op, m, o, None, None, NoLease, t)
           \/ \E i \in Instances : Asking(c, "remove", i, o, None, None, NoLease, t)
           \/ \E r \in Records, v \in Values : Asking(c, "put", r, o, None, v, NoLease, t)
           \/ \E r \in Records : Asking(c, "read", r, o, None, None, NoLease, t)
BY DEF Calls, Asking

LEMMA CallsAreProper ==
    ASSUME NEW o \in Owners, NEW mine, ProperLease(mine), NEW t \in Nat,
           NEW c \in Calls(o, mine, t)
    PROVE  ProperCall(c) /\ c.now = t
<1> USE StoreAssumption, NoLeaseIsProper
        DEF ProperCall, Call, Ops, Asking, OfLeases, OfMembers, Keys, Members, States, ProperLease
<1>1. CASE \E k \in {Leader} \cup TaskKeys : Asking(c, "acquire", k, o, None, None, NoLease, t)
  BY <1>1
<1>2. CASE \E k \in Profiles, i \in Instances : Asking(c, "acquire", k, o, i, None, NoLease, t)
  BY <1>2
<1>3. CASE \E k \in Keys : Asking(c, "get", k, o, None, None, NoLease, t)
  BY <1>3
<1>4. CASE \E op \in {"renew", "release"}, k \in Keys \cap {mine.key} :
              Asking(c, op, k, o, None, None, mine, t)
  BY <1>4
<1>5. CASE \E n \in Nodes, st \in {"ready", "unavailable"} :
              Asking(c, "register", n, o, None, st, NoLease, t)
  BY <1>5
<1>6. CASE \E i \in Instances, n \in Nodes : Asking(c, "register", i, o, None, n, NoLease, t)
  BY <1>6
<1>7. CASE \E op \in {"heartbeat", "look"}, m \in Members :
              Asking(c, op, m, o, None, None, NoLease, t)
  BY <1>7
<1>8. CASE \E i \in Instances : Asking(c, "remove", i, o, None, None, NoLease, t)
  BY <1>8
<1>9. CASE \E r \in Records, v \in Values : Asking(c, "put", r, o, None, v, NoLease, t)
  BY <1>9
<1>10. CASE \E r \in Records : Asking(c, "read", r, o, None, None, NoLease, t)
  BY <1>10
<1> QED BY <1>1, <1>2, <1>3, <1>4, <1>5, <1>6, <1>7, <1>8, <1>9, <1>10, CallKinds

LEMMA CallFields ==
    ASSUME NEW c \in Call
    PROVE  c = [op |-> c.op, key |-> c.key, owner |-> c.owner, inst |-> c.inst,
                value |-> c.value, lease |-> c.lease, now |-> c.now]
BY DEF Call

LEMMA MessageFields ==
    ASSUME NEW c \in Call
    PROVE  Message(c) = [op |-> c.op, key |-> c.key, owner |-> c.owner, inst |-> c.inst,
                         value |-> c.value,
                         lease |-> IF c.op \in {"renew", "release"} THEN ToView(c.key, c.lease)
                                   ELSE None,
                         now |-> IF OfLeases(c) THEN 0 ELSE c.now]
<1>1. CASE OfLeases(c) /\ c.key = Leader
  <2>1. Message(c) = [c EXCEPT !.now = 0, !.lease = IF c.op \in {"renew", "release"}
                                                   THEN ToView(c.key, c.lease) ELSE None]
    BY <1>1 DEF Message, LeaderMessage, ToView
  <2> QED BY <1>1, <2>1, CallFields
<1>2. CASE OfLeases(c) /\ c.key # Leader
  <2>1. Message(c) = [c EXCEPT !.now = 0, !.lease = IF c.op \in {"renew", "release"}
                                                   THEN ToView(c.key, c.lease) ELSE None]
    BY <1>2 DEF Message, LeaseMessage
  <2> QED BY <1>2, <2>1, CallFields
<1>3. CASE ~OfLeases(c)
  BY <1>3, CallFields DEF Message, RecordMessage, MemberMessage, OfLeases
<1> QED BY <1>1, <1>2, <1>3

\* A message gives back the call, but for the time.
LEMMA MessageBack ==
    ASSUME NEW c, ProperCall(c), NEW t
    PROVE  /\ CallOf(Message(c), t) = [c EXCEPT !.now = IF OfLeases(c) THEN t ELSE c.now]
           /\ Message(c).op = c.op /\ Message(c).key = c.key
           /\ OfLeases(Message(c)) <=> OfLeases(c)
           /\ OfMembers(Message(c)) <=> OfMembers(c)
<1>1. c \in Call BY DEF ProperCall
<1>2. c.op \in {"renew", "release"} => FromView(c.key, ToView(c.key, c.lease)) = c.lease
  BY ViewBack DEF ProperCall
<1>3. c.op \notin {"renew", "release"} => c.lease = NoLease
  BY DEF ProperCall
<1>4. Message(c).op = c.op /\ Message(c).key = c.key
  BY <1>1, MessageFields
<1>5. (OfLeases(Message(c)) <=> OfLeases(c)) /\ (OfMembers(Message(c)) <=> OfMembers(c))
  BY <1>4 DEF OfLeases, OfMembers
<1>6. CallOf(Message(c), t) = [op |-> c.op, key |-> c.key, owner |-> c.owner, inst |-> c.inst,
                               value |-> c.value, lease |-> c.lease,
                               now |-> IF OfLeases(c) THEN t ELSE c.now]
  <2> DEFINE m == Message(c)
             lease == IF c.op \in {"renew", "release"} THEN ToView(c.key, c.lease) ELSE None
             now == IF OfLeases(c) THEN 0 ELSE c.now
  <2>1. m = [op |-> c.op, key |-> c.key, owner |-> c.owner, inst |-> c.inst,
             value |-> c.value, lease |-> lease, now |-> now]
    BY <1>1, MessageFields
  <2>2. CallOf(m, t) = [m EXCEPT !.lease = IF m.op \in {"renew", "release"}
                                           THEN FromView(m.key, m.lease) ELSE NoLease,
                                 !.now = IF OfLeases(m) THEN t ELSE m.now]
    BY DEF CallOf
  <2>3. OfLeases(m) <=> OfLeases(c)
    BY <1>5
  <2> HIDE DEF m
  <2>4. /\ (IF m.op \in {"renew", "release"} THEN FromView(m.key, m.lease) ELSE NoLease) = c.lease
        /\ (IF OfLeases(m) THEN t ELSE m.now) = IF OfLeases(c) THEN t ELSE c.now
    BY <1>2, <1>3, <2>1, <2>3
  <2>5. CallOf(m, t) = [m EXCEPT !.lease = c.lease, !.now = IF OfLeases(c) THEN t ELSE c.now]
    BY <2>2, <2>4
  <2>6. CallOf(m, t) = [op |-> c.op, key |-> c.key, owner |-> c.owner, inst |-> c.inst,
                        value |-> c.value, lease |-> c.lease,
                        now |-> IF OfLeases(c) THEN t ELSE c.now]
    BY <2>1, <2>5
  <2> QED BY <2>6 DEF m
<1>7. [c EXCEPT !.now = IF OfLeases(c) THEN t ELSE c.now]
      = [op |-> c.op, key |-> c.key, owner |-> c.owner, inst |-> c.inst,
         value |-> c.value, lease |-> c.lease, now |-> IF OfLeases(c) THEN t ELSE c.now]
  BY <1>1, CallFields
<1> QED BY <1>4, <1>5, <1>6, <1>7

\* The time says nothing of the rest.
LEMMA ProperAtAnyTime ==
    ASSUME NEW c, ProperCall(c), NEW t \in Nat
    PROVE  /\ ProperCall([c EXCEPT !.now = t]) /\ [c EXCEPT !.now = t].now = t
           /\ [[c EXCEPT !.now = t] EXCEPT !.now = c.now] = c
<1>1. c \in Call BY DEF ProperCall
<1>2. [c EXCEPT !.now = t] = [op |-> c.op, key |-> c.key, owner |-> c.owner, inst |-> c.inst,
                              value |-> c.value, lease |-> c.lease, now |-> t]
  BY <1>1, CallFields
<1> DEFINE d == [c EXCEPT !.now = t]
<1>3. d \in Call /\ d.op = c.op /\ d.key = c.key /\ d.inst = c.inst /\ d.value = c.value
      /\ d.lease = c.lease
  BY <1>1 DEF Call
<1>4. [d EXCEPT !.now = c.now] = c
  BY <1>1 DEF Call
<1>5. d.now = t
  BY <1>1 DEF Call
<1> HIDE DEF d
<1>6. ProperCall(d)
  BY <1>3 DEF ProperCall, OfLeases, OfMembers
<1> QED BY <1>4, <1>5, <1>6 DEF d

LEMMA AnswerBack ==
    ASSUME NEW m, NEW a, ProperAnswer(m, a)
    PROVE  AnswerOf(m, Response(m, a)) = a
<1>1. a = [ok |-> a.ok, lease |-> a.lease, value |-> a.value]
  BY DEF ProperAnswer
<1>2. HasLease(m, Response(m, a)) <=> HasLease(m, a)
  BY <1>1 DEF HasLease, Response
<1>3. CASE HasLease(m, a)
  <2>1. FromView(m.key, ToView(m.key, a.lease)) = a.lease
    BY <1>3, ViewBack DEF ProperAnswer
  <2> QED BY <1>1, <1>2, <1>3, <2>1 DEF AnswerOf, Response
<1>4. CASE ~HasLease(m, a)
  <2>1. a.lease = NoLease BY <1>4 DEF ProperAnswer
  <2> QED BY <1>1, <1>2, <1>4, <2>1 DEF AnswerOf, Response
<1> QED BY <1>3, <1>4

-----------------------------------------------------------------------------
(* What the operations do to the contents, and tell.                        *)

ProperResult(c, result) == ProperContents(result.contents) /\ ProperAnswer(c, result.answer)

LEMMA Contains ==
    ASSUME NEW s, ProperContents(s)
    PROVE  /\ s = [lease |-> s.lease, epoch |-> s.epoch, member |-> s.member, record |-> s.record]
           /\ s.lease \in [Keys -> Lease] /\ s.epoch \in [Keys -> Nat]
           /\ s.member \in [Members -> Member]
           /\ s.record \in [Records -> Values \cup {None}]
           /\ \A k \in Keys : /\ s.lease[k] \in Lease /\ ProperLease(s.lease[k])
                              /\ s.lease[k] # NoLease => s.lease[k].key = k
BY DEF ProperContents, Contents, ProperLease

LEMMA PutIsProper ==
    ASSUME NEW s, ProperContents(s), NEW l, ProperLease(l), NEW k \in Keys,
           l # NoLease => l.key = k
    PROVE  ProperContents([s EXCEPT !.lease[k] = l])
<1>1. [s EXCEPT !.lease[k] = l] = [lease |-> [s.lease EXCEPT ![k] = l], epoch |-> s.epoch,
                                   member |-> s.member, record |-> s.record]
  BY Contains
<1>2. [s.lease EXCEPT ![k] = l] \in [Keys -> Lease]
  BY Contains DEF ProperLease
<1> QED BY <1>1, <1>2, Contains DEF ProperContents, Contents

LEMMA CountIsProper ==
    ASSUME NEW s, ProperContents(s), NEW k \in Keys
    PROVE  ProperContents([s EXCEPT !.epoch[k] = s.epoch[k] + 1])
<1>1. [s EXCEPT !.epoch[k] = s.epoch[k] + 1]
      = [lease |-> s.lease, epoch |-> [s.epoch EXCEPT ![k] = s.epoch[k] + 1],
         member |-> s.member, record |-> s.record]
  BY Contains
<1>2. [s.epoch EXCEPT ![k] = s.epoch[k] + 1] \in [Keys -> Nat]
  BY Contains
<1> QED BY <1>1, <1>2, Contains DEF ProperContents, Contents

LEMMA MemberIsProper ==
    ASSUME NEW s, ProperContents(s), NEW member \in [Members -> Member]
    PROVE  ProperContents([s EXCEPT !.member = member])
<1>1. [s EXCEPT !.member = member] = [lease |-> s.lease, epoch |-> s.epoch,
                                      member |-> member, record |-> s.record]
  BY Contains
<1> QED BY <1>1, Contains DEF ProperContents, Contents

LEMMA RecordIsProper ==
    ASSUME NEW s, ProperContents(s), NEW r \in Records, NEW v \in Values
    PROVE  ProperContents([s EXCEPT !.record[r] = v])
<1>1. [s EXCEPT !.record[r] = v] = [lease |-> s.lease, epoch |-> s.epoch, member |-> s.member,
                                    record |-> [s.record EXCEPT ![r] = v]]
  BY Contains
<1>2. [s.record EXCEPT ![r] = v] \in [Records -> Values \cup {None}]
  BY Contains
<1> QED BY <1>1, <1>2, Contains DEF ProperContents, Contents

LEMMA TellsLease ==
    ASSUME NEW c, NEW s, ProperContents(s), NEW save, NEW ok, NEW l, ProperLease(l), NEW value,
           IF c.op = "acquire" \/ (c.op \in {"renew", "get"} /\ ok)
           THEN l.key = c.key ELSE l = NoLease
    PROVE  ProperResult(c, Result(s, save, ok, l, value))
BY DEF ProperResult, Result, ProperAnswer, HasLease

LEMMA LeaseOfCall ==
    ASSUME NEW s, ProperContents(s), NEW c, ProperCall(c), OfLeases(c)
    PROVE  /\ c.key \in Keys /\ c.owner \in Owners /\ c.inst \in Instances \cup {None}
           /\ c.now \in Nat /\ c.now + LeaseTTL \in Nat
           /\ s.lease[c.key] \in Lease /\ ProperLease(s.lease[c.key])
           /\ s.lease[c.key] # NoLease => s.lease[c.key].key = c.key
BY Contains, StoreAssumption DEF ProperCall, Call

LEMMA GrantIsProper ==
    ASSUME NEW s, ProperContents(s), NEW c, ProperCall(c), c.op = "acquire"
    PROVE  ProperResult(c, Granted(s, c))
<1> DEFINE l == [key |-> c.key, owner |-> c.owner, inst |-> c.inst,
                 epoch |-> s.epoch[c.key] + 1, until |-> c.now + LeaseTTL]
<1>1. OfLeases(c) BY DEF OfLeases
<1>2. ProperLease(l) /\ l.key = c.key
  BY <1>1, LeaseOfCall, Contains DEF ProperLease, Lease, ProperCall
<1>3. Put(s, l) = [s EXCEPT !.lease[c.key] = l]
  BY DEF Put
<1>4. ProperContents(Put(s, l))
  BY <1>1, <1>2, <1>3, LeaseOfCall, PutIsProper
<1> HIDE DEF l
<1> DEFINE after == [Put(s, l) EXCEPT !.epoch[c.key] = Put(s, l).epoch[c.key] + 1]
<1>5. ProperContents(after)
  BY <1>1, <1>4, LeaseOfCall, CountIsProper
<1>6. Granted(s, c) = Result(after, TRUE, TRUE, l, None)
  BY DEF Granted, l
<1> HIDE DEF after
<1> QED BY <1>2, <1>5, <1>6, TellsLease

LEMMA RefusalIsProper ==
    ASSUME NEW s, ProperContents(s), NEW c, ProperCall(c), c.op = "acquire",
           s.lease[c.key] # NoLease
    PROVE  ProperResult(c, Refused(s, c))
<1>1. OfLeases(c) BY DEF OfLeases
<1> QED BY <1>1, LeaseOfCall, TellsLease DEF Refused

LEMMA ExtensionIsProper ==
    ASSUME NEW s, ProperContents(s), NEW c, ProperCall(c), c.op \in {"acquire", "renew"},
           s.lease[c.key] # NoLease
    PROVE  ProperResult(c, Extended(s, c))
<1> DEFINE l == [s.lease[c.key] EXCEPT !.until = c.now + LeaseTTL]
<1>1. OfLeases(c) BY DEF OfLeases
<1>2. ProperLease(l) /\ l.key = c.key
  BY <1>1, LeaseOfCall DEF ProperLease, Lease
<1> DEFINE after == [s EXCEPT !.lease[c.key] = l]
<1>3. Extended(s, c) = Result(after, TRUE, TRUE, l, None)
  BY <1>2 DEF Extended, Put
<1> HIDE DEF l
<1>4. ProperContents(after)
  BY <1>1, <1>2, LeaseOfCall, PutIsProper
<1> HIDE DEF after
<1> QED BY <1>2, <1>3, <1>4, TellsLease

LEMMA FailureIsProper ==
    ASSUME NEW s, ProperContents(s), NEW c, c.op # "acquire"
    PROVE  ProperResult(c, Fails(s))
BY NoLeaseIsProper, TellsLease DEF Fails

LEMMA DropIsProper ==
    ASSUME NEW s, ProperContents(s), NEW k \in Keys
    PROVE  ProperContents(Drop(s, k))
BY NoLeaseIsProper, PutIsProper DEF Drop

LEMMA LeasesAreProper ==
    ASSUME NEW s, ProperContents(s), NEW c, ProperCall(c), OfLeases(c), NEW t \in Nat
    PROVE  ProperResult(c, Apply(s, c, t))
<1>1. CASE c.op = "acquire"
  <2>1. HeldByOther(s, c) => s.lease[c.key] # NoLease
    BY DEF HeldByOther, Live
  <2>2. ProperResult(c, AcquireLeader(s, c)) /\ ProperResult(c, AcquireTaskLease(s, c))
    BY <1>1, <2>1, GrantIsProper, RefusalIsProper DEF AcquireLeader, AcquireTaskLease
  <2>3. Live(s.lease[c.key], c.now) => s.lease[c.key] # NoLease
    BY DEF Live
  <2>4. ProperResult(c, AcquireProfileLease(s, c))
    BY <1>1, <2>3, GrantIsProper, RefusalIsProper, ExtensionIsProper DEF AcquireProfileLease
  <2>5. Apply(s, c, t) = Acquire(s, c)
    BY <1>1 DEF Apply
  <2> QED BY <2>2, <2>4, <2>5 DEF Acquire
<1>2. CASE c.op = "renew"
  <2>1. Same(s.lease[c.key], c.lease) => s.lease[c.key] # NoLease
    BY DEF Same
  <2>2. ProperResult(c, RenewLeader(s, c)) /\ ProperResult(c, RenewTaskLease(s, c))
    BY <1>2, <2>1, ExtensionIsProper, FailureIsProper DEF RenewLeader, RenewTaskLease
  <2>3. ProperResult(c, RenewProfileLease(s, c))
    BY <1>2, <2>1, ExtensionIsProper, FailureIsProper DEF RenewProfileLease, SameProfile
  <2>4. Apply(s, c, t) = Renew(s, c)
    BY <1>2 DEF Apply
  <2> QED BY <2>2, <2>3, <2>4 DEF Renew
<1>3. CASE c.op = "get"
  <2>1. c.key \in Keys /\ ProperLease(s.lease[c.key])
        /\ (s.lease[c.key] # NoLease => s.lease[c.key].key = c.key)
    BY LeaseOfCall
  <2>2. ProperResult(c, Result(Drop(s, c.key), TRUE, FALSE, NoLease, None))
    BY <1>3, <2>1, DropIsProper, NoLeaseIsProper, TellsLease
  <2>3. ProperResult(c, Result(s, TRUE, s.lease[c.key] # NoLease, s.lease[c.key], None))
    BY <1>3, <2>1, TellsLease
  <2>4. Apply(s, c, t) = Get(s, c)
    BY <1>3 DEF Apply
  <2> QED BY <2>2, <2>3, <2>4 DEF Get, GetLeader, GetTaskLease, GetProfileLease
<1>4. CASE c.op = "release"
  <2>1. \A mine \in BOOLEAN : ProperResult(c, Gone(s, c, mine))
    <3> SUFFICES ASSUME NEW mine \in BOOLEAN PROVE ProperResult(c, Gone(s, c, mine))
      OBVIOUS
    <3>1. ProperContents(IF mine THEN Drop(s, c.key) ELSE s)
      BY LeaseOfCall, DropIsProper
    <3> QED BY <1>4, <3>1, NoLeaseIsProper, TellsLease DEF Gone
  <2>2. Same(s.lease[c.key], c.lease) \in BOOLEAN /\ SameProfile(s.lease[c.key], c.lease) \in BOOLEAN
    BY DEF Same, SameProfile
  <2>3. Apply(s, c, t) = Release(s, c)
    BY <1>4 DEF Apply
  <2> QED BY <2>1, <2>2, <2>3 DEF Release, ReleaseLeader, ReleaseTaskLease, ReleaseProfileLease
<1> QED BY <1>1, <1>2, <1>3, <1>4 DEF OfLeases

LEMMA NormalIsProper ==
    ASSUME NEW s, ProperContents(s), NEW t
    PROVE  ProperContents(Normalized(s, t))
<1> DEFINE lost(n) == s.member[n].state = "unavailable" \/ ~Beaten(s.member[n], t)
           dead(m) == \/ m \in Nodes /\ lost(m)
                      \/ m \in Instances /\ (lost(s.member[m].node) \/ ~Beaten(s.member[m], t))
           member == [m \in Members |->
                         IF s.member[m].state = "ready" /\ dead(m)
                         THEN [s.member[m] EXCEPT !.state = "unavailable"] ELSE s.member[m]]
<1>1. Normalized(s, t) = [s EXCEPT !.member = member]
  BY DEF Normalized
<1>2. \A m \in Members : /\ s.member[m] \in Member
                         /\ [s.member[m] EXCEPT !.state = "unavailable"] \in Member
  BY Contains DEF States, Member
<1> HIDE DEF dead
<1>3. member \in [Members -> Member]
  BY <1>2
<1> HIDE DEF member
<1> QED BY <1>1, <1>3, MemberIsProper

LEMMA WriteIsProper ==
    ASSUME NEW s, ProperContents(s), NEW c, ~OfLeases(c), c.key \in Members, c.now \in Nat,
           NEW t, NEW state \in States, NEW node \in Nodes \cup {None}
    PROVE  ProperResult(c, Written(s, c, t, state, node))
<1> DEFINE n == Normalized(s, t)
           entry == [state |-> state, beat |-> c.now, node |-> node]
<1>1. ProperContents(n) BY NormalIsProper
<1> HIDE DEF n
<1>2. entry \in Member
  BY DEF Member
<1>3. [n.member EXCEPT ![c.key] = entry] \in [Members -> Member]
  BY <1>1, <1>2, Contains
<1>4. [n EXCEPT !.member[c.key] = entry] = [n EXCEPT !.member = [n.member EXCEPT ![c.key] = entry]]
  BY <1>1, Contains
<1> DEFINE after == [n EXCEPT !.member[c.key] = entry]
<1>5. ProperContents(after)
  BY <1>1, <1>3, <1>4, MemberIsProper
<1>6. Written(s, c, t, state, node) = Result(after, TRUE, TRUE, NoLease, None)
  BY DEF Written, n
<1> HIDE DEF after
<1> QED BY <1>5, <1>6, NoLeaseIsProper, TellsLease DEF OfLeases

LEMMA ApplyIsProper ==
    ASSUME NEW s, ProperContents(s), NEW c, ProperCall(c), NEW t \in Nat
    PROVE  ProperResult(c, Apply(s, c, t))
<1>0. CASE OfLeases(c)
  BY <1>0, LeasesAreProper
<1> SUFFICES ASSUME ~OfLeases(c) PROVE ProperResult(c, Apply(s, c, t))
  BY <1>0
<1>1. c.now \in Nat /\ c.op \in Ops
  BY DEF ProperCall, Call
<1>2. \A r, save, ok, value : ProperContents(r) => ProperResult(c, Result(r, save, ok, NoLease, value))
  BY NoLeaseIsProper, TellsLease DEF OfLeases
<1>3. CASE c.op = "register"
  <2>1. c.key \in Members /\ c.value \in IF c.key \in Nodes THEN States ELSE Nodes
    BY <1>3 DEF ProperCall, OfMembers
  <2>2. Apply(s, c, t) = Register(s, c, t)
    BY <1>3 DEF Apply
  <2>3. "ready" \in States
    BY DEF States
  <2>4. CASE c.key \in Nodes
    BY <1>1, <2>1, <2>2, <2>4, WriteIsProper DEF Register, RegisterNode
  <2>5. CASE c.key \notin Nodes
    BY <1>1, <2>1, <2>2, <2>3, <2>5, WriteIsProper DEF Register, RegisterInstance
  <2> QED BY <2>4, <2>5
<1>4. CASE c.op = "heartbeat"
  <2>1. c.key \in Members
    BY <1>4 DEF ProperCall, OfMembers
  <2>2. Apply(s, c, t) = Heartbeat(s, c, t)
    BY <1>4 DEF Apply
  <2>3. "ready" \in States
    BY DEF States
  <2>4. s.member[c.key].node \in Nodes \cup {None}
    BY <2>1, Contains DEF Member
  <2>5. ProperResult(c, HeartbeatNode(s, c, t))
    BY <1>1, <1>4, <2>1, <2>3, <2>4, WriteIsProper, NormalIsProper, FailureIsProper DEF HeartbeatNode
  <2> QED BY <2>2, <2>5 DEF Heartbeat, HeartbeatInstance
<1>5. CASE c.op = "look"
  <2>1. Apply(s, c, t) = Look(s, c, t)
    BY <1>5 DEF Apply
  <2>2. ProperResult(c, GetNode(s, c, t))
    BY <1>2, NormalIsProper DEF GetNode
  <2> QED BY <2>1, <2>2 DEF Look, GetInstance
<1>6. CASE c.op = "remove"
  <2> DEFINE none == NoMember
  <2>1. c.key \in Members
    BY <1>6 DEF ProperCall, OfMembers
  <2>2. [s EXCEPT !.member[c.key] = none] = [s EXCEPT !.member = [s.member EXCEPT ![c.key] = none]]
    BY Contains
  <2>3. none \in Member
    BY DEF NoMember, Member, States
  <2>4. [s.member EXCEPT ![c.key] = none] \in [Members -> Member]
    BY <2>1, <2>3, Contains
  <2> DEFINE after == [s EXCEPT !.member[c.key] = none]
  <2>5. ProperContents(after)
    BY <2>2, <2>4, MemberIsProper
  <2>6. Apply(s, c, t) = Result(after, TRUE, TRUE, NoLease, None)
    BY <1>6 DEF Apply, RemoveInstance
  <2> HIDE DEF after
  <2> QED BY <1>2, <2>5, <2>6
<1>7. CASE c.op = "put"
  <2>1. c.key \in Records /\ c.value \in Values
    BY <1>7 DEF ProperCall
  <2>2. Apply(s, c, t) = Upsert(s, c)
    BY <1>7 DEF Apply
  <2> QED BY <1>2, <2>1, <2>2, RecordIsProper DEF Upsert
<1>8. CASE c.op = "read"
  <2>1. Apply(s, c, t) = Read(s, c)
    BY <1>8 DEF Apply
  <2> QED BY <1>2, <2>1 DEF Read
<1> QED BY <1>1, <1>3, <1>4, <1>5, <1>6, <1>7, <1>8 DEF Ops, OfLeases

-----------------------------------------------------------------------------
(* The messages of a call, step by step.                                    *)

LEMMA RemoteInvInit == InitRemote => RemoteInv
<1> SUFFICES ASSUME InitRemote PROVE RemoteInv
  OBVIOUS
<1>1. ProperContents(Empty)
  <2>1. Empty.lease = [k \in Keys |-> NoLease] /\ Empty \in Contents
    BY NoLeaseIsProper DEF Empty, Contents, NoMember, Member, States
  <2> QED BY <2>1, NoLeaseIsProper DEF ProperContents
<1>2. ProperLease(Nothing.lease)
  BY NoLeaseIsProper DEF Nothing
<1>3. RemoteShape
  BY <1>1 DEF InitRemote, RemoteShape
<1>4. \A h \in Handlers : Wire(h)
  BY <1>2 DEF InitRemote, Wire
<1> QED BY <1>3, <1>4 DEF RemoteInv

\* What is known of the handlers.
LEMMA Handler ==
    ASSUME RemoteInv, NEW h \in Handlers
    PROVE  /\ time \in Nat /\ asked[h] \in Nat /\ asked[h] <= time
           /\ at[h] \in {"idle", "sent", "running", "done"}
           /\ Wire(h)
BY DEF RemoteInv, RemoteShape

LEMMA WireKept ==
    ASSUME RemoteInv, NEW h \in Handlers, time' \in {time, time + 1},
           at'[h] = at[h], sent'[h] = sent[h], back'[h] = back[h], heard'[h] = heard[h],
           asked'[h] = asked[h]
    PROVE  Wire(h)'
<1>1. at[h] \in {"running", "done"} => sent[h].now \in asked[h] .. time'
  BY Handler DEF Wire
<1> QED BY <1>1, Handler DEF Wire

\* Only the handler h did something.
OnlyAt(h) == /\ at' = [at EXCEPT ![h] = at'[h]]
             /\ sent' = [sent EXCEPT ![h] = sent'[h]]
             /\ back' = [back EXCEPT ![h] = back'[h]]
             /\ heard' = [heard EXCEPT ![h] = heard'[h]]
             /\ asked' = [asked EXCEPT ![h] = asked'[h]]

LEMMA InvOfOne ==
    ASSUME RemoteInv, NEW h \in Handlers, OnlyAt(h), UNCHANGED time,
           at'[h] \in {"idle", "sent", "running", "done"}, asked'[h] \in 0 .. time,
           Wire(h)', ProperContents(kept')
    PROVE  RemoteInv'
<1> USE DEF OnlyAt
<1>1. \A g \in Handlers \ {h} : /\ at'[g] = at[g] /\ sent'[g] = sent[g] /\ back'[g] = back[g]
                                /\ heard'[g] = heard[g] /\ asked'[g] = asked[g]
  BY DEF RemoteInv, RemoteShape
<1>2. \A g \in Handlers \ {h} : Wire(g)'
  BY <1>1, WireKept
<1>3. at' \in [Handlers -> {"idle", "sent", "running", "done"}]
  BY DEF RemoteInv, RemoteShape
<1>4. asked' \in [Handlers -> Nat] /\ \A g \in Handlers : asked'[g] <= time'
  BY DEF RemoteInv, RemoteShape
<1>5. /\ sent' = [g \in Handlers |-> sent'[g]]
      /\ back' = [g \in Handlers |-> back'[g]]
      /\ heard' = [g \in Handlers |-> heard'[g]]
  BY DEF RemoteInv, RemoteShape
<1>6. RemoteShape'
  BY <1>3, <1>4, <1>5 DEF RemoteInv, RemoteShape
<1> QED BY <1>2, <1>6 DEF RemoteInv

LEMMA InvOver ==
    ASSUME RemoteInv, NEW over, NEW told, Over(over, told), ProperLease(told.lease),
           UNCHANGED <<time, kept>>
    PROVE  RemoteInv'
<1>1. \A h \in Handlers : Wire(h)'
  <2> SUFFICES ASSUME NEW h \in Handlers PROVE Wire(h)'
    OBVIOUS
  <2>1. CASE h \in over
    BY <2>1 DEF Over, Wire
  <2>2. CASE h \notin over
    BY <2>2, WireKept DEF Over
  <2> QED BY <2>1, <2>2
<1>2. /\ at' \in [Handlers -> {"idle", "sent", "running", "done"}]
      /\ asked' \in [Handlers -> Nat] /\ \A g \in Handlers : asked'[g] <= time'
  BY DEF Over, RemoteInv, RemoteShape
<1>3. /\ sent' = [g \in Handlers |-> sent'[g]]
      /\ back' = [g \in Handlers |-> back'[g]]
      /\ heard' = [g \in Handlers |-> heard'[g]]
  BY DEF Over
<1>4. RemoteShape'
  BY <1>2, <1>3 DEF RemoteInv, RemoteShape
<1> QED BY <1>1, <1>4 DEF RemoteInv

\* The message of a call that was made just now is the call's.
LEMMA MessageOfNow ==
    ASSUME NEW c, ProperCall(c)
    PROVE  CallOf(Message(c), c.now) = c
<1>1. [c EXCEPT !.now = c.now] = c
  BY CallFields DEF ProperCall
<1>2. (IF OfLeases(c) THEN c.now ELSE c.now) = c.now
  OBVIOUS
<1> QED BY <1>1, <1>2, MessageBack

\* A handler asks for a call of its owner.
LEMMA AskFacts ==
    ASSUME RemoteInv, ClientOf \in [Handlers -> Owners], NEW h \in Handlers, Ask(h)
    PROVE  \E q \in Handlers : \E c \in Calls(ClientOf[h], heard[q].lease, time) :
              /\ ClientOf[q] = ClientOf[h] /\ at[q] = "idle"
              /\ ProperCall(c) /\ c.now = time
              /\ sent' = [sent EXCEPT ![h] = Message(c)]
              /\ CallOf(Message(c), time) = c
<1>1. PICK q \in Handlers : /\ ClientOf[q] = ClientOf[h] /\ at[q] = "idle"
                            /\ \E c \in Calls(ClientOf[h], heard[q].lease, time) :
                                  sent' = [sent EXCEPT ![h] = Message(c)]
  BY DEF Ask
<1>2. PICK c \in Calls(ClientOf[h], heard[q].lease, time) : sent' = [sent EXCEPT ![h] = Message(c)]
  BY <1>1
<1>3. ProperLease(heard[q].lease) /\ time \in Nat /\ ClientOf[h] \in Owners
  BY Handler DEF Wire
<1>4. ProperCall(c) /\ c.now = time
  BY <1>3, CallsAreProper
<1>5. CallOf(Message(c), time) = c
  BY <1>4, MessageOfNow
<1> QED BY <1>1, <1>2, <1>4, <1>5

LEMMA AskInv ==
    ASSUME RemoteInv, ClientOf \in [Handlers -> Owners], NEW h \in Handlers, Ask(h)
    PROVE  RemoteInv'
<1>1. PICK c : /\ ProperCall(c) /\ c.now = time
               /\ sent' = [sent EXCEPT ![h] = Message(c)] /\ CallOf(Message(c), time) = c
  BY AskFacts
<1>2. /\ at' = [at EXCEPT ![h] = "sent"] /\ asked' = [asked EXCEPT ![h] = time]
      /\ UNCHANGED <<time, kept, back, heard>>
  BY DEF Ask
<1>3. at'[h] = "sent" /\ asked'[h] = time /\ sent'[h] = Message(c) /\ OnlyAt(h)
  BY <1>1, <1>2 DEF OnlyAt, RemoteInv, RemoteShape
<1>4. Wire(h)'
  BY <1>1, <1>2, <1>3, Handler DEF Wire
<1> QED BY <1>2, <1>3, <1>4, Handler, InvOfOne DEF RemoteInv, RemoteShape

\* The call that a handler is about to serve, and the one that it serves.
LEMMA ServedCall ==
    ASSUME RemoteInv, NEW h \in Handlers, at[h] = "sent"
    PROVE  LET c == CallOf(sent[h], asked[h])
               d == CallOf(sent[h], time)
           IN  /\ ProperCall(c) /\ ProperCall(d)
               /\ sent[h].op = c.op /\ sent[h].key = c.key
               /\ d.now \in asked[h] .. time
               /\ [d EXCEPT !.now = asked[h]] = c
<1> DEFINE c == CallOf(sent[h], asked[h])
           d == CallOf(sent[h], time)
           t == IF OfLeases(c) THEN time ELSE c.now
<1>1. ProperCall(c) /\ c.now = asked[h] /\ sent[h] = Message(c)
      /\ time \in Nat /\ asked[h] \in Nat /\ asked[h] <= time
  BY Handler DEF Wire
<1>2. d = CallOf(Message(c), time)
  BY <1>1
<1> HIDE DEF c, d
<1>3. d = [c EXCEPT !.now = t] /\ sent[h].op = c.op /\ sent[h].key = c.key
  BY <1>1, <1>2, MessageBack
<1>4. t \in asked[h] .. time
  BY <1>1
<1> HIDE DEF t
<1>5. t \in Nat
  BY <1>1, <1>4
<1>6. ProperCall(d) /\ d.now = t /\ [d EXCEPT !.now = asked[h]] = c
  BY <1>1, <1>3, <1>5, ProperAtAnyTime
<1> QED BY <1>1, <1>3, <1>4, <1>6 DEF c, d

LEMMA ServeInv ==
    ASSUME RemoteInv, NEW h \in Handlers, NEW allowed, at[h] = "sent", Serve(h, allowed)
    PROVE  RemoteInv'
<1>1. CASE ~allowed
  BY <1>1, NoLeaseIsProper, InvOver DEF Serve, Nothing
<1>2. CASE allowed
  <2>1. /\ sent' = [sent EXCEPT ![h] = CallOf(sent[h], time)]
        /\ at' = [at EXCEPT ![h] = "running"]
        /\ UNCHANGED <<back, heard, asked, time, kept>>
    BY <1>2 DEF Serve
  <2>2. at'[h] = "running" /\ sent'[h] = CallOf(sent[h], time) /\ OnlyAt(h)
    BY <2>1 DEF OnlyAt, RemoteInv, RemoteShape
  <2>3. ProperCall(sent'[h]) /\ sent'[h].now \in asked[h] .. time
    BY <2>2, ServedCall
  <2>4. Wire(h)'
    BY <2>1, <2>2, <2>3, Handler DEF Wire
  <2> QED BY <2>1, <2>2, <2>4, Handler, InvOfOne DEF RemoteInv, RemoteShape
<1> QED BY <1>1, <1>2

\* What an operation that is executed leaves and tells.
LEMMA ExecuteFacts ==
    ASSUME RemoteInv, NEW h \in Handlers, Execute(h)
    PROVE  LET result == Apply(kept, sent[h], time)
           IN  /\ at[h] = "running" /\ at' = [at EXCEPT ![h] = "done"]
               /\ kept' = result.contents \/ (~result.save /\ kept' = kept)
               /\ back' = [back EXCEPT ![h] = Response(sent[h], result.answer)]
               /\ UNCHANGED <<time, sent, heard, asked>>
               /\ ProperContents(kept')
               /\ ProperAnswer(sent[h], result.answer)
               /\ AnswerOf(sent[h], Response(sent[h], result.answer)) = result.answer
<1> DEFINE result == Apply(kept, sent[h], time)
<1>1. /\ at[h] = "running" /\ at' = [at EXCEPT ![h] = "done"]
      /\ kept' \in {result.contents} \cup IF result.save THEN {} ELSE {kept}
      /\ back' = [back EXCEPT ![h] = Response(sent[h], result.answer)]
      /\ UNCHANGED <<time, sent, heard, asked>>
  BY DEF Execute
<1>2. ProperContents(kept) /\ ProperCall(sent[h]) /\ time \in Nat
  BY <1>1, Handler DEF Wire, RemoteInv, RemoteShape
<1>3. ProperContents(result.contents) /\ ProperAnswer(sent[h], result.answer)
  BY <1>2, ApplyIsProper DEF ProperResult
<1> HIDE DEF result
<1>4. kept' = result.contents \/ (~result.save /\ kept' = kept)
  BY <1>1
<1> QED BY <1>1, <1>2, <1>3, <1>4, AnswerBack DEF result

LEMMA ExecuteInv ==
    ASSUME RemoteInv, NEW h \in Handlers, Execute(h)
    PROVE  RemoteInv'
<1> DEFINE told == Apply(kept, sent[h], time).answer
<1>1. /\ at[h] = "running" /\ at' = [at EXCEPT ![h] = "done"]
      /\ back' = [back EXCEPT ![h] = Response(sent[h], told)]
      /\ UNCHANGED <<time, sent, heard, asked>>
      /\ ProperContents(kept')
      /\ ProperAnswer(sent[h], AnswerOf(sent[h], Response(sent[h], told)))
  BY ExecuteFacts
<1> HIDE DEF told
<1>2. at'[h] = "done" /\ back'[h] = Response(sent[h], told) /\ OnlyAt(h)
  BY <1>1 DEF OnlyAt, RemoteInv, RemoteShape
<1>3. Wire(h)'
  BY <1>1, <1>2, Handler DEF Wire
<1> QED BY <1>1, <1>2, <1>3, Handler, InvOfOne

LEMMA RemoteInvStep ==
    ASSUME RemoteInv, ClientOf \in [Handlers -> Owners], [NextRemote]_remoteVars
    PROVE  RemoteInv'
<1>1. ASSUME NEW h \in Handlers, Ask(h) PROVE RemoteInv'
  BY <1>1, AskInv
<1>2. ASSUME NEW h \in Handlers, Execute(h) PROVE RemoteInv'
  BY <1>2, ExecuteInv
<1>3. ASSUME NEW h \in Handlers,
             ServeMembership(h) \/ ServeLookup(h) \/ ServeLeader(h) \/ ServeLease(h) \/ ServeRecord(h)
      PROVE  RemoteInv'
  BY <1>3, ServeInv DEF ServeMembership, ServeLookup, ServeLeader, ServeLease, ServeRecord
<1>4. ASSUME NEW h \in Handlers, StoreFails(h) \/ Forget(h) PROVE RemoteInv'
  BY <1>4, NoLeaseIsProper, InvOver DEF StoreFails, Forget, Nothing
<1>5. ASSUME NEW h \in Handlers, Deliver(h) PROVE RemoteInv'
  <2>1. /\ at[h] = "done" /\ Over({h}, AnswerOf(sent[h], back[h])) /\ UNCHANGED <<time, kept>>
    BY <1>5 DEF Deliver
  <2>2. ProperLease(AnswerOf(sent[h], back[h]).lease)
    BY <2>1, Handler DEF Wire, ProperAnswer
  <2> QED BY <2>1, <2>2, InvOver
<1>6. ASSUME UNCHANGED <<kept, at, sent, back, heard, asked>>, time' \in {time, time + 1}
      PROVE  RemoteInv'
  <2>1. \A h \in Handlers : Wire(h)'
    BY <1>6, WireKept
  <2>2. time' \in Nat /\ \A h \in Handlers : asked[h] <= time'
    BY <1>6 DEF RemoteInv, RemoteShape
  <2>3. RemoteShape'
    BY <1>6, <2>2 DEF RemoteInv, RemoteShape
  <2> QED BY <2>1, <2>3 DEF RemoteInv
<1>7. CASE Restart
  BY <1>7, NoLeaseIsProper, InvOver DEF Restart, Nothing
<1>8. CASE Elapse \/ (\E h \in Handlers : GiveUp(h)) \/ UNCHANGED remoteVars
  BY <1>6, <1>8 DEF Elapse, GiveUp, remoteVars
<1> QED BY <1>1, <1>2, <1>3, <1>4, <1>5, <1>7, <1>8 DEF NextRemote

-----------------------------------------------------------------------------
(* What the atomic store shows of a step.                                   *)

LEMMA RemoteInitRefines == InitRemote => Store!Init
BY DEF InitRemote, Store!Init, StageOf, CallAt, Learnt, Begun

\* A handler that did nothing shows nothing.
LEMMA Others ==
    ASSUME RemoteInv, NEW h \in Handlers, OnlyAt(h)
    PROVE  /\ StageOf' = [StageOf EXCEPT ![h] = StageOf'[h]]
           /\ CallAt' = [CallAt EXCEPT ![h] = CallAt'[h]]
           /\ Learnt' = [Learnt EXCEPT ![h] = Learnt'[h]]
<1>1. \A g \in Handlers \ {h} : /\ at'[g] = at[g] /\ sent'[g] = sent[g] /\ back'[g] = back[g]
                                /\ heard'[g] = heard[g] /\ asked'[g] = asked[g]
  BY DEF OnlyAt, RemoteInv, RemoteShape
<1>2. \A g \in Handlers \ {h} : StageOf'[g] = StageOf[g]
  BY <1>1 DEF StageOf, Begun, SubjectAt
<1>3. \A g \in Handlers \ {h} : CallAt'[g] = CallAt[g]
  BY <1>1 DEF CallAt, Begun, SubjectAt
<1>4. \A g \in Handlers \ {h} : Learnt'[g] = Learnt[g]
  BY <1>1 DEF Learnt
<1>5. /\ StageOf = [g \in Handlers |-> StageOf[g]] /\ StageOf' = [g \in Handlers |-> StageOf'[g]]
      /\ CallAt = [g \in Handlers |-> CallAt[g]] /\ CallAt' = [g \in Handlers |-> CallAt'[g]]
      /\ Learnt = [g \in Handlers |-> Learnt[g]] /\ Learnt' = [g \in Handlers |-> Learnt'[g]]
  BY DEF StageOf, CallAt, Learnt
<1> HIDE DEF StageOf, CallAt, Learnt
<1> QED BY <1>2, <1>3, <1>4, <1>5

LEMMA AskRefines ==
    ASSUME RemoteInv, ClientOf \in [Handlers -> Owners], NEW h \in Handlers, Ask(h)
    PROVE  Store!Next \/ UNCHANGED Store!vars
<1>1. PICK q \in Handlers : \E c \in Calls(ClientOf[h], heard[q].lease, time) :
              /\ ClientOf[q] = ClientOf[h] /\ at[q] = "idle"
              /\ ProperCall(c) /\ c.now = time
              /\ sent' = [sent EXCEPT ![h] = Message(c)]
              /\ CallOf(Message(c), time) = c
  BY AskFacts
<1>2. PICK c \in Calls(ClientOf[h], heard[q].lease, time) :
              /\ ClientOf[q] = ClientOf[h] /\ at[q] = "idle"
              /\ ProperCall(c) /\ c.now = time
              /\ sent' = [sent EXCEPT ![h] = Message(c)]
              /\ CallOf(Message(c), time) = c
  BY <1>1
<1>3. /\ at[h] = "idle" /\ at' = [at EXCEPT ![h] = "sent"] /\ asked' = [asked EXCEPT ![h] = time]
      /\ UNCHANGED <<time, kept, back, heard>>
  BY DEF Ask
<1>4. at'[h] = "sent" /\ asked'[h] = time /\ sent'[h] = Message(c) /\ OnlyAt(h)
  BY <1>2, <1>3 DEF OnlyAt, RemoteInv, RemoteShape
<1>5. Begun(h)' <=> Entitled(SubjectAt(h), c)
  <2>1. Message(c).op = c.op /\ Message(c).key = c.key /\ Message(c).value = c.value
    <3>1. ProperCall(c) /\ c \in Call
      BY <1>2 DEF ProperCall
    <3>2. Message(c).value = c.value
      BY <3>1, MessageFields
    <3> QED BY <3>1, <3>2, MessageBack
  <2> QED BY <1>4, <2>1 DEF Begun, Entitled, SubjectAt
<1>6. StageOf[h] = "idle" /\ CallAt[h] = None /\ Learnt'[h] = Learnt[h] /\ Learnt[q] = heard[q]
  BY <1>2, <1>3, <1>4 DEF StageOf, CallAt, Learnt, Begun
<1>7. CASE Entitled(SubjectAt(h), c)
  <2>1. StageOf'[h] = "called" /\ CallAt'[h] = c
    BY <1>2, <1>4, <1>5, <1>7 DEF StageOf, CallAt
  <2>2. c \in EntitledCalls(ClientOf[h], Learnt[q].lease, time)
    BY <1>2, <1>6, <1>7 DEF EntitledCalls, SubjectAt
  <2>3. StageOf' = [StageOf EXCEPT ![h] = "called"] /\ CallAt' = [CallAt EXCEPT ![h] = c]
        /\ Learnt' = [Learnt EXCEPT ![h] = Learnt[h]]
    BY <1>4, <1>6, <2>1, Others
  <2>4. UNCHANGED Learnt
    BY <2>3 DEF Learnt
  <2>5. Store!Begin(h)
    BY <1>2, <1>3, <1>6, <2>2, <2>3, <2>4 DEF Store!Begin
  <2> QED BY <2>5 DEF Store!Next
<1>8. CASE ~Entitled(SubjectAt(h), c)
  <2>1. StageOf'[h] = "idle" /\ CallAt'[h] = None
    BY <1>4, <1>5, <1>8 DEF StageOf, CallAt
  <2>2. StageOf' = [StageOf EXCEPT ![h] = StageOf[h]] /\ CallAt' = [CallAt EXCEPT ![h] = CallAt[h]]
        /\ Learnt' = [Learnt EXCEPT ![h] = Learnt[h]]
    BY <1>4, <1>6, <2>1, Others
  <2>3. UNCHANGED <<StageOf, CallAt, Learnt>>
    BY <2>2 DEF StageOf, CallAt, Learnt
  <2> QED BY <1>3, <2>3 DEF Store!vars
<1> QED BY <1>7, <1>8

\* Whom a handler answers is entitled to the call.
LEMMA AllowedIsEntitled ==
    ASSUME NEW s, NEW m, m.op \in Ops
    PROVE  /\ OfMembers(m) /\ MembershipAllowed(s, m) => Entitled(s, m)
           /\ m.op \in {"look", "read"} /\ LookupAllowed(s) => Entitled(s, m)
           /\ OfLeases(m) /\ LeaderAllowed(s, m) => Entitled(s, m)
           /\ OfLeases(m) /\ LeaseAllowed(s, m) => Entitled(s, m)
           /\ m.op = "put" /\ RecordAllowed(s, m) => Entitled(s, m)
<1> USE DEF Entitled, AuthorizeFabric, AuthorizeConductor, AuthorizeNode
<1>1. OfMembers(m) /\ MembershipAllowed(s, m) => Entitled(s, m)
  BY DEF OfMembers, MembershipAllowed, AuthorizeConductorNode, AuthorizeInstance, NodeOf
<1>2. m.op \in {"look", "read"} /\ LookupAllowed(s) => Entitled(s, m)
  BY DEF LookupAllowed
<1>3. /\ OfLeases(m) /\ LeaderAllowed(s, m) => Entitled(s, m)
      /\ OfLeases(m) /\ LeaseAllowed(s, m) => Entitled(s, m)
  BY DEF OfLeases, LeaderAllowed, LeaseAllowed
<1>4. m.op = "put" /\ RecordAllowed(s, m) => Entitled(s, m)
  BY DEF RecordAllowed
<1> QED BY <1>1, <1>2, <1>3, <1>4

\* Calls that are over: they failed, or their caller is gone.
LEMMA OverRefines ==
    ASSUME NEW over \in SUBSET Handlers, Over(over, Nothing), UNCHANGED <<time, kept>>
    PROVE  Store!Lose(over)
<1>1. \A h \in Handlers \ over : /\ at'[h] = at[h] /\ sent'[h] = sent[h] /\ back'[h] = back[h]
                                 /\ heard'[h] = heard[h] /\ asked'[h] = asked[h]
  BY DEF Over
<1>2. \A h \in over : at'[h] = "idle" /\ heard'[h] = Nothing
  BY DEF Over
<1>3. StageOf' = [h \in Handlers |-> IF h \in over THEN "idle" ELSE StageOf[h]]
  BY <1>1, <1>2 DEF StageOf, Begun, SubjectAt
<1>4. CallAt' = [h \in Handlers |-> IF h \in over THEN None ELSE CallAt[h]]
  BY <1>1, <1>2 DEF CallAt, Begun, SubjectAt
<1>5. Learnt' = [h \in Handlers |-> IF h \in over THEN Nothing ELSE Learnt[h]]
  BY <1>1, <1>2 DEF Learnt
<1> QED BY <1>3, <1>4, <1>5 DEF Store!Lose

LEMMA ServeRefines ==
    ASSUME RemoteInv, NEW h \in Handlers, NEW allowed, at[h] = "sent", Serve(h, allowed),
           allowed => Entitled(SubjectAt(h), sent[h])
    PROVE  Store!Next \/ UNCHANGED Store!vars
<1>1. CASE ~allowed
  <2>1. Store!Lose({h})
    BY <1>1, OverRefines DEF Serve
  <2> QED BY <2>1 DEF Store!Next
<1>2. CASE allowed
  <2>1. /\ sent' = [sent EXCEPT ![h] = CallOf(sent[h], time)]
        /\ at' = [at EXCEPT ![h] = "running"]
        /\ UNCHANGED <<back, heard, asked, time, kept>>
    BY <1>2 DEF Serve
  <2>2. at'[h] = "running" /\ sent'[h] = CallOf(sent[h], time) /\ OnlyAt(h)
    BY <2>1 DEF OnlyAt, RemoteInv, RemoteShape
  <2>3. Begun(h) /\ Begun(h)'
    BY <1>2, <2>2 DEF Begun
  <2>4. StageOf[h] = "called" /\ StageOf'[h] = "called" /\ Learnt'[h] = Learnt[h]
    BY <2>1, <2>2, <2>3 DEF StageOf, Learnt
  <2>5. CallAt[h] = CallOf(sent[h], asked[h])
        /\ CallAt'[h] = [CallOf(sent[h], time) EXCEPT !.now = asked[h]]
    BY <2>1, <2>2, <2>3 DEF CallAt
  <2>6. CallAt'[h] = CallAt[h]
    BY <2>5, ServedCall
  <2>7. StageOf' = [StageOf EXCEPT ![h] = StageOf[h]] /\ CallAt' = [CallAt EXCEPT ![h] = CallAt[h]]
        /\ Learnt' = [Learnt EXCEPT ![h] = Learnt[h]]
    BY <2>2, <2>4, <2>6, Others
  <2>8. UNCHANGED <<StageOf, CallAt, Learnt>>
    BY <2>7 DEF StageOf, CallAt, Learnt
  <2> QED BY <2>1, <2>8 DEF Store!vars
<1> QED BY <1>1, <1>2

LEMMA ExecuteRefines ==
    ASSUME RemoteInv, NEW h \in Handlers, Execute(h)
    PROVE  Store!Do(h)
<1> DEFINE result == Apply(kept, sent[h], time)
<1>1. /\ at[h] = "running" /\ at' = [at EXCEPT ![h] = "done"]
      /\ kept' = result.contents \/ (~result.save /\ kept' = kept)
      /\ back' = [back EXCEPT ![h] = Response(sent[h], result.answer)]
      /\ UNCHANGED <<time, sent, heard, asked>>
      /\ AnswerOf(sent[h], Response(sent[h], result.answer)) = result.answer
  BY ExecuteFacts
<1>2. /\ ProperCall(sent[h]) /\ sent[h].now \in asked[h] .. time
      /\ asked[h] \in Nat /\ time \in Nat
  BY <1>1, Handler DEF Wire
<1>3. at'[h] = "done" /\ back'[h] = Response(sent[h], result.answer) /\ OnlyAt(h)
  BY <1>1 DEF OnlyAt, RemoteInv, RemoteShape
<1>4. Begun(h) /\ Begun(h)'
  BY <1>1, <1>3 DEF Begun
<1>5. StageOf[h] = "called" /\ StageOf'[h] = "done"
  BY <1>1, <1>3, <1>4 DEF StageOf
<1>6. CallAt[h] = [sent[h] EXCEPT !.now = asked[h]] /\ CallAt'[h] = CallAt[h]
  BY <1>1, <1>3, <1>4 DEF CallAt
<1>7. Learnt'[h] = result.answer
  BY <1>1, <1>3 DEF Learnt
<1>8. CallAt[h].now = asked[h] /\ [CallAt[h] EXCEPT !.now = sent[h].now] = sent[h]
  <2>1. /\ [sent[h] EXCEPT !.now = asked[h]].now = asked[h]
        /\ [[sent[h] EXCEPT !.now = asked[h]] EXCEPT !.now = sent[h].now] = sent[h]
    BY <1>2, ProperAtAnyTime
  <2> QED BY <1>6, <2>1, Zenon
<1> HIDE DEF result
<1>9. StageOf' = [StageOf EXCEPT ![h] = "done"] /\ CallAt' = [CallAt EXCEPT ![h] = CallAt[h]]
      /\ Learnt' = [Learnt EXCEPT ![h] = result.answer]
  BY <1>3, <1>5, <1>6, <1>7, Others
<1>10. UNCHANGED CallAt
  BY <1>9 DEF CallAt
<1>11. sent[h].now \in CallAt[h].now .. time /\ time \in sent[h].now .. time
  BY <1>2, <1>8
<1>12. result = Apply(kept, [CallAt[h] EXCEPT !.now = sent[h].now], time)
  BY <1>8 DEF result
<1>13. \E t \in sent[h].now .. time :
          LET r == Apply(kept, [CallAt[h] EXCEPT !.now = sent[h].now], t)
          IN  /\ kept' = r.contents \/ (~r.save /\ UNCHANGED kept)
              /\ Learnt' = [Learnt EXCEPT ![h] = r.answer]
  BY <1>1, <1>9, <1>11, <1>12, Zenon
<1> QED BY <1>1, <1>5, <1>9, <1>10, <1>11, <1>13 DEF Store!Do

LEMMA DeliverRefines ==
    ASSUME RemoteInv, NEW h \in Handlers, Deliver(h)
    PROVE  Store!Return(h)
<1>1. /\ at[h] = "done" /\ Over({h}, AnswerOf(sent[h], back[h])) /\ UNCHANGED <<time, kept>>
  BY DEF Deliver
<1>2. /\ at'[h] = "idle" /\ heard'[h] = AnswerOf(sent[h], back[h]) /\ OnlyAt(h)
  BY <1>1 DEF Over, OnlyAt, RemoteInv, RemoteShape
<1>3. StageOf[h] = "done" /\ StageOf'[h] = "idle" /\ CallAt'[h] = None /\ Learnt'[h] = Learnt[h]
  BY <1>1, <1>2 DEF StageOf, CallAt, Learnt, Begun
<1>4. StageOf' = [StageOf EXCEPT ![h] = "idle"] /\ CallAt' = [CallAt EXCEPT ![h] = None]
      /\ Learnt' = [Learnt EXCEPT ![h] = Learnt[h]]
  BY <1>2, <1>3, Others
<1>5. UNCHANGED Learnt
  BY <1>4 DEF Learnt
<1> QED BY <1>1, <1>3, <1>4, <1>5 DEF Store!Return

LEMMA RemoteStepRefines ==
    ASSUME RemoteInv, ClientOf \in [Handlers -> Owners], [NextRemote]_remoteVars
    PROVE  Store!Next \/ UNCHANGED Store!vars
<1>1. ASSUME NEW h \in Handlers, Ask(h) PROVE Store!Next \/ UNCHANGED Store!vars
  BY <1>1, AskRefines
<1>2. ASSUME NEW h \in Handlers, Execute(h) PROVE Store!Next
  BY <1>2, ExecuteRefines DEF Store!Next
<1>3. ASSUME NEW h \in Handlers,
             ServeMembership(h) \/ ServeLookup(h) \/ ServeLeader(h) \/ ServeLease(h) \/ ServeRecord(h)
      PROVE  Store!Next \/ UNCHANGED Store!vars
  <2>1. at[h] = "sent"
    BY <1>3 DEF ServeMembership, ServeLookup, ServeLeader, ServeLease, ServeRecord
  <2>2. sent[h].op \in Ops
    BY <2>1, ServedCall DEF ProperCall, Call
  <2>3. PICK allowed : Serve(h, allowed) /\ (allowed => Entitled(SubjectAt(h), sent[h]))
    BY <1>3, <2>2, AllowedIsEntitled
       DEF ServeMembership, ServeLookup, ServeLeader, ServeLease, ServeRecord
  <2> QED BY <2>1, <2>3, ServeRefines
<1>4. ASSUME NEW h \in Handlers, StoreFails(h) \/ Forget(h) PROVE Store!Next
  <2>1. Over({h}, Nothing) /\ UNCHANGED <<time, kept>>
    BY <1>4 DEF StoreFails, Forget
  <2>2. Store!Lose({h})
    BY <2>1, OverRefines
  <2> QED BY <2>2 DEF Store!Next
<1>5. ASSUME NEW h \in Handlers, Deliver(h) PROVE Store!Next
  BY <1>5, DeliverRefines DEF Store!Next
<1>6. CASE Restart
  <2> DEFINE over == {h \in Handlers : at[h] # "idle"}
  <2>1. Over(over, Nothing) /\ UNCHANGED <<time, kept>> /\ over \in SUBSET Handlers
    BY <1>6 DEF Restart
  <2> HIDE DEF over
  <2>2. Store!Lose(over)
    BY <2>1, OverRefines
  <2> QED BY <2>1, <2>2 DEF Store!Next
<1>7. ASSUME UNCHANGED <<kept, at, sent, back, heard, asked>>
      PROVE  UNCHANGED <<kept, StageOf, CallAt, Learnt>>
  BY <1>7 DEF StageOf, CallAt, Learnt, Begun, SubjectAt
<1>8. CASE Elapse
  BY <1>7, <1>8 DEF Elapse, Store!Next, Store!Tick
<1>9. CASE (\E h \in Handlers : GiveUp(h)) \/ UNCHANGED remoteVars
  BY <1>7, <1>9 DEF GiveUp, remoteVars, Store!vars
<1> QED BY <1>1, <1>2, <1>3, <1>4, <1>5, <1>6, <1>8, <1>9 DEF NextRemote

(* Behind the control-plane API (internal/controlplane/remote.go,           *)
(* internal/controlplanesvc/service.go) the store does each call that it    *)
(* answers at one moment of the call, for one who is entitled to it, on the *)
(* lease that the caller has: any number of clients, calls, losses and      *)
(* restarts, whatever the store contains.                                   *)
THEOREM Remote ==
    ASSUME ClientOf \in [Handlers -> Owners]
    PROVE  RemoteSpec => RemoteIsAtomic
<1>1. RemoteInv /\ [NextRemote]_remoteVars => RemoteInv'
  BY RemoteInvStep
<1>2. RemoteInv /\ [NextRemote]_remoteVars => [Store!Next]_Store!vars
  BY RemoteStepRefines
<1> QED BY RemoteInvInit, RemoteInitRefines, <1>1, <1>2, PTL
        DEF RemoteSpec, RemoteIsAtomic, Store!Spec
=============================================================================
