----------------------------- MODULE FileStore ------------------------------
(***************************************************************************)
(* The control-plane store in a file (internal/controlplane/file.go).      *)
(* Each process has a FileStore of its own over the one file; an operation *)
(* takes the mutex of its store and the lock of the file, loads the file,  *)
(* changes what it loaded and, if it is one that may, saves it: to a       *)
(* temporary file that is renamed over the one before.                     *)
(*                                                                         *)
(* A process may crash, and a call of the file system fail, at any moment. *)
(* No file is the same as an empty one.                                    *)
(***************************************************************************)
EXTENDS StoreOperations

CONSTANTS Callers,     (* goroutines                                        *)
          OwnerOf,     (* the owner that a caller acts for                  *)
          Stores,      (* processes, each with a FileStore                  *)
          StoreOf,     (* [Callers -> Stores]                               *)
          MaxClock, MaxCalls, MaxFaults    (* bounds                        *)

ASSUME FileAssumption ==
    /\ StoreOf \in [Callers -> Stores]
    /\ OwnerOf \in [Callers -> Owners]
    /\ {MaxClock, MaxCalls, MaxFaults} \subseteq Nat
    /\ None \notin Callers

VARIABLES
    clock,
    disk,       (* state.json                                               *)
    flock,      (* who has the lock of state.lock                           *)
    open,       (* stores that are open                                     *)
    mu,         (* who has the mutex of a store                             *)
    memory,     (* the fields of a store                                    *)
    temp,       (* the temporary file of a call                             *)
    phase,      (* where a call is                                          *)
    call, reply, ran,   (* the call, what it will return, when it ran       *)
    answer,     (* what the caller was told last                            *)
    calls, faults

files == <<disk, flock>>
stores == <<open, mu, memory>>
callers == <<phase, call, reply, ran, answer, temp>>
vars == <<clock, files, stores, callers, calls, faults>>

-----------------------------------------------------------------------------
Phases == {"idle", "called", "locking", "locked", "loaded", "ran", "written", "done"}

Init == /\ clock = 0
        /\ disk = Empty /\ flock = None
        /\ open = Stores
        /\ mu = [s \in Stores |-> None]
        /\ memory = [s \in Stores |-> Empty]
        /\ temp = [p \in Callers |-> None]
        /\ phase = [p \in Callers |-> "idle"]
        /\ call = [p \in Callers |-> None]
        /\ reply = [p \in Callers |-> Nothing]
        /\ ran = [p \in Callers |-> 0]
        /\ answer = [p \in Callers |-> Nothing]
        /\ calls = 0 /\ faults = 0

Go(p, to) == phase' = [phase EXCEPT ![p] = to]

Fault == faults < MaxFaults /\ faults' = faults + 1

\* The clock is read before the locks are taken.
Begin(p) == /\ phase[p] = "idle" /\ StoreOf[p] \in open
            /\ calls < MaxCalls /\ calls' = calls + 1
            /\ \E c \in Calls(OwnerOf[p], answer[p].lease, clock) :
                  call' = [call EXCEPT ![p] = c]
            /\ Go(p, "called")
            /\ UNCHANGED <<clock, files, stores, reply, ran, answer, temp, faults>>

\* s.mu.Lock
LockMutex(p) == /\ phase[p] = "called"
                /\ mu[StoreOf[p]] = None
                /\ mu' = [mu EXCEPT ![StoreOf[p]] = p]
                /\ Go(p, "locking")
                /\ UNCHANGED <<clock, files, open, memory, call, reply, ran, answer, temp, calls,
                               faults>>

\* unix.Flock, which waits
LockFile(p) == /\ phase[p] = "locking"
               /\ flock = None
               /\ flock' = p
               /\ Go(p, "locked")
               /\ UNCHANGED <<clock, disk, stores, call, reply, ran, answer, temp, calls, faults>>

Load(p) == /\ phase[p] = "locked"
           /\ memory' = [memory EXCEPT ![StoreOf[p]] = disk]
           /\ Go(p, "loaded")
           /\ UNCHANGED <<clock, files, open, mu, call, reply, ran, answer, temp, calls, faults>>

\* The function that withState or withMutableState was given.  Only the latter
\* goes on to save, and not when the function failed.
Run(p) == /\ phase[p] = "loaded"
          /\ LET result == Apply(memory[StoreOf[p]], call[p], clock)
             IN  /\ memory' = [memory EXCEPT ![StoreOf[p]] = result.contents]
                 /\ reply' = [reply EXCEPT ![p] = result.answer]
                 /\ Go(p, IF result.save THEN "ran" ELSE "done")
          /\ ran' = [ran EXCEPT ![p] = clock]
          /\ UNCHANGED <<clock, files, open, mu, call, answer, temp, calls, faults>>

\* Mutant: the file is written where it is.
WriteInPlace(p) == /\ phase[p] = "ran"
                   /\ disk' = None
                   /\ temp' = [temp EXCEPT ![p] = memory[StoreOf[p]]]
                   /\ Go(p, "written")
                   /\ UNCHANGED <<clock, flock, stores, call, reply, ran, answer, calls, faults>>

\* saveLocked up to the rename
Write(p) == /\ phase[p] = "ran"
            /\ temp' = [temp EXCEPT ![p] = memory[StoreOf[p]]]
            /\ Go(p, "written")
            /\ UNCHANGED <<clock, files, stores, call, reply, ran, answer, calls, faults>>

Rename(p) == /\ phase[p] = "written"
             /\ disk' = temp[p]
             /\ temp' = [temp EXCEPT ![p] = None]
             /\ Go(p, "done")
             /\ UNCHANGED <<clock, flock, stores, call, reply, ran, answer, calls, faults>>

\* The deferred calls: both locks are let go.
Unlock(p) == /\ flock' = IF flock = p THEN None ELSE flock
             /\ mu' = [mu EXCEPT ![StoreOf[p]] = None]

\* The call and what it worked with are gone.
Leave(p) == /\ Go(p, "idle")
            /\ call' = [call EXCEPT ![p] = None]
            /\ temp' = [temp EXCEPT ![p] = None]
            /\ reply' = [reply EXCEPT ![p] = Nothing]
            /\ ran' = [ran EXCEPT ![p] = 0]

Return(p) == /\ phase[p] = "done"
             /\ Unlock(p)
             /\ answer' = [answer EXCEPT ![p] = reply[p]]
             /\ Leave(p)
             /\ UNCHANGED <<clock, disk, open, memory, calls, faults>>

\* Mutant: an error leaves with the file locked.
FailLocked(p) == /\ phase[p] \in {"locking", "locked", "ran", "written"}
                 /\ Fault
                 /\ mu' = [mu EXCEPT ![StoreOf[p]] = None]
                 /\ answer' = [answer EXCEPT ![p] = Nothing]
                 /\ Leave(p)
                 /\ UNCHANGED <<clock, files, open, memory, calls>>

\* A lock, a read, a write or a rename fails; the memory keeps what was done to it.
Fail(p) == /\ phase[p] \in {"locking", "locked", "ran", "written"}
           /\ Fault
           /\ Unlock(p)
           /\ answer' = [answer EXCEPT ![p] = Nothing]
           /\ Leave(p)
           /\ UNCHANGED <<clock, disk, open, memory, calls>>

-----------------------------------------------------------------------------
Of(s) == {p \in Callers : StoreOf[p] = s}

\* The kernel lets go of the lock.
Crash(s) == /\ s \in open
            /\ Fault
            /\ open' = open \ {s}
            /\ flock' = IF flock \in Of(s) THEN None ELSE flock
            /\ mu' = [mu EXCEPT ![s] = None]
            /\ memory' = [memory EXCEPT ![s] = Empty]
            /\ phase' = [p \in Callers |-> IF p \in Of(s) THEN "idle" ELSE phase[p]]
            /\ call' = [p \in Callers |-> IF p \in Of(s) THEN None ELSE call[p]]
            /\ answer' = [p \in Callers |-> IF p \in Of(s) THEN Nothing ELSE answer[p]]
            /\ temp' = [p \in Callers |-> IF p \in Of(s) THEN None ELSE temp[p]]
            /\ reply' = [p \in Callers |-> IF p \in Of(s) THEN Nothing ELSE reply[p]]
            /\ ran' = [p \in Callers |-> IF p \in Of(s) THEN 0 ELSE ran[p]]
            /\ UNCHANGED <<clock, disk, calls>>

\* NewFileStore, which loads under the lock.
Open(s) == /\ s \notin open
           /\ flock = None
           /\ open' = open \cup {s}
           /\ memory' = [memory EXCEPT ![s] = disk]
           /\ UNCHANGED <<clock, files, mu, callers, calls, faults>>

Tick == /\ clock < MaxClock
        /\ clock' = clock + 1
        /\ UNCHANGED <<files, stores, callers, calls, faults>>

Step(p) == LockMutex(p) \/ LockFile(p) \/ Load(p) \/ Run(p) \/ Write(p) \/ Rename(p) \/ Return(p)

Next == \/ \E p \in Callers : Begin(p) \/ Step(p) \/ Fail(p)
        \/ \E s \in Stores : Crash(s) \/ Open(s)
        \/ Tick

Spec == Init /\ [][Next]_vars

(* Goroutines go on, and both locks go to who waits for them; with bounded  *)
(* calls it is enough that a lock that stays free is taken.                 *)
Fairness == \A p \in Callers : WF_vars(Step(p))
FairSpec == Spec /\ Fairness

-----------------------------------------------------------------------------
\* A call has taken effect when its file is in place, or when it ran if it saves nothing.
Stage == [p \in Callers |-> IF phase[p] \in {"idle", "done"} THEN phase[p] ELSE "called"]

Told == [p \in Callers |-> IF phase[p] = "done" THEN reply[p] ELSE answer[p]]

Atomic == INSTANCE AtomicStore WITH contents <- disk, stage <- Stage, answer <- Told

(* Whoever crashes and whatever fails, the store in a file is the store     *)
(* that does each operation at one moment: no update is lost, none is half  *)
(* done, and none is done that failed.                                      *)
AtomicSpec == Atomic!Spec

(* What the locks are for: who has them knows what is in the file, and what *)
(* to make of it.                                                           *)
Locked == Phases \ {"idle", "called", "locking"}

LockInv ==
    \A p \in Callers :
        /\ phase[p] \in Phases
        /\ phase[p] # "idle" => StoreOf[p] \in open
        /\ phase[p] \notin {"idle", "called"} => mu[StoreOf[p]] = p
        /\ phase[p] \in Locked => flock = p

WorkInv ==
    \A p \in Callers :
        /\ phase[p] = "loaded" => memory[StoreOf[p]] = disk
        /\ phase[p] \in {"ran", "written"} =>
              /\ ran[p] \in call[p].now .. clock
              /\ Apply(disk, call[p], ran[p]).contents = memory[StoreOf[p]]
              /\ Apply(disk, call[p], ran[p]).answer = reply[p]
        /\ phase[p] = "written" => temp[p] = memory[StoreOf[p]]

\* The clock and the clock samples are comparable.
ClockInv == /\ clock \in Nat
            /\ \A p \in Callers : phase[p] # "idle" => call[p].now \in Nat /\ call[p].now <= clock

\* A call is one whose time can be read.
IsCall(c) == [c EXCEPT !.now = c.now] = c

CallInv == \A p \in Callers : phase[p] # "idle" => IsCall(call[p])

ShapeInv == /\ phase = [p \in Callers |-> phase[p]]
            /\ call = [p \in Callers |-> call[p]]
            /\ reply = [p \in Callers |-> reply[p]]
            /\ ran = [p \in Callers |-> ran[p]]
            /\ answer = [p \in Callers |-> answer[p]]
            /\ temp = [p \in Callers |-> temp[p]]
            /\ mu = [s \in Stores |-> mu[s]]
            /\ memory = [s \in Stores |-> memory[s]]
            /\ open \subseteq Stores

FileInv == LockInv /\ WorkInv /\ ClockInv /\ CallInv /\ ShapeInv

(* A call returns, whoever crashed with the locks in hand.                  *)
CallsEnd == \A p \in Callers : phase[p] = "called" ~> phase[p] = "idle"
=============================================================================
