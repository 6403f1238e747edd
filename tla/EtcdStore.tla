----------------------------- MODULE EtcdStore ------------------------------
(***************************************************************************)
(* The leases of the control-plane store in etcd                           *)
(* (internal/controlplane/etcd.go).  An operation is a function that etcd's *)
(* client runs on a snapshot and whose writes it commits if what was read  *)
(* is still there; if not, it runs the function again.  The function is a  *)
(* closure: what an attempt assigned to the variables of the call, the     *)
(* next attempt finds.                                                     *)
(***************************************************************************)
EXTENDS StoreOperations

CONSTANTS Callers, OwnerOf,
          MaxClock, MaxCalls, MaxFaults   (* bounds                         *)

VARIABLES clock, contents,
          phase,      (* where a call is                                    *)
          call,       (* its parameters, the closure's "lease" among them   *)
          acquired,   (* the closure's "acquired"                           *)
          seen,       (* what the attempt read                              *)
          result,     (* what it would write and return                     *)
          held,       (* the lease a caller was told to have                *)
          calls, faults

vars == <<clock, contents, phase, call, acquired, seen, result, held, calls, faults>>

-----------------------------------------------------------------------------
Init == /\ clock = 0 /\ contents = Empty
        /\ phase = [p \in Callers |-> "idle"]
        /\ call = [p \in Callers |-> None]
        /\ acquired = [p \in Callers |-> FALSE]
        /\ seen = [p \in Callers |-> None]
        /\ result = [p \in Callers |-> None]
        /\ held = [p \in Callers |-> NoLease]
        /\ calls = 0 /\ faults = 0

LeaseCalls(p) == {c \in Calls(OwnerOf[p], held[p], clock) :
                     c.op \in {"acquire", "renew", "release", "get"}}

Begin(p) == /\ phase[p] = "idle"
            /\ calls < MaxCalls /\ calls' = calls + 1
            /\ \E c \in LeaseCalls(p) : /\ c.op = "acquire" => held[p] = NoLease
                                        /\ call' = [call EXCEPT ![p] = c]
            /\ phase' = [phase EXCEPT ![p] = "called"]
            /\ UNCHANGED <<clock, contents, acquired, seen, result, held, faults>>

\* The two keys of a lease: the record and the epoch.
Stored(key) == <<contents.lease[key], contents.epoch[key]>>

Attempt(p, op, keys, r) ==
    /\ phase[p] = "called"
    /\ call[p].op = op /\ call[p].key \in keys
    /\ seen' = [seen EXCEPT ![p] = Stored(call[p].key)]
    /\ result' = [result EXCEPT ![p] = r]
    /\ phase' = [phase EXCEPT ![p] = "attempted"]
    /\ UNCHANGED <<clock, contents, held, calls, faults>>

\* "lease = current; return nil" and "acquired = true": the parameters are now those
\* of the record that was in the way.
AttemptAcquire(p, keys, r) ==
    /\ Attempt(p, "acquire", keys, r)
    /\ acquired' = [acquired EXCEPT ![p] = @ \/ r.answer.ok]
    /\ call' = IF r.answer.ok \/ call[p].key = Leader THEN call
               ELSE [call EXCEPT ![p].owner = r.answer.lease.owner, ![p].inst = r.answer.lease.inst]

Leave(p) == /\ phase' = [phase EXCEPT ![p] = "idle"]
            /\ call' = [call EXCEPT ![p] = None]
            /\ acquired' = [acquired EXCEPT ![p] = FALSE]
            /\ seen' = [seen EXCEPT ![p] = None]
            /\ result' = [result EXCEPT ![p] = None]

\* An error of the function ends the call at once.
AttemptRenew(p, keys, r) ==
    \/ /\ Attempt(p, "renew", keys, r)
       /\ r.answer.ok
       /\ UNCHANGED <<acquired, call>>
    \/ /\ phase[p] = "called" /\ call[p].op = "renew" /\ call[p].key \in keys
       /\ ~r.answer.ok
       /\ held' = [held EXCEPT ![p] = NoLease]
       /\ Leave(p)
       /\ UNCHANGED <<clock, contents, calls, faults>>

AttemptRelease(p, keys, r) == Attempt(p, "release", keys, r) /\ UNCHANGED <<acquired, call>>

EtcdAcquireLeader(p) ==
    AttemptAcquire(p, {Leader}, AcquireLeader(contents, call[p]))
EtcdAcquireTaskLease(p) ==
    AttemptAcquire(p, TaskKeys, AcquireTaskLease(contents, call[p]))
EtcdAcquireProfileLease(p) ==
    AttemptAcquire(p, Profiles, AcquireProfileLease(contents, call[p]))

EtcdRenewLeader(p) == AttemptRenew(p, {Leader}, RenewLeader(contents, call[p]))
EtcdRenewTaskLease(p) == AttemptRenew(p, TaskKeys, RenewTaskLease(contents, call[p]))
EtcdRenewProfileLease(p) ==
    AttemptRenew(p, Profiles, RenewProfileLease(contents, call[p]))

EtcdReleaseLeader(p) == AttemptRelease(p, {Leader}, ReleaseLeader(contents, call[p]))
EtcdReleaseTaskLease(p) ==
    AttemptRelease(p, TaskKeys, ReleaseTaskLease(contents, call[p]))
EtcdReleaseProfileLease(p) ==
    AttemptRelease(p, Profiles, ReleaseProfileLease(contents, call[p]))

\* GetLeader, GetTaskLease, GetProfileLease: one read, which removes nothing.
EtcdGet(p) == /\ phase[p] = "called" /\ call[p].op = "get"
              /\ Leave(p)
              /\ UNCHANGED <<clock, contents, held, calls, faults>>

Current(p) == seen[p] = Stored(call[p].key)

\* What the caller knows when the call returns without an error.
Told(p) == IF acquired[p] \/ call[p].op = "renew" THEN result[p].answer.lease ELSE NoLease

Write(p) == LET key == call[p].key
            IN  contents' = [contents EXCEPT
                    !.lease[key] = result[p].contents.lease[key],
                    !.epoch[key] = result[p].contents.epoch[key]]

Commit(p) == /\ phase[p] = "attempted" /\ Current(p)
             /\ Write(p)
             /\ held' = [held EXCEPT ![p] = Told(p)]
             /\ Leave(p)
             /\ UNCHANGED <<clock, calls, faults>>

\* runSTM: the function is run again, in the variables that it has assigned.
Retry(p) == /\ phase[p] = "attempted" /\ ~Current(p)
            /\ phase' = [phase EXCEPT ![p] = "called"]
            /\ UNCHANGED <<clock, contents, call, acquired, seen, result, held, calls, faults>>

\* etcd cannot be reached, before it commits or after.
Fail(p) == /\ phase[p] \in {"called", "attempted"}
           /\ faults < MaxFaults /\ faults' = faults + 1
           /\ \/ phase[p] = "attempted" /\ Current(p) /\ Write(p)
              \/ UNCHANGED contents
           /\ held' = [held EXCEPT ![p] = NoLease]
           /\ Leave(p)
           /\ UNCHANGED <<clock, calls>>

Tick == /\ clock < MaxClock /\ clock' = clock + 1
        /\ UNCHANGED <<contents, phase, call, acquired, seen, result, held, calls, faults>>

Next == \/ \E p \in Callers :
              \/ Begin(p) \/ EtcdGet(p) \/ Commit(p) \/ Retry(p) \/ Fail(p)
              \/ EtcdAcquireLeader(p) \/ EtcdAcquireTaskLease(p) \/ EtcdAcquireProfileLease(p)
              \/ EtcdRenewLeader(p) \/ EtcdRenewTaskLease(p) \/ EtcdRenewProfileLease(p)
              \/ EtcdReleaseLeader(p) \/ EtcdReleaseTaskLease(p) \/ EtcdReleaseProfileLease(p)
        \/ Tick

Spec == Init /\ [][Next]_vars

-----------------------------------------------------------------------------
\* By its own copy of the lease, a caller is leader.
Leads(p) == held[p].key = Leader /\ held[p].until > clock

(* architecture.md: the etcd store is for resilient leadership, and there   *)
(* is one active leader.                                                    *)
OneLeader == \A p, q \in Callers : Leads(p) /\ Leads(q) => OwnerOf[p] = OwnerOf[q]
=============================================================================
