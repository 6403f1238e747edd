-------------------------- MODULE StoreOperations ---------------------------
(***************************************************************************)
(* What the operations of the control-plane store (interfaces.go, Store)   *)
(* do to its contents, each as a function of the contents, the call and    *)
(* the time: what FileStore runs between a load and a save, and what       *)
(* EtcdStore runs in a transaction.                                        *)
(*                                                                         *)
(* Leases are kept under one kind of key, and so are the records that are  *)
(* only written and read: attested nodes, requests and tasks.              *)
(***************************************************************************)
EXTENDS Integers

CONSTANTS Leader,              (* the key of the leader lease               *)
          TaskKeys, Profiles,  (* the keys of task and profile leases       *)
          Owners, Nodes, Instances,
          Records, Values,     (* keys and contents of the other records    *)
          None,
          LeaseTTL,            (* the ttl argument                          *)
          HeartbeatTTL         (* NodeHeartbeatTTL, InstanceHeartbeatTTL    *)

ASSUME StoreAssumption ==
    /\ Leader \notin TaskKeys \cup Profiles
    /\ TaskKeys \cap Profiles = {} /\ Nodes \cap Instances = {}
    /\ LeaseTTL \in Nat \ {0}
    /\ HeartbeatTTL \in Nat

-----------------------------------------------------------------------------
Keys == {Leader} \cup TaskKeys \cup Profiles
Members == Nodes \cup Instances

Lease == [key : Keys \cup {None}, owner : Owners \cup {None},
          inst : Instances \cup {None}, epoch : Nat, until : Nat]

NoLease == [key |-> None, owner |-> None, inst |-> None, epoch |-> 0, until |-> 0]

States == {"none", "ready", "unavailable"}

\* For an instance, the node that its registration named.
Member == [state : States, beat : Nat, node : Nodes \cup {None}]

NoMember == [state |-> "none", beat |-> 0, node |-> None]

Contents == [lease : [Keys -> Lease], epoch : [Keys -> Nat],
             member : [Members -> Member],
             record : [Records -> Values \cup {None}]]

Empty == [lease  |-> [k \in Keys |-> NoLease],
          epoch  |-> [k \in Keys |-> 0],
          member |-> [m \in Members |-> NoMember],
          record |-> [r \in Records |-> None]]

Ops == {"acquire", "renew", "get", "release", "register", "heartbeat", "look", "remove",
        "put", "read"}

\* What a caller asks for: the key is that of a lease, a member or a record, "now"
\* the time the caller sampled, "lease" the record it renews or releases.
Call == [op : Ops, key : Keys \cup Members \cup Records, owner : Owners,
         inst : Instances \cup {None}, value : Values \cup States \cup Nodes \cup {None}, lease : Lease,
         now : Nat]

\* The calls that may be made at a time by a caller that acts for an owner and has
\* a lease in hand, from its last answer.
Calls(o, mine, t) ==
    LET Ask(op, key, inst, value, lease) ==
            [op |-> op, key |-> key, owner |-> o, inst |-> inst, value |-> value,
             lease |-> lease, now |-> t]
    IN  {Ask("acquire", k, None, None, NoLease) : k \in {Leader} \cup TaskKeys}
        \cup {Ask("acquire", k, i, None, NoLease) : k \in Profiles, i \in Instances}
        \cup {Ask("get", k, None, None, NoLease) : k \in Keys}
        \cup {Ask(op, k, None, None, mine) : op \in {"renew", "release"}, k \in Keys \cap {mine.key}}
        \cup {Ask("register", n, None, st, NoLease) : n \in Nodes, st \in {"ready", "unavailable"}}
        \cup {Ask("register", i, None, n, NoLease) : i \in Instances, n \in Nodes}
        \cup {Ask(op, m, None, None, NoLease) : op \in {"heartbeat", "look"}, m \in Members}
        \cup {Ask("remove", i, None, None, NoLease) : i \in Instances}
        \cup {Ask("put", r, None, v, NoLease) : r \in Records, v \in Values}
        \cup {Ask("read", r, None, None, NoLease) : r \in Records}

Answer == [ok : BOOLEAN, lease : Lease, value : Values \cup States \cup {None}]

Nothing == [ok |-> FALSE, lease |-> NoLease, value |-> None]

\* What an operation leaves in the store and tells its caller; "save" says that
\* a store which keeps its contents elsewhere writes them back.
Result(s, save, ok, lease, value) ==
    [contents |-> s, save |-> save, answer |-> [ok |-> ok, lease |-> lease, value |-> value]]

-----------------------------------------------------------------------------
(* Leases.                                                                  *)

Put(s, lease) == [s EXCEPT !.lease[lease.key] = lease]

Drop(s, key) == [s EXCEPT !.lease[key] = NoLease]

\* existing.ExpiresAt.After(now)
Live(lease, now) == lease # NoLease /\ lease.until > now

Expired(lease, now) == lease.until < now

Refused(s, c) == Result(s, TRUE, FALSE, s.lease[c.key], None)

Granted(s, c) ==
    LET granted == [key |-> c.key, owner |-> c.owner, inst |-> c.inst,
                    epoch |-> s.epoch[c.key] + 1, until |-> c.now + LeaseTTL]
    IN  Result([Put(s, granted) EXCEPT !.epoch[c.key] = @ + 1], TRUE, TRUE, granted, None)

Extended(s, c) ==
    LET extended == [s.lease[c.key] EXCEPT !.until = c.now + LeaseTTL]
    IN  Result(Put(s, extended), TRUE, TRUE, extended, None)

HeldByOther(s, c) == Live(s.lease[c.key], c.now) /\ s.lease[c.key].owner # c.owner

AcquireLeader(s, c) == IF HeldByOther(s, c) THEN Refused(s, c) ELSE Granted(s, c)

AcquireTaskLease(s, c) == AcquireLeader(s, c)

AcquireProfileLease(s, c) ==
    IF ~Live(s.lease[c.key], c.now) THEN Granted(s, c)
    ELSE IF s.lease[c.key].owner = c.owner /\ s.lease[c.key].inst = c.inst THEN Extended(s, c)
    ELSE Refused(s, c)

Acquire(s, c) == IF c.key = Leader THEN AcquireLeader(s, c)
                 ELSE IF c.key \in TaskKeys THEN AcquireTaskLease(s, c)
                 ELSE AcquireProfileLease(s, c)

Fails(s) == Result(s, FALSE, FALSE, NoLease, None)

\* The record on store is the one the caller has.
Same(lease, mine) == /\ lease # NoLease
                     /\ lease.owner = mine.owner /\ lease.epoch = mine.epoch

SameProfile(lease, mine) == Same(lease, mine) /\ lease.inst = mine.inst

RenewLeader(s, c) ==
    IF Same(s.lease[c.key], c.lease) /\ ~Expired(s.lease[c.key], c.now)
    THEN Extended(s, c) ELSE Fails(s)

RenewTaskLease(s, c) == RenewLeader(s, c)

RenewProfileLease(s, c) ==
    IF SameProfile(s.lease[c.key], c.lease) /\ ~Expired(s.lease[c.key], c.now)
    THEN Extended(s, c) ELSE Fails(s)

Renew(s, c) == IF c.key = Leader THEN RenewLeader(s, c)
               ELSE IF c.key \in TaskKeys THEN RenewTaskLease(s, c)
               ELSE RenewProfileLease(s, c)

\* A lease that is found expired is removed.
GetLeader(s, c) == IF s.lease[c.key] # NoLease /\ Expired(s.lease[c.key], c.now)
                   THEN Result(Drop(s, c.key), TRUE, FALSE, NoLease, None)
                   ELSE Result(s, TRUE, s.lease[c.key] # NoLease, s.lease[c.key], None)

GetTaskLease(s, c) == GetLeader(s, c)
GetProfileLease(s, c) == GetLeader(s, c)

Get(s, c) == IF c.key = Leader THEN GetLeader(s, c)
             ELSE IF c.key \in TaskKeys THEN GetTaskLease(s, c)
             ELSE GetProfileLease(s, c)

Gone(s, c, mine) == Result(IF mine THEN Drop(s, c.key) ELSE s, TRUE, TRUE, NoLease, None)

ReleaseLeader(s, c) == Gone(s, c, Same(s.lease[c.key], c.lease))
ReleaseTaskLease(s, c) == ReleaseLeader(s, c)
ReleaseProfileLease(s, c) == Gone(s, c, SameProfile(s.lease[c.key], c.lease))

Release(s, c) == IF c.key = Leader THEN ReleaseLeader(s, c)
                 ELSE IF c.key \in TaskKeys THEN ReleaseTaskLease(s, c)
                 ELSE ReleaseProfileLease(s, c)

-----------------------------------------------------------------------------
(* Membership; t is the time when the operation runs.                       *)

Beaten(member, t) == member.state # "ready" \/ t - member.beat <= HeartbeatTTL

\* normalizeMembershipLiveness
Normalized(s, t) ==
    LET lost(n) == s.member[n].state = "unavailable" \/ ~Beaten(s.member[n], t)
        dead(m) == \/ m \in Nodes /\ lost(m)
                   \/ m \in Instances /\ (lost(s.member[m].node) \/ ~Beaten(s.member[m], t))
    IN  [s EXCEPT !.member = [m \in Members |->
            IF s.member[m].state = "ready" /\ dead(m)
            THEN [s.member[m] EXCEPT !.state = "unavailable"]
            ELSE s.member[m]]]

Written(s, c, t, state, node) ==
    Result([Normalized(s, t) EXCEPT !.member[c.key] =
                [state |-> state, beat |-> c.now, node |-> node]],
           TRUE, TRUE, NoLease, None)

\* A host that shuts down registers its node as unavailable.
RegisterNode(s, c, t) == Written(s, c, t, c.value, None)

\* An instance may be registered over one of the same ID, whichever node had it.
RegisterInstance(s, c, t) == Written(s, c, t, "ready", c.value)

Register(s, c, t) == IF c.key \in Nodes THEN RegisterNode(s, c, t) ELSE RegisterInstance(s, c, t)

\* What was found expired is not written when the member is not there.
HeartbeatNode(s, c, t) == IF s.member[c.key].state = "none" THEN Fails(Normalized(s, t))
                          ELSE Written(s, c, t, "ready", s.member[c.key].node)

HeartbeatInstance(s, c, t) == HeartbeatNode(s, c, t)

Heartbeat(s, c, t) == IF c.key \in Nodes THEN HeartbeatNode(s, c, t) ELSE HeartbeatInstance(s, c, t)

GetNode(s, c, t) == LET state == Normalized(s, t).member[c.key].state
                    IN  Result(Normalized(s, t), FALSE, state # "none", NoLease, state)

GetInstance(s, c, t) == GetNode(s, c, t)

Look(s, c, t) == IF c.key \in Nodes THEN GetNode(s, c, t) ELSE GetInstance(s, c, t)

RemoveInstance(s, c) ==
    Result([s EXCEPT !.member[c.key] = NoMember], TRUE, TRUE, NoLease, None)

-----------------------------------------------------------------------------
(* Records: UpsertAttestedNode, UpsertRequest, UpsertTask and their readers. *)

Upsert(s, c) == Result([s EXCEPT !.record[c.key] = c.value], TRUE, TRUE, NoLease, None)

Read(s, c) == Result(s, FALSE, s.record[c.key] # None, NoLease, s.record[c.key])

-----------------------------------------------------------------------------
Apply(s, c, t) == CASE c.op = "acquire"   -> Acquire(s, c)
                    [] c.op = "renew"     -> Renew(s, c)
                    [] c.op = "get"       -> Get(s, c)
                    [] c.op = "release"   -> Release(s, c)
                    [] c.op = "register"  -> Register(s, c, t)
                    [] c.op = "heartbeat" -> Heartbeat(s, c, t)
                    [] c.op = "look"      -> Look(s, c, t)
                    [] c.op = "remove"    -> RemoveInstance(s, c)
                    [] c.op = "put"       -> Upsert(s, c)
                    [] c.op = "read"      -> Read(s, c)
=============================================================================
