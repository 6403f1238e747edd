----------------------------- MODULE LeaseStore -----------------------------
(***************************************************************************)
(* The leases of the control-plane store (internal/controlplane).  A store *)
(* keeps one leader lease, one lease per task and one per profile; leases  *)
(* under different keys share nothing but the mutex, so the module follows *)
(* ONE key, whose kind is chosen in Init.                                  *)
(*                                                                         *)
(* Every operation samples time.Now() BEFORE it takes the store's mutex    *)
(* (or before the STM transaction of the etcd store, which may retry).  A  *)
(* call is therefore two steps: one samples the clock, one commits; other  *)
(* calls and the clock may move in between.                                *)
(*                                                                         *)
(* A caller is a goroutine of a conductor; several callers may act for one *)
(* owner ID (two dispatches of one conductor, or a conductor restarted     *)
(* under the ID it had).                                                   *)
(***************************************************************************)
EXTENDS Naturals

CONSTANTS Callers,    (* goroutines that call the store                     *)
          Owners,     (* conductor IDs: HolderID and OwnerID of the leases  *)
          OwnerOf,    (* the owner a caller acts for                        *)
          InstanceIDs, (* agent instances a profile lease can name          *)
          NoOwner, NoInstance,
          TTL,        (* the ttl argument, in clock ticks                   *)
          MaxClock,   (* bound on the clock                                 *)
          MaxEpoch    (* bound on the number of grants                      *)

ASSUME LeaseAssumption ==
    /\ OwnerOf \in [Callers -> Owners]
    /\ NoOwner \notin Owners
    /\ NoInstance \notin InstanceIDs
    /\ TTL \in Nat \ {0}
    /\ MaxClock \in Nat
    /\ MaxEpoch \in Nat

VARIABLES kind,     (* "leader", "task" or "profile"                        *)
          clock,    (* wall-clock time                                      *)
          lease,    (* the stored record, NoLease when the map has no entry *)
          epoch,    (* the epoch counter, which outlives the record         *)
          held,     (* the record each caller last got back and works under *)
          call,     (* the call each caller is in                           *)
          revoked   (* history: epochs given up before they expired         *)

vars == <<kind, clock, lease, epoch, held, call, revoked>>

-----------------------------------------------------------------------------
Kinds == {"leader", "task", "profile"}

LeaseRecord == [owner : Owners \cup {NoOwner},
                inst  : InstanceIDs \cup {NoInstance},
                epoch : Nat,
                until : Nat]

NoLease == [owner |-> NoOwner, inst |-> NoInstance, epoch |-> 0, until |-> 0]

(* "found" is a Get that returned a record the caller has yet to use;       *)
(* "lapsed" a heartbeat loop that stopped after a failed renewal while the  *)
(* placement still keeps the record, to release it.                         *)
Ops == {"idle", "acquire", "renew", "get", "found", "lapsed"}

Call == [op : Ops, now : Nat, arg : LeaseRecord]

Idle == [op |-> "idle", now |-> 0, arg |-> NoLease]

TypeOK == /\ kind \in Kinds
          /\ clock \in Nat
          /\ lease \in LeaseRecord
          /\ epoch \in Nat
          /\ held \in [Callers -> LeaseRecord]
          /\ call \in [Callers -> Call]
          /\ revoked \in SUBSET Nat

Init == /\ kind \in Kinds
        /\ clock = 0
        /\ lease = NoLease
        /\ epoch = 0
        /\ held = [p \in Callers |-> NoLease]
        /\ call = [p \in Callers |-> Idle]
        /\ revoked = {}

-----------------------------------------------------------------------------
(* The first half of a call: now := time.Now(), ahead of the mutex.         *)

Sample(p, op, arg) ==
    /\ call' = [call EXCEPT ![p] = [op |-> op, now |-> clock, arg |-> arg]]
    /\ UNCHANGED <<kind, clock, lease, epoch, held, revoked>>

\* What an acquiring caller asks for; only a profile lease names an instance.
Wanted(p) == [owner : {OwnerOf[p]},
              inst  : IF kind = "profile" THEN InstanceIDs ELSE {NoInstance},
              epoch : {0},
              until : {0}]

BeginAcquire(p) == /\ call[p] = Idle
                   /\ held[p] = NoLease
                   /\ \E w \in Wanted(p) : Sample(p, "acquire", w)

BeginRenew(p) == /\ call[p] = Idle
                 /\ held[p] # NoLease
                 /\ Sample(p, "renew", held[p])

BeginGet(p) == /\ call[p] = Idle
               /\ held[p] = NoLease
               /\ Sample(p, "get", NoLease)

\* acquireProfilePlacement renews the record it found when the owner is its own.
RenewFoundProfile(p) == /\ kind = "profile"
                        /\ call[p].op = "found"
                        /\ call[p].arg.owner = OwnerOf[p]
                        /\ Sample(p, "renew", call[p].arg)

\* Discovery of the leader, or a profile reserved by another owner.
DropFound(p) == /\ call[p].op = "found"
                /\ kind = "leader" \/ (kind = "profile" /\ call[p].arg.owner # OwnerOf[p])
                /\ call' = [call EXCEPT ![p] = Idle]
                /\ UNCHANGED <<kind, clock, lease, epoch, held, revoked>>

-----------------------------------------------------------------------------
(* The second half: the commit under the mutex.                             *)

\* existing != nil && existing.ExpiresAt.After(now)
LiveAt(t) == lease # NoLease /\ lease.until > t

\* The holder a record names, with the epoch and the expiry given.
Stamped(record, e, expiry) ==
    [owner |-> record.owner, inst |-> record.inst, epoch |-> e, until |-> expiry]

Return(p, record) == /\ held' = [held EXCEPT ![p] = record]
                     /\ call' = [call EXCEPT ![p] = Idle]
                     /\ UNCHANGED <<kind, clock>>

\* Mutant: the new epoch is taken from the record, so a release restarts it.
GrantForgetsEpochs(p) ==
    LET granted == Stamped(call[p].arg, lease.epoch + 1, call[p].now + TTL)
    IN /\ epoch < MaxEpoch
       /\ epoch' = lease.epoch + 1
       /\ lease' = granted
       /\ UNCHANGED revoked
       /\ Return(p, granted)

Grant(p) ==
    LET granted == Stamped(call[p].arg, epoch + 1, call[p].now + TTL)
    IN /\ epoch < MaxEpoch
       /\ epoch' = epoch + 1
       /\ lease' = granted
       /\ revoked' = IF lease.owner = granted.owner THEN revoked \cup {lease.epoch}
                                                    ELSE revoked
       /\ Return(p, granted)

Refuse(p) == /\ Return(p, NoLease)
             /\ UNCHANGED <<lease, epoch, revoked>>

Extend(p) ==
    LET extended == Stamped(lease, lease.epoch, call[p].now + TTL)
    IN /\ lease' = extended
       /\ Return(p, extended)
       /\ UNCHANGED <<epoch, revoked>>

HeldByOther(p) == LiveAt(call[p].now) /\ lease.owner # call[p].arg.owner

AcquireLeader(p) == /\ kind = "leader"
                    /\ call[p].op = "acquire"
                    /\ \/ HeldByOther(p) /\ Refuse(p)
                       \/ ~HeldByOther(p) /\ Grant(p)

AcquireTaskLease(p) == /\ kind = "task"
                       /\ call[p].op = "acquire"
                       /\ \/ HeldByOther(p) /\ Refuse(p)
                          \/ ~HeldByOther(p) /\ Grant(p)

\* Mutant: a live profile lease is re-granted to its owner for any instance.
AcquireProfileRepins(p) ==
    LET same == lease.owner = call[p].arg.owner
    IN /\ kind = "profile"
       /\ call[p].op = "acquire"
       /\ \/ LiveAt(call[p].now) /\ ~same /\ Refuse(p)
          \/ (~LiveAt(call[p].now) \/ same) /\ Grant(p)

\* A live profile lease is extended for the owner and instance it names and
\* refused to everyone else, the owner itself with another instance included.
AcquireProfileLease(p) ==
    LET same == lease.owner = call[p].arg.owner /\ lease.inst = call[p].arg.inst
    IN /\ kind = "profile"
       /\ call[p].op = "acquire"
       /\ \/ LiveAt(call[p].now) /\ same /\ Extend(p)
          \/ LiveAt(call[p].now) /\ ~same /\ Refuse(p)
          \/ ~LiveAt(call[p].now) /\ Grant(p)

\* Mutant: the epoch is not compared.
MatchesOwnerOnly(record) == lease # NoLease /\ lease.owner = record.owner

\* Mutant: a missing record is taken to match, so that a renewal restores it.
MatchesMissing(record) == lease = NoLease \/ lease.epoch = record.epoch

\* The owner, epoch and (profile) instance of a caller's record against the store's.
Matches(record) == /\ lease # NoLease
                   /\ lease.owner = record.owner
                   /\ lease.epoch = record.epoch
                   /\ kind = "profile" => lease.inst = record.inst

\* A renewal is refused when ExpiresAt.Before(now): at ExpiresAt itself it succeeds.
MayRenew(p) == Matches(call[p].arg) /\ ~(lease.until < call[p].now)

\* The leader heartbeat clears its lease; the other loops stop and leave the
\* record with the placement that will release it.
RenewFails(p) ==
    /\ IF kind = "leader" \/ held[p] = NoLease
       THEN Return(p, NoLease)
       ELSE /\ call' = [call EXCEPT ![p] = [op |-> "lapsed", now |-> 0, arg |-> NoLease]]
            /\ UNCHANGED <<kind, clock, held>>
    /\ UNCHANGED <<lease, epoch, revoked>>

Renew(p) == /\ call[p].op = "renew"
            /\ \/ MayRenew(p) /\ Extend(p)
               \/ ~MayRenew(p) /\ RenewFails(p)

RenewLeader(p)       == kind = "leader"  /\ Renew(p)
RenewTaskLease(p)    == kind = "task"    /\ Renew(p)
RenewProfileLease(p) == kind = "profile" /\ Renew(p)

\* A Get that meets an expired record drops it (memory and file store) or leaves
\* it in place (etcd store); the caller sees no lease either way.
GetMisses(p) == /\ lease = NoLease \/ lease.until < call[p].now
                /\ lease' \in {lease, NoLease}
                /\ call' = [call EXCEPT ![p] = Idle]

GetHits(p) == /\ lease # NoLease
              /\ ~(lease.until < call[p].now)
              /\ call' = [call EXCEPT ![p] = [op |-> "found", now |-> 0, arg |-> lease]]
              /\ UNCHANGED lease

Get(p) == /\ call[p].op = "get"
          /\ GetMisses(p) \/ GetHits(p)
          /\ UNCHANGED <<kind, clock, epoch, held, revoked>>

GetLeader(p)       == kind = "leader"  /\ Get(p)
GetTaskLease(p)    == kind = "task"    /\ Get(p)
GetProfileLease(p) == kind = "profile" /\ Get(p)

Remove(record) ==
    \/ /\ Matches(record)
       /\ lease' = NoLease
       /\ revoked' = revoked \cup {lease.epoch}
    \/ /\ ~Matches(record)
       /\ UNCHANGED <<lease, revoked>>

\* A release does not wait for the heartbeat: a renewal in flight stays in flight.
Release(p) == /\ held[p] # NoLease
              /\ Remove(held[p])
              /\ held' = [held EXCEPT ![p] = NoLease]
              /\ call' = [call EXCEPT ![p] = IF call[p].op = "renew" THEN @ ELSE Idle]
              /\ UNCHANGED <<kind, clock, epoch>>

ReleaseLeader(p)       == kind = "leader"  /\ Release(p)
ReleaseTaskLease(p)    == kind = "task"    /\ Release(p)
ReleaseProfileLease(p) == kind = "profile" /\ Release(p)

\* Recovery releases the task lease it found, whoever owns it.
ReconcileRelease(p) == /\ kind = "task"
                       /\ call[p].op = "found"
                       /\ Remove(call[p].arg)
                       /\ call' = [call EXCEPT ![p] = Idle]
                       /\ UNCHANGED <<kind, clock, epoch, held>>

\* The caller's process dies, or the reply of a committed call is lost.
Crash(p) == /\ held[p] # NoLease \/ call[p] # Idle
            /\ held' = [held EXCEPT ![p] = NoLease]
            /\ call' = [call EXCEPT ![p] = Idle]
            /\ UNCHANGED <<kind, clock, lease, epoch, revoked>>

Tick == /\ clock < MaxClock
        /\ clock' = clock + 1
        /\ UNCHANGED <<kind, lease, epoch, held, call, revoked>>

CallerStep(p) ==
    \/ BeginAcquire(p) \/ BeginRenew(p) \/ BeginGet(p)
    \/ AcquireLeader(p) \/ AcquireTaskLease(p) \/ AcquireProfileLease(p)
    \/ RenewLeader(p) \/ RenewTaskLease(p) \/ RenewProfileLease(p)
    \/ GetLeader(p) \/ GetTaskLease(p) \/ GetProfileLease(p)
    \/ RenewFoundProfile(p) \/ DropFound(p) \/ ReconcileRelease(p)
    \/ ReleaseLeader(p) \/ ReleaseTaskLease(p) \/ ReleaseProfileLease(p)
    \/ Crash(p)

Next == Tick \/ \E p \in Callers : CallerStep(p)

Spec == Init /\ [][Next]_vars

-----------------------------------------------------------------------------
(* Fencing: an epoch names one grant.  Two records with the same epoch, in  *)
(* the store or in a caller's hands, have the same owner and instance, and  *)
(* no record is ahead of the counter; so whoever compares epochs can tell a *)
(* stale holder from the present one.                                       *)
Records == {lease} \cup {held[p] : p \in Callers} \cup {call[p].arg : p \in Callers}

EpochNamesOneGrant ==
    /\ \A r \in Records : r.epoch <= epoch
    /\ \A r, s \in Records :
          r.epoch = s.epoch /\ r.epoch > 0 => r.owner = s.owner /\ r.inst = s.inst

(* Handover: a leader or task lease that its holder believes in (its own    *)
(* copy has not expired) and that nobody gave up (no release, no re-acquire *)
(* under the same owner ID) is the one in the store: it passes to another   *)
(* owner by expiry only, whatever the calls' clock samples.                 *)
OnlyExpiryPassesTheLease ==
    kind # "profile" =>
        \A p \in Callers :
            /\ held[p] # NoLease
            /\ held[p].epoch \notin revoked
            /\ held[p].until > clock
            => lease = held[p]

(* A live profile lease never moves: neither to another owner nor, for the  *)
(* same owner, to another instance.                                         *)
ProfileStaysPinned ==
    [][ kind = "profile" /\ lease # NoLease /\ lease' # NoLease
        /\ <<lease.owner, lease.inst>> # <<lease'.owner, lease'.inst>>
        => lease.until <= clock ]_vars

(* A renewal committed late never shortens a leader or task lease.          *)
RenewalNeverShortens ==
    [][ kind # "profile" /\ lease'.epoch = lease.epoch => lease'.until >= lease.until ]_vars

(* The store implements the abstract lease for each of the three kinds.     *)
Fenced == INSTANCE FencedLease WITH now   <- clock,
                                    owner <- lease.owner,
                                    token <- epoch,
                                    until <- lease.until
FencedSpec == Fenced!Spec
-----------------------------------------------------------------------------
(* The inductive strengthening the proofs use: what a record in a caller's  *)
(* hands, or in a call, says about the store.                               *)

CallInv ==
    \A p \in Callers :
        /\ call[p].now <= clock
        /\ call[p].op = "acquire" => call[p].arg \in Wanted(p) /\ held[p] = NoLease

StoreInv ==
    /\ lease.epoch > 0 <=> lease # NoLease
    /\ lease.owner = NoOwner => lease = NoLease
    /\ lease.until <= clock + TTL
    /\ lease.epoch \in {0, epoch}

\* Outside profile leases an epoch is in the hands of one caller only, and the
\* store's record of it is that caller's copy.
HolderInv ==
    kind # "profile" =>
        \A p \in Callers :
            /\ held[p].epoch > 0 <=> held[p] # NoLease
            /\ held[p].until <= clock + TTL
            /\ held[p] # NoLease /\ held[p].epoch = lease.epoch => lease = held[p]
            /\ \A q \in Callers :
                  held[p].epoch > 0 /\ held[p].epoch = held[q].epoch => p = q
            /\ call[p].op = "renew" =>
                  /\ call[p].arg.epoch > 0
                  /\ held[p] # NoLease => /\ call[p].arg = held[p]
                                          /\ held[p].until <= call[p].now + TTL
                  /\ held[p] = NoLease => call[p].arg.epoch # lease.epoch
                  /\ \A q \in Callers : held[q].epoch = call[p].arg.epoch => p = q

LeaseInv == /\ TypeOK
            /\ CallInv
            /\ StoreInv
            /\ EpochNamesOneGrant
            /\ HolderInv
            /\ OnlyExpiryPassesTheLease
=============================================================================
