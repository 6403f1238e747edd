------------------------ MODULE ControlPlane_proofs ------------------------
(***************************************************************************)
(* Theorems about what the control plane keeps: leases (LeaseStore), for   *)
(* every set of callers, owners and instances and every TTL and bound,     *)
(* members (NodeHost), for any number of nodes and instances, and, at the  *)
(* end, the certificates of its members (Certificates).                    *)
(* A step of a caller is first reduced to one of a few primitive effects   *)
(* (StepKinds); each part of LeaseInv is then shown to survive every       *)
(* effect.                                                                 *)
(***************************************************************************)
EXTENDS MCLeaseStore, NodeHost, SequenceTheorems, TLAPS

(* What one step of caller p does, whatever operation it belongs to.       *)
Samples(p) ==
    \/ /\ held[p] = NoLease
       /\ \E w \in Wanted(p) : Sample(p, "acquire", w)
    \/ held[p] # NoLease /\ Sample(p, "renew", held[p])
    \/ held[p] = NoLease /\ Sample(p, "get", NoLease)
    \/ kind = "profile" /\ Sample(p, "renew", call[p].arg)

Grants(p) == /\ call[p].op = "acquire"
             /\ kind # "profile" => ~HeldByOther(p)
             /\ kind = "profile" => ~LiveAt(call[p].now)
             /\ Grant(p)

Refuses(p) == call[p].op = "acquire" /\ Refuse(p)

Extends(p) == /\ lease # NoLease
              /\ \/ call[p].op = "renew" /\ Matches(call[p].arg)
                 \/ kind = "profile"
              /\ Extend(p)

Drops(p) == call' = [call EXCEPT ![p] = Idle] /\ UNCHANGED <<kind, clock, lease, epoch, held, revoked>>

(* Every step of a caller has one of these effects.                        *)
LEMMA StepKinds ==
    ASSUME NEW p \in Callers, CallerStep(p)
    PROVE  \/ Samples(p)
           \/ Grants(p)
           \/ Refuses(p)
           \/ Extends(p)
           \/ call[p].op = "renew" /\ RenewFails(p)
           \/ Get(p)
           \/ Release(p)
           \/ ReconcileRelease(p)
           \/ Drops(p)
           \/ Crash(p)
<1>1. CASE BeginAcquire(p) \/ BeginRenew(p) \/ BeginGet(p) \/ RenewFoundProfile(p)
  BY <1>1 DEF BeginAcquire, BeginRenew, BeginGet, RenewFoundProfile, Samples
<1>2. CASE AcquireLeader(p) \/ AcquireTaskLease(p)
  BY <1>2 DEF AcquireLeader, AcquireTaskLease, Grants, Refuses
<1>3. CASE AcquireProfileLease(p)
  BY <1>3 DEF AcquireProfileLease, Grants, Refuses, Extends, LiveAt
<1>4. CASE RenewLeader(p) \/ RenewTaskLease(p) \/ RenewProfileLease(p)
  BY <1>4 DEF RenewLeader, RenewTaskLease, RenewProfileLease, Renew, MayRenew,
              Matches, Extends
<1>5. CASE GetLeader(p) \/ GetTaskLease(p) \/ GetProfileLease(p)
  BY <1>5 DEF GetLeader, GetTaskLease, GetProfileLease
<1>6. CASE ReleaseLeader(p) \/ ReleaseTaskLease(p) \/ ReleaseProfileLease(p)
  BY <1>6 DEF ReleaseLeader, ReleaseTaskLease, ReleaseProfileLease
<1>7. CASE DropFound(p)
  BY <1>7 DEF DropFound, Drops
<1>8. QED
  BY <1>1, <1>2, <1>3, <1>4, <1>5, <1>6, <1>7 DEF CallerStep

-----------------------------------------------------------------------------
(* The empty records are records, and what p asks for is one too.          *)
LEMMA RecordTypes ==
    /\ NoLease \in LeaseRecord
    /\ Idle \in Call
BY DEF NoLease, Idle, LeaseRecord, Call, Ops

LEMMA WantedType ==
    ASSUME NEW p \in Callers, NEW w \in Wanted(p)
    PROVE  w \in LeaseRecord /\ w.owner = OwnerOf[p] /\ w.epoch = 0
BY LeaseAssumption DEF Wanted, LeaseRecord

(* A record stamped with a new epoch and a new expiry is a record.         *)
LEMMA StampedRecord ==
    ASSUME NEW r \in LeaseRecord, NEW e \in Nat, NEW u \in Nat
    PROVE  /\ Stamped(r, e, u) \in LeaseRecord
           /\ Stamped(r, e, u).owner = r.owner
           /\ Stamped(r, e, u).inst = r.inst
           /\ Stamped(r, e, u).epoch = e
           /\ Stamped(r, e, u).until = u
BY DEF LeaseRecord, Stamped

LEMMA StampedAtSample ==
    ASSUME TypeOK, NEW p \in Callers, NEW r \in LeaseRecord, NEW e \in Nat
    PROVE  /\ Stamped(r, e, call[p].now + TTL) \in LeaseRecord
           /\ Stamped(r, e, call[p].now + TTL).owner = r.owner
           /\ Stamped(r, e, call[p].now + TTL).inst = r.inst
           /\ Stamped(r, e, call[p].now + TTL).epoch = e
           /\ Stamped(r, e, call[p].now + TTL).until = call[p].now + TTL
<1>1. call[p].now + TTL \in Nat
  BY LeaseAssumption DEF TypeOK, Call
<1>2. QED
  BY <1>1, StampedRecord

(* The type invariant: one step of the store keeps it.                     *)
LEMMA TypeStep ==
    ASSUME TypeOK, [Next]_vars
    PROVE  TypeOK'
<1> USE LeaseAssumption, RecordTypes
<1>1. CASE Tick
  BY <1>1 DEF Tick, TypeOK
<1>2. CASE UNCHANGED vars
  BY <1>2 DEF vars, TypeOK
<1>3. ASSUME NEW p \in Callers, CallerStep(p)
      PROVE  TypeOK'
  <2>0. call[p] \in Call /\ call[p].now \in Nat /\ call[p].arg \in LeaseRecord /\ held[p] \in LeaseRecord
    BY DEF TypeOK, Call
  <2>1. CASE Samples(p)
    <3>1. ASSUME NEW op \in Ops, NEW arg \in LeaseRecord, Sample(p, op, arg)
          PROVE  TypeOK'
      BY <3>1 DEF Sample, TypeOK, Call
    <3>2. QED
      BY <2>0, <2>1, <3>1, WantedType DEF Samples, Ops
  <2>2. CASE Grants(p)
    <3>0. epoch + 1 \in Nat
      BY DEF TypeOK
    <3>1. Stamped(call[p].arg, epoch + 1, call[p].now + TTL) \in LeaseRecord
      BY <2>0, <3>0, StampedAtSample
    <3>2. lease.epoch \in Nat
      BY DEF LeaseRecord, TypeOK
    <3>3. QED
      BY <2>2, <3>0, <3>1, <3>2 DEF Grants, Grant, Return, TypeOK
  <2>3. CASE Refuses(p)
    BY <2>3 DEF Refuses, Refuse, Return, TypeOK
  <2>4. CASE Extends(p)
    <3>0. lease \in LeaseRecord /\ lease.epoch \in Nat
      BY DEF TypeOK, LeaseRecord
    <3>1. Stamped(lease, lease.epoch, call[p].now + TTL) \in LeaseRecord
      BY <3>0, StampedAtSample
    <3>2. QED
      BY <2>4, <3>1 DEF Extends, Extend, Return, TypeOK
  <2>5. CASE RenewFails(p)
    <3>1. [op |-> "lapsed", now |-> 0, arg |-> NoLease] \in Call
      BY DEF Call, Ops
    <3>2. QED
      BY <2>5, <3>1 DEF RenewFails, Return, TypeOK
  <2>6. CASE Get(p)
    <3>1. lease \in LeaseRecord => [op |-> "found", now |-> 0, arg |-> lease] \in Call
      BY DEF Call, Ops
    <3>2. QED
      BY <2>6, <3>1 DEF Get, GetMisses, GetHits, TypeOK
  <2>7. CASE Release(p)
    <3>1. lease.epoch \in Nat
      BY DEF LeaseRecord, TypeOK
    <3>2. QED
      BY <2>7, <3>1 DEF Release, Remove, TypeOK
  <2>8. CASE ReconcileRelease(p)
    <3>1. lease.epoch \in Nat
      BY DEF LeaseRecord, TypeOK
    <3>2. QED
      BY <2>8, <3>1 DEF ReconcileRelease, Remove, TypeOK
  <2>9. CASE Drops(p) \/ Crash(p)
    BY <2>9 DEF Drops, Crash, TypeOK
  <2>10. QED
    BY <1>3, <2>1, <2>2, <2>3, <2>4, <2>5, <2>6, <2>7, <2>8, <2>9, StepKinds
<1>4. QED
  BY <1>1, <1>2, <1>3 DEF Next

(* The store's variables keep their types.                                 *)
THEOREM TypeCorrect == Spec => []TypeOK
<1>1. Init => TypeOK
  BY RecordTypes DEF Init, TypeOK
<1>2. TypeOK /\ [Next]_vars => TypeOK'
  BY TypeStep
<1>3. QED
  BY <1>1, <1>2, PTL DEF Spec

-----------------------------------------------------------------------------
(* What a grant and an extension write, field by field.                    *)
LEMMA GrantEffect ==
    ASSUME NEW p \in Callers, TypeOK, CallInv, Grants(p)
    PROVE  /\ lease' \in LeaseRecord
           /\ lease'.owner = OwnerOf[p] /\ lease'.owner \in Owners
           /\ lease'.epoch = epoch + 1 /\ epoch' = epoch + 1
           /\ lease'.until = call[p].now + TTL
           /\ held' = [held EXCEPT ![p] = lease']
           /\ call' = [call EXCEPT ![p] = Idle]
           /\ revoked' = IF lease.owner = OwnerOf[p] THEN revoked \cup {lease.epoch}
                                                      ELSE revoked
           /\ UNCHANGED <<kind, clock>>
<1> USE LeaseAssumption
<1>1. /\ call[p] \in Call /\ call[p].now \in Nat /\ call[p].arg \in LeaseRecord
      /\ call[p].arg.owner = OwnerOf[p] /\ call[p].arg.epoch = 0
  BY WantedType DEF TypeOK, Call, CallInv, Grants
<1>2. lease' = Stamped(call[p].arg, epoch + 1, call[p].now + TTL)
  BY DEF Grants, Grant
<1>3. /\ lease' \in LeaseRecord
      /\ lease'.owner = call[p].arg.owner
      /\ lease'.epoch = epoch + 1
      /\ lease'.until = call[p].now + TTL
  <2>1. epoch + 1 \in Nat
    BY DEF TypeOK
  <2>2. lease' \in LeaseRecord
    BY <1>1, <1>2, <2>1, StampedAtSample
  <2>3. QED
    BY <1>2, <2>2 DEF Stamped
<1>4. QED
  BY <1>1, <1>2, <1>3 DEF Grants, Grant, Return

LEMMA ExtendEffect ==
    ASSUME NEW p \in Callers, TypeOK, Extends(p)
    PROVE  /\ lease' \in LeaseRecord
           /\ lease'.owner = lease.owner /\ lease'.inst = lease.inst
           /\ lease'.epoch = lease.epoch
           /\ lease'.until = call[p].now + TTL
           /\ held' = [held EXCEPT ![p] = lease']
           /\ call' = [call EXCEPT ![p] = Idle]
           /\ UNCHANGED <<kind, clock, epoch, revoked>>
<1> USE LeaseAssumption
<1>1. call[p].now \in Nat /\ lease \in LeaseRecord
  BY DEF TypeOK, Call
<1>2. lease' = Stamped(lease, lease.epoch, call[p].now + TTL)
  BY DEF Extends, Extend
<1>3. /\ lease' \in LeaseRecord
      /\ lease'.owner = lease.owner /\ lease'.inst = lease.inst
      /\ lease'.epoch = lease.epoch
      /\ lease'.until = call[p].now + TTL
  <2>1. lease.epoch \in Nat
    BY <1>1 DEF LeaseRecord
  <2>2. QED
    BY <1>1, <1>2, <2>1, StampedAtSample
<1>4. QED
  BY <1>2, <1>3 DEF Extends, Extend, Return

-----------------------------------------------------------------------------
(* Samples lie in the past, and an acquiring caller holds nothing.         *)
LEMMA CallStep ==
    ASSUME TypeOK, CallInv, [Next]_vars
    PROVE  CallInv'
<1> USE LeaseAssumption
<1>1. CASE Tick
  BY <1>1 DEF Tick, CallInv, TypeOK, Call, Wanted
<1>2. CASE UNCHANGED vars
  BY <1>2 DEF vars, CallInv, Wanted
<1>3. ASSUME NEW p \in Callers, CallerStep(p)
      PROVE  CallInv'
  <2>1. UNCHANGED <<kind, clock>> => \A q \in Callers : Wanted(q)' = Wanted(q)
    BY DEF Wanted
  <2>2. CASE Samples(p)
    BY <2>1, <2>2 DEF Samples, Sample, CallInv, TypeOK
  <2>3. ASSUME UNCHANGED <<kind, clock>>,
               \A q \in Callers \ {p} : call'[q] = call[q] /\ held'[q] = held[q],
               \/ call'[p].now = 0 /\ call'[p].op # "acquire"
               \/ call'[p] = call[p] /\ call[p].op # "acquire"
        PROVE  CallInv'
    BY <2>1, <2>3 DEF CallInv, TypeOK
  <2>4. CASE Grants(p) \/ Extends(p) \/ Refuses(p)
    BY <2>3, <2>4 DEF Grants, Grant, Extends, Extend, Refuses, Refuse, Return, TypeOK, Idle
  <2>5. CASE call[p].op = "renew" /\ RenewFails(p)
    BY <2>3, <2>5 DEF RenewFails, Return, TypeOK, Idle
  <2>6. CASE Get(p) \/ ReconcileRelease(p) \/ Drops(p) \/ Crash(p)
    BY <2>3, <2>6 DEF Get, GetMisses, GetHits, ReconcileRelease, Drops, Crash, TypeOK, Idle
  <2>7. CASE Release(p)
    BY <2>3, <2>7 DEF Release, TypeOK, Idle
  <2>8. QED
    BY <1>3, <2>2, <2>4, <2>5, <2>6, <2>7, StepKinds
<1>4. QED
  BY <1>1, <1>2, <1>3 DEF Next

(* The stored record carries the latest epoch and ends within a TTL.       *)
LEMMA StoreStep ==
    ASSUME TypeOK, CallInv, StoreInv, [Next]_vars
    PROVE  StoreInv'
<1> USE LeaseAssumption
<1>1. CASE Tick
  BY <1>1 DEF Tick, StoreInv, TypeOK, LeaseRecord
<1>2. ASSUME UNCHANGED <<clock, epoch>>, lease' \in {lease, NoLease}
      PROVE  StoreInv'
  BY <1>2 DEF StoreInv, TypeOK, NoLease
<1>3. ASSUME NEW p \in Callers, CallerStep(p)
      PROVE  StoreInv'
  <2>0. call[p].now \in Nat /\ call[p].now <= clock
    BY DEF TypeOK, Call, CallInv
  <2>1. CASE Grants(p)
    BY <2>0, <2>1, GrantEffect DEF StoreInv, TypeOK, NoLease
  <2>2. CASE Extends(p)
    BY <2>0, <2>2, ExtendEffect DEF StoreInv, TypeOK, NoLease, Extends
  <2>3. CASE Samples(p) \/ Refuses(p) \/ RenewFails(p) \/ Drops(p) \/ Crash(p)
    BY <1>2, <2>3 DEF Samples, Sample, Refuses, Refuse, RenewFails, Return, Drops, Crash
  <2>4. CASE Get(p) \/ Release(p) \/ ReconcileRelease(p)
    BY <1>2, <2>4 DEF Get, GetMisses, GetHits, Release, ReconcileRelease, Remove
  <2>5. QED
    BY <1>3, <2>1, <2>2, <2>3, <2>4, StepKinds
<1>4. QED
  BY <1>1, <1>2, <1>3 DEF Next, vars

(* The records of the next state are old ones, the record just stored, or  *)
(* records that were never granted.                                        *)
LEMMA RecordsStep ==
    ASSUME TypeOK, CallInv, [Next]_vars
    PROVE  /\ \A r \in Records' : r \in Records \/ r = lease' \/ r.epoch = 0
           /\ lease' \in Records \/ lease'.epoch = epoch + 1 \/ lease'.epoch = 0
              \/ (lease'.epoch = lease.epoch /\ lease'.owner = lease.owner /\ lease'.inst = lease.inst)
           /\ epoch' \in {epoch, epoch + 1}
           /\ epoch' = epoch + 1 \/ lease' \in Records \/ lease'.epoch \in {0, lease.epoch}
<1> USE LeaseAssumption
<1>0. NoLease.epoch = 0 /\ Idle.arg = NoLease
  BY DEF NoLease, Idle
<1>1. CASE UNCHANGED <<lease, epoch, held, call>>
  BY <1>1 DEF Records
<1>2. ASSUME NEW p \in Callers, CallerStep(p)
      PROVE  /\ \A r \in Records' : r \in Records \/ r = lease' \/ r.epoch = 0
             /\ lease' \in Records \/ lease'.epoch = epoch + 1 \/ lease'.epoch = 0
                \/ (lease'.epoch = lease.epoch /\ lease'.owner = lease.owner /\ lease'.inst = lease.inst)
             /\ epoch' \in {epoch, epoch + 1}
             /\ epoch' = epoch + 1 \/ lease' \in Records \/ lease'.epoch \in {0, lease.epoch}
  <2>1. CASE Samples(p)
    BY <1>0, <2>1, WantedType DEF Samples, Sample, Records, TypeOK
  <2>2. CASE Grants(p)
    BY <1>0, <2>2, GrantEffect DEF Records, TypeOK
  <2>3. CASE Extends(p)
    <3>1. \A r \in Records' : r \in Records \/ r = lease' \/ r.epoch = 0
      BY <1>0, <2>3, ExtendEffect DEF Records, TypeOK
    <3>2. lease \in Records /\ epoch' = epoch
      BY <2>3, ExtendEffect DEF Records
    <3>3. lease'.epoch = lease.epoch /\ lease'.owner = lease.owner /\ lease'.inst = lease.inst
      BY <2>3, ExtendEffect
    <3>4. QED
      BY <3>1, <3>2, <3>3
  <2>4. CASE Refuses(p) \/ RenewFails(p) \/ Drops(p) \/ Crash(p)
    BY <1>0, <2>4 DEF Refuses, Refuse, RenewFails, Return, Drops, Crash, Records, TypeOK
  <2>5. CASE Get(p)
    BY <1>0, <2>5 DEF Get, GetMisses, GetHits, Records, TypeOK
  <2>6. CASE Release(p) \/ ReconcileRelease(p)
    BY <1>0, <2>6 DEF Release, ReconcileRelease, Remove, Records, TypeOK
  <2>7. QED
    BY <1>2, <2>1, <2>2, <2>3, <2>4, <2>5, <2>6, StepKinds
<1>3. QED
  BY <1>1, <1>2 DEF Next, Tick, vars

(* Fencing: an epoch names one grant.                                      *)
LEMMA FencingStep ==
    ASSUME TypeOK, CallInv, EpochNamesOneGrant, [Next]_vars
    PROVE  EpochNamesOneGrant'
<1>1. \A r \in Records : r.epoch \in Nat
  BY DEF Records, TypeOK, Call, LeaseRecord
<1>2. lease \in Records
  BY DEF Records
<1>3. epoch \in Nat /\ epoch' \in {epoch, epoch + 1}
  BY RecordsStep DEF TypeOK
<1>4. ASSUME NEW r \in Records'
      PROVE  r.epoch <= epoch'
  BY <1>1, <1>2, <1>3, RecordsStep DEF EpochNamesOneGrant
<1>5. ASSUME NEW r \in Records', NEW s \in Records', r.epoch = s.epoch, r.epoch > 0
      PROVE  r.owner = s.owner /\ r.inst = s.inst
  BY <1>1, <1>2, <1>3, <1>5, RecordsStep DEF EpochNamesOneGrant
<1>6. QED
  BY <1>4, <1>5 DEF EpochNamesOneGrant

(* Outside profile leases an epoch is in one caller's hands.               *)
LEMMA HolderStep ==
    ASSUME TypeOK, CallInv, StoreInv, EpochNamesOneGrant, HolderInv, [Next]_vars,
           kind' # "profile"
    PROVE  HolderInv'
<1> USE LeaseAssumption
<1>0. /\ kind # "profile"
      /\ NoLease.epoch = 0 /\ NoLease.until = 0
      /\ Idle.op = "idle"
      /\ \A q \in Callers : /\ held[q] \in LeaseRecord /\ held[q].epoch \in Nat /\ held[q].until \in Nat
                            /\ call[q].arg.epoch \in Nat /\ call[q].now \in Nat
                            /\ held[q].epoch <= epoch /\ call[q].arg.epoch <= epoch
      /\ lease.epoch \in Nat /\ epoch \in Nat /\ clock \in Nat /\ TTL \in Nat
  <2>1. kind' = kind
    BY StepKinds DEF Next, vars, Tick, Samples, Sample, Grants, Grant, Refuses, Refuse, Extends,
       Extend, RenewFails, Return, Get, Release, ReconcileRelease, Drops, Crash
  <2>2. QED
    BY <2>1 DEF TypeOK, Call, LeaseRecord, EpochNamesOneGrant, Records, NoLease, Idle
<1>1. CASE Tick
  BY <1>0, <1>1 DEF Tick, HolderInv
<1>2. CASE UNCHANGED vars
  BY <1>2 DEF vars, HolderInv
<1>3. ASSUME NEW p \in Callers, CallerStep(p)
      PROVE  HolderInv'
  <2>1. CASE Samples(p)
    BY <1>0, <2>1 DEF Samples, Sample, HolderInv, TypeOK
  <2>2. CASE Grants(p)
    BY <1>0, <2>2, GrantEffect DEF HolderInv, TypeOK, CallInv
  <2>3. CASE Extends(p)
    BY <1>0, <2>3, ExtendEffect DEF Extends, Matches, HolderInv, TypeOK, CallInv
  <2>4. CASE Refuses(p)
    BY <1>0, <2>4 DEF Refuses, Refuse, Return, HolderInv, TypeOK
  <2>5. CASE RenewFails(p)
    <3>1. CASE kind = "leader" \/ held[p] = NoLease
      BY <1>0, <2>5, <3>1 DEF RenewFails, Return, HolderInv, TypeOK
    <3>2. CASE ~(kind = "leader" \/ held[p] = NoLease)
      <4>1. /\ UNCHANGED <<kind, clock, lease, epoch, held, revoked>>
            /\ \A q \in Callers \ {p} : call'[q] = call[q]
            /\ call'[p].op # "renew"
        BY <2>5, <3>2 DEF RenewFails, TypeOK
      <4>2. QED
        BY <1>0, <4>1 DEF HolderInv
    <3>3. QED
      BY <3>1, <3>2
  <2>6. CASE Get(p)
    BY <1>0, <2>6 DEF Get, GetMisses, GetHits, HolderInv, TypeOK, StoreInv
  <2>7. CASE Release(p)
    BY <1>0, <2>7 DEF Release, Remove, Matches, HolderInv, TypeOK, StoreInv, EpochNamesOneGrant, Records
  <2>8. CASE ReconcileRelease(p)
    BY <1>0, <2>8 DEF ReconcileRelease, Remove, HolderInv, TypeOK
  <2>9. CASE Drops(p) \/ Crash(p)
    BY <1>0, <2>9 DEF Drops, Crash, HolderInv, TypeOK
  <2>10. QED
    BY <1>3, <2>1, <2>2, <2>3, <2>4, <2>5, <2>6, <2>7, <2>8, <2>9, StepKinds
<1>4. QED
  BY <1>1, <1>2, <1>3 DEF Next

(* Handover by expiry only.                                                *)
LEMMA HandoverStep ==
    ASSUME LeaseInv, [Next]_vars
    PROVE  OnlyExpiryPassesTheLease'
<1> USE LeaseAssumption
<1>0. /\ TypeOK /\ CallInv /\ StoreInv /\ HolderInv /\ OnlyExpiryPassesTheLease
      /\ \A q \in Callers : call[q].now \in Nat /\ call[q].now <= clock /\ held[q].until \in Nat
      /\ lease.until \in Nat /\ clock \in Nat
  BY DEF LeaseInv, TypeOK, Call, LeaseRecord, CallInv
<1>1. CASE Tick
  BY <1>0, <1>1 DEF Tick, OnlyExpiryPassesTheLease
<1>2. CASE UNCHANGED vars
  BY <1>0, <1>2 DEF vars, OnlyExpiryPassesTheLease
<1>3. ASSUME NEW p \in Callers, CallerStep(p)
      PROVE  OnlyExpiryPassesTheLease'
  <2>1. CASE Samples(p) \/ Drops(p) \/ Refuses(p) \/ RenewFails(p) \/ Crash(p)
    BY <1>0, <2>1 DEF Samples, Sample, Drops, Refuses, Refuse, RenewFails, Return, Crash,
                      OnlyExpiryPassesTheLease, TypeOK
  <2>2. CASE Grants(p)
    BY <1>0, <2>2, GrantEffect DEF Grants, HeldByOther, LiveAt, OnlyExpiryPassesTheLease, TypeOK, CallInv, Wanted
  <2>3. CASE Extends(p)
    BY <1>0, <2>3, ExtendEffect DEF Extends, Matches, OnlyExpiryPassesTheLease, HolderInv, TypeOK
  <2>4. CASE Get(p)
    BY <1>0, <2>4 DEF Get, GetMisses, GetHits, OnlyExpiryPassesTheLease, TypeOK
  <2>5. CASE Release(p) \/ ReconcileRelease(p)
    BY <1>0, <2>5 DEF Release, ReconcileRelease, Remove, OnlyExpiryPassesTheLease, TypeOK
  <2>6. QED
    BY <1>3, <2>1, <2>2, <2>3, <2>4, <2>5, StepKinds
<1>4. QED
  BY <1>1, <1>2, <1>3 DEF Next

-----------------------------------------------------------------------------
(* LeaseInv is inductive.                                                  *)
LEMMA LeaseInvInit == Init => LeaseInv
<1> SUFFICES ASSUME Init PROVE LeaseInv
  OBVIOUS
<1> USE LeaseAssumption
<1>1. TypeOK
  BY RecordTypes DEF Init, TypeOK
<1>2. CallInv /\ StoreInv
  BY DEF Init, CallInv, StoreInv, Idle, NoLease
<1>3. EpochNamesOneGrant
  BY DEF Init, EpochNamesOneGrant, Records, Idle, NoLease
<1>4. HolderInv /\ OnlyExpiryPassesTheLease
  BY DEF Init, HolderInv, OnlyExpiryPassesTheLease, Idle, NoLease
<1>5. QED
  BY <1>1, <1>2, <1>3, <1>4 DEF LeaseInv

LEMMA LeaseInvStep == LeaseInv /\ [Next]_vars => LeaseInv'
<1> SUFFICES ASSUME LeaseInv, [Next]_vars PROVE LeaseInv'
  OBVIOUS
<1>1. TypeOK' /\ CallInv' /\ StoreInv' /\ EpochNamesOneGrant'
  BY TypeStep, CallStep, StoreStep, FencingStep DEF LeaseInv
<1>2. HolderInv'
  <2>1. CASE kind' = "profile"
    BY <2>1 DEF HolderInv
  <2>2. CASE kind' # "profile"
    BY <2>2, HolderStep DEF LeaseInv
  <2>3. QED
    BY <2>1, <2>2
<1>3. QED
  BY <1>1, <1>2, HandoverStep DEF LeaseInv

THEOREM LeaseInvariant == Spec => []LeaseInv
BY LeaseInvInit, LeaseInvStep, PTL DEF Spec

(* An epoch identifies one grant, so a stale holder can always be told     *)
(* from the present one.                                                   *)
THEOREM Fencing == Spec => []EpochNamesOneGrant
<1>1. LeaseInv => EpochNamesOneGrant
  BY DEF LeaseInv
<1>2. QED
  BY <1>1, LeaseInvariant, PTL

(* A leader or task lease nobody gave up passes to another owner only once *)
(* its holder's own copy has expired.                                      *)
THEOREM Handover == Spec => []OnlyExpiryPassesTheLease
<1>1. LeaseInv => OnlyExpiryPassesTheLease
  BY DEF LeaseInv
<1>2. QED
  BY <1>1, LeaseInvariant, PTL

-----------------------------------------------------------------------------
(* A live profile lease moves to no other owner and to no other instance.  *)
THEOREM Pinning == Spec => ProfileStaysPinned
<1> DEFINE Pinned == kind = "profile" /\ lease # NoLease /\ lease' # NoLease
                     /\ <<lease.owner, lease.inst>> # <<lease'.owner, lease'.inst>>
                     => lease.until <= clock
<1>1. LeaseInv /\ [Next]_vars => [Pinned]_vars
  <2> SUFFICES ASSUME LeaseInv, Next, kind = "profile", lease # NoLease, lease' # NoLease,
                      <<lease.owner, lease.inst>> # <<lease'.owner, lease'.inst>>
               PROVE  lease.until <= clock
    OBVIOUS
  <2>1. PICK p \in Callers : CallerStep(p)
    BY DEF Next, Tick
  <2>2. CASE Grants(p)
    <3>1. /\ call[p].now \in Nat /\ call[p].now <= clock /\ clock \in Nat
          /\ lease.until \in Nat
      BY DEF LeaseInv, TypeOK, Call, CallInv, LeaseRecord
    <3>2. QED
      BY <2>2, <3>1 DEF Grants, LiveAt
  <2>3. CASE Extends(p)
    BY <2>3, ExtendEffect DEF LeaseInv
  <2>4. CASE ~Grants(p) /\ ~Extends(p)
    BY <2>1, <2>4, StepKinds DEF Samples, Sample, Refuses, Refuse, RenewFails, Return, Get, GetMisses,
       GetHits, Release, ReconcileRelease, Remove, Drops, Crash
  <2>5. QED
    BY <2>2, <2>3, <2>4
<1>2. QED
  BY <1>1, LeaseInvariant, PTL DEF Spec, ProfileStaysPinned

(* A renewal that commits late leaves a leader or task lease its full term: *)
(* the lease it finds is the caller's own copy, which ends no later than    *)
(* the sample it was taken at allows.                                       *)
THEOREM Renewal == Spec => RenewalNeverShortens
<1> DEFINE Shortened == kind # "profile" /\ lease'.epoch = lease.epoch
                        => lease'.until >= lease.until
<1>1. LeaseInv /\ [Next]_vars => [Shortened]_vars
  <2> SUFFICES ASSUME LeaseInv, Next, kind # "profile", lease'.epoch = lease.epoch
               PROVE  lease'.until >= lease.until
    OBVIOUS
  <2>1. /\ lease \in LeaseRecord /\ lease.until \in Nat /\ lease.epoch \in Nat /\ epoch \in Nat
        /\ lease.epoch <= epoch
    BY DEF LeaseInv, TypeOK, LeaseRecord, EpochNamesOneGrant, Records
  <2>2. CASE UNCHANGED lease
    BY <2>1, <2>2
  <2>3. CASE lease' = NoLease
    BY <2>1, <2>3 DEF LeaseInv, StoreInv, NoLease
  <2>4. ASSUME NEW p \in Callers, CallerStep(p)
        PROVE  lease'.until >= lease.until
    <3>1. CASE Grants(p)
      BY <2>1, <3>1, GrantEffect DEF LeaseInv
    <3>2. CASE Extends(p)
      <4>1. /\ lease'.until = call[p].now + TTL
            /\ call[p].op = "renew" /\ lease # NoLease /\ lease.epoch = call[p].arg.epoch
        BY <3>2, ExtendEffect DEF LeaseInv, Extends, Matches
      <4>2. held[p] # NoLease /\ call[p].arg = held[p] /\ held[p].until <= call[p].now + TTL
        BY <4>1 DEF LeaseInv, HolderInv
      <4>3. lease = held[p]
        BY <4>1, <4>2 DEF LeaseInv, HolderInv
      <4>4. call[p].now + TTL \in Nat
        BY LeaseAssumption DEF LeaseInv, TypeOK, Call
      <4>5. QED
        BY <2>1, <4>1, <4>2, <4>3, <4>4
    <3>3. CASE ~Grants(p) /\ ~Extends(p)
      BY <2>2, <2>3, <2>4, <3>3, StepKinds
         DEF Samples, Sample, Refuses, Refuse, RenewFails, Return, Get, GetMisses,
             GetHits, Release, ReconcileRelease, Remove, Drops, Crash
    <3>4. QED
      BY <3>1, <3>2, <3>3
  <2>5. QED
    BY <2>2, <2>4 DEF Next, Tick
<1>2. QED
  BY <1>1, LeaseInvariant, PTL DEF Spec, RenewalNeverShortens

(* The store implements the abstract fenced lease: tokens never go back,   *)
(* and the lease changes owner only when it is free or has ended.          *)
THEOREM Refinement == Spec => FencedSpec
<1>1. Init => Fenced!Init
  BY DEF Init, Fenced!Init, NoLease
<1>2. LeaseInv /\ [Next]_vars => [Fenced!Next]_Fenced!vars
  <2> SUFFICES ASSUME LeaseInv, [Next]_vars
               PROVE  Fenced!Next \/ UNCHANGED Fenced!vars
    OBVIOUS
  <2> USE LeaseAssumption
  <2>0. clock \in Nat /\ TTL \in Nat /\ NoLease.owner = NoOwner /\ NoLease.until = 0
    BY DEF LeaseInv, TypeOK, NoLease
  <2>1. CASE Tick
    BY <2>1 DEF Tick, Fenced!Next, Fenced!Advance
  <2>2. CASE UNCHANGED <<clock, lease, epoch>>
    BY <2>2 DEF Fenced!vars
  <2>3. ASSUME UNCHANGED <<clock, epoch>>, lease' = NoLease
        PROVE  Fenced!Next
    BY <2>0, <2>3 DEF Fenced!Next, Fenced!Free
  <2>4. ASSUME NEW p \in Callers, CallerStep(p)
        PROVE  Fenced!Next \/ UNCHANGED Fenced!vars
    <3>0. /\ call[p].now \in Nat /\ call[p].now <= clock
          /\ call[p].now + TTL \in 0 .. (clock + TTL)
          /\ lease.until \in Nat
      BY <2>0 DEF LeaseInv, TypeOK, Call, CallInv, LeaseRecord
    <3>1. CASE Grants(p)
      <4>1. lease'.until \in 0 .. (clock + TTL) /\ lease'.owner \in Owners
            /\ epoch' = epoch + 1 /\ clock' = clock
        BY <3>0, <3>1, GrantEffect DEF LeaseInv
      <4>2. lease.owner \in {NoOwner, lease'.owner} \/ lease.until <= clock
        BY <2>0, <3>0, <3>1, GrantEffect DEF Grants, HeldByOther, LiveAt, LeaseInv, CallInv, Wanted
      <4>3. QED
        BY <4>1, <4>2 DEF Fenced!Next, Fenced!Grant, Fenced!MayTake
    <3>2. CASE Extends(p)
      <4>1. lease.owner # NoOwner
        BY <3>2 DEF Extends, LeaseInv, StoreInv
      <4>2. QED
        BY <3>0, <3>2, <4>1, ExtendEffect DEF Fenced!Next, Fenced!Extend, LeaseInv
    <3>3. CASE ~Grants(p) /\ ~Extends(p)
      BY <2>2, <2>3, <2>4, <3>3, StepKinds
         DEF Samples, Sample, Refuses, Refuse, RenewFails, Return, Get, GetMisses,
             GetHits, Release, ReconcileRelease, Remove, Drops, Crash
    <3>4. QED
      BY <3>1, <3>2, <3>3
  <2>5. QED
    BY <2>1, <2>2, <2>4 DEF Next, vars
<1>3. QED
  BY <1>1, <1>2, LeaseInvariant, PTL DEF Spec, FencedSpec, Fenced!Spec

-----------------------------------------------------------------------------
(* Node hosts and their records, for any number of nodes, embedded or       *)
(* remote, any TTL and whatever crashes, is lost or arrives late.  What the *)
(* store does to a record is one of three things (Keeps, Beaten, or a       *)
(* record of the caller's), and a step of a node keeps the invariant of the *)
(* others when it at most looks at their records (StepOf).                  *)
\* What a heartbeat or a look at the records leaves of a record.
Keeps(i) ==
    i \in DOMAIN instances' =>
        /\ i \in DOMAIN instances
        /\ instances'[i].own = instances[i].own /\ instances'[i].age = instances[i].age
        /\ instances'[i].overtook = instances[i].overtook
        /\ instances'[i].state = "ready" => instances[i].state = "ready"

\* An instance that runs in a host with an embedded store, or is being withdrawn.
Placed(n, i) ==
    \/ host[n].main \in {"agents", "joining", "up"} /\ i \in host[n].hosted
    \/ host[n].main = "removing" /\ i \in host[n].closing

\* A process that has no agents yet, or none at all.
Unstarted(n) == host[n].main \in {"down", "attesting"}

\* The record of what runs, ran or may still be written for instance i of node n.
RecordInv(n, i) ==
    /\ instances[i].state = "ready" /\ ~instances[i].own /\ (~instances[i].overtook \/ Unstarted(n))
          => instances[i].age >= gone[n]
    /\ instances[i].state = "ready" /\ host[n].remote
          => instances[i].age >= token[n].expired - 1
    /\ host[n].sync = "beat" /\ i = host[n].beating
          => instances[i].own \/ instances[i].overtook
    /\ \A rpc \in late[n] : rpc.own /\ rpc.op = "beat" /\ i = rpc.inst
          => instances[i].own \/ instances[i].overtook
    /\ ~host[n].remote /\ i \in host[n].hosted \cup host[n].todo
          => instances[i].own \/ instances[i].overtook
    /\ ~host[n].remote /\ instances[i].own => Placed(n, i)
    /\ Unstarted(n) => ~instances[i].own

RecordsInv(n) == \A i \in InstancesOf(n) \cap DOMAIN instances : RecordInv(n, i)

\* What a host is at, and how fresh the heartbeats of its sync are.
HostInv(n) ==
    /\ host[n].configured \/ host[n].main = "attesting" => host[n].remote
    /\ host[n].hosted \cup host[n].todo \cup host[n].closing \subseteq InstancesOf(n)
    /\ host[n].sync = "beat" => host[n].beating \in InstancesOf(n)
    /\ ~host[n].remote => host[n].sync \notin {"node", "beat"}
    /\ Unstarted(n) => /\ host[n].sync = "idle"
                       /\ host[n].hosted \cup host[n].todo \cup host[n].closing = {}
    /\ host[n].remote /\ host[n].sync \in {"node", "heartbeat", "instances", "beat"}
          => host[n].stamp >= token[n].expired - 1

\* A call given up is of the node, and as old as the end of its caller, when that has
\* ended, and as the end of the attestation it was sent with.
LateInv(n, rpc) ==
    /\ rpc.op \in {"instance", "beat", "remove"} => rpc.inst \in InstancesOf(n)
    /\ rpc.own => host[n].remote /\ ~Unstarted(n)
    /\ ~rpc.own /\ rpc.op \in {"instance", "beat"} => rpc.age >= gone[n]
    /\ host[n].remote /\ rpc.op = "beat" => rpc.age >= token[n].expired - 1

CallsInv(n) == \A rpc \in late[n] : LateInv(n, rpc)

HostsInv == HostsTypeOK /\ \A n \in Nodes : HostInv(n) /\ CallsInv(n) /\ RecordsInv(n)

-----------------------------------------------------------------------------
\* Constants.
LEMMA TTLIsNat ==
    /\ HeartbeatTTL \in Nat /\ HeartbeatTTL > 0 /\ Ages = 0..(HeartbeatTTL + 1)
    /\ EnrolledNodes = Nodes /\ LongExpired = HeartbeatTTL + 2
    /\ NodeOf \in [Instances -> Nodes]
BY MembershipAssumption, EnrollmentAssumption, NodeHostAssumption DEF Ages

-----------------------------------------------------------------------------
(* What the store's operations do to the records of instances.              *)

\* Every record but one is only looked at.
KeepsBut(i) == \A j : j # i => Keeps(j)

LEMMA LiveKeeps ==
    ASSUME MembershipTypeOK, NEW j, j \in DOMAIN instances
    PROVE  /\ DOMAIN LiveInstances = DOMAIN instances
           /\ LiveInstances[j] \in InstanceRecord
           /\ LiveInstances[j].own = instances[j].own
           /\ LiveInstances[j].age = instances[j].age
           /\ LiveInstances[j].overtook = instances[j].overtook
           /\ LiveInstances[j].state = "ready" => instances[j].state = "ready"
BY DEF LiveInstances, MembershipTypeOK, InstanceRecord, States

LEMMA LookKeeps ==
    ASSUME MembershipTypeOK, instances' = LiveInstances
    PROVE  \A j : Keeps(j)
<1>1. DOMAIN LiveInstances = DOMAIN instances
  BY DEF LiveInstances
<1>2. QED
  BY <1>1, LiveKeeps DEF Keeps

LEMMA SameKeeps ==
    ASSUME UNCHANGED instances
    PROVE  \A j : Keeps(j)
BY DEF Keeps

LEMMA LiveNodesType ==
    ASSUME MembershipTypeOK
    PROVE  /\ DOMAIN LiveNodes = DOMAIN nodes
           /\ \A n \in DOMAIN nodes : LiveNodes[n] \in NodeRecord
BY DEF LiveNodes, MembershipTypeOK, NodeRecord, States

LEMMA LiveInstancesType ==
    ASSUME MembershipTypeOK
    PROVE  /\ DOMAIN LiveInstances = DOMAIN instances
           /\ \A i \in DOMAIN instances : LiveInstances[i] \in InstanceRecord
BY LiveKeeps DEF LiveInstances

LEMMA RegisterNodeEffect ==
    ASSUME MembershipTypeOK, NEW n \in Nodes, NEW st \in States, NEW age \in Ages,
           RegisterNode(n, st, age)
    PROVE  MembershipTypeOK' /\ \A j : Keeps(j)
<1>1. \A j : Keeps(j)
  BY LookKeeps DEF RegisterNode
<1>2. [state |-> st, age |-> age] \in NodeRecord
  BY DEF NodeRecord
<1>3. DOMAIN nodes' \subseteq Nodes /\ \A m \in DOMAIN nodes' : nodes'[m] \in NodeRecord
  BY <1>2, LiveNodesType DEF RegisterNode, MembershipTypeOK
<1>4. DOMAIN instances' \subseteq Instances
      /\ \A i \in DOMAIN instances' : instances'[i] \in InstanceRecord
  BY LiveInstancesType DEF RegisterNode, MembershipTypeOK
<1>5. QED
  BY <1>1, <1>3, <1>4 DEF MembershipTypeOK, NodeRecord, InstanceRecord, Ages

LEMMA HeartbeatNodeEffect ==
    ASSUME MembershipTypeOK, NEW n \in Nodes, NEW age \in Ages, NEW ok, HeartbeatNode(n, age, ok)
    PROVE  MembershipTypeOK' /\ \A j : Keeps(j)
<1>1. \A j : Keeps(j)
  BY LookKeeps DEF HeartbeatNode
<1>2. [state |-> "ready", age |-> age] \in NodeRecord
  BY DEF NodeRecord, States
<1>3. DOMAIN nodes' \subseteq Nodes /\ \A m \in DOMAIN nodes' : nodes'[m] \in NodeRecord
  BY <1>2, LiveNodesType DEF HeartbeatNode, MembershipTypeOK
<1>4. DOMAIN instances' \subseteq Instances
      /\ \A i \in DOMAIN instances' : instances'[i] \in InstanceRecord
  BY LiveInstancesType DEF HeartbeatNode, MembershipTypeOK
<1>5. QED
  BY <1>1, <1>3, <1>4 DEF MembershipTypeOK, NodeRecord, InstanceRecord, Ages

LEMMA RegisterInstanceEffect ==
    ASSUME MembershipTypeOK, NEW i \in Instances, NEW record \in InstanceRecord,
           RegisterInstance(i, record)
    PROVE  /\ MembershipTypeOK' /\ KeepsBut(i)
           /\ i \in DOMAIN instances' /\ instances'[i] = record
<1>1. KeepsBut(i)
  BY LiveKeeps DEF RegisterInstance, KeepsBut, Keeps
<1>2. i \in DOMAIN instances' /\ instances'[i] = record
  BY DEF RegisterInstance
<1>3. DOMAIN nodes' \subseteq Nodes /\ \A m \in DOMAIN nodes' : nodes'[m] \in NodeRecord
  BY LiveNodesType DEF RegisterInstance, MembershipTypeOK
<1>4. DOMAIN instances' \subseteq Instances
      /\ \A j \in DOMAIN instances' : instances'[j] \in InstanceRecord
  BY LiveInstancesType DEF RegisterInstance, MembershipTypeOK
<1>5. QED
  BY <1>1, <1>2, <1>3, <1>4
     DEF MembershipTypeOK, NodeRecord, InstanceRecord, Ages

\* A record that was found and heartbeated.
Beaten(i, age) == i \in DOMAIN instances' =>
    /\ i \in DOMAIN instances
    /\ instances'[i].age = age /\ instances'[i].own = instances[i].own
    /\ instances'[i].overtook = instances[i].overtook

LEMMA HeartbeatInstanceEffect ==
    ASSUME MembershipTypeOK, NEW i \in Instances, NEW age \in Ages, NEW ok,
           HeartbeatInstance(i, age, ok)
    PROVE  MembershipTypeOK' /\ KeepsBut(i) /\ Beaten(i, age)
<1>0. ok = (i \in DOMAIN instances)
  BY DEF HeartbeatInstance
<1>1. KeepsBut(i)
  BY <1>0, LiveKeeps, LiveInstancesType DEF HeartbeatInstance, KeepsBut, Keeps
<1>2. Beaten(i, age)
  BY <1>0, LiveKeeps, LiveInstancesType DEF HeartbeatInstance, Beaten, InstanceRecord
<1>3. DOMAIN nodes' \subseteq Nodes /\ \A m \in DOMAIN nodes' : nodes'[m] \in NodeRecord
  BY LiveNodesType DEF HeartbeatInstance, MembershipTypeOK
<1>4. DOMAIN instances' \subseteq Instances
      /\ \A j \in DOMAIN instances' : instances'[j] \in InstanceRecord
  BY LiveInstancesType DEF HeartbeatInstance, MembershipTypeOK,
     InstanceRecord, States
<1>5. QED
  BY <1>1, <1>2, <1>3, <1>4
     DEF MembershipTypeOK, NodeRecord, InstanceRecord, Ages

\* A record that is gone.
LEMMA RemoveInstanceEffect ==
    ASSUME MembershipTypeOK, NEW i \in Instances,
           RemoveInstance(i) \/ ServeRemoveInstance(i)
    PROVE  MembershipTypeOK' /\ (\A j : Keeps(j)) /\ i \notin DOMAIN instances'
<1>1. CASE RemoveInstance(i)
  BY <1>1 DEF RemoveInstance, Restrict, Keeps, MembershipTypeOK,
              NodeRecord, InstanceRecord, Ages
<1>2. CASE ServeRemoveInstance(i)
  <2>1. instances' = [j \in DOMAIN instances \ {i} |-> LiveInstances[j]]
    BY <1>2 DEF ServeRemoveInstance, Restrict
  <2>2. DOMAIN nodes' \subseteq Nodes /\ \A m \in DOMAIN nodes' : nodes'[m] \in NodeRecord
    BY <1>2, LiveNodesType DEF ServeRemoveInstance, MembershipTypeOK
  <2>3. DOMAIN instances' \subseteq Instances
        /\ \A j \in DOMAIN instances' : instances'[j] \in InstanceRecord
    BY <2>1, LiveInstancesType DEF MembershipTypeOK
  <2>4. (\A j : Keeps(j)) /\ i \notin DOMAIN instances'
    BY <2>1, LiveKeeps DEF Keeps
  <2>5. QED
    BY <2>2, <2>3, <2>4
       DEF MembershipTypeOK, NodeRecord, InstanceRecord, Ages
<1>3. QED
  BY <1>1, <1>2

-----------------------------------------------------------------------------
(* What the service does.                                                   *)

\* An attestation never ends longer ago than it did, but for one that ends now.
Sooner(n) == token'[n].expired <= token[n].expired \/ token'[n].expired <= 1

ServiceTypeOK == MembershipTypeOK /\ EnrollmentTypeOK /\ attested \subseteq Nodes

Looks == ServiceTypeOK' /\ (\A m \in Nodes : Sooner(m)) /\ \A j : Keeps(j)

Touches(i) == ServiceTypeOK' /\ (\A m \in Nodes : Sooner(m)) /\ KeepsBut(i)

LEMMA TokenType ==
    ASSUME EnrollmentTypeOK, NEW n \in Nodes
    PROVE  token[n] \in Token /\ token[n].expired \in 0..(HeartbeatTTL + 2)
BY NodeHostAssumption DEF EnrollmentTypeOK, Token

LEMMA TokenSame ==
    ASSUME EnrollmentTypeOK, UNCHANGED token
    PROVE  EnrollmentTypeOK' /\ \A m \in Nodes : Sooner(m)
BY TokenType DEF EnrollmentTypeOK, Token, Sooner

LEMMA AttestsToken ==
    ASSUME EnrollmentTypeOK, NEW n \in Nodes, NEW ok,
           AuthorityAttests(n, ok)
    PROVE  /\ EnrollmentTypeOK' /\ \A m \in Nodes : Sooner(m)
           /\ ok => token'[n].expired = 0
<1>0. EnrolledNodes = Nodes
  BY TTLIsNat
<1>1. CASE ok
  <2>1. token' = [token EXCEPT ![n].used = TRUE] /\ token[n].expired = 0
    BY <1>1 DEF AuthorityAttests, Attestable
  <2>2. \A m \in Nodes : token'[m] \in Token /\ token'[m].expired = token[m].expired
    BY <1>0, <2>1, TokenType DEF EnrollmentTypeOK, Token
  <2>3. EnrollmentTypeOK'
    BY <1>0, <2>1, <2>2 DEF EnrollmentTypeOK, Token
  <2>4. QED
    BY <2>1, <2>2, <2>3, TokenType DEF Sooner
<1>2. CASE ~ok
  BY <1>2, TokenSame DEF AuthorityAttests
<1>3. QED
  BY <1>1, <1>2

LEMMA QuietService ==
    ASSUME ServiceTypeOK, UNCHANGED <<nodes, instances, token, attested>>
    PROVE  Looks
BY TokenSame, SameKeeps
   DEF Looks, ServiceTypeOK, MembershipTypeOK, NodeRecord, InstanceRecord

LEMMA ServeAttestLooks ==
    ASSUME ServiceTypeOK, NEW n \in Nodes, NEW ok, ServeAttestNode(n, ok)
    PROVE  Looks /\ (ok => token'[n].expired = 0)
<1>1. MembershipTypeOK' /\ \A j : Keeps(j)
  BY SameKeeps DEF ServeAttestNode, membership, ServiceTypeOK, MembershipTypeOK,
                   NodeRecord, InstanceRecord
<1>2. attested' \subseteq Nodes
  BY DEF ServeAttestNode, ServiceTypeOK
<1>3. AuthorityAttests(n, ok) \/ (~ok /\ AuthorityAttests(n, TRUE))
  BY DEF ServeAttestNode
<1>4. EnrollmentTypeOK' /\ (\A m \in Nodes : Sooner(m)) /\ (ok => token'[n].expired = 0)
  BY <1>3, AttestsToken DEF ServiceTypeOK
<1>5. QED
  BY <1>1, <1>2, <1>4 DEF Looks, ServiceTypeOK

LEMMA RemoteAttestLooks ==
    ASSUME ServiceTypeOK, NEW n \in Nodes, NEW ok, RemoteAttestNode(n, ok)
    PROVE  Looks /\ (ok => token'[n].expired = 0)
<1>1. \/ ServeAttestNode(n, ok)
      \/ ~ok /\ ServeAttestNode(n, TRUE)
      \/ ~ok /\ UNCHANGED <<nodes, instances, token, attested>>
  BY DEF RemoteAttestNode, service, membership
<1>2. QED
  BY <1>1, ServeAttestLooks, QuietService

LEMMA RegisterNodeLooks ==
    ASSUME ServiceTypeOK, NEW n \in Nodes, NEW st \in States,
           NEW age \in Ages, NEW ok,
           \/ RegisterNode(n, st, age) /\ StoreOnly
           \/ ServeRegisterNode(n, st, age, ok)
           \/ RemoteRegisterNode(n, st, age, ok)
    PROVE  Looks
<1>1. \/ RegisterNode(n, st, age) /\ UNCHANGED <<token, attested>>
      \/ UNCHANGED <<nodes, instances, token, attested>>
  BY DEF ServeRegisterNode, RemoteRegisterNode, StoreOnly, service,
         membership
<1>2. CASE RegisterNode(n, st, age) /\ UNCHANGED <<token, attested>>
  BY <1>2, RegisterNodeEffect, TokenSame DEF Looks, ServiceTypeOK
<1>3. QED
  BY <1>1, <1>2, QuietService

LEMMA HeartbeatNodeLooks ==
    ASSUME ServiceTypeOK, NEW n \in Nodes, NEW age \in Ages, NEW ok,
           \/ HeartbeatNode(n, age, ok) /\ StoreOnly
           \/ ServeHeartbeatNode(n, age, ok)
           \/ UNCHANGED service
    PROVE  Looks
<1>1. \/ HeartbeatNode(n, age, ok) /\ UNCHANGED <<token, attested>>
      \/ UNCHANGED <<nodes, instances, token, attested>>
  BY DEF ServeHeartbeatNode, StoreOnly, service, membership
<1>2. CASE HeartbeatNode(n, age, ok) /\ UNCHANGED <<token, attested>>
  BY <1>2, HeartbeatNodeEffect, TokenSame DEF Looks, ServiceTypeOK
<1>3. QED
  BY <1>1, <1>2, QuietService

LEMMA RemoveLooks ==
    ASSUME ServiceTypeOK, NEW i \in Instances,
           \/ RemoveInstance(i) /\ StoreOnly
           \/ RemoteRemoveInstance(i)
    PROVE  Looks /\ (UNCHANGED service \/ i \notin DOMAIN instances')
<1>1. \/ (RemoveInstance(i) \/ ServeRemoveInstance(i)) /\ UNCHANGED <<token, attested>>
      \/ UNCHANGED service /\ UNCHANGED <<nodes, instances, token, attested>>
  BY DEF RemoteRemoveInstance, ServeRemoveInstance, StoreOnly, service,
         membership
<1>2. CASE (RemoveInstance(i) \/ ServeRemoveInstance(i)) /\ UNCHANGED <<token, attested>>
  BY <1>2, RemoveInstanceEffect, TokenSame DEF Looks, ServiceTypeOK
<1>3. QED
  BY <1>1, <1>2, QuietService

\* A registration that arrives finds a current attestation.
LEMMA RegisterInstanceTouches ==
    ASSUME ServiceTypeOK, NEW i \in Instances,
           NEW record \in InstanceRecord,
           \/ RegisterInstance(i, record) /\ StoreOnly
           \/ ServeRegisterInstance(i, record, TRUE)
    PROVE  /\ Touches(i) /\ i \in DOMAIN instances' /\ instances'[i] = record
           /\ ServeRegisterInstance(i, record, TRUE) => token'[NodeOf[i]].expired = 0
<1>1. RegisterInstance(i, record) /\ UNCHANGED <<token, attested>>
  BY DEF ServeRegisterInstance, StoreOnly
<1>2. ServeRegisterInstance(i, record, TRUE) => token'[NodeOf[i]].expired = 0
  BY <1>1 DEF ServeRegisterInstance, AttestationCurrent
<1>3. QED
  BY <1>1, <1>2, RegisterInstanceEffect, TokenSame DEF Touches, ServiceTypeOK

LEMMA ServeRegisterInstanceTouches ==
    ASSUME ServiceTypeOK, NEW i \in Instances,
           NEW record \in InstanceRecord, NEW ok \in BOOLEAN,
           ServeRegisterInstance(i, record, ok)
    PROVE  /\ Touches(i)
           /\ \/ Looks /\ ~ok
              \/ ok /\ i \in DOMAIN instances' /\ instances'[i] = record
                 /\ token'[NodeOf[i]].expired = 0
<1>1. CASE ok
  BY <1>1, RegisterInstanceTouches, Zenon
<1>2. CASE ~ok
  <2>1. UNCHANGED <<nodes, instances, token, attested>>
    BY <1>2 DEF ServeRegisterInstance, membership
  <2>2. QED
    BY <1>2, <2>1, QuietService DEF Looks, Touches, KeepsBut
<1>3. QED
  BY <1>1, <1>2

LEMMA HeartbeatInstanceTouches ==
    ASSUME ServiceTypeOK, NEW i \in Instances, NEW age \in Ages, NEW ok,
           \/ HeartbeatInstance(i, age, ok) /\ StoreOnly
           \/ ServeHeartbeatInstance(i, age, ok)
    PROVE  Touches(i) /\ Beaten(i, age)
<1>1. HeartbeatInstance(i, age, ok) /\ UNCHANGED <<token, attested>>
  BY DEF ServeHeartbeatInstance, StoreOnly
<1>2. QED
  BY <1>1, HeartbeatInstanceEffect, TokenSame DEF Touches, ServiceTypeOK

-----------------------------------------------------------------------------
(* What a step leaves of the invariant.                                     *)

\* The state of a node, its attestation and a record of it have their types.
LEMMA NodeTypes ==
    ASSUME HostsTypeOK, NEW n \in Nodes
    PROVE  /\ host[n] \in Host /\ late[n] \subseteq HostCall /\ gone[n] \in 0..(HeartbeatTTL + 1)
           /\ host[n].stamp \in 0..(HeartbeatTTL + 1)
           /\ \A rpc \in late[n] : rpc \in HostCall /\ rpc.age \in 0..(HeartbeatTTL + 1)
           /\ token[n].expired \in 0..(HeartbeatTTL + 2)
           /\ \A i \in DOMAIN instances : /\ instances[i] \in InstanceRecord
                                          /\ instances[i].age \in 0..(HeartbeatTTL + 1)
<1>1. host[n] \in Host /\ late[n] \subseteq HostCall /\ gone[n] \in 0..(HeartbeatTTL + 1)
  BY TTLIsNat DEF HostsTypeOK
<1>2. host[n].stamp \in 0..(HeartbeatTTL + 1)
  BY <1>1, TTLIsNat DEF Host
<1>3. \A rpc \in late[n] : rpc \in HostCall /\ rpc.age \in 0..(HeartbeatTTL + 1)
  BY <1>1, TTLIsNat DEF HostCall
<1>4. token[n].expired \in 0..(HeartbeatTTL + 2)
  BY TokenType DEF HostsTypeOK
<1>5. \A i \in DOMAIN instances : /\ instances[i] \in InstanceRecord
                                  /\ instances[i].age \in 0..(HeartbeatTTL + 1)
  BY TTLIsNat DEF HostsTypeOK, MembershipTypeOK, InstanceRecord
<1>6. QED
  BY <1>1, <1>2, <1>3, <1>4, <1>5

LEMMA NextExpiry ==
    ASSUME EnrollmentTypeOK', NEW n \in Nodes
    PROVE  token'[n].expired \in 0..(HeartbeatTTL + 2)
BY TTLIsNat DEF EnrollmentTypeOK, Token

\* A host becomes remote with a fresh attestation, and stays what it is while it has agents.
Forth(n) ==
    /\ host'[n].remote => host[n].remote \/ token'[n].expired = 0
    /\ ~Unstarted(n) => host'[n].remote = host[n].remote /\ ~Unstarted(n)'

\* What a host may do while a record of it is at most looked at.
Onward(n, j) ==
    /\ host'[n].sync = "beat" /\ j = host'[n].beating
          => host[n].sync = "beat" /\ j = host[n].beating
    /\ \A rpc \in late'[n] : rpc.own /\ rpc.op = "beat" /\ j = rpc.inst
          => rpc \in late[n] \/ (host[n].sync = "beat" /\ j = host[n].beating)
    /\ ~host'[n].remote /\ j \in host'[n].hosted \cup host'[n].todo
          => ~host[n].remote /\ j \in host[n].hosted \cup host[n].todo
    /\ ~host'[n].remote => Unstarted(n) \/ (Placed(n, j) => Placed(n, j)')

LEMMA RecordKept ==
    ASSUME HostsTypeOK, NEW n \in Nodes, NEW j \in InstancesOf(n),
           EnrollmentTypeOK', j \in DOMAIN instances => RecordInv(n, j),
           Keeps(j), Sooner(n), j \in DOMAIN instances', gone'[n] = gone[n],
           Forth(n), Onward(n, j)
    PROVE  RecordInv(n, j)'
<1>1. /\ j \in DOMAIN instances
      /\ instances'[j].own = instances[j].own /\ instances'[j].age = instances[j].age
      /\ instances'[j].overtook = instances[j].overtook
      /\ instances'[j].state = "ready" => instances[j].state = "ready"
      /\ RecordInv(n, j)
  BY DEF Keeps
<1>2. /\ instances[j].age \in Int /\ instances[j].age >= 0
      /\ token[n].expired \in Int /\ token'[n].expired \in Int
  BY <1>1, NodeTypes, NextExpiry, TTLIsNat
<1>3. instances'[j].state = "ready" /\ host'[n].remote
          => instances'[j].age >= token'[n].expired - 1
  BY <1>1, <1>2 DEF RecordInv, Sooner, Forth
<1>4. Unstarted(n)' => Unstarted(n)
  BY DEF Forth
<1>5. /\ instances'[j].state = "ready" /\ ~instances'[j].own /\ (~instances'[j].overtook \/ Unstarted(n)')
            => instances'[j].age >= gone'[n]
      /\ Unstarted(n)' => ~instances'[j].own
  BY <1>1, <1>4 DEF RecordInv
<1>6. /\ host'[n].sync = "beat" /\ j = host'[n].beating
            => instances'[j].own \/ instances'[j].overtook
      /\ \A rpc \in late'[n] : rpc.own /\ rpc.op = "beat" /\ j = rpc.inst
            => instances'[j].own \/ instances'[j].overtook
      /\ ~host'[n].remote /\ j \in host'[n].hosted \cup host'[n].todo
            => instances'[j].own \/ instances'[j].overtook
  BY <1>1 DEF RecordInv, Onward
<1>7. ~host'[n].remote /\ instances'[j].own => Placed(n, j)'
  BY <1>1 DEF RecordInv, Onward, Forth
<1>8. QED
  BY <1>3, <1>5, <1>6, <1>7 DEF RecordInv

LEMMA CallKept ==
    ASSUME HostsTypeOK, EnrollmentTypeOK', NEW n \in Nodes, NEW rpc \in late[n],
           LateInv(n, rpc), Sooner(n), gone'[n] = gone[n], Forth(n)
    PROVE  LateInv(n, rpc)'
<1>1. /\ rpc.age \in Int /\ rpc.age >= 0
      /\ token[n].expired \in Int /\ token'[n].expired \in Int
  BY NodeTypes, NextExpiry, TTLIsNat
<1>2. host'[n].remote /\ rpc.op = "beat" => rpc.age >= token'[n].expired - 1
  BY <1>1 DEF LateInv, Sooner, Forth
<1>3. InstancesOf(n)' = InstancesOf(n)
  BY DEF InstancesOf
<1>4. rpc.own => host'[n].remote /\ ~Unstarted(n)'
  BY DEF LateInv, Forth
<1>5. QED
  BY <1>2, <1>3, <1>4 DEF LateInv

LEMMA HostKept ==
    ASSUME HostsTypeOK, EnrollmentTypeOK', NEW n \in Nodes, HostInv(n), Sooner(n),
           host'[n] = host[n]
    PROVE  HostInv(n)' /\ Forth(n)
<1>1. /\ host[n].stamp \in Int /\ host[n].stamp >= 0
      /\ token[n].expired \in Int /\ token'[n].expired \in Int
  BY NodeTypes, NextExpiry, TTLIsNat
<1>2. InstancesOf(n)' = InstancesOf(n) /\ Unstarted(n)' = Unstarted(n)
  BY DEF InstancesOf, Unstarted
<1>3. host'[n].remote /\ host'[n].sync \in {"node", "heartbeat", "instances", "beat"}
            => host'[n].stamp >= token'[n].expired - 1
  BY <1>1 DEF HostInv, Sooner
<1>4. QED
  BY <1>2, <1>3 DEF HostInv, Forth

\* A node that is not concerned.
LEMMA NodeKept ==
    ASSUME HostsTypeOK, ServiceTypeOK', NEW n \in Nodes, HostInv(n), CallsInv(n), RecordsInv(n),
           Sooner(n), gone'[n] = gone[n], host'[n] = host[n], late'[n] = late[n],
           \A j \in InstancesOf(n) : Keeps(j)
    PROVE  HostInv(n)' /\ CallsInv(n)' /\ RecordsInv(n)'
<1>1. EnrollmentTypeOK'
  BY DEF ServiceTypeOK
<1>2. HostInv(n)' /\ Forth(n)
  BY <1>1, HostKept
<1>3. CallsInv(n)'
  BY <1>1, <1>2, CallKept DEF CallsInv
<1>4. InstancesOf(n)' = InstancesOf(n)
  BY DEF InstancesOf
<1>5. ASSUME NEW j \in InstancesOf(n), j \in DOMAIN instances'
      PROVE  RecordInv(n, j)'
  <2>1. j \in DOMAIN instances => RecordInv(n, j)
    BY <1>4 DEF RecordsInv
  <2>2. Onward(n, j)
    BY DEF Placed, Onward
  <2>3. QED
    BY <1>1, <1>2, <1>5, <2>1, <2>2, RecordKept
<1>6. QED
  BY <1>2, <1>3, <1>4, <1>5 DEF RecordsInv

\* A step of one node.
Concerns(n) == /\ host' = [host EXCEPT ![n] = host'[n]]
               /\ late' = [late EXCEPT ![n] = late'[n]]
               /\ gone' = [gone EXCEPT ![n] = gone'[n]]

LEMMA StepOf ==
    ASSUME HostsInv, NEW n \in Nodes, Concerns(n), ServiceTypeOK',
           host'[n] \in Host, late'[n] \subseteq HostCall, gone'[n] \in Ages,
           \A m \in Nodes : Sooner(m),
           \A j : NodeOf[j] # n => Keeps(j),
           HostInv(n)', CallsInv(n)', RecordsInv(n)'
    PROVE  HostsInv'
<1>1. host \in [Nodes -> Host] /\ late \in [Nodes -> SUBSET HostCall] /\ gone \in [Nodes -> Ages]
  BY DEF HostsInv, HostsTypeOK
<1>2. host' \in [Nodes -> Host] /\ late' \in [Nodes -> SUBSET HostCall] /\ gone' \in [Nodes -> Ages]
  BY <1>1 DEF Concerns
<1>3. HostsTypeOK'
  <2>1. Host' = Host /\ HostCall' = HostCall /\ Ages' = Ages
    BY DEF Host, HostCall, Ages, AnyInstance
  <2>2. QED
    BY <1>2, <2>1 DEF HostsTypeOK, ServiceTypeOK
<1>4. ASSUME NEW m \in Nodes, m # n
      PROVE  HostInv(m)' /\ CallsInv(m)' /\ RecordsInv(m)'
  <2>1. host'[m] = host[m] /\ late'[m] = late[m] /\ gone'[m] = gone[m]
    BY <1>1, <1>4 DEF Concerns
  <2>2. \A j \in InstancesOf(m) : Keeps(j)
    BY <1>4 DEF InstancesOf
  <2>3. QED
    BY <2>1, <2>2, NodeKept DEF HostsInv
<1>5. QED
  BY <1>3, <1>4 DEF HostsInv

\* A step of one node that at most looks at the records.
LEMMA LookingStep ==
    ASSUME HostsInv, NEW n \in Nodes, Concerns(n), Looks,
           host'[n] \in Host, late'[n] \subseteq HostCall, gone'[n] = gone[n],
           Forth(n), HostInv(n)',
           \A rpc \in late'[n] : rpc \in late[n] \/ LateInv(n, rpc)',
           \A j \in InstancesOf(n) \cap DOMAIN instances' : Onward(n, j)
    PROVE  HostsInv'
<1>0. HostsTypeOK /\ CallsInv(n) /\ RecordsInv(n) /\ gone'[n] \in Ages
  BY DEF HostsInv, HostsTypeOK
<1>1. ServiceTypeOK' /\ EnrollmentTypeOK' /\ (\A m \in Nodes : Sooner(m)) /\ \A j : Keeps(j)
  BY DEF Looks, ServiceTypeOK
<1>2. ASSUME NEW j \in InstancesOf(n), j \in DOMAIN instances'
      PROVE  RecordInv(n, j)'
  <2>1. j \in DOMAIN instances => RecordInv(n, j)
    BY <1>0 DEF RecordsInv
  <2>2. QED
    BY <1>0, <1>1, <1>2, <2>1, RecordKept
<1>3. RecordsInv(n)'
  BY <1>2 DEF RecordsInv, InstancesOf
<1>4. CallsInv(n)'
  BY <1>0, <1>1, CallKept DEF CallsInv
<1>5. QED
  BY <1>0, <1>1, <1>3, <1>4, StepOf

\* A step of one node that writes one of its records.
LEMMA TouchingStep ==
    ASSUME HostsInv, NEW n \in Nodes, NEW i \in InstancesOf(n), Concerns(n), Touches(i),
           host'[n] \in Host, late'[n] \subseteq HostCall, gone'[n] = gone[n],
           Forth(n), HostInv(n)',
           \A rpc \in late'[n] : rpc \in late[n] \/ LateInv(n, rpc)',
           i \in DOMAIN instances' => RecordInv(n, i)',
           \A j \in InstancesOf(n) \cap DOMAIN instances' : j # i => Onward(n, j)
    PROVE  HostsInv'
<1>0. HostsTypeOK /\ CallsInv(n) /\ RecordsInv(n) /\ gone'[n] \in Ages
  BY DEF HostsInv, HostsTypeOK
<1>1. ServiceTypeOK' /\ EnrollmentTypeOK' /\ (\A m \in Nodes : Sooner(m))
      /\ \A j : j # i => Keeps(j)
  BY DEF Touches, ServiceTypeOK, KeepsBut
<1>2. ASSUME NEW j \in InstancesOf(n), j \in DOMAIN instances'
      PROVE  RecordInv(n, j)'
  <2>1. CASE j = i
    BY <1>2, <2>1
  <2>2. CASE j # i
    <3>1. j \in DOMAIN instances => RecordInv(n, j)
      BY <1>0 DEF RecordsInv
    <3>2. QED
      BY <1>0, <1>1, <1>2, <2>2, <3>1, RecordKept
  <2>3. QED
    BY <2>1, <2>2
<1>3. RecordsInv(n)'
  BY <1>2 DEF RecordsInv, InstancesOf
<1>4. \A j : NodeOf[j] # n => Keeps(j)
  BY <1>1 DEF InstancesOf
<1>5. CallsInv(n)'
  BY <1>0, <1>1, CallKept DEF CallsInv
<1>6. QED
  BY <1>0, <1>1, <1>3, <1>4, <1>5, StepOf

-----------------------------------------------------------------------------
(* The steps of a node.                                                     *)

LEMMA ConstantsStay ==
    ASSUME NEW n
    PROVE  InstancesOf(n)' = InstancesOf(n)
BY DEF InstancesOf

LEMMA HostSet ==
    ASSUME HostsInv, NEW n \in Nodes, NEW h, host' = [host EXCEPT ![n] = h], UNCHANGED <<late, gone>>
    PROVE  /\ Concerns(n) /\ host'[n] = h
           /\ late'[n] = late[n] /\ late'[n] \subseteq HostCall /\ gone'[n] = gone[n]
<1>1. host \in [Nodes -> Host] /\ late \in [Nodes -> SUBSET HostCall]
      /\ gone \in [Nodes -> Ages]
  BY DEF HostsInv, HostsTypeOK
<1>2. QED
  BY <1>1 DEF Concerns

\* What every step of a node starts from.
LEMMA AtNode ==
    ASSUME HostsInv, NEW n \in Nodes
    PROVE  /\ ServiceTypeOK /\ HostsTypeOK /\ HostInv(n) /\ CallsInv(n) /\ RecordsInv(n)
           /\ host[n] \in Host /\ late[n] \subseteq HostCall
           /\ InstancesOf(n) \subseteq Instances
BY NodeTypes DEF HostsInv, HostsTypeOK, ServiceTypeOK, InstancesOf

LEMMA ZeroIsAge ==
    0 \in Ages /\ HeartbeatTTL + 1 \in Ages
BY TTLIsNat

LEMMA StartLocalStep ==
    ASSUME HostsInv, NEW n \in Nodes, StartLocal(n)
    PROVE  HostsInv'
<1> DEFINE h == [host[n] EXCEPT !.main = "agents"]
<1>1. /\ host' = [host EXCEPT ![n] = h] /\ UNCHANGED <<attested, late, gone>>
      /\ ~host[n].configured /\ host[n].main = "down"
      /\ AuthorityAttests(n, TRUE) /\ RegisterNode(n, "ready", 0)
  BY DEF StartLocal
<1>2. h \in Host /\ h = [host[n] EXCEPT !.main = "agents"]
  BY AtNode DEF Host, Main
<1>3. Looks
  <2>1. EnrollmentTypeOK' /\ \A m \in Nodes : Sooner(m)
    BY <1>1, AttestsToken, AtNode DEF ServiceTypeOK
  <2>2. MembershipTypeOK' /\ \A j : Keeps(j)
    BY <1>1, RegisterNodeEffect, AtNode, ZeroIsAge DEF ServiceTypeOK, States
  <2>3. QED
    BY <1>1, <2>1, <2>2, AtNode DEF Looks, ServiceTypeOK
<1> HIDE DEF h
<1>4. Concerns(n) /\ host'[n] = h /\ late'[n] = late[n] /\ late'[n] \subseteq HostCall /\ gone'[n] = gone[n]
  BY <1>1, HostSet
<1>5. /\ h.main = "agents" /\ h.remote = host[n].remote /\ h.configured = host[n].configured
      /\ h.sync = host[n].sync
      /\ h.hosted = host[n].hosted /\ h.todo = host[n].todo /\ h.closing = host[n].closing
      /\ h.beating = host[n].beating /\ h.stamp = host[n].stamp
  BY <1>2, AtNode DEF Host
<1>6. HostInv(n)'
  BY <1>1, <1>4, <1>5, AtNode, ConstantsStay DEF HostInv, Unstarted
<1>7. Forth(n) /\ \A j : Onward(n, j)
  BY <1>1, <1>4, <1>5 DEF Onward, Forth, Unstarted
<1>8. QED
  BY <1>2, <1>3, <1>4, <1>6, <1>7, LookingStep

LEMMA StartWithLeaderStep ==
    ASSUME HostsInv, NEW n \in Nodes, StartWithLeader(n)
    PROVE  HostsInv'
<1> DEFINE h == [host[n] EXCEPT !.main = "attesting", !.remote = TRUE]
<1>1. /\ host' = [host EXCEPT ![n] = h] /\ UNCHANGED <<attested, late, gone>>
      /\ ~host[n].configured /\ host[n].main = "down"
      /\ AuthorityAttests(n, TRUE) /\ UNCHANGED <<nodes, instances>>
  BY AtNode DEF StartWithLeader, membership, Host
<1>2. h \in Host
  BY AtNode DEF Host, Main
<1>3. Looks /\ token'[n].expired = 0
  <2>1. EnrollmentTypeOK' /\ (\A m \in Nodes : Sooner(m)) /\ token'[n].expired = 0
    BY <1>1, AttestsToken, AtNode DEF ServiceTypeOK
  <2>2. MembershipTypeOK' /\ \A j : Keeps(j)
    BY <1>1, SameKeeps, AtNode
       DEF ServiceTypeOK, MembershipTypeOK, NodeRecord, InstanceRecord, Ages
  <2>3. QED
    BY <1>1, <2>1, <2>2, AtNode DEF Looks, ServiceTypeOK
<1>4. /\ h.main = "attesting" /\ h.remote = TRUE /\ h.configured = host[n].configured
      /\ h.sync = host[n].sync
      /\ h.hosted = host[n].hosted /\ h.todo = host[n].todo /\ h.closing = host[n].closing
      /\ h.beating = host[n].beating
  BY AtNode DEF Host
<1> HIDE DEF h
<1>5. Concerns(n) /\ host'[n] = h /\ late'[n] = late[n] /\ late'[n] \subseteq HostCall /\ gone'[n] = gone[n]
  BY <1>1, HostSet
<1>6. HostInv(n)'
  BY <1>1, <1>4, <1>5, AtNode, ConstantsStay DEF HostInv, Unstarted
<1>7. Forth(n) /\ \A j : Onward(n, j)
  BY <1>1, <1>3, <1>4, <1>5 DEF Onward, Forth, Unstarted
<1>8. QED
  BY <1>2, <1>3, <1>5, <1>6, <1>7, LookingStep

LEMMA StartRemoteStep ==
    ASSUME HostsInv, NEW n \in Nodes, StartRemote(n)
    PROVE  HostsInv'
<1> DEFINE h == [host[n] EXCEPT !.main = "agents"]
<1>1. /\ host' = [host EXCEPT ![n] = h] /\ UNCHANGED <<late, gone>>
      /\ host[n].remote /\ Unstarted(n)
      /\ ServeAttestNode(n, TRUE) \/ UNCHANGED service
  BY AtNode DEF StartRemote, Unstarted, HostInv
<1>2. h \in Host /\ h = [host[n] EXCEPT !.main = "agents"]
  BY AtNode DEF Host, Main
<1>3. Looks
  <2>1. CASE UNCHANGED service
    BY <2>1, QuietService, AtNode DEF service, membership
  <2>2. QED
    BY <1>1, <2>1, ServeAttestLooks, AtNode
<1> HIDE DEF h
<1>4. Concerns(n) /\ host'[n] = h /\ late'[n] = late[n] /\ late'[n] \subseteq HostCall /\ gone'[n] = gone[n]
  BY <1>1, HostSet
<1>5. /\ h.main = "agents" /\ h.remote = host[n].remote /\ h.configured = host[n].configured
      /\ h.sync = host[n].sync
      /\ h.hosted = host[n].hosted /\ h.todo = host[n].todo /\ h.closing = host[n].closing
      /\ h.beating = host[n].beating
  BY <1>2, AtNode DEF Host
<1>6. HostInv(n)'
  BY <1>1, <1>4, <1>5, AtNode, ConstantsStay DEF HostInv, Unstarted
<1>7. Forth(n) /\ \A j : Onward(n, j)
  BY <1>1, <1>4, <1>5 DEF Onward, Forth
<1>8. QED
  BY <1>2, <1>3, <1>4, <1>6, <1>7, LookingStep

LEMMA StartFailsStep ==
    ASSUME HostsInv, NEW n \in Nodes, StartFails(n)
    PROVE  HostsInv'
<1> DEFINE h == Down(host[n].configured)
<1>1. /\ host' = [host EXCEPT ![n] = h] /\ UNCHANGED <<late, gone>>
      /\ Unstarted(n)
  BY AtNode DEF StartFails, Unstarted
<1>2. h \in Host
  <2>1. AnyInstance \in Instances \cup {AnyInstance} /\ host[n].configured \in BOOLEAN
    BY AtNode DEF Host
  <2>2. QED
    BY <2>1, ZeroIsAge DEF Down, Host, Main, Sync
<1>3. /\ h.main = "down" /\ h.remote = host[n].configured /\ h.configured = host[n].configured
      /\ h.sync = "idle" /\ h.hosted = {} /\ h.todo = {} /\ h.closing = {}
  BY DEF Down
<1> HIDE DEF h
<1>4. Looks
  <2>1. CASE host[n].remote
    BY <1>1, <2>1, ServeAttestLooks, AtNode DEF StartFails
  <2>2. CASE ~host[n].remote
    <3>1. AuthorityAttests(n, TRUE) /\ UNCHANGED <<nodes, instances, attested>>
      BY <2>2 DEF StartFails, membership
    <3>2. EnrollmentTypeOK' /\ \A m \in Nodes : Sooner(m)
      BY <3>1, AttestsToken, AtNode DEF ServiceTypeOK
    <3>3. MembershipTypeOK' /\ \A j : Keeps(j)
      BY <3>1, SameKeeps, AtNode
         DEF ServiceTypeOK, MembershipTypeOK, NodeRecord, InstanceRecord, Ages
    <3>4. QED
      BY <3>1, <3>2, <3>3, AtNode DEF Looks, ServiceTypeOK
  <2>3. QED
    BY <2>1, <2>2
<1>5. Concerns(n) /\ host'[n] = h /\ late'[n] = late[n] /\ late'[n] \subseteq HostCall /\ gone'[n] = gone[n]
  BY <1>1, HostSet
<1>6. HostInv(n)'
  BY <1>3, <1>5, AtNode, ConstantsStay DEF HostInv, Unstarted
<1>7. Forth(n) /\ \A j : Onward(n, j)
  BY <1>1, <1>3, <1>5, AtNode DEF Onward, Forth, HostInv
<1>8. QED
  BY <1>2, <1>4, <1>5, <1>6, <1>7, LookingStep

LEMMA StartAgentStep ==
    ASSUME HostsInv, NEW n \in Nodes, NEW i \in Instances, StartAgent(n, i)
    PROVE  HostsInv'
<1> DEFINE born == IF host[n].hosted = {} THEN 0 ELSE host[n].born
           h == [host[n] EXCEPT !.hosted = @ \cup {i}, !.born = born]
           record == OwnRecord(0)
<1>1. /\ host' = [host EXCEPT ![n] = h] /\ UNCHANGED <<late, gone>>
      /\ host[n].main = "agents" /\ i \in InstancesOf(n)
      /\ IF host[n].remote THEN UNCHANGED service
         ELSE RegisterInstance(i, record) /\ StoreOnly
  BY AtNode DEF StartAgent, Host
<1>2. h \in Host
  BY AtNode, ZeroIsAge DEF Host
<1>3. /\ h.main = host[n].main /\ h.remote = host[n].remote /\ h.configured = host[n].configured /\ h.sync = host[n].sync
      /\ h.hosted = host[n].hosted \cup {i} /\ h.todo = host[n].todo /\ h.closing = host[n].closing
      /\ h.beating = host[n].beating /\ h.stamp = host[n].stamp
  BY AtNode DEF Host
<1> HIDE DEF h
<1>4. Concerns(n) /\ host'[n] = h /\ late'[n] = late[n] /\ late'[n] \subseteq HostCall /\ gone'[n] = gone[n]
  BY <1>1, HostSet
<1>5. CASE host[n].remote
  <2>1. Looks /\ UNCHANGED token
    BY <1>1, <1>5, QuietService, AtNode DEF service, membership
  <2>2. HostInv(n)'
    <3>1. HostInv(n) /\ InstancesOf(n)' = InstancesOf(n) /\ i \in InstancesOf(n)
      BY <1>1, AtNode, ConstantsStay
    <3>2. /\ host'[n].main = host[n].main /\ host'[n].remote = host[n].remote
          /\ host'[n].configured = host[n].configured
          /\ host'[n].sync = host[n].sync /\ host'[n].hosted = host[n].hosted \cup {i}
          /\ host'[n].todo = host[n].todo /\ host'[n].closing = host[n].closing
          /\ host'[n].beating = host[n].beating /\ host'[n].stamp = host[n].stamp
      BY <1>3, <1>4
    <3>3. late'[n] = late[n] /\ gone'[n] = gone[n] /\ token'[n] = token[n]
      BY <1>4, <2>1
    <3>4. host[n].main = "agents" /\ host[n].remote
      BY <1>1, <1>5
    <3>5. QED
      BY <3>1, <3>2, <3>3, <3>4 DEF HostInv, Unstarted
  <2>3. QED
    BY <1>1, <1>2, <1>3, <1>4, <1>5, <2>1, <2>2, LookingStep DEF Onward, Forth, Placed, Unstarted
<1>6. CASE ~host[n].remote
  <2>1. record \in InstanceRecord
    BY ZeroIsAge DEF InstanceRecord, States, OwnRecord
  <2>2. Touches(i) /\ i \in DOMAIN instances' /\ instances'[i] = record
    BY <1>1, <1>6, <2>1, RegisterInstanceTouches, AtNode
  <2>3. HostInv(n)'
    BY <1>1, <1>3, <1>4, <1>6, AtNode, ConstantsStay DEF HostInv, Unstarted
  <2>4. RecordInv(n, i)'
    <3>1. instances'[i].own /\ ~Unstarted(n)'
      BY <1>1, <1>3, <1>4, <2>2 DEF OwnRecord, Unstarted
    <3>2. ~host'[n].remote /\ Placed(n, i)'
      BY <1>1, <1>3, <1>4, <1>6 DEF Placed
    <3>3. QED
      BY <3>1, <3>2 DEF RecordInv
  <2>5. QED
    BY <1>1, <1>2, <1>3, <1>4, <1>6, <2>2, <2>3, <2>4, TouchingStep DEF Onward, Forth, Placed, Unstarted
<1>7. QED
  BY <1>5, <1>6

LEMMA StartAgentFailsStep ==
    ASSUME HostsInv, NEW n \in Nodes, StartAgentFails(n)
    PROVE  HostsInv'
<1> DEFINE h == [host[n] EXCEPT !.main = "removing", !.hosted = {}, !.closing = host[n].hosted,
                                !.born = 0]
<1>1. /\ host' = [host EXCEPT ![n] = h] /\ UNCHANGED <<late, gone>>
      /\ host[n].main = "agents" /\ UNCHANGED <<nodes, instances, token, attested>>
  BY AtNode DEF StartAgentFails, Host, service, membership
<1>2. h \in Host
  BY AtNode, ZeroIsAge DEF Host, Main
<1>3. /\ h.main = "removing" /\ h.remote = host[n].remote /\ h.configured = host[n].configured /\ h.sync = host[n].sync
      /\ h.hosted = {} /\ h.todo = host[n].todo /\ h.closing = host[n].hosted
      /\ h.beating = host[n].beating /\ h.stamp = host[n].stamp
  BY AtNode DEF Host
<1> HIDE DEF h
<1>4. Concerns(n) /\ host'[n] = h /\ late'[n] = late[n] /\ late'[n] \subseteq HostCall /\ gone'[n] = gone[n]
  BY <1>1, HostSet
<1>5. Looks
  BY <1>1, QuietService, AtNode
<1>6. HostInv(n)'
  BY <1>1, <1>3, <1>4, AtNode, ConstantsStay DEF HostInv, Unstarted
<1>7. QED
  BY <1>1, <1>2, <1>3, <1>4, <1>5, <1>6, LookingStep DEF Onward, Forth, Placed, Unstarted

\* What the end of a sync, and the loop over the instances, leave of a host.
Resumed(g, h, left) ==
    /\ g \in Host
    /\ g.remote = h.remote /\ g.configured = h.configured /\ g.hosted = h.hosted /\ g.closing = h.closing /\ g.todo = left
    /\ g.main = h.main \/ (h.main = "joining" /\ g.main = "up")
    /\ g.sync = "idle" \/ (g.sync = "instances" /\ g.stamp = h.stamp)

LEMMA SyncedHost ==
    ASSUME NEW h \in Host
    PROVE  Resumed(Synced(h), h, {})
<1>1. AnyInstance \in Instances \cup {AnyInstance} /\ 0 \in Ages
  BY ZeroIsAge
<1>2. QED
  BY <1>1 DEF Resumed, Synced, Host, Main, Sync

LEMMA LoopOverHost ==
    ASSUME NEW h \in Host, NEW left \in SUBSET Instances
    PROVE  Resumed(LoopOver(h, left), h, left)
<1>1. CASE left = {}
  BY <1>1, SyncedHost DEF LoopOver
<1>2. CASE left # {}
  <2>1. AnyInstance \in Instances \cup {AnyInstance} /\ 0 \in Ages
    BY ZeroIsAge
  <2>2. QED
    BY <1>2, <2>1 DEF Resumed, LoopOver, Host, Main, Sync
<1>3. QED
  BY <1>1, <1>2

\* A sync that goes on to the next instance, or ends.
LEMMA ResumedHost ==
    ASSUME HostsInv, NEW n \in Nodes, NEW g, NEW left \in SUBSET Instances,
           Resumed(g, host[n], left), left \subseteq host[n].hosted \cup host[n].todo, ~Unstarted(n),
           host[n].remote /\ g.sync # "idle" => host[n].stamp >= token[n].expired - 1,
           host' = [host EXCEPT ![n] = g], UNCHANGED <<late, gone>>,
           (\A m \in Nodes : Sooner(m)), ServiceTypeOK'
    PROVE  /\ Concerns(n) /\ host'[n] = g /\ g \in Host
           /\ late'[n] = late[n] /\ late'[n] \subseteq HostCall /\ gone'[n] = gone[n]
           /\ HostInv(n)' /\ Forth(n) /\ ~Unstarted(n)'
           /\ \A j : Onward(n, j) /\ (Placed(n, j) => Placed(n, j)')
<1>1. /\ Concerns(n) /\ host'[n] = g /\ late'[n] = late[n] /\ late'[n] \subseteq HostCall
      /\ gone'[n] = gone[n]
  BY HostSet
<1>2. /\ host[n].stamp \in Int /\ host[n].stamp >= 0
      /\ token[n].expired \in Int /\ token'[n].expired \in Int
  <2>1. EnrollmentTypeOK'
    BY DEF ServiceTypeOK
  <2>2. QED
    BY <2>1, NextExpiry, NodeTypes, AtNode, TTLIsNat
<1>3. HostInv(n) /\ Sooner(n) /\ left \subseteq InstancesOf(n)
  BY AtNode DEF HostInv
<1>4. /\ g.sync \in {"idle", "instances"} /\ (g.sync = "instances" => g.stamp = host[n].stamp)
      /\ g.remote = host[n].remote /\ g.configured = host[n].configured
      /\ g.hosted = host[n].hosted /\ g.closing = host[n].closing /\ g.todo = left /\ g \in Host
      /\ g.main = host[n].main \/ (host[n].main = "joining" /\ g.main = "up")
  BY DEF Resumed
<1>5. host'[n].remote /\ host'[n].sync \in {"node", "heartbeat", "instances", "beat"}
            => host'[n].stamp >= token'[n].expired - 1
  BY <1>1, <1>2, <1>3, <1>4 DEF Sooner
<1>6. ~Unstarted(n)' /\ Forth(n)
  BY <1>1, <1>4 DEF Unstarted, Forth
<1>7. HostInv(n)'
  <2>1. host'[n].configured \/ host'[n].main = "attesting" => host'[n].remote
    BY <1>1, <1>3, <1>4 DEF HostInv
  <2>2. host'[n].hosted \cup host'[n].todo \cup host'[n].closing \subseteq InstancesOf(n)
    BY <1>1, <1>3, <1>4 DEF HostInv
  <2>3. QED
    BY <1>1, <1>4, <1>5, <1>6, <2>1, <2>2, ConstantsStay DEF HostInv
<1>8. \A j : Onward(n, j) /\ (Placed(n, j) => Placed(n, j)')
  BY <1>1, <1>4 DEF Placed, Onward
<1>9. QED
  BY <1>1, <1>4, <1>6, <1>7, <1>8

LEMMA BeginSyncStep ==
    ASSUME HostsInv, NEW n \in Nodes, BeginSync(n)
    PROVE  HostsInv'
<1>1. PICK main \in {"joining", "up"} :
         /\ host' = [host EXCEPT ![n] = [host[n] EXCEPT !.main = main, !.stamp = 0, !.sync = "attest"]]
         /\ host[n].main \in {"agents", "up"} /\ host[n].sync = "idle"
  <2>1. CASE host[n].main = "up" /\ host' = [host EXCEPT ![n].stamp = 0, ![n].sync = "attest"]
    <3>1. [host[n] EXCEPT !.main = "up", !.stamp = 0, !.sync = "attest"]
             = [host[n] EXCEPT !.stamp = 0, !.sync = "attest"]
      BY <2>1, AtNode DEF Host
    <3>2. QED
      BY <2>1, <3>1 DEF BeginSync
  <2>2. QED
    BY <2>1 DEF BeginSync
<1> DEFINE h == [host[n] EXCEPT !.main = main, !.stamp = 0, !.sync = "attest"]
<1>2. h \in Host
  BY AtNode, ZeroIsAge DEF Host, Main, Sync
<1>3. /\ h.main = main /\ h.remote = host[n].remote /\ h.configured = host[n].configured /\ h.sync = "attest"
      /\ h.hosted = host[n].hosted /\ h.todo = host[n].todo /\ h.closing = host[n].closing
      /\ host' = [host EXCEPT ![n] = h]
  BY <1>1, AtNode DEF Host
<1> HIDE DEF h
<1>4. UNCHANGED <<late, gone>> /\ UNCHANGED <<nodes, instances, token, attested>>
  BY DEF BeginSync, service, membership
<1>5. Concerns(n) /\ host'[n] = h /\ late'[n] = late[n] /\ late'[n] \subseteq HostCall /\ gone'[n] = gone[n]
  BY <1>3, <1>4, HostSet
<1>6. Looks
  BY <1>4, QuietService, AtNode
<1>7. HostInv(n)'
  BY <1>1, <1>3, <1>4, <1>5, AtNode, ConstantsStay DEF HostInv, Unstarted
<1>8. QED
  BY <1>1, <1>2, <1>3, <1>5, <1>6, <1>7, LookingStep DEF Onward, Forth, Placed, Unstarted

\* A step of the sync that goes on with the instances or ends, and at most looks.
LEMMA ResumedStep ==
    ASSUME HostsInv, NEW n \in Nodes, NEW g, NEW left \in SUBSET Instances,
           Resumed(g, host[n], left), left \subseteq host[n].hosted \cup host[n].todo,
           ~Unstarted(n),
           host[n].remote /\ g.sync # "idle" => host[n].stamp >= token[n].expired - 1,
           host' = [host EXCEPT ![n] = g], UNCHANGED <<late, gone>>, Looks
    PROVE  HostsInv'
<1>1. ServiceTypeOK' /\ \A m \in Nodes : Sooner(m)
  BY DEF Looks
<1>2. /\ Concerns(n) /\ host'[n] \in Host /\ HostInv(n)' /\ Forth(n)
      /\ late'[n] = late[n] /\ late'[n] \subseteq HostCall /\ gone'[n] = gone[n]
      /\ \A j : Onward(n, j)
  BY <1>1, ResumedHost
<1>3. QED
  BY <1>2, LookingStep

LEMMA SyncAttestStep ==
    ASSUME HostsInv, NEW n \in Nodes, SyncAttest(n)
    PROVE  HostsInv'
<1>1. host[n].sync = "attest" /\ UNCHANGED <<late, gone>> /\ ~Unstarted(n)
  BY AtNode DEF SyncAttest, HostInv
<1>2. CASE ~host[n].remote
  <2> DEFINE h == [host[n] EXCEPT !.sync = "heartbeat"]
  <2>1. host' = [host EXCEPT ![n] = h] /\ UNCHANGED <<nodes, instances, token, attested>>
    BY <1>2 DEF SyncAttest, service, membership
  <2>2. h \in Host
    BY AtNode DEF Host, Sync
  <2>3. /\ h.main = host[n].main /\ h.remote = host[n].remote /\ h.configured = host[n].configured /\ h.sync = "heartbeat"
        /\ h.hosted = host[n].hosted /\ h.todo = host[n].todo /\ h.closing = host[n].closing
    BY AtNode DEF Host
  <2> HIDE DEF h
  <2>4. Concerns(n) /\ host'[n] = h /\ late'[n] = late[n] /\ late'[n] \subseteq HostCall
        /\ gone'[n] = gone[n]
    BY <1>1, <2>1, HostSet
  <2>5. Looks
    BY <2>1, QuietService, AtNode
  <2>6. HostInv(n)'
    BY <1>1, <1>2, <2>3, <2>4, AtNode, ConstantsStay DEF HostInv, Unstarted
  <2>7. QED
    BY <1>2, <2>2, <2>3, <2>4, <2>5, <2>6, LookingStep DEF Onward, Forth, Placed, Unstarted
<1>3. CASE host[n].remote
  <2>1. PICK ok \in BOOLEAN :
            /\ RemoteAttestNode(n, ok)
            /\ host' = [host EXCEPT ![n] =
                           IF ok THEN [host[n] EXCEPT !.sync = "node", !.sent = 0]
                                 ELSE Synced(host[n])]
    BY <1>3, AtNode DEF SyncAttest, HostsInv, HostsTypeOK
  <2>2. Looks /\ (ok => token'[n].expired = 0)
    BY <2>1, RemoteAttestLooks, AtNode
  <2>3. CASE ~ok
    <3>1. host' = [host EXCEPT ![n] = Synced(host[n])]
      BY <2>1, <2>3
    <3>2. Resumed(Synced(host[n]), host[n], {}) /\ Synced(host[n]).sync = "idle"
      BY SyncedHost, AtNode DEF Synced, Host
    <3>3. {} \in SUBSET Instances /\ {} \subseteq host[n].hosted \cup host[n].todo
      OBVIOUS
    <3>4. QED
      BY <1>1, <2>2, <3>1, <3>2, <3>3, ResumedStep
  <2>4. CASE ok
    <3> DEFINE h == [host[n] EXCEPT !.sync = "node", !.sent = 0]
    <3>1. host' = [host EXCEPT ![n] = h]
      BY <2>1, <2>4
    <3>2. h \in Host
      BY AtNode, ZeroIsAge DEF Host, Sync
    <3>3. /\ h.main = host[n].main /\ h.remote = host[n].remote /\ h.configured = host[n].configured /\ h.sync = "node"
          /\ h.hosted = host[n].hosted /\ h.todo = host[n].todo /\ h.closing = host[n].closing
          /\ h.stamp = host[n].stamp
      BY AtNode DEF Host
    <3> HIDE DEF h
    <3>4. Concerns(n) /\ host'[n] = h /\ late'[n] = late[n] /\ late'[n] \subseteq HostCall
          /\ gone'[n] = gone[n]
      BY <1>1, <3>1, HostSet
    <3>5. host'[n].stamp >= token'[n].expired - 1
      BY <2>2, <2>4, <3>3, <3>4, NodeTypes, AtNode, TTLIsNat
    <3>6. HostInv(n)'
      BY <1>1, <1>3, <3>3, <3>4, <3>5, AtNode, ConstantsStay DEF HostInv, Unstarted
    <3>7. QED
      BY <1>3, <2>2, <3>2, <3>3, <3>4, <3>6, LookingStep DEF Onward, Forth, Unstarted
  <2>5. QED
    BY <2>3, <2>4
<1>4. QED
  BY <1>2, <1>3

\* While a remote host syncs its heartbeats are no older than the end of its attestation.
LEMMA StampIsFresh ==
    ASSUME HostsInv, NEW n \in Nodes,
           host[n].sync \in {"node", "heartbeat", "instances", "beat"}
    PROVE  /\ ~Unstarted(n)
           /\ host[n].remote => host[n].stamp >= token[n].expired - 1
BY AtNode DEF HostInv, Unstarted

LEMMA SyncRegisterNodeStep ==
    ASSUME HostsInv, NEW n \in Nodes, SyncRegisterNode(n)
    PROVE  HostsInv'
<1>1. host[n].sync = "node" /\ UNCHANGED <<late, gone>> /\ ~Unstarted(n) /\ host[n].remote
  BY AtNode, StampIsFresh DEF SyncRegisterNode, HostInv
<1>2. PICK ok \in BOOLEAN :
        /\ RemoteRegisterNode(n, "ready", host[n].sent, ok)
        /\ host' = [host EXCEPT ![n] =
                       IF ok THEN [host[n] EXCEPT !.sync = "heartbeat", !.sent = 0]
                             ELSE LoopOver(host[n], host[n].hosted)]
  BY AtNode DEF SyncRegisterNode, HostsInv, HostsTypeOK
<1>3. Looks
  <2>1. host[n].sent \in Ages /\ "ready" \in States
    BY AtNode DEF Host, States
  <2>2. QED
    BY <1>2, <2>1, RegisterNodeLooks, AtNode
<1>4. CASE ~ok
  <2>1. host' = [host EXCEPT ![n] = LoopOver(host[n], host[n].hosted)]
    BY <1>2, <1>4
  <2>2. host[n].hosted \in SUBSET Instances
    BY AtNode DEF Host
  <2>3. Resumed(LoopOver(host[n], host[n].hosted), host[n], host[n].hosted)
    BY <2>2, LoopOverHost, AtNode
  <2>4. QED
    BY <1>1, <1>3, <2>1, <2>2, <2>3, ResumedStep, StampIsFresh
<1>5. CASE ok
  <2> DEFINE h == [host[n] EXCEPT !.sync = "heartbeat", !.sent = 0]
  <2>1. host' = [host EXCEPT ![n] = h]
    BY <1>2, <1>5
  <2>2. h \in Host
    BY AtNode, ZeroIsAge DEF Host, Sync
  <2>3. /\ h.main = host[n].main /\ h.remote = host[n].remote /\ h.configured = host[n].configured /\ h.sync = "heartbeat"
        /\ h.hosted = host[n].hosted /\ h.todo = host[n].todo /\ h.closing = host[n].closing
        /\ h.stamp = host[n].stamp
    BY AtNode DEF Host
  <2> HIDE DEF h
  <2>4. Concerns(n) /\ host'[n] = h /\ late'[n] = late[n] /\ late'[n] \subseteq HostCall
        /\ gone'[n] = gone[n]
    BY <1>1, <2>1, HostSet
  <2>5. ServiceTypeOK' /\ Sooner(n)
    BY <1>3 DEF Looks
  <2>6. h.stamp >= token'[n].expired - 1
    <3>1. token'[n].expired \in 0..(HeartbeatTTL + 2)
      BY <2>5, NextExpiry DEF ServiceTypeOK
    <3>2. host[n].stamp >= token[n].expired - 1
      BY <1>1, StampIsFresh
    <3>3. host[n].stamp \in Nat /\ token[n].expired \in Nat
      BY NodeTypes, AtNode, TTLIsNat
    <3>4. token'[n].expired <= token[n].expired \/ token'[n].expired <= 1
      BY <2>5 DEF Sooner
    <3>5. h.stamp = host[n].stamp
      BY <2>3
    <3>6. QED
      BY <3>1, <3>2, <3>3, <3>4, <3>5
  <2>7. HostInv(n)'
    BY <1>1, <2>3, <2>4, <2>6, AtNode, ConstantsStay DEF HostInv, Unstarted
  <2>8. QED
    BY <1>1, <1>3, <2>2, <2>3, <2>4, <2>7, LookingStep DEF Onward, Forth, Unstarted
<1>6. QED
  BY <1>4, <1>5

LEMMA SyncHeartbeatNodeStep ==
    ASSUME HostsInv, NEW n \in Nodes, SyncHeartbeatNode(n)
    PROVE  HostsInv'
<1>1. host[n].sync = "heartbeat" /\ UNCHANGED <<late, gone>> /\ ~Unstarted(n)
  BY AtNode, StampIsFresh DEF SyncHeartbeatNode
<1>2. host' = [host EXCEPT ![n] = LoopOver(host[n], host[n].hosted)]
  BY AtNode DEF SyncHeartbeatNode, HostsInv, HostsTypeOK
<1>3. Looks
  <2>1. host[n].stamp \in Ages
    BY AtNode DEF Host
  <2>2. PICK ok : \/ HeartbeatNode(n, host[n].stamp, ok) /\ StoreOnly
                  \/ ServeHeartbeatNode(n, host[n].stamp, ok)
                  \/ UNCHANGED service
    BY DEF SyncHeartbeatNode, RemoteHeartbeatNode
  <2>3. QED
    BY <2>1, <2>2, HeartbeatNodeLooks, AtNode
<1>4. host[n].hosted \in SUBSET Instances
  BY AtNode DEF Host
<1>5. Resumed(LoopOver(host[n], host[n].hosted), host[n], host[n].hosted)
  BY <1>4, LoopOverHost, AtNode
<1>6. QED
  BY <1>1, <1>2, <1>3, <1>4, <1>5, ResumedStep, StampIsFresh

\* A step of the sync that goes on with the instances or ends, and wrote a record.
LEMMA ResumedTouch ==
    ASSUME HostsInv, NEW n \in Nodes, NEW g, NEW left \in SUBSET Instances,
           NEW i \in InstancesOf(n),
           Resumed(g, host[n], left), left \subseteq host[n].hosted \cup host[n].todo,
           ~Unstarted(n),
           host[n].remote /\ g.sync # "idle" => host[n].stamp >= token[n].expired - 1,
           host' = [host EXCEPT ![n] = g], UNCHANGED <<late, gone>>, Touches(i),
           i \in DOMAIN instances' =>
               /\ instances'[i].own \/ instances'[i].overtook
               /\ host[n].remote => instances'[i].age >= token'[n].expired - 1
               /\ ~host[n].remote /\ instances'[i].own => Placed(n, i)
    PROVE  HostsInv'
<1>1. ServiceTypeOK' /\ \A m \in Nodes : Sooner(m)
  BY DEF Touches
<1>2. /\ Concerns(n) /\ host'[n] = g /\ g \in Host /\ HostInv(n)' /\ Forth(n) /\ ~Unstarted(n)'
      /\ late'[n] = late[n] /\ late'[n] \subseteq HostCall /\ gone'[n] = gone[n]
      /\ \A j : Onward(n, j) /\ (Placed(n, j) => Placed(n, j)')
  BY <1>1, ResumedHost
<1>3. g.remote = host[n].remote
  BY DEF Resumed
<1>4. ASSUME i \in DOMAIN instances'
      PROVE  RecordInv(n, i)'
  BY <1>2, <1>3, <1>4 DEF RecordInv
<1>5. QED
  BY <1>2, <1>4, TouchingStep

LEMMA SyncRegisterInstanceStep ==
    ASSUME HostsInv, NEW n \in Nodes, NEW i \in Instances,
           SyncRegisterInstance(n, i)
    PROVE  HostsInv'
<1> DEFINE record == OwnRecord(host[n].born)
           left == host[n].todo \ {i}
<1>1. /\ host[n].sync = "instances" /\ host[n].remote /\ i \in host[n].todo
      /\ UNCHANGED <<late, gone>> /\ ~Unstarted(n)
  BY StampIsFresh DEF SyncRegisterInstance
<1>2. PICK ok \in BOOLEAN :
        /\ RemoteRegisterInstance(i, host[n].born, ok)
        /\ host' = [host EXCEPT ![n] =
                       IF ok THEN [host[n] EXCEPT !.sync = "beat", !.beating = i]
                             ELSE LoopOver(host[n], left)]
  BY AtNode DEF SyncRegisterInstance, HostsInv, HostsTypeOK
<1>3. i \in InstancesOf(n) /\ NodeOf[i] = n /\ record \in InstanceRecord
      /\ host[n].born \in 0..(HeartbeatTTL + 1)
  BY <1>1, AtNode, TTLIsNat
     DEF HostInv, InstancesOf, InstanceRecord, Host, States, OwnRecord
<1>4. \/ ServeRegisterInstance(i, record, TRUE)
      \/ ~ok /\ ServeRegisterInstance(i, record, FALSE)
      \/ ~ok /\ UNCHANGED <<nodes, instances, token, attested>>
  BY <1>2 DEF RemoteRegisterInstance, service, membership
<1>5. ServeRegisterInstance(i, record, TRUE)
        => /\ Touches(i) /\ i \in DOMAIN instances' /\ instances'[i] = record
           /\ token'[n].expired = 0
  BY <1>3, RegisterInstanceTouches, AtNode
<1> HIDE DEF record
<1>6. ServeRegisterInstance(i, record, TRUE)
        => /\ instances'[i].own /\ instances'[i].age >= token'[n].expired - 1
  <2>1. record.own /\ record.age = host[n].born
    BY DEF record, OwnRecord
  <2>2. QED
    BY <1>3, <1>5, <2>1, TTLIsNat
<1>7. CASE ~ok
  <2> DEFINE g == LoopOver(host[n], left)
  <2>1. host' = [host EXCEPT ![n] = g]
    BY <1>2, <1>7
  <2>2. left \in SUBSET Instances /\ left \subseteq host[n].hosted \cup host[n].todo
    BY AtNode DEF Host
  <2>3. Resumed(g, host[n], left)
    BY <2>2, LoopOverHost, AtNode
  <2>4. host[n].stamp >= token[n].expired - 1
    BY <1>1, StampIsFresh
  <2> HIDE DEF g, left
  <2>5. CASE ServeRegisterInstance(i, record, TRUE)
    BY <1>1, <1>3, <1>5, <1>6, <2>1, <2>2, <2>3, <2>4, <2>5, ResumedTouch
  <2>6. CASE ServeRegisterInstance(i, record, FALSE)
             \/ UNCHANGED <<nodes, instances, token, attested>>
    <3>1. Looks
      BY <1>3, <2>6, ServeRegisterInstanceTouches, QuietService, AtNode
    <3>2. QED
      BY <1>1, <2>1, <2>2, <2>3, <2>4, <3>1, ResumedStep
  <2>7. QED
    BY <1>4, <2>5, <2>6
<1>8. CASE ok
  <2> DEFINE h == [host[n] EXCEPT !.sync = "beat", !.beating = i]
  <2>1. host' = [host EXCEPT ![n] = h]
    BY <1>2, <1>8
  <2>2. h \in Host
    BY AtNode DEF Host, Sync
  <2>3. /\ h.main = host[n].main /\ h.remote = host[n].remote /\ h.configured = host[n].configured /\ h.sync = "beat" /\ h.beating = i
        /\ h.hosted = host[n].hosted /\ h.todo = host[n].todo /\ h.closing = host[n].closing
        /\ h.stamp = host[n].stamp
    BY AtNode DEF Host
  <2> HIDE DEF h
  <2>4. Concerns(n) /\ host'[n] = h /\ late'[n] = late[n] /\ late'[n] \subseteq HostCall
        /\ gone'[n] = gone[n]
    BY <1>1, <2>1, HostSet
  <2>5. ServeRegisterInstance(i, record, TRUE)
    BY <1>4, <1>8
  <2>6. h.stamp >= token'[n].expired - 1
    BY <1>5, <2>3, <2>5, NodeTypes, AtNode, TTLIsNat
  <2>7. HostInv(n)'
    <3>1. HostInv(n) /\ InstancesOf(n)' = InstancesOf(n) /\ i \in InstancesOf(n)
      BY <1>3, AtNode, ConstantsStay
    <3>2. ~Unstarted(n)' /\ host'[n].remote /\ host'[n].sync = "beat"
      BY <1>1, <2>3, <2>4 DEF Unstarted
    <3>3. /\ host'[n].stamp >= token'[n].expired - 1 /\ host'[n].beating = i
          /\ host'[n].hosted = host[n].hosted /\ host'[n].todo = host[n].todo
          /\ host'[n].closing = host[n].closing
      BY <2>3, <2>4, <2>6
    <3>4. QED
      BY <3>1, <3>2, <3>3 DEF HostInv, Unstarted
  <2>8. RecordInv(n, i)'
    BY <1>1, <1>6, <2>3, <2>4, <2>5 DEF RecordInv, Unstarted
  <2>9. QED
    <3>1. Forth(n) /\ \A j : j # i => Onward(n, j)
      BY <1>1, <2>3, <2>4 DEF Onward, Forth, Unstarted
    <3>2. Touches(i)
      BY <1>5, <2>5
    <3>3. QED
      BY <1>3, <2>2, <2>4, <2>7, <2>8, <3>1, <3>2, TouchingStep
<1>9. QED
  BY <1>7, <1>8

LEMMA SyncHeartbeatInstanceStep ==
    ASSUME HostsInv, NEW n \in Nodes, NEW i \in Instances,
           SyncHeartbeatInstance(n, i)
    PROVE  HostsInv'
<1> DEFINE left == host[n].todo \ {i}
           g == LoopOver(host[n], left)
<1>1. /\ host[n].sync \in {"instances", "beat"} /\ i \in host[n].todo
      /\ UNCHANGED <<late, gone>> /\ ~Unstarted(n)
      /\ host[n].remote => host[n].sync = "beat" /\ i = host[n].beating
  BY StampIsFresh DEF SyncHeartbeatInstance
<1>2. host' = [host EXCEPT ![n] = g]
  BY AtNode DEF SyncHeartbeatInstance, HostsInv, HostsTypeOK
<1>3. i \in InstancesOf(n) /\ host[n].stamp \in Ages
  BY <1>1, AtNode DEF HostInv, Unstarted, Host
<1>4. left \in SUBSET Instances /\ left \subseteq host[n].hosted \cup host[n].todo
  BY AtNode DEF Host
<1>5. Resumed(g, host[n], left)
  BY <1>4, LoopOverHost, AtNode
<1>6. host[n].remote => host[n].stamp >= token[n].expired - 1
  BY <1>1, StampIsFresh
<1>7. \/ \E ok \in BOOLEAN : \/ HeartbeatInstance(i, host[n].stamp, ok) /\ StoreOnly
                             \/ ServeHeartbeatInstance(i, host[n].stamp, ok)
      \/ UNCHANGED <<nodes, instances, token, attested>>
  BY DEF SyncHeartbeatInstance, RemoteHeartbeatInstance, service, membership
<1> HIDE DEF left, g
<1>8. CASE UNCHANGED <<nodes, instances, token, attested>>
  <2>1. Looks
    BY <1>8, QuietService, AtNode
  <2>2. QED
    BY <1>1, <1>2, <1>4, <1>5, <1>6, <2>1, ResumedStep
<1>9. ASSUME NEW ok \in BOOLEAN,
             \/ HeartbeatInstance(i, host[n].stamp, ok) /\ StoreOnly
             \/ ServeHeartbeatInstance(i, host[n].stamp, ok)
      PROVE  HostsInv'
  <2>1. Touches(i) /\ Beaten(i, host[n].stamp)
    BY <1>3, <1>9, HeartbeatInstanceTouches, AtNode
  <2>2. token' = token
    BY <1>9 DEF ServeHeartbeatInstance, StoreOnly
  <2>3. ASSUME i \in DOMAIN instances'
        PROVE  /\ instances'[i].own \/ instances'[i].overtook
               /\ host[n].remote => instances'[i].age >= token'[n].expired - 1
               /\ ~host[n].remote /\ instances'[i].own => Placed(n, i)
    <3>1. i \in DOMAIN instances /\ instances'[i].own = instances[i].own
          /\ instances'[i].overtook = instances[i].overtook
          /\ instances'[i].age = host[n].stamp
      BY <2>1, <2>3 DEF Beaten
    <3>2. RecordInv(n, i)
      BY <1>3, <3>1, AtNode DEF RecordsInv
    <3>3. instances[i].own \/ instances[i].overtook
      BY <1>1, <3>2 DEF RecordInv
    <3>4. ~host[n].remote /\ instances[i].own => Placed(n, i)
      BY <3>2 DEF RecordInv
    <3>5. QED
      BY <1>6, <2>2, <3>1, <3>3, <3>4
  <2>4. QED
    BY <1>1, <1>2, <1>3, <1>4, <1>5, <1>6, <2>1, <2>3, ResumedTouch
<1>10. QED
  BY <1>7, <1>8, <1>9

-----------------------------------------------------------------------------
(* The end of a host.                                                       *)

\* The calls that may still arrive.
LEMMA PendingCalls ==
    ASSUME HostsInv, NEW n \in Nodes, host[n].remote, NEW own \in BOOLEAN, NEW rpc,
           rpc \in Pending(n, own)
    PROVE  /\ rpc \in HostCall /\ rpc.own = own
           /\ rpc.op \in {"instance", "beat", "remove"} => rpc.inst \in InstancesOf(n)
           /\ rpc.op = "beat" => /\ rpc.age >= token[n].expired - 1
                                  /\ host[n].sync = "beat" /\ rpc.inst = host[n].beating
<1> DEFINE made(op, i, age) == [op |-> op, inst |-> i, age |-> age, own |-> own]
<1>1. HostInv(n) /\ host[n] \in Host /\ InstancesOf(n) \subseteq Instances
  BY AtNode
<1>2. /\ host[n].stamp \in Ages /\ host[n].sent \in Ages /\ host[n].born \in Ages
      /\ host[n].beating \in Instances \cup {AnyInstance} /\ host[n].todo \subseteq Instances
      /\ host[n].closing \subseteq Instances /\ 0 \in Ages
  BY <1>1, ZeroIsAge DEF Host
<1>3. ASSUME NEW op \in {"attest", "node", "heartbeat", "leave"}, NEW age \in Ages,
             rpc = made(op, AnyInstance, age)
      PROVE  /\ rpc \in HostCall /\ rpc.own = own
             /\ rpc.op \notin {"instance", "beat", "remove"}
  BY <1>3 DEF HostCall
<1>4. ASSUME NEW op \in {"instance", "remove"}, NEW i \in InstancesOf(n), NEW age \in Ages,
             rpc = made(op, i, age)
      PROVE  /\ rpc \in HostCall /\ rpc.own = own /\ rpc.op # "beat"
             /\ rpc.inst \in InstancesOf(n)
  BY <1>1, <1>4 DEF HostCall
<1>5. CASE host[n].sync = "attest"
  <2>1. rpc = made("attest", AnyInstance, 0)
    BY <1>5 DEF Pending
  <2>2. QED
    BY <1>2, <1>3, <2>1
<1>6. CASE host[n].sync = "node"
  <2>1. rpc = made("node", AnyInstance, host[n].sent)
    BY <1>6 DEF Pending
  <2>2. QED
    BY <1>2, <1>3, <2>1
<1>7. CASE host[n].sync = "heartbeat"
  <2>1. rpc = made("heartbeat", AnyInstance, host[n].stamp)
    BY <1>7 DEF Pending
  <2>2. QED
    BY <1>2, <1>3, <2>1
<1>8. CASE host[n].sync = "instances"
  <2>1. PICK i \in host[n].todo : rpc = made("instance", i, host[n].born)
    BY <1>8 DEF Pending
  <2>2. i \in InstancesOf(n)
    BY <1>1 DEF HostInv
  <2>3. QED
    BY <1>2, <1>4, <2>1, <2>2
<1>9. CASE host[n].sync = "beat"
  <2>1. rpc = made("beat", host[n].beating, host[n].stamp)
    BY <1>9 DEF Pending
  <2>2. rpc \in HostCall /\ rpc.own = own
    BY <1>2, <2>1 DEF HostCall
  <2>3. rpc.inst = host[n].beating /\ rpc.age = host[n].stamp
    BY <2>1
  <2>4. host[n].beating \in InstancesOf(n) /\ host[n].stamp >= token[n].expired - 1
    BY <1>1, <1>9, StampIsFresh DEF HostInv
  <2>5. QED
    BY <1>9, <2>2, <2>3, <2>4
<1>10. CASE host[n].sync = "idle"
  <2>1. \/ \E i \in host[n].closing : rpc = made("remove", i, 0)
        \/ rpc = made("leave", AnyInstance, 0)
    BY <1>10 DEF Pending
  <2>2. CASE \E i \in host[n].closing : rpc = made("remove", i, 0)
    <3>1. PICK i \in host[n].closing : rpc = made("remove", i, 0)
      BY <2>2
    <3>2. i \in InstancesOf(n)
      BY <1>1 DEF HostInv
    <3>3. QED
      BY <1>2, <1>4, <3>1, <3>2
  <2>3. QED
    BY <1>2, <1>3, <2>1, <2>2
<1>11. QED
  BY <1>1, <1>5, <1>6, <1>7, <1>8, <1>9, <1>10 DEF Host, Sync

\* What is on its way after a caller gave its call up.
LEMMA GivenUpCalls ==
    ASSUME HostsInv, NEW n \in Nodes, host[n].remote, NEW own \in BOOLEAN, NEW calls,
           calls \in GivenUp(n, own)
    PROVE  \A rpc \in calls : rpc \in late[n] \/ rpc \in Pending(n, own)
BY DEF GivenUp

LEMMA BeginShutdownStep ==
    ASSUME HostsInv, NEW n \in Nodes, BeginShutdown(n)
    PROVE  HostsInv'
<1> DEFINE h == [host[n] EXCEPT !.main = "removing", !.closing = host[n].hosted, !.hosted = {},
                                !.born = 0]
<1>1. /\ host[n].main = "up" /\ UNCHANGED gone /\ UNCHANGED <<nodes, instances, token, attested>>
      /\ IF host[n].remote
         THEN /\ host' = [host EXCEPT ![n] = Synced(h)]
              /\ \E calls \in GivenUp(n, TRUE) : late' = [late EXCEPT ![n] = calls]
         ELSE /\ host' = [host EXCEPT ![n] = h]
              /\ UNCHANGED late
  BY DEF BeginShutdown, service, membership
<1>2. h \in Host
  BY AtNode, ZeroIsAge DEF Host, Main
<1>3. /\ h.main = "removing" /\ h.remote = host[n].remote /\ h.configured = host[n].configured
      /\ h.sync = host[n].sync
      /\ h.hosted = {} /\ h.todo = host[n].todo /\ h.closing = host[n].hosted
      /\ h.beating = host[n].beating /\ h.stamp = host[n].stamp
  BY AtNode DEF Host
<1> HIDE DEF h
<1>4. Looks
  BY <1>1, QuietService, AtNode
<1>5. CASE ~host[n].remote
  <2>1. Concerns(n) /\ host'[n] = h /\ late'[n] = late[n] /\ late'[n] \subseteq HostCall
        /\ gone'[n] = gone[n]
    BY <1>1, <1>5, HostSet
  <2>2. HostInv(n)'
    BY <1>1, <1>3, <1>5, <2>1, AtNode, ConstantsStay DEF HostInv, Unstarted
  <2>3. Forth(n) /\ \A j : Onward(n, j)
    BY <1>1, <1>3, <1>5, <2>1 DEF Forth, Onward, Placed, Unstarted
  <2>4. QED
    BY <1>2, <1>4, <2>1, <2>2, <2>3, LookingStep
<1>6. CASE host[n].remote
  <2> DEFINE g == Synced(h)
  <2>1. PICK calls \in GivenUp(n, TRUE) : late' = [late EXCEPT ![n] = calls]
    BY <1>1, <1>6
  <2>2. Resumed(g, h, {}) /\ g.sync = "idle"
    BY <1>2, SyncedHost DEF Synced, Host
  <2>3. host' = [host EXCEPT ![n] = g]
    BY <1>1, <1>6
  <2> HIDE DEF g
  <2>4. host'[n] = g /\ late'[n] = calls /\ gone'[n] = gone[n] /\ Concerns(n)
    BY <1>1, <2>1, <2>3 DEF HostsInv, HostsTypeOK, Concerns
  <2>5. /\ g.main = "removing" /\ g.remote /\ g.hosted = {} /\ g.todo = {} /\ g \in Host
        /\ g.closing = host[n].hosted
    BY <1>3, <1>6, <2>2 DEF Resumed
  <2>6. HostInv(n)'
    BY <2>2, <2>4, <2>5, AtNode, ConstantsStay DEF HostInv, Unstarted
  <2>7. ~Unstarted(n) /\ Forth(n)
    BY <1>1, <1>6, <2>4, <2>5 DEF Forth, Unstarted
  <2>8. ASSUME NEW rpc \in calls
        PROVE  \/ rpc \in late[n]
               \/ /\ rpc \in HostCall /\ LateInv(n, rpc)'
                  /\ rpc.op = "beat" => host[n].sync = "beat" /\ rpc.inst = host[n].beating
    <3>1. CASE rpc \in Pending(n, TRUE)
      <4>1. /\ rpc \in HostCall /\ rpc.own = TRUE
            /\ rpc.op \in {"instance", "beat", "remove"} => rpc.inst \in InstancesOf(n)
            /\ rpc.op = "beat" => /\ rpc.age >= token[n].expired - 1
                                   /\ host[n].sync = "beat" /\ rpc.inst = host[n].beating
        BY <1>6, <2>7, <3>1, PendingCalls
      <4>2. host'[n].remote /\ ~Unstarted(n)' /\ token' = token /\ InstancesOf(n)' = InstancesOf(n)
        BY <1>1, <2>4, <2>5, ConstantsStay DEF Unstarted
      <4>3. QED
        BY <4>1, <4>2 DEF LateInv
    <3>2. QED
      BY <1>6, <2>7, <3>1, GivenUpCalls
  <2>9. late'[n] \subseteq HostCall
    BY <2>4, <2>8, AtNode
  <2>10. \A j : Onward(n, j)
    BY <1>6, <2>2, <2>4, <2>5, <2>8 DEF Onward
  <2>11. QED
    BY <1>4, <2>4, <2>5, <2>6, <2>7, <2>8, <2>9, <2>10, LookingStep
<1>7. QED
  BY <1>5, <1>6

LEMMA ShutdownRemoveInstanceStep ==
    ASSUME HostsInv, NEW n \in Nodes, NEW i \in Instances,
           ShutdownRemoveInstance(n, i)
    PROVE  HostsInv'
<1> DEFINE h == [host[n] EXCEPT !.closing = host[n].closing \ {i}]
<1>1. /\ host' = [host EXCEPT ![n] = h] /\ UNCHANGED <<late, gone>>
      /\ host[n].main = "removing" /\ i \in host[n].closing
      /\ IF host[n].remote THEN RemoteRemoveInstance(i)
                           ELSE RemoveInstance(i) /\ StoreOnly
  BY AtNode DEF ShutdownRemoveInstance, Host
<1>2. h \in Host
  BY AtNode DEF Host
<1>3. /\ h.main = host[n].main /\ h.remote = host[n].remote /\ h.configured = host[n].configured /\ h.sync = host[n].sync
      /\ h.hosted = host[n].hosted /\ h.todo = host[n].todo /\ h.closing = host[n].closing \ {i}
      /\ h.beating = host[n].beating /\ h.stamp = host[n].stamp
  BY AtNode DEF Host
<1> HIDE DEF h
<1>4. Concerns(n) /\ host'[n] = h /\ late'[n] = late[n] /\ late'[n] \subseteq HostCall /\ gone'[n] = gone[n]
  BY <1>1, HostSet
<1>5. Looks
  BY <1>1, RemoveLooks, AtNode
<1>6. ~host[n].remote => i \notin DOMAIN instances'
  BY <1>1, RemoveInstanceEffect, AtNode DEF ServiceTypeOK
<1>7. token' = token
  BY <1>1 DEF RemoteRemoveInstance, ServeRemoveInstance, StoreOnly, service
<1>8. HostInv(n)'
  BY <1>1, <1>3, <1>4, <1>7, AtNode, ConstantsStay DEF HostInv, Unstarted
<1>9. QED
  BY <1>1, <1>2, <1>3, <1>4, <1>5, <1>6, <1>8, LookingStep DEF Onward, Forth, Placed, Unstarted

LEMMA ShutdownMarkNodeStep ==
    ASSUME HostsInv, NEW n \in Nodes, ShutdownMarkNode(n)
    PROVE  HostsInv'
<1> DEFINE h == [host[n] EXCEPT !.main = "waiting"]
<1>1. /\ host' = [host EXCEPT ![n] = h] /\ UNCHANGED <<late, gone>>
      /\ host[n].main = "removing" /\ host[n].closing = {}
  BY DEF ShutdownMarkNode
<1>2. h \in Host
  BY AtNode DEF Host, Main
<1>3. /\ h.main = "waiting" /\ h.remote = host[n].remote /\ h.configured = host[n].configured /\ h.sync = host[n].sync
      /\ h.hosted = host[n].hosted /\ h.todo = host[n].todo /\ h.closing = host[n].closing
      /\ h.beating = host[n].beating /\ h.stamp = host[n].stamp
  BY AtNode DEF Host
<1> HIDE DEF h
<1>4. Concerns(n) /\ host'[n] = h /\ late'[n] = late[n] /\ late'[n] \subseteq HostCall /\ gone'[n] = gone[n]
  BY <1>1, HostSet
<1>5. PICK ok : \/ RegisterNode(n, "unavailable", 0) /\ StoreOnly
                \/ RemoteRegisterNode(n, "unavailable", 0, ok)
  BY DEF ShutdownMarkNode
<1>6. Looks
  BY <1>5, RegisterNodeLooks, AtNode, ZeroIsAge DEF States
<1>7. token' = token
  BY <1>5 DEF RemoteRegisterNode, ServeRegisterNode, StoreOnly, service
<1>8. HostInv(n)'
  BY <1>1, <1>3, <1>4, <1>7, AtNode, ConstantsStay DEF HostInv, Unstarted
<1>9. QED
  BY <1>1, <1>2, <1>3, <1>4, <1>6, <1>8, LookingStep DEF Onward, Forth, Placed, Unstarted

\* The calls of a process that has ended.
LEMMA OrphanedCalls ==
    ASSUME HostsInv, NEW n \in Nodes, NEW calls,
           calls = late[n] \/ (host[n].remote /\ calls \in GivenUp(n, FALSE))
    PROVE  \A rpc \in Orphaned(calls) :
               /\ rpc \in HostCall /\ ~rpc.own
               /\ rpc.op \in {"instance", "beat", "remove"} => rpc.inst \in InstancesOf(n)
               /\ host[n].remote /\ rpc.op = "beat" => rpc.age >= token[n].expired - 1
<1>1. ASSUME NEW c \in calls
      PROVE  /\ c \in HostCall
             /\ c.op \in {"instance", "beat", "remove"} => c.inst \in InstancesOf(n)
             /\ host[n].remote /\ c.op = "beat" => c.age >= token[n].expired - 1
  <2>1. CASE c \in late[n]
    BY <2>1, AtNode DEF CallsInv, LateInv
  <2>2. CASE host[n].remote /\ c \in Pending(n, FALSE)
    BY <2>2, PendingCalls
  <2>3. QED
    BY <1>1, <2>1, <2>2, GivenUpCalls
<1>2. ASSUME NEW rpc \in Orphaned(calls)
      PROVE  /\ rpc \in HostCall /\ ~rpc.own
             /\ \E c \in calls : rpc.op = c.op /\ rpc.inst = c.inst /\ rpc.age = c.age
  <2>1. PICK c \in calls : rpc = [c EXCEPT !.own = FALSE]
    BY <1>2 DEF Orphaned
  <2>2. QED
    BY <1>1, <2>1 DEF HostCall
<1>3. QED
  BY <1>1, <1>2

LEMMA ProcessEndsStep ==
    ASSUME HostsInv, NEW n \in Nodes, NEW calls, ProcessEnds(n),
           late' = [late EXCEPT ![n] = Orphaned(calls)],
           calls = late[n] \/ (host[n].remote /\ calls \in GivenUp(n, FALSE))
    PROVE  HostsInv'
<1> DEFINE h == Down(host[n].configured)
           sent == Orphaned(calls)
<1>1. /\ host' = [host EXCEPT ![n] = h] /\ gone' = [gone EXCEPT ![n] = 0]
      /\ instances' = [i \in DOMAIN instances |->
                          IF NodeOf[i] # n THEN instances[i]
                          ELSE [instances[i] EXCEPT !.own = FALSE, !.overtook = FALSE]]
      /\ UNCHANGED <<nodes, token, attested>>
  BY DEF ProcessEnds, HostsInv, HostsTypeOK
<1>2. h \in Host
  <2>1. AnyInstance \in Instances \cup {AnyInstance} /\ host[n].configured \in BOOLEAN
    BY AtNode DEF Host
  <2>2. QED
    BY <2>1, ZeroIsAge DEF Down, Host, Main, Sync
<1>3. /\ h.main = "down" /\ h.remote = host[n].configured /\ h.configured = host[n].configured
      /\ h.sync = "idle" /\ h.hosted = {} /\ h.todo = {} /\ h.closing = {}
  BY DEF Down
<1> HIDE DEF h
<1>4. \A rpc \in sent :
          /\ rpc \in HostCall /\ ~rpc.own
          /\ rpc.op \in {"instance", "beat", "remove"} => rpc.inst \in InstancesOf(n)
          /\ host[n].remote /\ rpc.op = "beat" => rpc.age >= token[n].expired - 1
  BY OrphanedCalls
<1> HIDE DEF sent
<1>5. Concerns(n) /\ host'[n] = h /\ late'[n] = sent /\ gone'[n] = 0 /\ late'[n] \subseteq HostCall
  BY <1>1, <1>4 DEF HostsInv, HostsTypeOK, Concerns, sent
<1>6. /\ DOMAIN instances' = DOMAIN instances
      /\ \A i \in DOMAIN instances : instances[i] \in InstanceRecord
      /\ \A i \in DOMAIN instances :
            /\ instances'[i] \in InstanceRecord
            /\ instances'[i].state = instances[i].state /\ instances'[i].age = instances[i].age
            /\ NodeOf[i] # n => instances'[i] = instances[i]
            /\ NodeOf[i] = n => ~instances'[i].own /\ ~instances'[i].overtook
  <2>1. \A i \in DOMAIN instances : instances[i] \in InstanceRecord
    BY AtNode DEF ServiceTypeOK, MembershipTypeOK
  <2>2. DOMAIN instances' = DOMAIN instances
    BY <1>1
  <2>3. ASSUME NEW i \in DOMAIN instances
        PROVE  /\ instances'[i] \in InstanceRecord
               /\ instances'[i].state = instances[i].state /\ instances'[i].age = instances[i].age
               /\ NodeOf[i] # n => instances'[i] = instances[i]
               /\ NodeOf[i] = n => ~instances'[i].own /\ ~instances'[i].overtook
    <3>1. CASE NodeOf[i] = n
      <4>1. instances'[i] = [instances[i] EXCEPT !.own = FALSE, !.overtook = FALSE]
        BY <1>1, <3>1
      <4>2. QED
        BY <2>1, <3>1, <4>1 DEF InstanceRecord
    <3>2. CASE NodeOf[i] # n
      BY <1>1, <2>1, <3>2
    <3>3. QED
      BY <3>1, <3>2
  <2>4. QED
    BY <2>1, <2>2, <2>3
<1>7. ServiceTypeOK'
  BY <1>1, <1>6, AtNode
     DEF ServiceTypeOK, MembershipTypeOK, EnrollmentTypeOK, NodeRecord,
         InstanceRecord, Ages
<1>8. (\A m \in Nodes : Sooner(m)) /\ \A j : NodeOf[j] # n => Keeps(j)
  <2>1. \A m \in Nodes : Sooner(m)
    BY <1>1, TokenSame, AtNode DEF ServiceTypeOK
  <2>2. \A j : NodeOf[j] # n => Keeps(j)
    BY <1>6 DEF Keeps
  <2>3. QED
    BY <2>1, <2>2
<1>9. HostInv(n)'
  BY <1>3, <1>5, ConstantsStay DEF HostInv, Unstarted
<1>10. CallsInv(n)'
  <2>1. \A rpc \in sent : rpc.age \in Int /\ rpc.age >= 0
    BY <1>4, TTLIsNat DEF HostCall
  <2>2. h.remote => host[n].remote
    BY <1>3, AtNode DEF HostInv
  <2>3. token' = token
    BY <1>1
  <2>4. QED
    BY <1>4, <1>5, <2>1, <2>2, <2>3, ConstantsStay DEF CallsInv, LateInv
<1>11. RecordsInv(n)'
  <2>1. ASSUME NEW i \in InstancesOf(n), i \in DOMAIN instances'
        PROVE  RecordInv(n, i)'
    <3>1. i \in DOMAIN instances /\ RecordInv(n, i) /\ NodeOf[i] = n
      BY <1>6, <2>1, AtNode DEF RecordsInv, InstancesOf
    <3>2. ~instances'[i].own /\ instances'[i].age = instances[i].age
          /\ instances'[i].state = instances[i].state
      BY <1>6, <3>1
    <3>3. instances[i].age \in 0..(HeartbeatTTL + 1)
      BY <3>1, NodeTypes, AtNode
    <3>4. instances'[i].age >= gone'[n]
      BY <1>5, <3>2, <3>3, TTLIsNat
    <3>5. token' = token /\ (host'[n].remote => host[n].remote)
      BY <1>1, <1>3, <1>5, AtNode DEF HostInv
    <3>6. \A rpc \in late'[n] : ~rpc.own
      BY <1>4, <1>5
    <3>7. QED
      BY <1>3, <1>5, <3>1, <3>2, <3>4, <3>5, <3>6 DEF RecordInv
  <2>2. QED
    BY <2>1, ConstantsStay DEF RecordsInv
<1>12. gone'[n] \in Ages /\ host'[n] \in Host
  BY <1>2, <1>5, ZeroIsAge
<1>13. QED
  BY <1>5, <1>7, <1>8, <1>9, <1>10, <1>11, <1>12, StepOf

LEMMA EndStep ==
    ASSUME HostsInv, NEW n \in Nodes, EndShutdown(n) \/ CrashHost(n)
    PROVE  HostsInv'
<1>1. CASE EndShutdown(n)
  <2>1. ProcessEnds(n) /\ late' = [late EXCEPT ![n] = Orphaned(late[n])]
    BY <1>1 DEF EndShutdown, HostsInv, HostsTypeOK
  <2>2. QED
    BY <2>1, ProcessEndsStep
<1>2. CASE CrashHost(n)
  <2>1. ProcessEnds(n)
    BY <1>2 DEF CrashHost
  <2>2. PICK calls : /\ late' = [late EXCEPT ![n] = Orphaned(calls)]
                     /\ calls = late[n] \/ (host[n].remote /\ calls \in GivenUp(n, FALSE))
    BY <1>2 DEF CrashHost
  <2>3. QED
    BY <2>1, <2>2, ProcessEndsStep
<1>3. QED
  BY <1>1, <1>2

-----------------------------------------------------------------------------
(* Calls whose caller is gone.                                              *)

\* A call that is no longer on its way.
LEMMA ArrivedCall ==
    ASSUME HostsInv, NEW n \in Nodes, NEW rpc \in late[n], host' = host, gone' = gone,
           late' = [late EXCEPT ![n] = late[n] \ {rpc}], ServiceTypeOK', Sooner(n)
    PROVE  /\ Concerns(n) /\ host'[n] = host[n] /\ host'[n] \in Host
           /\ late'[n] = late[n] \ {rpc} /\ late'[n] \subseteq HostCall /\ gone'[n] = gone[n]
           /\ HostInv(n)' /\ Forth(n) /\ (\A j : Onward(n, j)) /\ (Unstarted(n)' <=> Unstarted(n))
<1>1. /\ Concerns(n) /\ host'[n] = host[n] /\ late'[n] = late[n] \ {rpc} /\ gone'[n] = gone[n]
  BY DEF HostsInv, HostsTypeOK, Concerns
<1>2. late'[n] \subseteq HostCall /\ host'[n] \in Host
  BY <1>1, AtNode
<1>3. HostInv(n)' /\ Forth(n)
  BY <1>1, HostKept, AtNode DEF ServiceTypeOK
<1>4. (\A j : Onward(n, j)) /\ (Unstarted(n)' <=> Unstarted(n))
  BY <1>1 DEF Onward, Placed, Unstarted
<1>5. QED
  BY <1>1, <1>2, <1>3, <1>4

LEMMA LateLook ==
    ASSUME HostsInv, NEW n \in Nodes, NEW rpc \in late[n], host' = host, gone' = gone,
           late' = [late EXCEPT ![n] = late[n] \ {rpc}], Looks
    PROVE  HostsInv'
<1>1. ServiceTypeOK' /\ Sooner(n)
  BY DEF Looks
<1>2. /\ Concerns(n) /\ host'[n] \in Host
      /\ late'[n] = late[n] \ {rpc} /\ late'[n] \subseteq HostCall /\ gone'[n] = gone[n]
      /\ HostInv(n)' /\ Forth(n) /\ \A j : Onward(n, j)
  BY <1>1, ArrivedCall
<1>3. QED
  BY <1>2, LookingStep

\* What a late call may leave in a record.
LEMMA LateTouch ==
    ASSUME HostsInv, NEW n \in Nodes, NEW i \in InstancesOf(n), NEW rpc \in late[n],
           host' = host, gone' = gone,
           late' = [late EXCEPT ![n] = late[n] \ {rpc}], Touches(i),
           i \in DOMAIN instances' =>
               /\ instances'[i].state = "ready" /\ ~instances'[i].own /\ (~instances'[i].overtook \/ Unstarted(n))
                     => instances'[i].age >= gone[n]
               /\ host[n].remote => instances'[i].age >= token'[n].expired - 1
               /\ \/ instances'[i].own \/ instances'[i].overtook
                  \/ Unstarted(n)
                  \/ i \in DOMAIN instances /\ ~instances[i].own /\ ~instances[i].overtook
               /\ ~host[n].remote /\ instances'[i].own => Placed(n, i)
               /\ Unstarted(n) => ~instances'[i].own
    PROVE  HostsInv'
<1>1. ServiceTypeOK' /\ Sooner(n)
  BY DEF Touches
<1>2. /\ Concerns(n) /\ host'[n] = host[n] /\ host'[n] \in Host
      /\ late'[n] = late[n] \ {rpc} /\ late'[n] \subseteq HostCall /\ gone'[n] = gone[n]
      /\ HostInv(n)' /\ Forth(n) /\ (\A j : Onward(n, j)) /\ (Unstarted(n)' <=> Unstarted(n))
  BY <1>1, ArrivedCall
<1>3. ASSUME i \in DOMAIN instances'
      PROVE  RecordInv(n, i)'
  <2>1. /\ Unstarted(n) => /\ host[n].sync = "idle"
                           /\ host[n].hosted \cup host[n].todo \cup host[n].closing = {}
                           /\ \A c \in late[n] : ~c.own
    BY AtNode DEF HostInv, CallsInv, LateInv
  <2>2. i \in DOMAIN instances => RecordInv(n, i)
    BY AtNode DEF RecordsInv
  <2>3. (Placed(n, i)' <=> Placed(n, i))
    BY <1>2 DEF Placed
  <2>4. /\ host'[n].sync = "beat" /\ i = host'[n].beating
               => instances'[i].own \/ instances'[i].overtook
        /\ ~host'[n].remote /\ i \in host'[n].hosted \cup host'[n].todo
               => instances'[i].own \/ instances'[i].overtook
    BY <1>2, <1>3, <2>1, <2>2 DEF RecordInv
  <2>5. \A c \in late'[n] : c.own /\ c.op = "beat" /\ i = c.inst
               => instances'[i].own \/ instances'[i].overtook
    BY <1>2, <1>3, <2>1, <2>2 DEF RecordInv
  <2>6. QED
    BY <1>2, <1>3, <2>3, <2>4, <2>5 DEF RecordInv
<1>4. QED
  BY <1>2, <1>3, TouchingStep

LEMMA LateCallStep ==
    ASSUME HostsInv, NEW n \in Nodes, NEW rpc \in late[n], LateCall(n, rpc)
    PROVE  HostsInv'
<1> DEFINE record == LateRecord(n, rpc)
<1>1. /\ host' = host /\ gone' = gone
      /\ late' = [late EXCEPT ![n] = late[n] \ {rpc}]
  BY DEF LateCall, HostsInv, HostsTypeOK
<1>2. rpc \in HostCall /\ rpc.age \in Ages /\ rpc.age \in 0..(HeartbeatTTL + 1)
      /\ rpc.op \in {"attest", "node", "heartbeat", "instance", "beat", "remove", "leave"}
  BY AtNode, TTLIsNat DEF HostCall
<1>3. /\ LateInv(n, rpc)
      /\ rpc.op \in {"instance", "beat", "remove"}
            => rpc.inst \in InstancesOf(n) /\ NodeOf[rpc.inst] = n /\ rpc.inst \in Instances
  BY AtNode DEF CallsInv, LateInv, InstancesOf
<1>4. CASE rpc.op = "attest"
  <2>1. PICK ok \in BOOLEAN : ServeAttestNode(n, ok)
    BY <1>4 DEF LateCall
  <2>2. QED
    BY <1>1, <2>1, ServeAttestLooks, LateLook, AtNode
<1>5. CASE rpc.op \in {"node", "leave"}
  <2>1. PICK ok \in BOOLEAN, st \in States : ServeRegisterNode(n, st, rpc.age, ok)
    BY <1>5 DEF LateCall, States
  <2>2. Looks
    BY <1>2, <2>1, RegisterNodeLooks, AtNode
  <2>3. QED
    BY <1>1, <2>2, LateLook
<1>6. CASE rpc.op = "heartbeat"
  <2>1. PICK ok \in BOOLEAN : ServeHeartbeatNode(n, rpc.age, ok)
    BY <1>6 DEF LateCall
  <2>2. Looks
    BY <1>2, <2>1, HeartbeatNodeLooks, AtNode
  <2>3. QED
    BY <1>1, <2>2, LateLook
<1>7. CASE rpc.op = "remove"
  <2>1. ServeRemoveInstance(rpc.inst)
    BY <1>7 DEF LateCall
  <2>2. RemoteRemoveInstance(rpc.inst)
    BY <2>1 DEF RemoteRemoveInstance
  <2>3. Looks
    BY <1>3, <1>7, <2>2, RemoveLooks, AtNode
  <2>4. QED
    BY <1>1, <2>3, LateLook
<1>8. CASE rpc.op = "instance"
  <2>1. PICK ok \in BOOLEAN : ServeRegisterInstance(rpc.inst, record, ok)
    BY <1>8 DEF LateCall
  <2>2. record \in InstanceRecord
    BY <1>2 DEF InstanceRecord, States, LateRecord, HostCall
  <2>3. /\ record.age = rpc.age /\ record.own = rpc.own
        /\ record.overtook = (~rpc.own /\ host[n].main # "down")
    BY DEF LateRecord
  <2> HIDE DEF record
  <2>4. /\ Touches(rpc.inst)
        /\ \/ Looks
           \/ rpc.inst \in DOMAIN instances' /\ instances'[rpc.inst] = record
              /\ token'[NodeOf[rpc.inst]].expired = 0
    BY <1>3, <1>8, <2>1, <2>2, ServeRegisterInstanceTouches, AtNode
  <2>5. CASE Looks
    BY <1>1, <2>5, LateLook
  <2>6. CASE instances'[rpc.inst] = record /\ token'[NodeOf[rpc.inst]].expired = 0
    <3>1. ~rpc.own => rpc.age >= gone[n]
      BY <1>3, <1>8 DEF LateInv
    <3>2. instances'[rpc.inst].age >= token'[n].expired - 1
      BY <1>2, <1>3, <1>8, <2>3, <2>6, TTLIsNat
    <3>3. rpc.own => host[n].remote /\ ~Unstarted(n)
      BY <1>3 DEF LateInv
    <3>4. ~Unstarted(n) => host[n].main # "down"
      BY DEF Unstarted
    <3>5. rpc.own \in BOOLEAN
      BY <1>2 DEF HostCall
    <3>6. /\ ~record.own /\ (~record.overtook \/ Unstarted(n)) => record.age >= gone[n]
          /\ record.own \/ record.overtook \/ Unstarted(n)
          /\ ~(~host[n].remote /\ record.own)
          /\ Unstarted(n) => ~record.own
      BY <2>3, <3>1, <3>3, <3>4, <3>5
    <3>7. QED
      BY <1>1, <1>3, <1>8, <2>4, <2>6, <3>2, <3>6, LateTouch
  <2>7. QED
    BY <2>4, <2>5, <2>6
<1>9. CASE rpc.op = "beat"
  <2>1. PICK ok \in BOOLEAN : ServeHeartbeatInstance(rpc.inst, rpc.age, ok)
    BY <1>9 DEF LateCall
  <2>2. Touches(rpc.inst) /\ Beaten(rpc.inst, rpc.age) /\ token' = token
    BY <1>2, <1>3, <1>9, <2>1, HeartbeatInstanceTouches, AtNode DEF ServeHeartbeatInstance
  <2>3. ASSUME rpc.inst \in DOMAIN instances'
        PROVE  LET i == rpc.inst
               IN  /\ instances'[i].state = "ready" /\ ~instances'[i].own /\ (~instances'[i].overtook \/ Unstarted(n))
                         => instances'[i].age >= gone[n]
                   /\ host[n].remote => instances'[i].age >= token'[n].expired - 1
                   /\ \/ instances'[i].own \/ instances'[i].overtook
                      \/ Unstarted(n)
                      \/ i \in DOMAIN instances /\ ~instances[i].own /\ ~instances[i].overtook
                   /\ ~host[n].remote /\ instances'[i].own => Placed(n, i)
                   /\ Unstarted(n) => ~instances'[i].own
    <3>1. /\ rpc.inst \in DOMAIN instances
          /\ instances'[rpc.inst].age = rpc.age
          /\ instances'[rpc.inst].own = instances[rpc.inst].own
          /\ instances'[rpc.inst].overtook = instances[rpc.inst].overtook
      BY <2>2, <2>3 DEF Beaten
    <3>2. RecordInv(n, rpc.inst)
      BY <1>3, <1>9, <3>1, AtNode DEF RecordsInv
    <3>3. rpc.own => ~Unstarted(n) /\ (instances[rpc.inst].own \/ instances[rpc.inst].overtook)
      BY <1>3, <1>9, <3>2 DEF RecordInv, LateInv
    <3>4. ~rpc.own => rpc.age >= gone[n]
      BY <1>3, <1>9 DEF LateInv
    <3>5. host[n].remote => rpc.age >= token[n].expired - 1
      BY <1>3, <1>9 DEF LateInv
    <3>6. (Unstarted(n) => ~instances[rpc.inst].own)
          /\ (~host[n].remote /\ instances[rpc.inst].own => Placed(n, rpc.inst))
      BY <3>2 DEF RecordInv
    <3>7. QED
      BY <2>2, <3>1, <3>3, <3>4, <3>5, <3>6
  <2>4. QED
    BY <1>1, <1>3, <1>9, <2>2, <2>3, LateTouch
<1>10. QED
  BY <1>2, <1>4, <1>5, <1>6, <1>7, <1>8, <1>9

LEMMA LoseLateCallStep ==
    ASSUME HostsInv, NEW n \in Nodes, NEW rpc \in late[n], LoseLateCall(n, rpc)
    PROVE  HostsInv'
<1>1. Looks
  BY QuietService, AtNode DEF LoseLateCall, service, membership
<1>2. late' = [late EXCEPT ![n] = late[n] \ {rpc}] /\ host' = host /\ gone' = gone
  BY DEF LoseLateCall, HostsInv, HostsTypeOK
<1>3. QED
  BY <1>1, <1>2, LateLook

-----------------------------------------------------------------------------
(* What no host does, and the passing of time.                              *)

LEMMA ElsewhereStep ==
    ASSUME HostsInv, host' = host, late' = late, gone' = gone, Looks
    PROVE  HostsInv'
<1>1. ServiceTypeOK' /\ (\A n \in Nodes : Sooner(n)) /\ \A j : Keeps(j)
  BY DEF Looks
<1>2. \A n \in Nodes : HostInv(n)' /\ CallsInv(n)' /\ RecordsInv(n)'
  BY <1>1, NodeKept DEF HostsInv
<1>3. HostsTypeOK'
  <2>1. Host' = Host /\ HostCall' = HostCall /\ Ages' = Ages
    BY DEF Host, HostCall, Ages, AnyInstance
  <2>2. QED
    BY <1>1, <2>1 DEF HostsTypeOK, ServiceTypeOK, HostsInv
<1>4. QED
  BY <1>2, <1>3 DEF HostsInv

LEMMA IssueStep ==
    ASSUME HostsInv, NEW n \in Nodes, Issue(n) \/ Expire(n)
    PROVE  HostsInv'
<1>1. /\ UNCHANGED <<nodes, instances, attested, host, late, gone>>
      /\ \/ \E reusable, fits \in BOOLEAN :
                token' = [token EXCEPT ![n] = [issued |-> TRUE, reusable |-> reusable,
                                               fits |-> fits, used |-> FALSE, expired |-> 0]]
         \/ token' = [token EXCEPT ![n].expired = 1]
  BY DEF Issue, Expire, IssueNodeToken, TokenExpires, membership
<1>2. ServiceTypeOK /\ EnrollmentTypeOK /\ EnrolledNodes = Nodes
  BY AtNode, TTLIsNat DEF ServiceTypeOK
<1>3. PICK t \in Token : token' = [token EXCEPT ![n] = t] /\ t.expired <= 1
  <2> DEFINE end == [token[n] EXCEPT !.expired = 1]
             new(reusable, fits) == [issued |-> TRUE, reusable |-> reusable,
                                     fits |-> fits, used |-> FALSE, expired |-> 0]
  <2>1. end \in Token /\ end.expired = 1
    BY <1>2, TokenType, TTLIsNat DEF Token
  <2>2. \A reusable, fits \in BOOLEAN :
            new(reusable, fits) \in Token /\ new(reusable, fits).expired = 0
    BY TTLIsNat DEF Token
  <2>3. \/ \E reusable, fits \in BOOLEAN : token' = [token EXCEPT ![n] = new(reusable, fits)]
        \/ token' = [token EXCEPT ![n] = end]
    BY <1>1
  <2> HIDE DEF new, end
  <2>4. QED
    BY <2>1, <2>2, <2>3
<1>4. EnrollmentTypeOK' /\ \A m \in Nodes : Sooner(m)
  <2>1. \A m \in Nodes : token'[m] = token[m] \/ token'[m] = t
    BY <1>2, <1>3 DEF EnrollmentTypeOK
  <2>2. EnrollmentTypeOK'
    BY <1>2, <1>3 DEF EnrollmentTypeOK, Token
  <2>3. \A m \in Nodes : token[m].expired <= token[m].expired
    BY <1>2, TokenType
  <2>4. QED
    BY <1>3, <2>1, <2>2, <2>3 DEF Sooner
<1>5. MembershipTypeOK' /\ \A j : Keeps(j)
  BY <1>1, <1>2, SameKeeps
     DEF ServiceTypeOK, MembershipTypeOK, NodeRecord, InstanceRecord, Ages
<1>6. Looks
  BY <1>1, <1>2, <1>4, <1>5 DEF Looks, ServiceTypeOK
<1>7. QED
  BY <1>1, <1>6, ElsewhereStep

LEMMA LookupStep ==
    ASSUME HostsInv, Lookup
    PROVE  HostsInv'
<1>1. /\ nodes' = LiveNodes /\ instances' = LiveInstances
      /\ UNCHANGED <<token, attested, host, late, gone>>
  BY DEF Lookup, ServeLookup, Normalize
<1>2. ServiceTypeOK
  BY DEF HostsInv, HostsTypeOK, ServiceTypeOK
<1>3. MembershipTypeOK'
  BY <1>1, <1>2, LiveNodesType, LiveInstancesType
     DEF ServiceTypeOK, MembershipTypeOK, NodeRecord, InstanceRecord, Ages
<1>4. Looks
  BY <1>1, <1>2, <1>3, LookKeeps, TokenSame DEF Looks, ServiceTypeOK
<1>5. QED
  BY <1>1, <1>4, ElsewhereStep

LEMMA OlderIsAge ==
    ASSUME NEW age \in Ages
    PROVE  /\ Older(age) \in Ages
           /\ \A other \in Ages : age >= other => Older(age) >= Older(other)
           /\ \A e \in 0..(HeartbeatTTL + 2) : age >= e - 1 =>
                 Older(age) >= (IF e \in {0, LongExpired} THEN e ELSE e + 1) - 1
BY TTLIsNat DEF Older

LEMMA TickStep ==
    ASSUME HostsInv, TickHosts
    PROVE  HostsInv'
<1>0. /\ nodes' = [n \in DOMAIN nodes |-> Aged(nodes[n])]
      /\ instances' = [i \in DOMAIN instances |-> Aged(instances[i])]
      /\ token' = [n \in Nodes |->
                      IF token[n].expired \in {0, LongExpired} THEN token[n]
                      ELSE [token[n] EXCEPT !.expired = token[n].expired + 1]]
      /\ attested' = attested
  BY TTLIsNat DEF TickHosts, Age
<1>1. ServiceTypeOK /\ HostsTypeOK
  BY DEF HostsInv, HostsTypeOK, ServiceTypeOK
<1>2. ASSUME NEW n \in Nodes
      PROVE  /\ token'[n] \in Token
             /\ token'[n].expired = IF token[n].expired \in {0, LongExpired} THEN token[n].expired
                                    ELSE token[n].expired + 1
  <2>1. token[n] \in Token /\ token[n].expired \in 0..(HeartbeatTTL + 2)
    BY <1>1, TokenType DEF ServiceTypeOK
  <2>2. CASE token[n].expired \in {0, LongExpired}
    BY <1>0, <2>1, <2>2
  <2>3. CASE token[n].expired \notin {0, LongExpired}
    <3>1. token[n].expired + 1 \in 0..LongExpired
      BY <2>1, <2>3, TTLIsNat
    <3>2. token'[n] = [token[n] EXCEPT !.expired = token[n].expired + 1]
      BY <1>0, <2>3
    <3>3. QED
      BY <2>1, <2>3, <3>1, <3>2 DEF Token
  <2>4. QED
    BY <2>2, <2>3
<1>3. ASSUME NEW i \in DOMAIN instances
      PROVE  /\ instances[i] \in InstanceRecord
             /\ instances'[i] \in InstanceRecord
             /\ instances'[i].own = instances[i].own /\ instances'[i].state = instances[i].state
             /\ instances'[i].overtook = instances[i].overtook
             /\ instances[i].state = "ready" => instances'[i].age = Older(instances[i].age)
  <2>1. instances[i] \in InstanceRecord /\ instances[i].age \in Ages
    BY <1>1 DEF ServiceTypeOK, MembershipTypeOK, InstanceRecord
  <2>2. Older(instances[i].age) \in Ages
    BY <2>1, OlderIsAge
  <2>3. instances'[i] = Aged(instances[i])
    BY <1>0
  <2>4. QED
    BY <2>1, <2>2, <2>3 DEF Aged, InstanceRecord
<1>4. ASSUME NEW n \in DOMAIN nodes
      PROVE  nodes'[n] \in NodeRecord
  <2>1. nodes[n] \in NodeRecord /\ nodes[n].age \in Ages
    BY <1>1 DEF ServiceTypeOK, MembershipTypeOK, NodeRecord
  <2>2. Older(nodes[n].age) \in Ages
    BY <2>1, OlderIsAge
  <2>3. QED
    BY <1>0, <2>1, <2>2 DEF Aged, NodeRecord
<1>5. ServiceTypeOK'
  <2>1. MembershipTypeOK'
    BY <1>0, <1>1, <1>3, <1>4
       DEF ServiceTypeOK, MembershipTypeOK, NodeRecord, InstanceRecord, Ages
  <2>2. EnrollmentTypeOK'
    BY <1>0, <1>2, TTLIsNat DEF EnrollmentTypeOK, Token
  <2>3. QED
    BY <1>0, <1>1, <2>1, <2>2 DEF ServiceTypeOK
<1>6. ASSUME NEW n \in Nodes
      PROVE  /\ host'[n] \in Host
             /\ host'[n].remote = host[n].remote /\ host'[n].main = host[n].main
             /\ host'[n].configured = host[n].configured
             /\ host'[n].sync = host[n].sync /\ host'[n].hosted = host[n].hosted
             /\ host'[n].todo = host[n].todo /\ host'[n].closing = host[n].closing
             /\ host'[n].beating = host[n].beating
             /\ host[n].sync # "idle" => host'[n].stamp = Older(host[n].stamp)
  <2> DEFINE stamp == IF host[n].sync = "idle" THEN host[n].stamp ELSE Older(host[n].stamp)
             sent  == IF host[n].sync = "node" THEN Older(host[n].sent) ELSE host[n].sent
             born  == IF host[n].remote /\ host[n].hosted # {} THEN Older(host[n].born)
                                                                ELSE host[n].born
  <2>1. host[n] \in Host
    BY <1>1 DEF HostsTypeOK
  <2>2. host'[n] = [host[n] EXCEPT !.stamp = stamp, !.sent = sent, !.born = born]
    BY <2>1 DEF TickHosts, Host
  <2>3. stamp \in Ages /\ sent \in Ages /\ born \in Ages
    BY <2>1, OlderIsAge DEF Host
  <2>4. host[n].sync # "idle" => stamp = Older(host[n].stamp)
    OBVIOUS
  <2> HIDE DEF stamp, sent, born
  <2>5. QED
    BY <2>1, <2>2, <2>3, <2>4 DEF Host
<1>7. ASSUME NEW n \in Nodes, NEW rpc \in late'[n]
      PROVE  /\ rpc \in HostCall
             /\ \E c \in late[n] :
                   /\ rpc.op = c.op /\ rpc.inst = c.inst /\ rpc.own = c.own
                   /\ c.op \in {"instance", "beat"} => rpc.age = Older(c.age)
  <2>1. PICK c \in late[n] : rpc = OlderCall(c)
    BY <1>7 DEF TickHosts
  <2>2. c \in HostCall /\ c.age \in Ages
    BY <1>1 DEF HostsTypeOK, HostCall
  <2>3. Older(c.age) \in Ages
    BY <2>2, OlderIsAge
  <2>4. CASE c.op \in {"attest", "remove"}
    BY <2>1, <2>2, <2>4 DEF OlderCall
  <2>5. CASE c.op \notin {"attest", "remove"}
    <3>1. rpc = [c EXCEPT !.age = Older(c.age)]
      BY <2>1, <2>2, <2>5 DEF OlderCall, HostCall
    <3>2. rpc \in HostCall
      BY <2>2, <2>3, <3>1 DEF HostCall
    <3>3. rpc.op = c.op /\ rpc.inst = c.inst /\ rpc.own = c.own /\ rpc.age = Older(c.age)
      BY <2>2, <3>1 DEF HostCall
    <3>4. QED
      BY <3>2, <3>3
  <2>6. QED
    BY <2>4, <2>5
<1>8. ASSUME NEW n \in Nodes
      PROVE  gone[n] \in Ages /\ gone'[n] = Older(gone[n]) /\ gone'[n] \in Ages
  BY <1>1, OlderIsAge DEF TickHosts, HostsTypeOK
<1>9. HostsTypeOK'
  <2>1. Host' = Host /\ HostCall' = HostCall /\ Ages' = Ages
    BY DEF Host, HostCall, Ages, AnyInstance
  <2>2. host' \in [Nodes -> Host] /\ gone' \in [Nodes -> Ages]
    BY <1>6, <1>8 DEF TickHosts
  <2>3. \A n \in Nodes : late'[n] \subseteq HostCall
    BY <1>7
  <2>4. late' \in [Nodes -> SUBSET HostCall]
    BY <2>3 DEF TickHosts
  <2>5. QED
    BY <1>5, <2>1, <2>2, <2>4 DEF HostsTypeOK, ServiceTypeOK
<1>10. ASSUME NEW n \in Nodes
       PROVE  HostInv(n)' /\ CallsInv(n)'
  <2>1. HostInv(n) /\ CallsInv(n) /\ token[n].expired \in 0..(HeartbeatTTL + 2)
        /\ host[n].stamp \in Ages
    BY <1>1, NodeTypes, TTLIsNat DEF HostsInv
  <2>2. host'[n].remote /\ host'[n].sync \in {"node", "heartbeat", "instances", "beat"}
            => host'[n].stamp >= token'[n].expired - 1
    BY <1>2, <1>6, <2>1, OlderIsAge DEF HostInv
  <2>3. HostInv(n)'
    BY <1>6, <2>1, <2>2, ConstantsStay DEF HostInv, Unstarted
  <2>4. ASSUME NEW rpc \in late'[n]
        PROVE  LateInv(n, rpc)'
    <3>1. PICK c \in late[n] : /\ rpc.op = c.op /\ rpc.inst = c.inst /\ rpc.own = c.own
                               /\ c.op \in {"instance", "beat"} => rpc.age = Older(c.age)
      BY <1>7
    <3>2. LateInv(n, c) /\ c.age \in Ages /\ gone[n] \in Ages
      BY <1>1, <1>8, <2>1, NodeTypes, TTLIsNat DEF CallsInv
    <3>3. ~rpc.own /\ rpc.op \in {"instance", "beat"} => rpc.age >= gone'[n]
      BY <1>8, <3>1, <3>2, OlderIsAge DEF LateInv
    <3>4. host'[n].remote /\ rpc.op = "beat" => rpc.age >= token'[n].expired - 1
      BY <1>2, <1>6, <2>1, <3>1, <3>2, OlderIsAge DEF LateInv
    <3>5. (Unstarted(n)' <=> Unstarted(n)) /\ host'[n].remote = host[n].remote
      BY <1>6 DEF Unstarted
    <3>6. QED
      BY <3>1, <3>2, <3>3, <3>4, <3>5, ConstantsStay DEF LateInv
  <2>5. QED
    BY <2>3, <2>4 DEF CallsInv
<1>11. ASSUME NEW n \in Nodes
       PROVE  RecordsInv(n)'
  <2>1. ASSUME NEW i \in InstancesOf(n), i \in DOMAIN instances'
        PROVE  RecordInv(n, i)'
    <3>1. i \in DOMAIN instances /\ RecordInv(n, i)
      BY <1>0, <2>1 DEF RecordsInv, HostsInv
    <3>2. token[n].expired \in 0..(HeartbeatTTL + 2) /\ instances[i].age \in Ages
      BY <1>1, <3>1, NodeTypes, TTLIsNat
    <3>3. instances'[i].state = "ready" /\ ~instances'[i].own
              /\ (~instances'[i].overtook \/ Unstarted(n)') => instances'[i].age >= gone'[n]
      BY <1>3, <1>6, <1>8, <3>1, <3>2, OlderIsAge DEF RecordInv, Unstarted
    <3>4. instances'[i].state = "ready" /\ host'[n].remote
              => instances'[i].age >= token'[n].expired - 1
      BY <1>2, <1>3, <1>6, <3>1, <3>2, OlderIsAge DEF RecordInv
    <3>5. (Placed(n, i) => Placed(n, i)') /\ (Unstarted(n)' => Unstarted(n))
      BY <1>6 DEF Placed, Unstarted
    <3>6. \A rpc \in late'[n] : rpc.own /\ rpc.op = "beat" /\ i = rpc.inst
              => instances'[i].own \/ instances'[i].overtook
      BY <1>3, <1>7, <3>1 DEF RecordInv
    <3>7. QED
      BY <1>3, <1>6, <3>1, <3>3, <3>4, <3>5, <3>6 DEF RecordInv
  <2>2. QED
    BY <2>1, ConstantsStay DEF RecordsInv
<1>12. QED
  BY <1>9, <1>10, <1>11 DEF HostsInv

-----------------------------------------------------------------------------
LEMMA HostsInvariant == HostsSpec => []HostsInv
<1>1. InitHosts => HostsInv
  <2> SUFFICES ASSUME InitHosts PROVE HostsInv
    OBVIOUS
  <2>1. instances = << >> /\ nodes = << >> /\ DOMAIN instances = {} /\ DOMAIN nodes = {}
    BY DEF InitHosts, MembershipInit
  <2>2. PICK configured \in [Nodes -> BOOLEAN] : host = [n \in Nodes |-> Down(configured[n])]
    BY DEF InitHosts
  <2>3. ASSUME NEW n \in Nodes
        PROVE  /\ host[n] \in Host /\ host[n].main = "down" /\ host[n].sync = "idle"
               /\ host[n].remote = host[n].configured
               /\ host[n].hosted = {} /\ host[n].todo = {} /\ host[n].closing = {}
    <3>1. AnyInstance \in Instances \cup {AnyInstance} /\ configured[n] \in BOOLEAN
      OBVIOUS
    <3>2. QED
      BY <2>2, <3>1, ZeroIsAge DEF Down, Host, Main, Sync
  <2>4. EnrollmentTypeOK
    BY TTLIsNat DEF InitHosts, EnrollmentInit, EnrollmentTypeOK, NoToken,
                    Token
  <2>5. HostsTypeOK
    BY <2>1, <2>2, <2>3, <2>4, ZeroIsAge DEF HostsTypeOK, MembershipTypeOK, InitHosts
  <2>6. \A n \in Nodes : late[n] = {}
    BY DEF InitHosts
  <2>7. \A n \in Nodes : HostInv(n) /\ CallsInv(n) /\ RecordsInv(n)
    BY <2>1, <2>3, <2>6 DEF HostInv, CallsInv, RecordsInv
  <2>8. QED
    BY <2>5, <2>7 DEF HostsInv
<1>2. HostsInv /\ [NextHosts]_hostsVars => HostsInv'
  <2> SUFFICES ASSUME HostsInv, [NextHosts]_hostsVars PROVE HostsInv'
    OBVIOUS
  <2>1. CASE UNCHANGED hostsVars
    <3>1. UNCHANGED <<nodes, instances, token, attested, host, late, gone>> /\ ServiceTypeOK
      BY <2>1 DEF hostsVars, service, membership, HostsInv, HostsTypeOK, ServiceTypeOK
    <3>2. QED
      BY <3>1, QuietService, ElsewhereStep
  <2>2. ASSUME NEW n \in Nodes, HostStep(n)
        PROVE  HostsInv'
    BY <2>2, StartLocalStep, StartWithLeaderStep, StartRemoteStep, StartFailsStep, StartAgentStep,
       StartAgentFailsStep, BeginSyncStep,
       SyncAttestStep, SyncRegisterNodeStep, SyncHeartbeatNodeStep, SyncRegisterInstanceStep,
       SyncHeartbeatInstanceStep, BeginShutdownStep, ShutdownRemoveInstanceStep,
       ShutdownMarkNodeStep, EndStep
       DEF HostStep
  <2>3. QED
    BY <2>1, <2>2, LateCallStep, LoseLateCallStep, IssueStep, LookupStep, TickStep DEF NextHosts
<1>3. QED
  BY <1>1, <1>2, PTL DEF HostsSpec

(* The variables of hosts, service and store keep their types.              *)
THEOREM HostsTypeCorrect == HostsSpec => []HostsTypeOK
<1>1. HostsInv => HostsTypeOK
  BY DEF HostsInv
<1>2. QED
  BY <1>1, HostsInvariant, PTL

(* Nothing resolves to a process that has been gone for more than the TTL,  *)
(* whatever of its calls arrives after a restart, but for a registration    *)
(* that arrives while the next process runs; nor to a remote node whose     *)
(* attestation ended that long ago.  A record that is not its process's own *)
(* is at least as old as the end of that process, and what is sent for an   *)
(* instance is no fresher than the attestation it was sent with.            *)
THEOREM LostResolvesNowhere == HostsSpec => []LostIsUnresolvable
<1>1. ASSUME HostsInv PROVE LostIsUnresolvable
  <2> SUFFICES ASSUME NEW i \in Resolved
               PROVE  /\ gone[NodeOf[i]] > HeartbeatTTL
                             => \/ instances[i].own
                                \/ instances[i].overtook /\ host[NodeOf[i]].main # "down"
                      /\ host[NodeOf[i]].remote => token[NodeOf[i]].expired <= HeartbeatTTL + 1
    BY DEF LostIsUnresolvable
  <2>1. i \in Routable
    BY DEF Resolved, Resolvable, Selectable
  <2>2. MembershipTypeOK /\ HostsTypeOK
    BY <1>1 DEF HostsInv, HostsTypeOK
  <2>3. i \in DOMAIN instances /\ i \in Instances /\ NodeOf[i] \in Nodes
        /\ i \in InstancesOf(NodeOf[i])
    BY <2>1, <2>2, TTLIsNat DEF Routable, MembershipTypeOK, InstancesOf
  <2>4. instances[i].age \in 0..(HeartbeatTTL + 1) /\ instances[i] \in InstanceRecord
        /\ gone[NodeOf[i]] \in 0..(HeartbeatTTL + 1)
        /\ token[NodeOf[i]].expired \in 0..(HeartbeatTTL + 2)
    BY <2>2, <2>3, NodeTypes
  <2>5. instances[i].state = "ready" /\ ~InstanceExpired(i)
    BY <2>1, <2>3, <2>4
       DEF Routable, LiveInstances, InstanceRecord
  <2>6. instances[i].age <= HeartbeatTTL
    BY <2>4, <2>5, TTLIsNat DEF InstanceExpired
  <2>7. RecordInv(NodeOf[i], i)
    BY <1>1, <2>3 DEF HostsInv, RecordsInv
  <2>8. gone[NodeOf[i]] > HeartbeatTTL
            => \/ instances[i].own
               \/ instances[i].overtook /\ host[NodeOf[i]].main # "down"
    BY <2>4, <2>5, <2>6, <2>7, TTLIsNat DEF RecordInv, Unstarted
  <2>9. host[NodeOf[i]].remote => token[NodeOf[i]].expired <= HeartbeatTTL + 1
    BY <2>4, <2>5, <2>6, <2>7, TTLIsNat DEF RecordInv
  <2>10. QED
    BY <2>8, <2>9
<1>2. QED
  BY <1>1, HostsInvariant, PTL

(* No heartbeat that is still under way brings back what an embedded host   *)
(* has withdrawn.                                                           *)
THEOREM WithdrawnForGood == HostsSpec => []WithdrawnStaysWithdrawn
<1>1. HostsInv => WithdrawnStaysWithdrawn
  BY DEF HostsInv, RecordsInv, RecordInv, Placed, WithdrawnStaysWithdrawn
<1>2. QED
  BY <1>1, HostsInvariant, PTL

-----------------------------------------------------------------------------
(* The certificates of a shared directory, for any number of processes, any *)
(* lifetimes in proportion and as many failed renewals as there is room     *)
(* for.                                                                     *)

Dirs == [cert : Nat, key : Nat, retired : SUBSET [ca : Nat, after : Nat], whole : BOOLEAN,
         expires : Seq(Nat)]

CertStages == {"down", "starting", "waiting", "renewing", "retrying"}

CertType ==
    /\ now \in Nat
    /\ dir \in Dirs /\ dir.cert <= Len(dir.expires)
    /\ state \in [Processes -> CertStages]
    /\ current \in [Processes -> [ca : Nat, until : Nat]]
    /\ due \in [Processes -> Nat]
    /\ taken \in [Processes -> [ca : Nat, at : Nat]]
    /\ errors \in 0 .. MaxErrors

IsRoom(room) ==
    /\ room \in [0 .. MaxErrors -> 1 .. Certs!Margin(LeafTTL)]
    /\ \A n \in 1 .. MaxErrors : /\ RetryDelay <= room[n - 1]
                                 /\ room[n] <= Certs!Margin(room[n - 1] - RetryDelay)

Room == CHOOSE room : IsRoom(room)

\* A leaf of the authority ca is accepted until it expires.
TrustedIn(d, cut, ca, until) ==
    /\ ca \in 1 .. Len(d.expires)
    /\ until < d.expires[ca]
    /\ \/ ca = d.cert \/ ca \in cut
       \/ \E r \in d.retired : r.ca = ca /\ until < r.after

Signs(p) == state[p] \in {"starting", "renewing"}
Serves(p) == state[p] \in {"waiting", "renewing", "retrying"}

\* A leaf is renewed in time, and signed with what was just taken.
TimeOf(p) ==
    /\ current[p] # Certs!None => Serves(p)
    /\ Signs(p) => taken[p].at <= now /\ now <= taken[p].at + 1
    /\ Serves(p) => now <= current[p].until /\ current[p].until <= now + LeafTTL
    /\ state[p] = "renewing" => taken[p].at < current[p].until
    /\ state[p] = "waiting" => now <= due[p] /\ due[p] + Room[errors] <= current[p].until
    /\ state[p] = "retrying" => /\ errors > 0 /\ now <= due[p]
                                /\ due[p] + Room[errors - 1] <= current[p].until + RetryDelay

TrustOf(p) ==
    /\ Signs(p) => TrustedIn(dir, lost, taken[p].ca, taken[p].at + 1 + LeafTTL)
    /\ Serves(p) => TrustedIn(dir, lost, current[p].ca, current[p].until)

\* Files that make no sense stay so, and nothing is renewed.
CertInv == CertType /\ (Certs!Usable(dir) => \A p \in Processes : TimeOf(p) /\ TrustOf(p))

LEMMA CertBounds ==
    /\ LeafTTL \in Nat /\ ShortTTL \in Nat /\ RefreshMargin \in Nat /\ RetryDelay \in Nat
    /\ Slack \in Nat /\ CALifetime \in Nat /\ RotationWindow \in Nat /\ MaxErrors \in Nat
    /\ ShortTTL \div 2 <= RefreshMargin /\ RefreshMargin <= ShortTTL
    /\ RotationWindow > LeafTTL /\ CALifetime > LeafTTL + 1 /\ Slack > 1
  BY CertificatesAssumption DEF Certs!CertificatesAssumption

LEMMA MarginFits ==
    ASSUME NEW ttl \in Nat
    PROVE  /\ Certs!Margin(ttl) \in Nat /\ Certs!Margin(ttl) <= ttl
           /\ \A more \in Nat : ttl <= more => Certs!Margin(ttl) <= Certs!Margin(more)
<1>1. /\ ttl \div 2 \in Nat /\ ttl \div 2 <= ttl
      /\ \A s, t \in Nat : s <= t => s \div 2 <= t \div 2
  OBVIOUS
<1>2. Certs!Margin(ttl) \in Nat /\ Certs!Margin(ttl) <= ttl
  BY <1>1, CertBounds DEF Certs!Margin
<1>3. ASSUME NEW more \in Nat, ttl <= more PROVE Certs!Margin(ttl) <= Certs!Margin(more)
  <2>1. ttl \div 2 <= more \div 2
    BY <1>1, <1>3
  <2>2. ttl <= ShortTTL => ttl \div 2 <= RefreshMargin
    BY <1>1, CertBounds
  <2> QED BY <1>3, <2>1, <2>2, CertBounds DEF Certs!Margin
<1> QED BY <1>2, <1>3

(* The room there is for failed renewals never grows.                      *)
LEMMA RoomShrinks ==
    /\ Room \in [0 .. MaxErrors -> 1 .. Certs!Margin(LeafTTL)] /\ Certs!Margin(LeafTTL) \in Nat
    /\ \A n \in 1 .. MaxErrors : /\ RetryDelay <= Room[n - 1] /\ Room[n] <= Room[n - 1]
                                 /\ Room[n] <= Certs!Margin(Room[n - 1] - RetryDelay)
<1>1. \E room : IsRoom(room)
  BY CertificatesAssumption DEF Certs!CertificatesAssumption, Certs!RoomToRetry, IsRoom
<1>2. IsRoom(Room) /\ Certs!Margin(LeafTTL) \in Nat
  BY <1>1, MarginFits, CertBounds DEF Room
<1>3. ASSUME NEW n \in 1 .. MaxErrors PROVE Room[n] <= Room[n - 1]
  <2>1. /\ n - 1 \in 0 .. MaxErrors /\ n \in 0 .. MaxErrors
        /\ Room[n - 1] \in Nat /\ Room[n] \in Nat /\ RetryDelay <= Room[n - 1]
        /\ Room[n] <= Certs!Margin(Room[n - 1] - RetryDelay)
    BY <1>2, CertBounds DEF IsRoom
  <2>2. Room[n - 1] - RetryDelay \in Nat /\ Room[n - 1] - RetryDelay <= Room[n - 1]
    BY <2>1, CertBounds
  <2>3. /\ Certs!Margin(Room[n - 1] - RetryDelay) <= Room[n - 1] - RetryDelay
        /\ Certs!Margin(Room[n - 1] - RetryDelay) \in Nat
    BY <2>2, MarginFits
  <2> QED BY <2>1, <2>2, <2>3
<1> QED BY <1>2, <1>3 DEF IsRoom

\* At any number of failures there is some room left, and before the last for the delay.
LEMMA RoomNow ==
    ASSUME CertType
    PROVE  /\ errors \in Nat /\ Room[errors] \in Nat /\ 1 <= Room[errors]
           /\ Room[errors] <= Certs!Margin(LeafTTL)
           /\ errors > 0 => /\ errors - 1 \in Nat /\ Room[errors - 1] \in Nat
                            /\ RetryDelay <= Room[errors - 1]
                            /\ Room[errors] <= Room[errors - 1]
                            /\ Room[errors] <= Certs!Margin(Room[errors - 1] - RetryDelay)
<1>1. errors \in 0 .. MaxErrors /\ errors \in Nat /\ errors <= MaxErrors
  BY CertBounds DEF CertType
<1>2. /\ Room[errors] \in Nat /\ 1 <= Room[errors] /\ Room[errors] <= Certs!Margin(LeafTTL)
  BY <1>1, RoomShrinks, CertBounds
<1>3. errors > 0 => errors \in 1 .. MaxErrors /\ errors - 1 \in 0 .. MaxErrors
  BY <1>1, CertBounds
<1>4. \A n \in 0 .. MaxErrors : Room[n] \in Nat
  BY RoomShrinks, CertBounds
<1> QED BY <1>1, <1>2, <1>3, <1>4, RoomShrinks

-----------------------------------------------------------------------------
(* The issuer's files.                                                     *)
LEMMA NewActive ==
    ASSUME now \in Nat, NEW d \in Dirs
    PROVE  /\ Certs!NewActiveCA(d) \in Dirs
           /\ Certs!NewActiveCA(d).cert = Len(d.expires) + 1
           /\ Certs!NewActiveCA(d).expires = Append(d.expires, now + CALifetime)
           /\ Certs!NewActiveCA(d).retired = d.retired
<1>1. /\ now + CALifetime \in Nat /\ d.expires \in Seq(Nat)
      /\ Append(d.expires, now + CALifetime) \in Seq(Nat) /\ Len(d.expires) + 1 \in Nat
  BY CertBounds, AppendProperties, LenProperties DEF Dirs
<1> QED BY <1>1 DEF Certs!NewActiveCA, Certs!NewClusterCA, Dirs

\* Authorities are added, and none is renumbered.
Grown(d, e) == /\ Len(d.expires) <= Len(e.expires)
               /\ \A i \in 1 .. Len(d.expires) : e.expires[i] = d.expires[i]

LEMMA GrownByNew ==
    ASSUME now \in Nat, NEW d \in Dirs
    PROVE  /\ Grown(d, Certs!NewActiveCA(d))
           /\ Certs!NewActiveCA(d).cert \in 1 .. Len(Certs!NewActiveCA(d).expires)
           /\ Certs!NewActiveCA(d).expires[Certs!NewActiveCA(d).cert] = now + CALifetime
<1>1. d.expires \in Seq(Nat) /\ now + CALifetime \in Nat
  BY CertBounds DEF Dirs
<1>2. /\ Len(Append(d.expires, now + CALifetime)) = Len(d.expires) + 1 /\ Len(d.expires) \in Nat
      /\ \A i \in 1 .. Len(d.expires) : Append(d.expires, now + CALifetime)[i] = d.expires[i]
      /\ Append(d.expires, now + CALifetime)[Len(d.expires) + 1] = now + CALifetime
  BY <1>1, AppendProperties, LenProperties
<1> QED BY <1>2, NewActive DEF Grown

LEMMA GrownOn ==
    ASSUME NEW d \in Dirs, NEW e \in Dirs, NEW f, Grown(d, e), Grown(e, f) PROVE Grown(d, f)
<1>1. Len(d.expires) \in Nat /\ Len(e.expires) \in Nat
  BY LenProperties DEF Dirs
<1>2. \A i \in 1 .. Len(d.expires) : i \in 1 .. Len(e.expires)
  BY <1>1 DEF Grown
<1>3. f = f /\ Len(e.expires) <= Len(f.expires) /\ Len(d.expires) <= Len(e.expires)
  BY DEF Grown
<1> QED BY <1>1, <1>2, <1>3 DEF Grown

(* A call of the issuer leaves an authority that outlives whatever it signs, *)
(* and keeps or retires the one before.                                      *)
LEMMA Ensured ==
    ASSUME now \in Nat, NEW d \in Dirs, d.cert <= Len(d.expires),
           NEW e, e = Certs!EnsureSharedIssuerState(d)
    PROVE  /\ e \in Dirs /\ e.cert \in 1 .. Len(e.expires) /\ Grown(d, e)
           /\ now + 1 + LeafTTL < e.expires[e.cert]
           /\ \A r \in d.retired : now < r.after => r \in e.retired
           /\ d.cert = 0 \/ e.cert = d.cert \/ d.expires[d.cert] <= now
                 \/ [ca |-> d.cert, after |-> now + LeafTTL + Slack] \in e.retired
<1> DEFINE c == Certs!LoadOrCreateActiveCA(d)
           b == IF Certs!ShouldRotate(c) THEN Certs!NewActiveCA(c) ELSE c
           retiring == IF Certs!ShouldRotate(c) /\ c.expires[c.cert] > now
                       THEN {[ca |-> c.cert, after |-> now + (LeafTTL + Slack)]} ELSE {}
<1>1. /\ c \in Dirs /\ c.cert \in 1 .. Len(c.expires) /\ Grown(d, c)
      /\ d.cert # 0 => c = d
  <2>1. CASE d.cert = 0
    BY <2>1, NewActive, GrownByNew DEF Certs!LoadOrCreateActiveCA
  <2>2. CASE d.cert # 0
    <3>1. c = d
      BY <2>2 DEF Certs!LoadOrCreateActiveCA
    <3>2. d.cert \in Nat /\ Len(d.expires) \in Nat
      BY LenProperties DEF Dirs
    <3>3. d.cert \in 1 .. Len(d.expires)
      BY <2>2, <3>2
    <3> QED BY <3>1, <3>2, <3>3 DEF Grown
  <2> QED BY <2>1, <2>2
<1> HIDE DEF c
<1>2. c.expires[c.cert] \in Nat
  BY <1>1, ElementOfSeq DEF Dirs
<1>3. /\ b \in Dirs /\ b.cert \in 1 .. Len(b.expires) /\ Grown(d, b)
      /\ now + 1 + LeafTTL < b.expires[b.cert]
      /\ b.cert = c.cert \/ Certs!ShouldRotate(c)
  <2>1. CASE Certs!ShouldRotate(c)
    <3>1. b = Certs!NewActiveCA(c)
      BY <2>1
    <3>2. b \in Dirs /\ b.cert \in 1 .. Len(b.expires) /\ Grown(c, b)
          /\ b.expires[b.cert] = now + CALifetime
      BY <1>1, <3>1, NewActive, GrownByNew
    <3>3. now + 1 + LeafTTL < now + CALifetime
      BY CertBounds
    <3>4. Grown(d, b)
      BY <1>1, <3>2, GrownOn
    <3> QED BY <2>1, <3>2, <3>3, <3>4
  <2>2. CASE ~Certs!ShouldRotate(c)
    <3>1. b = c
      BY <2>2
    <3>2. ~(c.expires[c.cert] - now <= RotationWindow)
      BY <2>2 DEF Certs!ShouldRotate
    <3>3. now + 1 + LeafTTL < c.expires[c.cert]
      BY <1>2, <3>2, CertBounds
    <3> QED BY <1>1, <3>1, <3>3
  <2> QED BY <2>1, <2>2
<1> HIDE DEF b
<1>4. e = [b EXCEPT !.retired = {r \in d.retired : r.after > now} \cup retiring]
  BY DEF b, c, Certs!EnsureSharedIssuerState, Certs!PruneRetiredRoots, Certs!RetiredRootTTL
<1>5. retiring \subseteq [ca : Nat, after : Nat]
  BY <1>1, CertBounds DEF Dirs
<1>6. d.retired \subseteq [ca : Nat, after : Nat]
  BY DEF Dirs
<1> HIDE DEF retiring
<1>7. /\ e.cert = b.cert /\ e.expires = b.expires
      /\ e.retired = {r \in d.retired : r.after > now} \cup retiring
      /\ e \in Dirs
  BY <1>3, <1>4, <1>5, <1>6 DEF Dirs
<1>8. Grown(d, e)
  BY <1>3, <1>7 DEF Grown
<1>9. ASSUME NEW r \in d.retired, now < r.after PROVE r \in e.retired
  <2>1. r.after \in Nat
    BY <1>6
  <2> QED BY <1>7, <1>9, <2>1
<1>10. ASSUME d.cert # 0, e.cert # d.cert, ~(d.expires[d.cert] <= now)
       PROVE  [ca |-> d.cert, after |-> now + LeafTTL + Slack] \in e.retired
  <2>1. c = d /\ Certs!ShouldRotate(c) /\ c.expires[c.cert] > now
    BY <1>1, <1>2, <1>3, <1>7, <1>10
  <2>2. now + (LeafTTL + Slack) = now + LeafTTL + Slack
    BY CertBounds
  <2>3. retiring = {[ca |-> c.cert, after |-> now + (LeafTTL + Slack)]}
    BY <2>1 DEF retiring
  <2> QED BY <1>7, <2>1, <2>2, <2>3
<1> QED BY <1>3, <1>7, <1>8, <1>9, <1>10

(* What a call of the issuer may do to the files, whole or cut off.        *)
FilesStep == \/ UNCHANGED <<dir, lost>>
             \/ /\ Certs!Usable(dir) /\ dir' = Certs!EnsureSharedIssuerState(dir)
                /\ UNCHANGED lost
             \/ /\ Certs!Usable(dir) /\ dir' \in Certs!Interrupted(dir)
                /\ lost' = IF dir.cert # dir'.cert /\ dir.cert # 0
                           THEN lost \cup {dir.cert} ELSE lost

LEMMA FilesType ==
    ASSUME CertType, FilesStep
    PROVE  /\ dir' \in Dirs /\ dir'.cert <= Len(dir'.expires) /\ Grown(dir, dir')
           /\ Certs!Usable(dir)' => Certs!Usable(dir)
<1> DEFINE e == Certs!EnsureSharedIssuerState(dir)
<1>1. now \in Nat /\ dir \in Dirs /\ dir.cert <= Len(dir.expires)
  BY DEF CertType
<1>2. e \in Dirs /\ e.cert \in 1 .. Len(e.expires) /\ Grown(dir, e)
  BY <1>1, Ensured
<1> HIDE DEF e
<1>3. CASE UNCHANGED <<dir, lost>>
  BY <1>1, <1>3 DEF Grown, Certs!Usable
<1>4. CASE Certs!Usable(dir) /\ dir' = e
  BY <1>2, <1>4
<1>5. CASE Certs!Usable(dir) /\ dir' \in Certs!Interrupted(dir)
  <2>1. dir' \in {[e EXCEPT !.key = dir.key, !.retired = dir.retired],
                  [e EXCEPT !.retired = dir.retired], [e EXCEPT !.whole = FALSE]}
    BY <1>5 DEF Certs!Interrupted, e
  <2>2. dir' \in Dirs /\ dir'.cert = e.cert /\ dir'.expires = e.expires
    BY <1>1, <1>2, <2>1 DEF Dirs
  <2> QED BY <1>2, <1>5, <2>2 DEF Grown
<1> QED BY <1>3, <1>4, <1>5 DEF FilesStep, e

(* A leaf that is trusted stays so until it expires, whoever rotates or is  *)
(* cut off.                                                                 *)
LEMMA TrustKept ==
    ASSUME CertType, FilesStep, Certs!Usable(dir)', NEW ca, NEW until \in Nat,
           TrustedIn(dir, lost, ca, until), now <= until, until <= now + 1 + LeafTTL
    PROVE  TrustedIn(dir', lost', ca, until)
<1> DEFINE e == Certs!EnsureSharedIssuerState(dir)
<1>1. now \in Nat /\ dir \in Dirs /\ dir.cert <= Len(dir.expires)
  BY DEF CertType
<1>2. /\ e \in Dirs /\ e.cert \in 1 .. Len(e.expires) /\ Grown(dir, e)
      /\ \A r \in dir.retired : now < r.after => r \in e.retired
      /\ dir.cert = 0 \/ e.cert = dir.cert \/ dir.expires[dir.cert] <= now
            \/ [ca |-> dir.cert, after |-> now + LeafTTL + Slack] \in e.retired
  BY <1>1, Ensured
<1> HIDE DEF e
<1>3. /\ ca \in 1 .. Len(dir.expires) /\ Len(dir.expires) \in Nat /\ Len(dir'.expires) \in Nat
      /\ dir.expires[ca] \in Nat /\ until < dir.expires[ca] /\ Grown(dir, dir')
  <2>1. dir.expires \in Seq(Nat) /\ dir'.expires \in Seq(Nat)
    BY <1>1, FilesType DEF Dirs
  <2> QED BY <2>1, FilesType, LenProperties, ElementOfSeq DEF TrustedIn
<1>4. ca \in 1 .. Len(dir'.expires) /\ dir'.expires[ca] = dir.expires[ca]
  BY <1>3 DEF Grown
<1>5. CASE UNCHANGED <<dir, lost>>
  BY <1>5 DEF TrustedIn
<1>6. CASE dir' = e /\ UNCHANGED lost
  <2>1. CASE ca = dir.cert
    <3>1. until < now + LeafTTL + Slack
      BY <1>1, CertBounds
    <3>2. \/ ca = e.cert
          \/ [ca |-> ca, after |-> now + LeafTTL + Slack] \in e.retired
      BY <1>1, <1>2, <1>3, <2>1
    <3> QED BY <1>3, <1>4, <1>6, <3>1, <3>2 DEF TrustedIn
  <2>2. ASSUME NEW r \in dir.retired, r.ca = ca, until < r.after
        PROVE  \E s \in e.retired : s.ca = ca /\ until < s.after
    <3>1. r.after \in Nat
      BY <1>1 DEF Dirs
    <3>2. r \in e.retired
      BY <1>1, <1>2, <2>2, <3>1
    <3> QED BY <2>2, <3>2
  <2> QED BY <1>3, <1>4, <1>6, <2>1, <2>2 DEF TrustedIn
<1>7. CASE /\ Certs!Usable(dir) /\ dir' \in Certs!Interrupted(dir)
           /\ lost' = IF dir.cert # dir'.cert /\ dir.cert # 0
                      THEN lost \cup {dir.cert} ELSE lost
  <2>1. dir' \in {[e EXCEPT !.key = dir.key, !.retired = dir.retired],
                  [e EXCEPT !.retired = dir.retired], [e EXCEPT !.whole = FALSE]}
    BY <1>7 DEF Certs!Interrupted, e
  <2>2. dir' # [e EXCEPT !.whole = FALSE]
    BY <1>2 DEF Certs!Usable, Dirs
  <2>3. dir'.retired = dir.retired /\ lost \subseteq lost'
    BY <1>2, <1>7, <2>1, <2>2 DEF Dirs
  <2>4. ca = dir.cert => ca = dir'.cert \/ ca \in lost'
    BY <1>3, <1>7
  <2> QED BY <1>3, <1>4, <2>3, <2>4 DEF TrustedIn
<1> QED BY <1>5, <1>6, <1>7 DEF FilesStep, e

-----------------------------------------------------------------------------
(* The processes.                                                          *)
LEMMA DueFits ==
    ASSUME now \in Nat, NEW until \in Nat
    PROVE  /\ Certs!DueOf(until) \in Nat /\ now <= Certs!DueOf(until)
           /\ now < until => Certs!DueOf(until) + Certs!Margin(until - now) = until
<1>1. CASE until <= now
  BY <1>1 DEF Certs!DueOf
<1>2. CASE ~(until <= now)
  <2>1. until - now \in Nat
    BY <1>2
  <2>2. Certs!Margin(until - now) \in Nat /\ Certs!Margin(until - now) <= until - now
    BY <2>1, MarginFits
  <2>3. Certs!DueOf(until) = until - Certs!Margin(until - now)
    BY <1>2 DEF Certs!DueOf
  <2> QED BY <1>2, <2>2, <2>3
<1> QED BY <1>1, <1>2

LEMMA OfProcess ==
    ASSUME CertType, NEW p \in Processes
    PROVE  /\ state[p] \in CertStages /\ due[p] \in Nat
           /\ current[p].ca \in Nat /\ current[p].until \in Nat
           /\ taken[p].ca \in Nat /\ taken[p].at \in Nat
  BY DEF CertType

\* What other processes may do meanwhile.
Meanwhile == /\ FilesStep /\ now' = now
             /\ errors' \in {errors, errors + 1} /\ errors' \in 0 .. MaxErrors

LEMMA Elsewhere ==
    ASSUME CertInv, Meanwhile, Certs!Usable(dir)', NEW p \in Processes,
           UNCHANGED <<state[p], current[p], due[p], taken[p]>>
    PROVE  TimeOf(p)' /\ TrustOf(p)'
<1>1. CertType /\ TimeOf(p) /\ TrustOf(p)
  BY FilesType DEF CertInv, Meanwhile
<1>2. /\ now \in Nat /\ due[p] \in Nat /\ current[p].until \in Nat /\ taken[p].at \in Nat
      /\ errors \in Nat /\ errors' \in Nat /\ errors <= errors'
  <2>1. errors \in 0 .. MaxErrors /\ now \in Nat
    BY <1>1 DEF CertType
  <2> QED BY <1>1, <2>1, CertBounds, OfProcess DEF Meanwhile
<1>3. /\ Room[errors] \in Nat /\ Room[errors'] \in Nat /\ Room[errors'] <= Room[errors]
      /\ errors > 0 => /\ Room[errors - 1] \in Nat /\ Room[errors' - 1] \in Nat
                       /\ Room[errors' - 1] <= Room[errors - 1]
  <2>1. CASE errors' = errors
    BY <1>1, <2>1, RoomNow
  <2>2. CASE errors' = errors + 1
    <3>1. errors' \in 1 .. MaxErrors /\ errors' - 1 = errors
      BY <1>2, <2>2, CertBounds DEF Meanwhile
    <3>2. Room[errors'] <= Room[errors]
      BY <3>1, RoomShrinks
    <3>3. errors' \in 0 .. MaxErrors
      BY DEF Meanwhile
    <3>4. Room[errors'] \in Nat
      BY <3>3, RoomShrinks, CertBounds
    <3> QED BY <1>1, <3>1, <3>2, <3>4, RoomNow
  <2> QED BY <2>1, <2>2 DEF Meanwhile
<1>4. TimeOf(p)'
  <2>1. Serves(p)' = Serves(p) /\ Signs(p)' = Signs(p)
    BY DEF Serves, Signs
  <2>2. now' = now
    BY DEF Meanwhile
  <2>3. state[p] = "waiting" => due[p] + Room[errors'] <= current[p].until
    BY <1>1, <1>2, <1>3 DEF TimeOf
  <2>4. state[p] = "retrying" => due[p] + Room[errors' - 1] <= current[p].until + RetryDelay
    BY <1>1, <1>2, <1>3, CertBounds DEF TimeOf
  <2>5. errors > 0 => errors' > 0
    BY <1>2
  <2> QED BY <1>1, <2>1, <2>2, <2>3, <2>4, <2>5 DEF TimeOf
<1>5. TrustOf(p)'
  <2>1. Serves(p)' = Serves(p) /\ Signs(p)' = Signs(p)
    BY DEF Serves, Signs
  <2>2. ASSUME Signs(p) PROVE TrustedIn(dir', lost', taken[p].ca, taken[p].at + 1 + LeafTTL)
    <3>1. /\ taken[p].at + 1 + LeafTTL \in Nat /\ now <= taken[p].at + 1 + LeafTTL
          /\ taken[p].at + 1 + LeafTTL <= now + 1 + LeafTTL
      BY <1>1, <1>2, <2>2, CertBounds DEF TimeOf
    <3>2. TrustedIn(dir, lost, taken[p].ca, taken[p].at + 1 + LeafTTL)
      BY <1>1, <2>2 DEF TrustOf
    <3> QED BY <1>1, <3>1, <3>2, TrustKept DEF Meanwhile
  <2>3. ASSUME Serves(p) PROVE TrustedIn(dir', lost', current[p].ca, current[p].until)
    <3>1. /\ now <= current[p].until /\ current[p].until <= now + 1 + LeafTTL
      BY <1>1, <1>2, <2>3, CertBounds DEF TimeOf
    <3>2. TrustedIn(dir, lost, current[p].ca, current[p].until)
      BY <1>1, <2>3 DEF TrustOf
    <3> QED BY <1>1, <1>2, <3>1, <3>2, TrustKept DEF Meanwhile
  <2> QED BY <2>1, <2>2, <2>3 DEF TrustOf
<1> QED BY <1>4, <1>5

(* A step of one process keeps the invariant when its own part is kept.    *)
LEMMA OneProcess ==
    ASSUME CertInv, Meanwhile, NEW p \in Processes,
           NEW s \in CertStages, state' = [state EXCEPT ![p] = s],
           NEW c \in [ca : Nat, until : Nat], current' = [current EXCEPT ![p] = c],
           NEW d \in Nat, due' = [due EXCEPT ![p] = d],
           NEW t \in [ca : Nat, at : Nat], taken' = [taken EXCEPT ![p] = t],
           Certs!Usable(dir)' => TimeOf(p)' /\ TrustOf(p)'
    PROVE  CertInv'
<1>1. CertType'
  BY FilesType DEF CertInv, CertType, Meanwhile
<1>2. ASSUME Certs!Usable(dir)', NEW q \in Processes PROVE TimeOf(q)' /\ TrustOf(q)'
  <2>1. CASE q = p
    BY <1>2, <2>1
  <2>2. CASE q # p
    <3>1. UNCHANGED <<state[q], current[q], due[q], taken[q]>>
      BY <2>2 DEF CertInv, CertType
    <3> QED BY <1>2, <3>1, Elsewhere
  <2> QED BY <2>1, <2>2
<1> QED BY <1>1, <1>2 DEF CertInv

LEMMA SameFiles == CertType /\ UNCHANGED <<dir, lost, now, errors>> => Meanwhile
  BY DEF CertType, Meanwhile, FilesStep

(* The authority of the files is read, and replaced when it is due.        *)
LEMMA TakeKeeps ==
    ASSUME CertInv, NEW p \in Processes, NEW to \in {"starting", "renewing"},
           Certs!Take(p, to), UNCHANGED <<now, current, due, lost, errors>>,
           current[p] # Certs!None => to = "renewing",
           to = "renewing" => state[p] = "waiting" /\ due[p] <= now
    PROVE  CertInv'
<1>1. CertType /\ now \in Nat /\ dir \in Dirs /\ dir.cert <= Len(dir.expires)
  BY DEF CertInv, CertType
<1>2. /\ Certs!Usable(dir) /\ dir' = Certs!EnsureSharedIssuerState(dir)
      /\ taken' = [taken EXCEPT ![p] = [ca |-> dir'.cert, at |-> now]]
      /\ state' = [state EXCEPT ![p] = to]
  BY DEF Certs!Take
<1>3. Meanwhile
  BY <1>1, <1>2 DEF Meanwhile, FilesStep, CertType
<1>4. /\ dir' \in Dirs /\ dir'.cert \in 1 .. Len(dir'.expires)
      /\ now + 1 + LeafTTL < dir'.expires[dir'.cert]
  BY <1>1, <1>2, Ensured
<1>5. [ca |-> dir'.cert, at |-> now] \in [ca : Nat, at : Nat]
  BY <1>1, <1>4 DEF Dirs
<1>6. /\ state'[p] = to /\ taken'[p] = [ca |-> dir'.cert, at |-> now]
      /\ current'[p] = current[p] /\ due'[p] = due[p]
      /\ current' = [current EXCEPT ![p] = current[p]] /\ due' = [due EXCEPT ![p] = due[p]]
      /\ to \in CertStages /\ current[p] \in [ca : Nat, until : Nat] /\ due[p] \in Nat
  BY <1>1, <1>2 DEF CertType, CertStages
<1>7. TimeOf(p) /\ TrustOf(p)
  BY <1>2 DEF CertInv
<1>8. to = "renewing" => now < current[p].until /\ current[p].until <= now + LeafTTL
  <2> SUFFICES ASSUME to = "renewing"
               PROVE  now < current[p].until /\ current[p].until <= now + LeafTTL
    OBVIOUS
  <2>1. Serves(p)
    BY DEF Serves
  <2>2. /\ due[p] \in Nat /\ current[p].until \in Nat
        /\ Room[errors] \in Nat /\ 1 <= Room[errors]
    BY <1>1, OfProcess, RoomNow
  <2> QED BY <1>1, <1>7, <2>1, <2>2 DEF TimeOf
<1> SUFFICES ASSUME Certs!Usable(dir)' PROVE TimeOf(p)' /\ TrustOf(p)'
  BY <1>2, <1>3, <1>5, <1>6, OneProcess
<1>9. TimeOf(p)'
  <2>1. Serves(p)' <=> to = "renewing"
    BY <1>6 DEF Serves
  <2>2. /\ taken'[p].at = now /\ now' = now
    BY <1>6
  <2>3. current[p].until \in Nat
    BY <1>1, OfProcess
  <2> QED BY <1>1, <1>6, <1>8, <2>1, <2>2, <2>3 DEF TimeOf
<1>10. TrustOf(p)'
  <2>1. TrustedIn(dir', lost', taken'[p].ca, taken'[p].at + 1 + LeafTTL)
    BY <1>4, <1>6 DEF TrustedIn
  <2>2. ASSUME Serves(p)' PROVE TrustedIn(dir', lost', current'[p].ca, current'[p].until)
    <3>1. to = "renewing" /\ Serves(p)
      BY <1>6, <2>2 DEF Serves
    <3>2. TrustedIn(dir, lost, current[p].ca, current[p].until)
      BY <1>7, <3>1 DEF TrustOf
    <3>3. Certs!Usable(dir)' => TrustedIn(dir', lost', current[p].ca, current[p].until)
      <4>1. current[p].until \in Nat /\ current[p].until <= now + 1 + LeafTTL
        BY <1>1, <1>8, <3>1, OfProcess, CertBounds
      <4> QED BY <1>1, <1>3, <1>8, <3>1, <3>2, <4>1, TrustKept DEF Meanwhile
    <3> QED BY <1>6, <3>3
  <2> QED BY <2>1, <2>2 DEF TrustOf
<1> QED BY <1>9, <1>10

LEMMA TrustShorter ==
    ASSUME NEW d \in Dirs, NEW cut, NEW ca, NEW until \in Nat, NEW sooner \in Nat,
           sooner <= until, TrustedIn(d, cut, ca, until)
    PROVE  TrustedIn(d, cut, ca, sooner)
<1>1. d.expires[ca] \in Nat /\ \A r \in d.retired : r.after \in Nat
  BY ElementOfSeq DEF Dirs, TrustedIn
<1> QED BY <1>1 DEF TrustedIn

(* A leaf that was just signed lives for its time, and has its authority.  *)
LEMMA SignKeeps == ASSUME CertInv, NEW p \in Processes, Certs!Sign(p) PROVE CertInv'
<1> DEFINE until == now + LeafTTL
           leaf == [ca |-> taken[p].ca, until |-> until]
<1>1. CertType /\ now \in Nat /\ dir \in Dirs /\ until \in Nat
  BY CertBounds DEF CertInv, CertType
<1>2. /\ Signs(p)
      /\ current' = [current EXCEPT ![p] = leaf]
      /\ due' = [due EXCEPT ![p] = Certs!DueOf(until)]
      /\ taken' = [taken EXCEPT ![p] = Certs!Nothing]
      /\ state' = [state EXCEPT ![p] = "waiting"]
      /\ UNCHANGED <<now, dir, lost, cuts, errors>>
  BY DEF Certs!Sign, Certs!Issued, Signs
<1>3. Meanwhile
  BY <1>1, <1>2, SameFiles
<1>4. leaf \in [ca : Nat, until : Nat] /\ Certs!Nothing \in [ca : Nat, at : Nat]
  BY <1>1, OfProcess DEF Certs!Nothing
<1>5. Certs!DueOf(until) \in Nat /\ now <= Certs!DueOf(until)
  BY <1>1, DueFits
<1>6. "waiting" \in CertStages
  BY DEF CertStages
<1>7. /\ state'[p] = "waiting" /\ current'[p] = leaf /\ due'[p] = Certs!DueOf(until)
  BY <1>1, <1>2 DEF CertType
<1> SUFFICES ASSUME Certs!Usable(dir)' PROVE TimeOf(p)' /\ TrustOf(p)'
  BY <1>2, <1>3, <1>4, <1>5, <1>6, OneProcess
<1>8. TimeOf(p) /\ TrustOf(p)
  BY <1>1, <1>3, FilesType DEF CertInv, Meanwhile
<1>9. Certs!DueOf(until) + Room[errors] <= until
  <2>1. /\ Room[errors] \in Nat /\ 1 <= Room[errors] /\ Room[errors] <= Certs!Margin(LeafTTL)
        /\ Certs!Margin(LeafTTL) \in Nat /\ Certs!Margin(LeafTTL) <= LeafTTL
    BY <1>1, RoomNow, MarginFits, CertBounds
  <2>2. now < until /\ until - now = LeafTTL
    BY <1>1, <2>1, CertBounds
  <2>3. Certs!DueOf(until) + Certs!Margin(LeafTTL) = until
    BY <1>1, <2>2, DueFits
  <2> QED BY <1>1, <1>5, <2>1, <2>3
<1>10. TimeOf(p)'
  <2>1. Serves(p)' /\ ~Signs(p)' /\ errors' = errors /\ now' = now
    BY <1>2, <1>7 DEF Serves, Signs
  <2>2. leaf.until = until /\ now <= until /\ until <= now + LeafTTL
    BY <1>1, CertBounds
  <2> QED BY <1>5, <1>7, <1>9, <2>1, <2>2 DEF TimeOf
<1>11. TrustOf(p)'
  <2>1. Serves(p)' /\ ~Signs(p)' /\ dir' = dir /\ lost' = lost
    BY <1>2, <1>7 DEF Serves, Signs
  <2>2. /\ TrustedIn(dir, lost, taken[p].ca, taken[p].at + 1 + LeafTTL)
        /\ until <= taken[p].at + 1 + LeafTTL /\ taken[p].at + 1 + LeafTTL \in Nat
    BY <1>1, <1>2, <1>8, OfProcess, CertBounds DEF TrustOf, TimeOf
  <2>3. TrustedIn(dir, lost, taken[p].ca, until)
    BY <1>1, <2>2, TrustShorter
  <2>4. leaf.ca = taken[p].ca /\ leaf.until = until
    OBVIOUS
  <2> QED BY <1>7, <2>1, <2>3, <2>4 DEF TrustOf
<1> QED BY <1>10, <1>11

(* The leaf stays while the process waits for another attempt.             *)
LEMMA LeafStays ==
    ASSUME CertInv, NEW p \in Processes, Meanwhile, UNCHANGED <<dir, lost>>, Serves(p),
           NEW s \in {"waiting", "retrying"}, state' = [state EXCEPT ![p] = s],
           NEW d \in Nat, due' = [due EXCEPT ![p] = d], now <= d, UNCHANGED <<current, taken>>,
           Certs!Usable(dir) /\ s = "waiting" => d + Room[errors'] <= current[p].until,
           Certs!Usable(dir) /\ s = "retrying" =>
              errors' > 0 /\ d + Room[errors' - 1] <= current[p].until + RetryDelay
    PROVE  CertInv'
<1>1. CertType
  BY DEF CertInv
<1>2. /\ s \in CertStages /\ state'[p] = s /\ due'[p] = d
      /\ current' = [current EXCEPT ![p] = current[p]] /\ taken' = [taken EXCEPT ![p] = taken[p]]
      /\ current[p] \in [ca : Nat, until : Nat] /\ taken[p] \in [ca : Nat, at : Nat]
  BY <1>1 DEF CertType, CertStages
<1> SUFFICES ASSUME Certs!Usable(dir)' PROVE TimeOf(p)' /\ TrustOf(p)'
  BY <1>2, OneProcess
<1>3. Certs!Usable(dir) /\ TimeOf(p) /\ TrustOf(p)
  BY <1>1, FilesType DEF CertInv, Meanwhile
<1>4. Serves(p)' /\ ~Signs(p)'
  BY <1>2 DEF Serves, Signs
<1>5. now' = now
  BY DEF Meanwhile
<1>6. TimeOf(p)'
  BY <1>2, <1>3, <1>4, <1>5 DEF TimeOf
<1>7. TrustOf(p)'
  BY <1>3, <1>4 DEF TrustOf
<1> QED BY <1>6, <1>7

LEMMA RenewFailsKeeps == ASSUME CertInv, NEW p \in Processes, Certs!RenewFails(p) PROVE CertInv'
<1>1. CertType /\ now \in Nat /\ errors \in Nat /\ now + RetryDelay \in Nat
      /\ now <= now + RetryDelay
  BY RoomNow, CertBounds DEF CertInv, CertType
<1>2. /\ state[p] = "waiting" /\ due[p] <= now
      /\ state' = [state EXCEPT ![p] = "retrying"]
      /\ due' = [due EXCEPT ![p] = now + RetryDelay]
      /\ UNCHANGED <<now, dir, current, taken, lost>>
      /\ Certs!Usable(dir) => errors < MaxErrors /\ errors' = errors + 1
      /\ ~Certs!Usable(dir) => errors' = errors
  BY DEF Certs!RenewFails
<1>3. errors' \in {errors, errors + 1} /\ errors' \in 0 .. MaxErrors
  BY <1>1, <1>2, CertBounds DEF CertType
<1>4. Meanwhile /\ Serves(p)
  BY <1>2, <1>3 DEF Meanwhile, FilesStep, Serves
<1>5. ASSUME Certs!Usable(dir)
      PROVE  errors' > 0 /\ (now + RetryDelay) + Room[errors' - 1] <= current[p].until + RetryDelay
  <2>1. /\ now <= due[p] /\ due[p] + Room[errors] <= current[p].until
        /\ due[p] \in Nat /\ current[p].until \in Nat /\ Room[errors] \in Nat
    BY <1>1, <1>2, <1>5, RoomNow, OfProcess DEF CertInv, TimeOf
  <2>2. errors' > 0 /\ errors' - 1 = errors
    BY <1>1, <1>2, <1>5
  <2> QED BY <1>1, <1>2, <2>1, <2>2, CertBounds
<1> QED BY <1>1, <1>2, <1>4, <1>5, LeafStays

LEMMA RetryKeeps == ASSUME CertInv, NEW p \in Processes, Certs!Retry(p) PROVE CertInv'
<1> DEFINE until == current[p].until
<1>1. CertType /\ now \in Nat /\ errors \in Nat /\ until \in Nat /\ due[p] \in Nat
  BY RoomNow, OfProcess DEF CertInv, CertType
<1>2. /\ state[p] = "retrying" /\ due[p] <= now
      /\ state' = [state EXCEPT ![p] = "waiting"]
      /\ due' = [due EXCEPT ![p] = Certs!DueOf(until)]
      /\ UNCHANGED <<now, dir, current, taken, lost, errors>>
  BY DEF Certs!Retry
<1>3. Meanwhile /\ Serves(p)
  BY <1>1, <1>2, SameFiles DEF Serves
<1>4. Certs!DueOf(until) \in Nat /\ now <= Certs!DueOf(until)
  BY <1>1, DueFits
<1>5. ASSUME Certs!Usable(dir) PROVE Certs!DueOf(until) + Room[errors'] <= until
  <2>1. errors > 0 /\ now <= due[p] /\ due[p] + Room[errors - 1] <= until + RetryDelay
    BY <1>2, <1>5 DEF CertInv, TimeOf
  <2>2. /\ Room[errors - 1] \in Nat /\ RetryDelay <= Room[errors - 1] /\ Room[errors] \in Nat
        /\ 1 <= Room[errors] /\ Room[errors] <= Certs!Margin(Room[errors - 1] - RetryDelay)
    BY <1>1, <2>1, RoomNow
  <2> DEFINE left == Room[errors - 1] - RetryDelay
  <2>3. left \in Nat /\ now + left <= until
    BY <1>1, <1>2, <2>1, <2>2, CertBounds
  <2>4. Certs!Margin(left) \in Nat /\ Certs!Margin(left) <= left /\ Room[errors] <= Certs!Margin(left)
    BY <2>2, <2>3, MarginFits
  <2> HIDE DEF left
  <2>5. now < until /\ until - now \in Nat /\ left <= until - now
    BY <1>1, <2>2, <2>3, <2>4
  <2>6. Certs!Margin(left) <= Certs!Margin(until - now) /\ Certs!Margin(until - now) \in Nat
    BY <2>3, <2>5, MarginFits
  <2>7. Certs!DueOf(until) + Certs!Margin(until - now) = until
    BY <1>1, <2>5, DueFits
  <2> QED BY <1>1, <1>2, <1>4, <2>2, <2>4, <2>6, <2>7
<1> QED BY <1>2, <1>3, <1>4, <1>5, LeafStays

(* A process that ends, in a call of the issuer or not.                    *)
LEMMA GoneKeeps ==
    ASSUME CertInv, NEW p \in Processes, Certs!Gone(p), Meanwhile,
           state' = [state EXCEPT ![p] = "down"]
    PROVE  CertInv'
<1>1. CertType
  BY DEF CertInv
<1>2. /\ Certs!None \in [ca : Nat, until : Nat] /\ Certs!Nothing \in [ca : Nat, at : Nat]
      /\ 0 \in Nat /\ "down" \in CertStages
  BY DEF Certs!None, Certs!Nothing, CertStages
<1>3. /\ current' = [current EXCEPT ![p] = Certs!None] /\ due' = [due EXCEPT ![p] = 0]
      /\ taken' = [taken EXCEPT ![p] = Certs!Nothing]
  BY DEF Certs!Gone
<1>4. current'[p] = Certs!None /\ state'[p] = "down"
  BY <1>1, <1>3 DEF CertType
<1>5. TimeOf(p)' /\ TrustOf(p)'
  BY <1>4 DEF TimeOf, TrustOf, Serves, Signs
<1> QED BY <1>2, <1>3, <1>5, OneProcess

LEMMA HandshakeKeeps == ASSUME CertInv, NEW p \in Processes, Certs!Handshake(p) PROVE CertInv'
<1>1. CertType
  BY DEF CertInv
<1>2. Meanwhile /\ UNCHANGED <<state, current, due, taken>>
  BY <1>1 DEF CertType, Meanwhile, FilesStep, Certs!Handshake
<1>3. CertType'
  BY <1>1, <1>2, FilesType DEF CertType, Meanwhile
<1>4. ASSUME Certs!Usable(dir)', NEW q \in Processes PROVE TimeOf(q)' /\ TrustOf(q)'
  BY <1>2, <1>4, Elsewhere
<1> QED BY <1>3, <1>4 DEF CertInv

(* Time passes no faster than timers fire and calls end.                   *)
LEMMA PassKeeps == ASSUME CertInv, Certs!Pass PROVE CertInv'
<1>1. CertType /\ now \in Nat
  BY DEF CertInv, CertType
<1>2. /\ Certs!OnTime /\ now' = now + 1
      /\ UNCHANGED <<dir, state, current, due, taken, lost, errors>>
  BY DEF Certs!Pass
<1>3. CertType'
  BY <1>1, <1>2 DEF CertType
<1>4. ASSUME Certs!Usable(dir)', NEW p \in Processes PROVE TimeOf(p)' /\ TrustOf(p)'
  <2>1. TimeOf(p) /\ TrustOf(p) /\ Certs!Usable(dir)
    BY <1>2, <1>4 DEF CertInv, Certs!Usable
  <2>2. /\ due[p] \in Nat /\ current[p].until \in Nat /\ taken[p].at \in Nat
        /\ Room[errors] \in Nat /\ 1 <= Room[errors]
    BY <1>1, OfProcess, RoomNow
  <2>3. Serves(p)' = Serves(p) /\ Signs(p)' = Signs(p)
    BY <1>2 DEF Serves, Signs
  <2>4. /\ state[p] \in {"waiting", "retrying"} => now + 1 <= due[p]
        /\ Signs(p) => taken[p].at = now
    BY <1>1, <1>2, <2>2 DEF Certs!OnTime, Signs
  <2>5. Serves(p) => now + 1 <= current[p].until
    <3>1. CASE state[p] = "waiting"
      BY <1>1, <2>1, <2>2, <2>4, <3>1 DEF TimeOf
    <3>2. CASE state[p] = "retrying"
      <4>1. /\ now + 1 <= due[p] /\ errors > 0
            /\ due[p] + Room[errors - 1] <= current[p].until + RetryDelay
        BY <2>1, <2>4, <3>2 DEF TimeOf
      <4>2. Room[errors - 1] \in Nat /\ RetryDelay <= Room[errors - 1]
        BY <1>1, <4>1, RoomNow
      <4> QED BY <1>1, <2>2, <4>1, <4>2, CertBounds
    <3>3. CASE state[p] = "renewing"
      BY <1>1, <2>1, <2>2, <2>4, <3>3 DEF TimeOf, Signs
    <3> QED BY <3>1, <3>2, <3>3 DEF Serves
  <2>6. Serves(p) => current[p].until <= now + 1 + LeafTTL
    BY <1>1, <2>1, <2>2, CertBounds DEF TimeOf
  <2>7. TimeOf(p)'
    BY <1>1, <1>2, <2>1, <2>2, <2>3, <2>4, <2>5, <2>6 DEF TimeOf
  <2>8. TrustOf(p)'
    BY <1>2, <2>1, <2>3 DEF TrustOf
  <2> QED BY <2>7, <2>8
<1> QED BY <1>3, <1>4 DEF CertInv

LEMMA CutOffKeeps == ASSUME CertInv, NEW p \in Processes, Certs!CutOff(p) PROVE CertInv'
<1>1. CertType
  BY DEF CertInv
<1>2. Meanwhile /\ Certs!Gone(p) /\ state' = [state EXCEPT ![p] = "down"]
  BY <1>1 DEF CertType, Meanwhile, FilesStep, Certs!CutOff
<1> QED BY <1>2, GoneKeeps

LEMMA StopKeeps == ASSUME CertInv, NEW p \in Processes, Certs!Stop(p) PROVE CertInv'
<1>1. CertType
  BY DEF CertInv
<1>2. Meanwhile /\ Certs!Gone(p) /\ state' = [state EXCEPT ![p] = "down"]
  BY <1>1, SameFiles DEF Certs!Stop
<1> QED BY <1>2, GoneKeeps

LEMMA StartKeeps == ASSUME CertInv, NEW p \in Processes, Certs!Start(p) PROVE CertInv'
<1>1. /\ state[p] = "down" /\ Certs!Take(p, "starting")
      /\ UNCHANGED <<now, current, due, lost, errors>>
  BY DEF Certs!Start
<1>2. current[p] = Certs!None
  BY <1>1 DEF CertInv, TimeOf, Serves, Certs!Take
<1> QED BY <1>1, <1>2, TakeKeeps

LEMMA RenewKeeps == ASSUME CertInv, NEW p \in Processes, Certs!Renew(p) PROVE CertInv'
<1>1. /\ state[p] = "waiting" /\ due[p] <= now /\ Certs!Take(p, "renewing")
      /\ UNCHANGED <<now, current, due, lost, errors>>
  BY DEF Certs!Renew
<1> QED BY <1>1, TakeKeeps

LEMMA CertInvariant == Certs!CertSpec => []CertInv
<1>1. Certs!CertInit => CertInv
  <2> SUFFICES ASSUME Certs!CertInit PROVE CertInv
    OBVIOUS
  <2>1. dir \in Dirs /\ dir.cert <= Len(dir.expires)
    BY EmptySeq DEF Certs!CertInit, Certs!NoFiles, Dirs
  <2>2. CertType
    BY <2>1, CertBounds
       DEF Certs!CertInit, CertType, CertStages, Certs!None, Certs!Nothing
  <2>3. ASSUME NEW p \in Processes PROVE TimeOf(p) /\ TrustOf(p)
    <3>1. state[p] = "down" /\ current[p] = Certs!None
      BY DEF Certs!CertInit
    <3> QED BY <3>1 DEF TimeOf, TrustOf, Serves, Signs
  <2> QED BY <2>2, <2>3 DEF CertInv
<1>2. CertInv /\ [Certs!CertNext]_Certs!certVars => CertInv'
  <2>1. CASE CertInv /\ Certs!CertNext
    BY <2>1, StartKeeps, RenewKeeps, SignKeeps, RenewFailsKeeps, RetryKeeps, HandshakeKeeps,
       CutOffKeeps, StopKeeps, PassKeeps DEF Certs!CertNext
  <2>2. CASE CertInv /\ UNCHANGED Certs!certVars
    BY <2>2
       DEF Certs!certVars, CertInv, CertType, TimeOf, TrustOf, Serves, Signs, Certs!Usable
  <2> QED BY <2>1, <2>2
<1> QED BY <1>1, <1>2, PTL DEF Certs!CertSpec

(* The certificate of a process has not expired, and every process accepts  *)
(* it, whichever of them rotated the authority; but for the leaves of one   *)
(* whose retirement was cut off.                                            *)
THEOREM Trusted == Certs!CertSpec => []CertificatesAreTrusted
<1>1. ASSUME CertInv PROVE CertificatesAreTrusted
  <2> DEFINE e == Certs!EnsureSharedIssuerState(dir)
  <2> SUFFICES ASSUME NEW p \in Processes, Certs!Usable(dir), current[p] # Certs!None
               PROVE  /\ current[p].until >= now
                      /\ \/ Certs!Verifies(Certs!TrustBundle(e), current[p])
                         \/ current[p].ca \in lost
    BY DEF CertificatesAreTrusted, Certs!CertificatesAreTrusted
  <2>1. CertType /\ TimeOf(p) /\ TrustOf(p) /\ Serves(p)
    BY <1>1 DEF CertInv, TimeOf
  <2>2. now \in Nat /\ current[p].until \in Nat /\ dir \in Dirs /\ dir.cert <= Len(dir.expires)
    BY <2>1, OfProcess DEF CertType
  <2>3. /\ now <= current[p].until /\ current[p].until <= now + LeafTTL
        /\ TrustedIn(dir, lost, current[p].ca, current[p].until)
    BY <2>1 DEF TimeOf, TrustOf
  <2>4. dir.expires[current[p].ca] \in Nat
    BY <2>2, <2>3, ElementOfSeq DEF Dirs, TrustedIn
  <2>5. \/ current[p].ca = e.cert \/ current[p].ca \in lost
        \/ \E r \in e.retired : r.ca = current[p].ca
    <3>1. /\ \A r \in dir.retired : now < r.after => r \in e.retired
          /\ dir.cert = 0 \/ e.cert = dir.cert \/ dir.expires[dir.cert] <= now
                \/ [ca |-> dir.cert, after |-> now + LeafTTL + Slack] \in e.retired
      BY <2>2, Ensured
    <3>2. \A r \in dir.retired : r.after \in Nat
      BY <2>2 DEF Dirs
    <3>3. CASE current[p].ca = dir.cert
      <4>1. dir.cert # 0 /\ ~(dir.expires[dir.cert] <= now)
        BY <2>2, <2>3, <2>4, <3>3 DEF TrustedIn
      <4> QED BY <3>1, <3>3, <4>1
    <3>4. ASSUME NEW r \in dir.retired, r.ca = current[p].ca, current[p].until < r.after
          PROVE  r \in e.retired
      BY <2>2, <2>3, <3>1, <3>2, <3>4
    <3> QED BY <2>3, <3>3, <3>4 DEF TrustedIn
  <2>6. current[p].ca \in lost \/ current[p].ca \in Certs!TrustBundle(e)
    BY <2>5 DEF Certs!TrustBundle
  <2> QED BY <2>2, <2>3, <2>4, <2>6 DEF Certs!Verifies, TrustedIn
<1> QED BY <1>1, CertInvariant, PTL
=============================================================================
