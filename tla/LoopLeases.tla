----------------------------- MODULE LoopLeases -----------------------------
(***************************************************************************)
(* The profile leases of loops (prepareLoopAssignments and                 *)
(* acquireProfilePlacement in internal/conductor/scheduler.go).  Before a  *)
(* loop starts its conductor reserves an instance for each profile of the  *)
(* loop, one after the other, and gives back what it has when one is       *)
(* refused.  A lease belongs to the conductor, not to the loop: its loops  *)
(* share it, and whichever ends first releases it.                         *)
(*                                                                         *)
(* Clocks are those of LeaseStore; here a lease may lapse.  That the store *)
(* does not answer a release is left out: such a lease lapses.             *)
(***************************************************************************)
EXTENDS Naturals, Sequences

CONSTANTS Loops,
          OwnerOf,    (* [Loops -> conductors]: leaseOwnerID                *)
          Needs,      (* [Loops -> Seq(Profiles)]: the agents of the states *)
          First,      (* [Loops -> Profiles]: the agent of the initial one  *)
          Profiles,
          Offers,     (* [Profiles -> set of instances]                     *)
          Free,       (* no lease                                           *)
          MaxTries,   (* bound: dispatches, loop by loop                   *)
          MaxFaults   (* bound: leases lapsed, instances lost, store errors *)

VARIABLES lease,      (* of each profile, in the store                      *)
          epochs,     (* the last epoch granted                             *)
          host,       (* the state of an instance on record                 *)
          stage,      (* where the dispatch of a loop is                    *)
          at,         (* the profile it considers                           *)
          wanted,     (* the lease it is about to renew or to acquire       *)
          held,       (* those it got                                       *)
          after,      (* the stage to enter when they are released          *)
          attempts,
          faults,
          lapsed      (* history: leases that ended by themselves           *)

storeVars == <<lease, epochs, lapsed>>
loopVars == <<stage, at, wanted, held, after>>
vars == <<storeVars, host, loopVars, attempts, faults>>

Instances == UNION {Offers[p] : p \in Profiles}

(* What a loop may hold.  Nothing is no lease.                              *)
Reservation == [profile : Profiles, owner : {OwnerOf[l] : l \in Loops},
                inst : Instances, epoch : Nat]

LoopLeasesAssumption == /\ Needs \in [Loops -> Seq(Profiles)]
                        /\ Free \notin Reservation

Lease(l, p, i, e) == [profile |-> p, owner |-> OwnerOf[l], inst |-> i, epoch |-> e]

Init == /\ lease = [p \in Profiles |-> Free]
        /\ epochs = [p \in Profiles |-> 0]
        /\ host = [i \in Instances |-> "ready"]
        /\ stage = [l \in Loops |-> "pending"]
        /\ at = [l \in Loops |-> 1]
        /\ wanted = [l \in Loops |-> Free]
        /\ held = [l \in Loops |-> {}]
        /\ after = [l \in Loops |-> "pending"]
        /\ attempts = [l \in Loops |-> 0]
        /\ faults = 0
        /\ lapsed = {}

Fault == faults < MaxFaults /\ faults' = faults + 1

Enter(l, s) == stage' = [stage EXCEPT ![l] = s]

Profile(l) == Needs[l][at[l]]

Listed(p) == {i \in Offers[p] : host[i] # "gone"}

Schedulable(p) == {i \in Offers[p] : host[i] = "ready"}

-----------------------------------------------------------------------------
(* prepareLoopAssignments                                                   *)
Begin(l) == /\ stage[l] = "pending"
            /\ attempts[l] < MaxTries[l]
            /\ attempts' = [attempts EXCEPT ![l] = @ + 1]
            /\ Enter(l, "look")
            /\ UNCHANGED <<storeVars, host, at, wanted, held, after, faults>>

(* Mutant: a dispatch that is refused forgets what it has.                  *)
BackAtOnce(l, to) ==
    /\ Enter(l, to)
    /\ held' = [held EXCEPT ![l] = {}]
    /\ wanted' = [wanted EXCEPT ![l] = Free]
    /\ at' = [at EXCEPT ![l] = 1]
    /\ UNCHANGED after

(* What it has is released before the dispatch ends.                        *)
Back(l, to) == /\ IF held[l] = {}
                  THEN Enter(l, to) /\ UNCHANGED after
                  ELSE Enter(l, "release") /\ after' = [after EXCEPT ![l] = to]
               /\ wanted' = [wanted EXCEPT ![l] = Free]
               /\ at' = [at EXCEPT ![l] = 1]
               /\ UNCHANGED held

Considers(l) == stage[l] = "look" /\ at[l] <= Len(Needs[l])

\* A profile that nobody offers is done without, and so is one that nobody can
\* take now, unless it is leased.
Skip(l) == /\ Considers(l)
           /\ \/ Listed(Profile(l)) = {}
              \/ lease[Profile(l)] = Free /\ Schedulable(Profile(l)) = {}
           /\ at' = [at EXCEPT ![l] = @ + 1]
           /\ UNCHANGED <<storeVars, host, stage, wanted, held, after, attempts, faults>>

\* It is leased to another conductor, or nobody can take it: try again later.
Refused(l) == /\ Considers(l)
              /\ Listed(Profile(l)) # {}
              /\ lease[Profile(l)] # Free
              /\ \/ lease[Profile(l)].owner # OwnerOf[l]
                 \/ Schedulable(Profile(l)) = {}
              /\ Back(l, "pending")
              /\ UNCHANGED <<storeVars, host, attempts, faults>>

\* It is leased to this conductor: renew the lease.  The instance that is used is
\* any that can be scheduled, when the one on the lease cannot.
Join(l) == /\ Considers(l)
           /\ Schedulable(Profile(l)) # {}
           /\ lease[Profile(l)] # Free
           /\ lease[Profile(l)].owner = OwnerOf[l]
           /\ wanted' = [wanted EXCEPT ![l] = lease[Profile(l)]]
           /\ Enter(l, "renew")
           /\ UNCHANGED <<storeVars, host, at, held, after, attempts, faults>>

\* It is not leased: choose an instance.
Choose(l) == /\ Considers(l)
             /\ lease[Profile(l)] = Free
             /\ \E i \in Schedulable(Profile(l)) :
                   wanted' = [wanted EXCEPT ![l] = Lease(l, Profile(l), i, 0)]
             /\ Enter(l, "acquire")
             /\ UNCHANGED <<storeVars, host, at, held, after, attempts, faults>>

Got(l, reserved) == /\ held' = [held EXCEPT ![l] = @ \cup {reserved}]
                    /\ wanted' = [wanted EXCEPT ![l] = Free]
                    /\ at' = [at EXCEPT ![l] = @ + 1]
                    /\ Enter(l, "look")
                    /\ UNCHANGED after

\* A renewal that fails, for whatever reason, is tried again from the start.
Renew(l) == /\ stage[l] = "renew"
            /\ \/ /\ lease[Profile(l)] = wanted[l]
                  /\ Got(l, wanted[l])
                  /\ UNCHANGED faults
               \/ /\ lease[Profile(l)] # wanted[l]
                  /\ Back(l, "pending")
                  /\ UNCHANGED faults
               \/ /\ Fault
                  /\ Back(l, "pending")
            /\ UNCHANGED <<storeVars, host, attempts>>

\* The store grants a lease that is free, and the one its owner has on the same
\* instance once more.
Acquire(l) ==
    LET p     == Profile(l)
        fresh == [wanted[l] EXCEPT !.epoch = epochs[p] + 1]
    IN  /\ stage[l] = "acquire"
        /\ \/ /\ lease[p] = Free
              /\ lease' = [lease EXCEPT ![p] = fresh]
              /\ epochs' = [epochs EXCEPT ![p] = @ + 1]
              /\ Got(l, fresh)
           \/ /\ lease[p] # Free
              /\ lease[p] = [wanted[l] EXCEPT !.epoch = lease[p].epoch]
              /\ Got(l, lease[p])
              /\ UNCHANGED <<lease, epochs>>
           \/ /\ lease[p] # Free
              /\ lease[p] # [wanted[l] EXCEPT !.epoch = lease[p].epoch]
              /\ Back(l, "pending")
              /\ UNCHANGED <<lease, epochs>>
        /\ UNCHANGED <<host, attempts, faults, lapsed>>

\* Any other call that fails ends the dispatch with an error.
StoreFails(l) == /\ Considers(l) \/ stage[l] = "acquire"
                 /\ Fault
                 /\ Back(l, "failed")
                 /\ UNCHANGED <<storeVars, host, attempts>>

\* Without the initial agent there is no loop; with no agent at all the names of
\* the profiles have to do.
Ready(l) == /\ stage[l] = "look"
            /\ at[l] > Len(Needs[l])
            /\ IF held[l] = {} \/ \E h \in held[l] : h.profile = First[l]
               THEN Enter(l, "running") /\ UNCHANGED <<at, wanted, held, after>>
               ELSE Back(l, "failed")
            /\ UNCHANGED <<storeVars, host, attempts, faults>>

-----------------------------------------------------------------------------
(* The loop ends, is cancelled or amended, or lost an instance it is at.    *)
End(l) == /\ stage[l] = "running"
          /\ \E to \in {"done", "pending"} : Back(l, to)
          /\ UNCHANGED <<storeVars, host, attempts, faults>>

(* Mutant: a release is for the profile, whoever has it by now.             *)
MatchesProfile(h) == lease[h.profile] # Free

(* Owner, instance and epoch have to be those on record.                    *)
Matches(h) == lease[h.profile] = h

\* releaseLoopProfileLeases
Release(l) ==
    /\ stage[l] = "release"
    /\ \E h \in held[l] :
          /\ held' = [held EXCEPT ![l] = @ \ {h}]
          /\ lease' = IF Matches(h) THEN [lease EXCEPT ![h.profile] = Free] ELSE lease
          /\ IF held[l] = {h}
             THEN Enter(l, after[l]) /\ after' = [after EXCEPT ![l] = "pending"]
             ELSE UNCHANGED <<stage, after>>
    /\ UNCHANGED <<epochs, lapsed, host, at, wanted, attempts, faults>>

(* A heartbeat whose renewal fails once stops, and a lease is not renewed   *)
(* before the loop runs: it lapses.                                         *)
Lapse(p) == /\ lease[p] # Free
            /\ Fault
            /\ lease' = [lease EXCEPT ![p] = Free]
            /\ lapsed' = lapsed \cup {lease[p]}
            /\ UNCHANGED <<epochs, host, loopVars, attempts>>

(* An instance is found unavailable or its node full, or it is removed; the *)
(* first two may change again.                                              *)
Leave(i) == /\ \E state \in {"unfit", "gone"} :
                  /\ host[i] \notin {state, "gone"}
                  /\ host' = [host EXCEPT ![i] = state]
            /\ Fault
            /\ UNCHANGED <<storeVars, loopVars, attempts>>

Return(i) == /\ host[i] = "unfit"
             /\ host' = [host EXCEPT ![i] = "ready"]
             /\ UNCHANGED <<storeVars, loopVars, attempts, faults>>

Prepare(l) == \/ Skip(l) \/ Refused(l) \/ Join(l) \/ Choose(l) \/ Renew(l)
              \/ Acquire(l) \/ StoreFails(l) \/ Ready(l)

Next == \/ \E l \in Loops : Begin(l) \/ Prepare(l) \/ End(l) \/ Release(l)
        \/ \E p \in Profiles : Lapse(p)
        \/ \E i \in Instances : Leave(i) \/ Return(i)

Spec == Init /\ [][Next]_vars

-----------------------------------------------------------------------------
(* A lease in the store is some loop's that prepares, runs or is about to   *)
(* release it: a dispatch that fails at the second profile does not leave   *)
(* the first reserved for nobody.                                           *)
NothingIsLeftReserved ==
    \A p \in Profiles : lease[p] # Free => \E l \in Loops : lease[p] \in held[l]

(* What a running loop reserved is taken from it by a lapse or by another   *)
(* loop of the same conductor that shares it, never by another conductor.   *)
Shares(m, l, p) ==
    /\ m # l
    /\ OwnerOf[m] = OwnerOf[l]
    /\ p \in {Needs[m][n] : n \in DOMAIN Needs[m]}
    /\ attempts[m] > 0

RunningIsReserved ==
    \A l \in Loops : stage[l] = "running" =>
        \A h \in held[l] :
            \/ lease[h.profile] = h
            \/ h \in lapsed
            \/ \E m \in Loops : Shares(m, l, h.profile)

(* The instances a loop reserves stay reserved while it runs, and for no    *)
(* longer.                                                                  *)
ReservationsHold == NothingIsLeftReserved /\ RunningIsReserved
=============================================================================
