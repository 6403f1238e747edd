---------------------------- MODULE FencedLease ----------------------------
(***************************************************************************)
(* What every lease of the control plane promises, without the calls that  *)
(* implement it: one register that is free or belongs to one owner until a *)
(* time, and a fencing token that grows with every grant and is never      *)
(* reset.  LeaseStore implements it for the leader, task and profile       *)
(* leases.                                                                 *)
(***************************************************************************)
EXTENDS Naturals

CONSTANTS Owners,     (* who may own the lease                              *)
          NoOwner,    (* the owner of a free register                       *)
          TTL         (* for how long a grant or an extension may last      *)

VARIABLES now,        (* the time                                           *)
          owner,      (* the owner on record, NoOwner when the lease is free*)
          token,      (* the fencing token of the last grant                *)
          until       (* when the lease on record ends                      *)

vars == <<now, owner, token, until>>

Init == /\ now = 0
        /\ owner = NoOwner
        /\ token = 0
        /\ until = 0

Advance == /\ now' = now + 1
           /\ UNCHANGED <<owner, token, until>>

\* The lease may pass to o only when it is free, has ended, or is o's own.
MayTake(o) == owner \in {NoOwner, o} \/ until <= now

Grant(o) == /\ MayTake(o)
            /\ owner' = o
            /\ token' = token + 1
            /\ until' \in 0 .. (now + TTL)
            /\ UNCHANGED now

Extend == /\ owner # NoOwner
          /\ until' \in 0 .. (now + TTL)
          /\ UNCHANGED <<now, owner, token>>

Free == /\ owner' = NoOwner
        /\ until' = 0
        /\ UNCHANGED <<now, token>>

Next == \/ Advance
        \/ \E o \in Owners : Grant(o)
        \/ Extend
        \/ Free

Spec == Init /\ [][Next]_vars
=============================================================================
