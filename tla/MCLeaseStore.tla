---------------------------- MODULE MCLeaseStore ----------------------------
(***************************************************************************)
(* What is granted for a time and has to be renewed: the leases of two     *)
(* conductors, the first of which runs two goroutines under one owner ID,  *)
(* or the certificates of two processes.                                   *)
(***************************************************************************)
EXTENDS LeaseStore, TLC

CONSTANTS a1, a2, b1, A, B,
          Processes, LeafTTL, ShortTTL, RefreshMargin, RetryDelay, Slack, CALifetime,
          RotationWindow, MaxNow, MaxCuts, MaxErrors

VARIABLES about,   (* leases, or certificates *)
          now, dir, state, current, due, taken, lost, cuts, errors

certVars == <<now, dir, state, current, due, taken, lost, cuts, errors>>

MCOwnerOf == (a1 :> A) @@ (a2 :> A) @@ (b1 :> B)

InstanceSymmetry == Permutations(InstanceIDs)

Certs == INSTANCE Certificates

ASSUME CertificatesAssumption == Certs!CertificatesAssumption

MCInit == /\ Init /\ Certs!CertInit /\ about \in {"leases", "certificates"}
          /\ about = "certificates" => kind = "leader"

MCNext == /\ UNCHANGED about
          /\ \/ about = "leases" /\ Next /\ UNCHANGED certVars
             \/ about = "certificates" /\ Certs!CertNext /\ UNCHANGED vars

MCSpec == MCInit /\ [][MCNext]_<<about, vars, certVars>>

(* CertificatesAreTrusted of Certificates. *)
CertificatesAreTrusted == Certs!CertificatesAreTrusted
=============================================================================
