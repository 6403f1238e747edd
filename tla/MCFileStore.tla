---------------------------- MODULE MCFileStore -----------------------------
(***************************************************************************)
(* The control-plane store: two processes on one file, the first of which  *)
(* has two goroutines; or the store behind the API, with any calls of a    *)
(* conductor, two at a time, and of a node host.                           *)
(***************************************************************************)
EXTENDS FileStore, RemoteStore, TLC

CONSTANTS a1, a2, b1, a, b, n, i, r, q

VARIABLE about   (* the file, calls behind the API, or such calls of leases *)

MCStoreOf == a1 :> a @@ a2 :> a @@ b1 :> b
MCAttestOf == n :> r

MCSubjectOf ==
    a :> [fabric |-> Fabric, kind |-> "conductor", node |-> None, inst |-> None, bundle |-> TRUE]
    @@ b :> [fabric |-> Fabric, kind |-> "node", node |-> n, inst |-> None, bundle |-> TRUE]

MCInit == Init /\ InitRemote /\ about \in {"file", "calls", "leases"}

\* Three calls of a conductor, about the lease of the profile.
OfTheProfile == /\ losses' = 0 /\ at'[b1] = "idle"
                /\ \A h \in {a1, a2} : sent'[h] # None => sent'[h].key = q /\ OfLeases(sent'[h])

MCNext == /\ UNCHANGED about
          /\ \/ about = "file" /\ Next /\ UNCHANGED remoteVars
             \/ /\ about # "file" /\ NextRemote /\ UNCHANGED vars
                /\ IF about = "calls" THEN rpcs' <= 2 ELSE OfTheProfile

MCSpec == MCInit /\ [][MCNext]_<<about, vars, remoteVars>> /\ Fairness
=============================================================================
