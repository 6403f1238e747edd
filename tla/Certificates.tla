---------------------------- MODULE Certificates ----------------------------
(***************************************************************************)
(* The certificates of a fabric whose processes share one data directory:  *)
(* the issuer in it (internal/identity/localdev.go), which rotates its     *)
(* authority and keeps the one before trusted for a while, the             *)
(* certificates that each process keeps renewed (internal/identity/        *)
(* managed.go), and what a handshake makes of them (internal/mtls/tls.go). *)
(*                                                                         *)
(* A call of the issuer reads, and if need be writes, three files under a  *)
(* lock, and signs when the lock is free again.  The process may die       *)
(* between two writes, or in one.                                          *)
(***************************************************************************)
EXTENDS Naturals, Sequences

CONSTANTS Processes,
          LeafTTL,         (* localDevMaxLeafTTL, defaultLocalDevTTL        *)
          ShortTTL, RefreshMargin,         (* the steps of refreshMargin    *)
          RetryDelay,      (* certificateRetryDelay                         *)
          Slack,           (* the hour that a retired root is kept longer   *)
          CALifetime,      (* clusterCALifetime                             *)
          RotationWindow,  (* localDevCARotationWindow                      *)
          MaxNow, MaxCuts, MaxErrors       (* bounds                        *)

VARIABLES now,
          dir,      (* the files of the issuer, and when authorities expire *)
          state,    (* what a process does about its certificate            *)
          current,  (* ManagedCertificate.current, the leaf of it           *)
          due,      (* when its timer fires                                 *)
          taken,    (* the authority of a call that is about to sign        *)
          lost,     (* authorities whose retirement was cut off             *)
          cuts, errors

certVars == <<now, dir, state, current, due, taken, lost, cuts, errors>>

-----------------------------------------------------------------------------
(* The issuer.  Authorities are numbered; 0 is a file that does not exist,  *)
(* and "whole" says that no file was left half written.                     *)

NoFiles == [cert |-> 0, key |-> 0, retired |-> {}, whole |-> TRUE, expires |-> <<>>]

\* loadOrCreateActiveCALocked and loadLocalDevTrustStateLocked find no fault.
Usable(d) == d.cert = d.key /\ d.whole

NewClusterCA(d) == [d EXCEPT !.expires = Append(@, now + CALifetime)]

\* NewClusterCA and writeActiveCALocked
NewActiveCA(d) == LET ca == Len(d.expires) + 1
                  IN  [NewClusterCA(d) EXCEPT !.cert = ca, !.key = ca]

LoadOrCreateActiveCA(d) == IF d.cert = 0 THEN NewActiveCA(d) ELSE d

\* Mutant: a retired root goes with the last leaf signed before the rotation.
RetiredRootTTLOfLeaf == LeafTTL

RetiredRootTTL == LeafTTL + Slack

PruneRetiredRoots(roots) == {r \in roots : r.after > now}

ShouldRotate(d) == d.expires[d.cert] - now <= RotationWindow

\* ensureSharedIssuerStateLocked
EnsureSharedIssuerState(files) ==
    LET d == LoadOrCreateActiveCA(files)
        retiring == IF ShouldRotate(d) /\ d.expires[d.cert] > now
                    THEN {[ca |-> d.cert, after |-> now + RetiredRootTTL]} ELSE {}
    IN  [IF ShouldRotate(d) THEN NewActiveCA(d) ELSE d
            EXCEPT !.retired = PruneRetiredRoots(files.retired) \cup retiring]

\* What is left of it when it ends before its last write, or in one.
Interrupted(files) ==
    LET d == EnsureSharedIssuerState(files)
    IN  {[d EXCEPT !.key = files.key, !.retired = files.retired],
         [d EXCEPT !.retired = files.retired],
         [d EXCEPT !.whole = FALSE]}

\* buildTrustBundle
TrustBundle(d) == {d.cert} \cup {r.ca : r \in d.retired}

\* Certificate.Verify, of a server for a client and of a client for a server.
Verifies(roots, leaf) == /\ leaf.until >= now
                         /\ leaf.ca \in roots /\ dir.expires[leaf.ca] >= now

-----------------------------------------------------------------------------
None == [ca |-> 0, until |-> 0]
Nothing == [ca |-> 0, at |-> 0]

CertInit == /\ now = 0
            /\ dir = NoFiles
            /\ state = [p \in Processes |-> "down"]
            /\ current = [p \in Processes |-> None]
            /\ due = [p \in Processes |-> 0]
            /\ taken = [p \in Processes |-> Nothing]
            /\ lost = {}
            /\ cuts = 0 /\ errors = 0

\* currentMaterials: what was read under the lock.
Take(p, to) == /\ Usable(dir)
               /\ dir' = EnsureSharedIssuerState(dir)
               /\ taken' = [taken EXCEPT ![p] = [ca |-> dir'.cert, at |-> now]]
               /\ state' = [state EXCEPT ![p] = to]

\* NewManagedCertificate
Start(p) == /\ state[p] = "down"
            /\ Take(p, "starting")
            /\ UNCHANGED <<now, current, due, lost, cuts, errors>>

\* The timer of run has fired.
Renew(p) == /\ state[p] = "waiting" /\ due[p] <= now
            /\ Take(p, "renewing")
            /\ UNCHANGED <<now, current, due, lost, cuts, errors>>

\* refreshMargin and renewalDelay
Margin(ttl) == IF ttl <= ShortTTL THEN ttl \div 2 ELSE RefreshMargin
DueOf(until) == IF until <= now THEN now ELSE until - Margin(until - now)

\* There is room for as many attempts that fail as are considered: each costs the delay,
\* and the next one comes when the margin of what is left then is left.
RoomToRetry ==
    \E room \in [0 .. MaxErrors -> 1 .. Margin(LeafTTL)] :
        \A n \in 1 .. MaxErrors : /\ RetryDelay <= room[n - 1]
                                  /\ room[n] <= Margin(room[n - 1] - RetryDelay)

\* A leaf is renewed when less of it is left than it lives, an authority replaced when more
\* than a leaf's life is left of it, and a retired root outlasts a leaf that is being signed.
CertificatesAssumption ==
    /\ {LeafTTL, ShortTTL, RefreshMargin, RetryDelay, Slack, CALifetime, RotationWindow,
        MaxErrors} \subseteq Nat
    /\ ShortTTL \div 2 <= RefreshMargin /\ RefreshMargin <= ShortTTL
    /\ RotationWindow > LeafTTL /\ CALifetime > LeafTTL + 1
    /\ Slack > 1
    /\ RoomToRetry

Gone(p) == /\ current' = [current EXCEPT ![p] = None]
           /\ due' = [due EXCEPT ![p] = 0]
           /\ taken' = [taken EXCEPT ![p] = Nothing]

\* IssueCertWithOptions
Issued(ca) == [ca |-> ca, until |-> now + LeafTTL]

Sign(p) == /\ state[p] \in {"starting", "renewing"}
           /\ current' = [current EXCEPT ![p] = Issued(taken[p].ca)]
           /\ due' = [due EXCEPT ![p] = DueOf(now + LeafTTL)]
           /\ taken' = [taken EXCEPT ![p] = Nothing]
           /\ state' = [state EXCEPT ![p] = "waiting"]
           /\ UNCHANGED <<now, dir, lost, cuts, errors>>

\* A file cannot be read, or not written; or the files make no sense.
RenewFails(p) == /\ state[p] = "waiting" /\ due[p] <= now
                 /\ IF Usable(dir) THEN errors < MaxErrors /\ errors' = errors + 1
                    ELSE UNCHANGED errors
                 /\ state' = [state EXCEPT ![p] = "retrying"]
                 /\ due' = [due EXCEPT ![p] = now + RetryDelay]
                 /\ UNCHANGED <<now, dir, current, taken, lost, cuts>>

\* The delay of run is over: the timer is set by what is left of the leaf.
Retry(p) == /\ state[p] = "retrying" /\ due[p] <= now
            /\ state' = [state EXCEPT ![p] = "waiting"]
            /\ due' = [due EXCEPT ![p] = DueOf(current[p].until)]
            /\ UNCHANGED <<now, dir, current, taken, lost, cuts, errors>>

\* CurrentTLSMaterial, in a handshake, looks at the files, too.
Handshake(p) == /\ current[p] # None /\ Usable(dir)
                /\ dir' = EnsureSharedIssuerState(dir)
                /\ UNCHANGED <<now, state, current, due, taken, lost, cuts, errors>>

\* A process dies in a call of the issuer.
CutOff(p) == /\ cuts < MaxCuts /\ cuts' = cuts + 1
             /\ Usable(dir)
             /\ dir' \in Interrupted(dir)
             /\ lost' = IF dir.cert # dir'.cert /\ dir.cert # 0 THEN lost \cup {dir.cert} ELSE lost
             /\ state' = [state EXCEPT ![p] = "down"]
             /\ Gone(p)
             /\ UNCHANGED <<now, errors>>

Stop(p) == /\ state[p] # "down"
           /\ state' = [state EXCEPT ![p] = "down"]
           /\ Gone(p)
           /\ UNCHANGED <<now, dir, lost, cuts, errors>>

\* Timers fire, and what was taken is signed with, within a unit of time.
OnTime == \A p \in Processes :
             /\ state[p] \in {"waiting", "retrying"} => due[p] > now
             /\ state[p] \in {"starting", "renewing"} => taken[p].at = now

Pass == /\ now < MaxNow /\ OnTime
        /\ now' = now + 1
        /\ UNCHANGED <<dir, state, current, due, taken, lost, cuts, errors>>

CertNext == \/ \E p \in Processes : \/ Start(p) \/ Renew(p) \/ Sign(p) \/ RenewFails(p)
                                    \/ Retry(p) \/ Handshake(p) \/ CutOff(p) \/ Stop(p)
            \/ Pass

CertSpec == CertInit /\ [][CertNext]_certVars

-----------------------------------------------------------------------------
(* Whoever rotates the authority and whenever: the certificate that a       *)
(* process has is one that every process accepts, for as long as it runs,   *)
(* and no process is left with one that expired.  Only a call that was cut  *)
(* off after it had replaced an authority takes the trust from its leaves.  *)
CertificatesAreTrusted ==
    \A p \in Processes :
        Usable(dir) /\ current[p] # None =>
            /\ current[p].until >= now
            /\ \/ Verifies(TrustBundle(EnsureSharedIssuerState(dir)), current[p])
               \/ current[p].ca \in lost
=============================================================================
