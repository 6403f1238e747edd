------------------------------ MODULE NodeHost ------------------------------
(***************************************************************************)
(* Node hosts (internal/nodehost/host.go) and the control plane they       *)
(* register with.  A remote host talks to the control-plane service        *)
(* through RemoteClient (internal/controlplane/remote.go): a call can be   *)
(* lost, and so can its answer.  The other hosts open the store of the     *)
(* shared data directory themselves.  A host has the service's address     *)
(* from its configuration, or finds it in the leader's record of the store *)
(* it opened, and is remote from then on.                                  *)
(*                                                                         *)
(* Two goroutines of a host write to the store: the one that runs Start    *)
(* and Shutdown (host[n].main) and the heartbeat loop (host[n].sync).      *)
(* Shutdown cancels the loop's context first and waits for the loop last,  *)
(* so a heartbeat may be under way while the records are withdrawn.  A     *)
(* remote call given up by its caller (cancelled, or the process died) may *)
(* still reach the service, whatever its node does by then: late[n].       *)
(***************************************************************************)
EXTENDS ControlPlaneService

CONSTANTS MaxLate   (* given-up calls of a node that are on their way        *)

ASSUME NodeHostAssumption ==
    /\ EnrolledNodes = Nodes
    /\ LongExpired = HeartbeatTTL + 2
    /\ MaxLate \in Nat

VARIABLES host,   (* the Host of each node                                  *)
          late,   (* the calls of each node whose caller is gone            *)
          gone    (* age of the end of the node's last process              *)

hostsVars == <<service, host, late, gone>>

-----------------------------------------------------------------------------
InstancesOf(n) == {i \in Instances : NodeOf[i] = n}

Main == {"down", "attesting", "agents", "joining", "up", "removing", "waiting"}
Sync == {"idle", "attest", "node", "heartbeat", "instances", "beat"}

AnyInstance == CHOOSE i \in Instances : TRUE

Host ==
    [configured : BOOLEAN,        (* hasConfiguredControlPlane              *)
     remote : BOOLEAN,            (* h.Membership is a RemoteClient         *)
     main   : Main,
     sync   : Sync,
     hosted : SUBSET Instances,   (* h.instances                            *)
     todo   : SUBSET Instances,   (* what the loop of syncMembership has    *)
     closing: SUBSET Instances,   (* left, and the loop of Shutdown         *)
     beating: Instances \cup {AnyInstance},  (* heartbeated next           *)
     stamp  : Ages,               (* age of "now", the ticker's time        *)
     sent   : Ages,               (* age of the node record being sent      *)
     born   : Ages]               (* age of the instances' first heartbeat  *)

Down(configured) ==
        [configured |-> configured, remote |-> configured, main |-> "down", sync |-> "idle",
         hosted |-> {}, todo |-> {}, closing |-> {}, beating |-> AnyInstance,
         stamp |-> 0, sent |-> 0, born |-> 0]

(* "own" says that the process which made the call still runs.              *)
HostCall ==
    [op : {"attest", "node", "heartbeat", "instance", "beat", "remove", "leave"},
     inst : Instances \cup {AnyInstance}, age : Ages, own : BOOLEAN]

HostsTypeOK ==
    /\ MembershipTypeOK
    /\ EnrollmentTypeOK
    /\ attested \subseteq Nodes
    /\ host \in [Nodes -> Host]
    /\ late \in [Nodes -> SUBSET HostCall]
    /\ gone \in [Nodes -> Ages]

InitHosts ==
    /\ MembershipInit
    /\ EnrollmentInit
    /\ attested = {}
    /\ \E configured \in [Nodes -> BOOLEAN] :
            host = [n \in Nodes |-> Down(configured[n])]
    /\ late = [n \in Nodes |-> {}]
    /\ gone = [n \in Nodes |-> HeartbeatTTL + 1]

-----------------------------------------------------------------------------
(* RemoteClient: dial, call, convert.  The answer is an error when the      *)
(* handler refused, when the call was lost or when its answer was.          *)
RemoteAttestNode(n, ok) ==
    \/ ServeAttestNode(n, ok)
    \/ ~ok /\ ServeAttestNode(n, TRUE)
    \/ ~ok /\ UNCHANGED service

RemoteRegisterNode(n, state, age, ok) ==
    \/ ServeRegisterNode(n, state, age, ok)
    \/ ~ok /\ ServeRegisterNode(n, state, age, TRUE)
    \/ ~ok /\ UNCHANGED service

RemoteHeartbeatNode(n, age) ==
    \/ \E ok \in BOOLEAN : ServeHeartbeatNode(n, age, ok)
    \/ UNCHANGED service

RemoteRegisterInstance(i, age, ok) ==
    \/ ServeRegisterInstance(i, OwnRecord(age), ok)
    \/ ~ok /\ ServeRegisterInstance(i, OwnRecord(age), TRUE)
    \/ ~ok /\ UNCHANGED service

RemoteHeartbeatInstance(i, age) ==
    \/ \E ok \in BOOLEAN : ServeHeartbeatInstance(i, age, ok)
    \/ UNCHANGED service

RemoteRemoveInstance(i) ==
    \/ ServeRemoveInstance(i)
    \/ UNCHANGED service

StoreOnly == UNCHANGED <<token, attested>>

-----------------------------------------------------------------------------
(* Start up to the agents.  A host without a configured control plane       *)
(* attests with the authority of its own data directory.  When the store    *)
(* has no leader with an address, it is a local host and registers the      *)
(* node.                                                                    *)
StartLocal(n) ==
    /\ ~host[n].configured
    /\ host[n].main = "down"
    /\ AuthorityAttests(n, TRUE)
    /\ RegisterNode(n, "ready", 0)
    /\ host' = [host EXCEPT ![n].main = "agents"]
    /\ UNCHANGED <<attested, late, gone>>

(* When the store has one, the host is remote and attests once more.        *)
StartWithLeader(n) ==
    /\ ~host[n].configured
    /\ host[n].main = "down"
    /\ AuthorityAttests(n, TRUE)
    /\ host' = [host EXCEPT ![n].main = "attesting", ![n].remote = TRUE]
    /\ UNCHANGED <<membership, attested, late, gone>>

(* A remote host attests with the service, and carries on when that is      *)
(* unreachable.                                                             *)
StartRemote(n) ==
    /\ \/ /\ host[n].configured
          /\ host[n].main = "down"
          /\ token[n].issued   (* --enrollment-token *)
       \/ host[n].main = "attesting"
    /\ \/ ServeAttestNode(n, TRUE)
       \/ UNCHANGED service
    /\ host' = [host EXCEPT ![n].main = "agents"]
    /\ UNCHANGED <<late, gone>>

(* Start ends with an error: the attestation is refused, its record is not  *)
(* written, or what comes next (certificate, leader, the node's record)     *)
(* fails.  The use of the token stays counted.                              *)
StartFails(n) ==
    /\ host[n].main \in {"down", "attesting"}
    /\ IF host[n].remote
       THEN \E ok \in BOOLEAN : ServeAttestNode(n, ok)
       ELSE AuthorityAttests(n, TRUE) /\ UNCHANGED <<membership, attested>>
    /\ host' = [host EXCEPT ![n] = Down(@.configured)]
    /\ UNCHANGED <<late, gone>>

(* startAgent: the instance is registered at once in the local store only.  *)
StartAgent(n, i) ==
    /\ host[n].main = "agents"
    /\ i \in InstancesOf(n) \ host[n].hosted
    /\ IF host[n].remote
       THEN UNCHANGED service
       ELSE /\ RegisterInstance(i, OwnRecord(0))
            /\ StoreOnly
    /\ host' = [host EXCEPT ![n].hosted = @ \cup {i},
                            ![n].born = IF host[n].hosted = {} THEN 0 ELSE @]
    /\ UNCHANGED <<late, gone>>

(* An agent that cannot start makes Start shut the host down again.         *)
StartAgentFails(n) ==
    /\ host[n].main = "agents"
    /\ host[n].hosted # InstancesOf(n)
    /\ host' = [host EXCEPT ![n].main = "removing", ![n].hosted = {},
                            ![n].closing = host[n].hosted, ![n].born = 0]
    /\ UNCHANGED <<service, late, gone>>

-----------------------------------------------------------------------------
(* syncMembership, run once by Start and then by the ticker of              *)
(* runHeartbeatLoop.  "now" is read once, when the tick is received.        *)
BeginSync(n) ==
    /\ host[n].sync = "idle"
    /\ \/ /\ host[n].main = "agents"
          /\ host[n].hosted = InstancesOf(n)
          /\ host' = [host EXCEPT ![n].main = "joining", ![n].stamp = 0,
                                  ![n].sync = "attest"]
       \/ /\ host[n].main = "up"
          /\ host' = [host EXCEPT ![n].stamp = 0, ![n].sync = "attest"]
    /\ UNCHANGED <<service, late, gone>>

(* The end of a sync; the one in Start hands over to the heartbeat loop.    *)
Synced(h) ==
    [h EXCEPT !.sync = "idle", !.todo = {}, !.beating = AnyInstance,
              !.stamp = 0, !.sent = 0,
              !.main = IF @ = "joining" THEN "up" ELSE @]

(* The loop over the instances, taken from h.instances before it begins.    *)
LoopOver(h, left) ==
    IF left = {} THEN Synced(h)
    ELSE [h EXCEPT !.sync = "instances", !.todo = left, !.sent = 0,
                   !.beating = AnyInstance]

(* attestMembership: the local host has nothing to do.  A remote host whose *)
(* attestation fails gives the whole sync up.                               *)
SyncAttest(n) ==
    /\ host[n].sync = "attest"
    /\ IF ~host[n].remote
       THEN /\ host' = [host EXCEPT ![n].sync = "heartbeat"]
            /\ UNCHANGED service
       ELSE \E ok \in BOOLEAN :
            /\ RemoteAttestNode(n, ok)
            /\ host' = [host EXCEPT ![n] =
                           IF ok THEN [@ EXCEPT !.sync = "node", !.sent = 0]
                                 ELSE Synced(@)]
    /\ UNCHANGED <<late, gone>>

(* A registration that fails skips the node's heartbeat, not the instances. *)
SyncRegisterNode(n) ==
    /\ host[n].sync = "node"
    /\ \E ok \in BOOLEAN :
        /\ RemoteRegisterNode(n, "ready", host[n].sent, ok)
        /\ host' = [host EXCEPT ![n] =
                       IF ok THEN [@ EXCEPT !.sync = "heartbeat", !.sent = 0]
                             ELSE LoopOver(@, @.hosted)]
    /\ UNCHANGED <<late, gone>>

SyncHeartbeatNode(n) ==
    /\ host[n].sync = "heartbeat"
    /\ IF host[n].remote
       THEN RemoteHeartbeatNode(n, host[n].stamp)
       ELSE /\ \E ok \in BOOLEAN : HeartbeatNode(n, host[n].stamp, ok)
            /\ StoreOnly
    /\ host' = [host EXCEPT ![n] = LoopOver(@, @.hosted)]
    /\ UNCHANGED <<late, gone>>

(* Mutant: "continue" is missing after a registration that failed.          *)
SyncBeatsAnyway(n, i) ==
    /\ host[n].sync = "instances"
    /\ host[n].remote
    /\ i \in host[n].todo
    /\ \E ok \in BOOLEAN : RemoteRegisterInstance(i, host[n].born, ok)
    /\ host' = [host EXCEPT ![n].sync = "beat", ![n].beating = i]
    /\ UNCHANGED <<late, gone>>

(* The record sent is the one startAgent built: RegisterInstance sets the   *)
(* last heartbeat of the stored record back to the start of the agent.  An  *)
(* instance whose registration fails is not heartbeated.                    *)
SyncRegisterInstance(n, i) ==
    /\ host[n].sync = "instances"
    /\ host[n].remote
    /\ i \in host[n].todo
    /\ \E ok \in BOOLEAN :
        /\ RemoteRegisterInstance(i, host[n].born, ok)
        /\ host' = [host EXCEPT ![n] =
                       IF ok THEN [@ EXCEPT !.sync = "beat", !.beating = i]
                             ELSE LoopOver(@, @.todo \ {i})]
    /\ UNCHANGED <<late, gone>>

SyncHeartbeatInstance(n, i) ==
    /\ i \in host[n].todo
    /\ \/ /\ host[n].remote
          /\ host[n].sync = "beat"
          /\ i = host[n].beating
          /\ RemoteHeartbeatInstance(i, host[n].stamp)
       \/ /\ ~host[n].remote
          /\ host[n].sync = "instances"
          /\ \E ok \in BOOLEAN : HeartbeatInstance(i, host[n].stamp, ok)
          /\ StoreOnly
    /\ host' = [host EXCEPT ![n] = LoopOver(@, @.todo \ {i})]
    /\ UNCHANGED <<late, gone>>

-----------------------------------------------------------------------------
(* The call the heartbeat loop or the Shutdown of a remote host is in.      *)
Pending(n, own) ==
    LET h == host[n]
        call(op, i, age) == [op |-> op, inst |-> i, age |-> age, own |-> own]
    IN  CASE h.sync = "attest"    -> {call("attest", AnyInstance, 0)}
          [] h.sync = "node"      -> {call("node", AnyInstance, h.sent)}
          [] h.sync = "heartbeat" -> {call("heartbeat", AnyInstance, h.stamp)}
          [] h.sync = "instances" -> {call("instance", i, h.born) : i \in h.todo}
          [] h.sync = "beat"      -> {call("beat", h.beating, h.stamp)}
          [] h.sync = "idle"      ->
                 IF h.main # "removing" THEN {}
                 ELSE {call("remove", i, 0) : i \in h.closing}
                          \cup {c \in {call("leave", AnyInstance, 0)} : h.closing = {}}

(* A call given up may be on its way, or lost with what exceeds the bound.  *)
GivenUp(n, own) ==
    {late[n]} \cup {late[n] \cup {call} :
                       call \in {c \in Pending(n, own) : Cardinality(late[n]) < MaxLate}}

(* Shutdown, first half: the instances are taken and the context cancelled. *)
(* A remote sync fails at once, and its call may be on its way; a local one *)
(* goes on, the store looks at no context.                                  *)
BeginShutdown(n) ==
    /\ host[n].main = "up"
    /\ LET h == [host[n] EXCEPT !.main = "removing", !.closing = host[n].hosted,
                                !.hosted = {}, !.born = 0]
       IN  IF host[n].remote
           THEN /\ host' = [host EXCEPT ![n] = Synced(h)]
                /\ \E calls \in GivenUp(n, TRUE) : late' = [late EXCEPT ![n] = calls]
           ELSE /\ host' = [host EXCEPT ![n] = h]
                /\ UNCHANGED late
    /\ UNCHANGED <<service, gone>>

ShutdownRemoveInstance(n, i) ==
    /\ host[n].main = "removing"
    /\ i \in host[n].closing
    /\ IF host[n].remote
       THEN RemoteRemoveInstance(i)
       ELSE RemoveInstance(i) /\ StoreOnly
    /\ host' = [host EXCEPT ![n].closing = @ \ {i}]
    /\ UNCHANGED <<late, gone>>

(* RegisterNode(NodeStateUnavailable).                                      *)
ShutdownMarkNode(n) ==
    /\ host[n].main = "removing"
    /\ host[n].closing = {}
    /\ IF host[n].remote
       THEN \E ok \in BOOLEAN : RemoteRegisterNode(n, "unavailable", 0, ok)
       ELSE RegisterNode(n, "unavailable", 0) /\ StoreOnly
    /\ host' = [host EXCEPT ![n].main = "waiting"]
    /\ UNCHANGED <<late, gone>>

(* The process is over: its endpoints are nobody's.                         *)
ProcessEnds(n) ==
    /\ host' = [host EXCEPT ![n] = Down(@.configured)]
    /\ gone' = [gone EXCEPT ![n] = 0]
    /\ instances' = [i \in DOMAIN instances |->
                        IF NodeOf[i] # n THEN instances[i]
                        ELSE [instances[i] EXCEPT !.own = FALSE, !.overtook = FALSE]]
    /\ UNCHANGED <<nodes, token, attested>>

Orphaned(calls) == {[call EXCEPT !.own = FALSE] : call \in calls}

(* heartbeatWg.Wait has returned.                                           *)
EndShutdown(n) ==
    /\ host[n].main = "waiting"
    /\ host[n].sync = "idle"
    /\ ProcessEnds(n)
    /\ late' = [late EXCEPT ![n] = Orphaned(@)]

CrashHost(n) ==
    /\ host[n].main # "down"
    /\ ProcessEnds(n)
    /\ \E calls \in IF host[n].remote THEN GivenUp(n, FALSE) ELSE {late[n]} :
            late' = [late EXCEPT ![n] = Orphaned(calls)]

(* An instance that a late call registers has the endpoint of the process   *)
(* that made the call.                                                      *)
LateRecord(n, call) ==
    [state |-> "ready", age |-> call.age, own |-> call.own,
     overtook |-> ~call.own /\ host[n].main # "down"]

(* A call whose caller is gone arrives.  The handlers and the stores look   *)
(* at no context.                                                           *)
LateCall(n, call) ==
    /\ \E ok \in BOOLEAN :
        CASE call.op = "attest"    -> ServeAttestNode(n, ok)
          [] call.op = "node"      -> ServeRegisterNode(n, "ready", call.age, ok)
          [] call.op = "leave"     -> ServeRegisterNode(n, "unavailable", call.age, ok)
          [] call.op = "heartbeat" -> ServeHeartbeatNode(n, call.age, ok)
          [] call.op = "instance"  -> ServeRegisterInstance(call.inst, LateRecord(n, call), ok)
          [] call.op = "beat"      -> ServeHeartbeatInstance(call.inst, call.age, ok)
          [] call.op = "remove"    -> ServeRemoveInstance(call.inst)
    /\ late' = [late EXCEPT ![n] = @ \ {call}]
    /\ UNCHANGED <<host, gone>>

LoseLateCall(n, call) ==
    /\ late' = [late EXCEPT ![n] = @ \ {call}]
    /\ UNCHANGED <<service, host, gone>>

-----------------------------------------------------------------------------
(* The operator creates the token and starts the host with it.              *)
Issue(n) ==
    /\ \E reusable, fits \in BOOLEAN : IssueNodeToken(n, reusable, fits)
    /\ UNCHANGED <<membership, attested, host, late, gone>>

Expire(n) ==
    /\ TokenExpires(n)
    /\ UNCHANGED <<membership, attested, host, late, gone>>

Lookup ==
    /\ ServeLookup
    /\ UNCHANGED <<host, late, gone>>

OlderCall(call) ==
    IF call.op \in {"attest", "remove"} THEN call ELSE [call EXCEPT !.age = Older(@)]

(* Time passes, for what is stored, what is being sent and what is gone.    *)
(* The timestamps of a host count only while it may send them.              *)
TickHosts ==
    /\ Age
    /\ host' = [n \in Nodes |->
                   [host[n] EXCEPT
                       !.stamp = IF host[n].sync = "idle" THEN @ ELSE Older(@),
                       !.sent = IF host[n].sync = "node" THEN Older(@) ELSE @,
                       !.born = IF host[n].remote /\ host[n].hosted # {}
                                THEN Older(@) ELSE @]]
    /\ late' = [n \in Nodes |-> {OlderCall(call) : call \in late[n]}]
    /\ gone' = [n \in Nodes |-> Older(gone[n])]

HostStep(n) ==
    \/ StartLocal(n)
    \/ StartWithLeader(n)
    \/ StartRemote(n)
    \/ StartFails(n)
    \/ \E i \in Instances : StartAgent(n, i)
    \/ StartAgentFails(n)
    \/ BeginSync(n)
    \/ SyncAttest(n)
    \/ SyncRegisterNode(n)
    \/ SyncHeartbeatNode(n)
    \/ \E i \in Instances : SyncRegisterInstance(n, i)
    \/ \E i \in Instances : SyncHeartbeatInstance(n, i)
    \/ BeginShutdown(n)
    \/ \E i \in Instances : ShutdownRemoveInstance(n, i)
    \/ ShutdownMarkNode(n)
    \/ EndShutdown(n)
    \/ CrashHost(n)

NextHosts ==
    \/ \E n \in Nodes : HostStep(n)
    \/ \E n \in Nodes : \E call \in late[n] : LateCall(n, call) \/ LoseLateCall(n, call)
    \/ \E n \in Nodes : Issue(n) \/ Expire(n)
    \/ Lookup
    \/ TickHosts

HostsSpec == InitHosts /\ [][NextHosts]_hostsVars

(* The ticker fires again and again while the host is up and a call that is *)
(* made returns; a service that is reachable again and again answers        *)
(* attestations and registrations again and again.                          *)
SyncStep(n) ==
    \/ BeginSync(n) \/ SyncAttest(n) \/ SyncRegisterNode(n) \/ SyncHeartbeatNode(n)
    \/ \E i \in Instances : SyncRegisterInstance(n, i) \/ SyncHeartbeatInstance(n, i)

Attests(n) == SyncAttest(n) /\ host'[n].sync # "idle"

Registers(n, i) == SyncRegisterInstance(n, i) /\ host'[n].sync = "beat"

Fairness ==
    /\ \A n \in Nodes : WF_hostsVars(SyncStep(n)) /\ SF_hostsVars(Attests(n))
    /\ \A n \in Nodes, i \in Instances : SF_hostsVars(Registers(n, i))

FairHosts == HostsSpec /\ Fairness

-----------------------------------------------------------------------------
(* Whatever ResolveEndpoint may return, for an ID or for a profile.         *)
Resolved == UNION {Resolvable(name) : name \in Instances \cup Range(ProfileOf)}

(* A stale heartbeat is authoritative (docs/orchestration-internals.md:     *)
(* 238): once the last process of a node has been gone for more than the    *)
(* TTL, no lookup resolves to an endpoint of it or of one before, however   *)
(* late their calls arrive and whoever heartbeats under the same IDs since; *)
(* but while a later process runs, a registration of an ended one that      *)
(* arrives last is kept alive by the heartbeats of the later one.  And only *)
(* nodes with fresh successful attestation keep instances in the fabric     *)
(* (docs/identity-architecture.md:107): once a remote node's token has been *)
(* expired for more than the TTL, none of its instances resolves.           *)
LostIsUnresolvable ==
    \A i \in Resolved :
        /\ gone[NodeOf[i]] > HeartbeatTTL
               => \/ instances[i].own
                  \/ instances[i].overtook /\ host[NodeOf[i]].main # "down"
        /\ host[NodeOf[i]].remote => token[NodeOf[i]].expired <= HeartbeatTTL + 1

(* Shutdown of a host with an embedded store removes its instances while    *)
(* the heartbeat loop may still run; no heartbeat brings one back.          *)
WithdrawnStaysWithdrawn ==
    \A n \in Nodes :
        ~host[n].remote /\ host[n].main = "waiting"
            => \A i \in InstancesOf(n) \cap DOMAIN instances : ~instances[i].own

(* Node hosts register themselves with the control plane after presenting   *)
(* an enrollment token (docs/architecture.md:236): a host that is up with a *)
(* reusable token of its measurements that has not expired gets all its     *)
(* instances registered with its endpoints, those included that a late call *)
(* of an earlier process overwrote.  With a one-time token this is so only  *)
(* as long as the token is unused: the one use goes to the attestation in   *)
(* Start, and the sync that registers has to attest again.                  *)
EnrolledNodeJoins ==
    \A n \in Nodes :
        (host[n].remote /\ host[n].main = "up")
            ~> \/ InstancesOf(n) \subseteq {i \in DOMAIN instances : instances[i].own}
               \/ host[n].main # "up"
               \/ token[n].expired # 0 \/ ~token[n].fits
               \/ ~token[n].reusable /\ token[n].used
=============================================================================
