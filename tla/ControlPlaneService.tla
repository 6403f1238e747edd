------------------------ MODULE ControlPlaneService -------------------------
(***************************************************************************)
(* The handlers of the control-plane service for node hosts                *)
(* (internal/controlplanesvc/service.go): each authorizes the subject of   *)
(* the caller's certificate, checks the node's attestation and bundle, and *)
(* runs one operation of the store.  "ok" is the handler's answer.  The    *)
(* callers here present the subjects of the node they run on, which is     *)
(* what the node host's certificates carry, so authorizeNodeSubject and    *)
(* authorizeInstanceSubject hold by the shape of the call.                 *)
(***************************************************************************)
EXTENDS Membership, Enrollment

VARIABLES attested   (* MemoryStore.attestedNodes: the nodes with a record   *)

service == <<membership, token, attested>>

(* AttestNode of the service: the authority counts the use first, then the  *)
(* record is written, which may fail.                                       *)
ServeAttestNode(n, ok) ==
    /\ \/ /\ AuthorityAttests(n, ok)
          /\ attested' = IF ok THEN attested \cup {n} ELSE attested
       \/ /\ ~ok
          /\ AuthorityAttests(n, TRUE)
          /\ UNCHANGED attested
    /\ UNCHANGED membership

(* requireAttestedNode: ExpiresAt of the record is its token's.             *)
AttestationCurrent(n) ==
    /\ n \in attested
    /\ token[n].expired = 0

ServeRegisterNode(n, state, age, ok) ==
    /\ ok = AttestationCurrent(n)
    /\ IF ok THEN RegisterNode(n, state, age) ELSE UNCHANGED membership
    /\ UNCHANGED <<token, attested>>

(* No attestation is asked for here.                                        *)
ServeHeartbeatNode(n, age, ok) ==
    /\ HeartbeatNode(n, age, ok)
    /\ UNCHANGED <<token, attested>>

ServeRegisterInstance(i, record, ok) ==
    /\ ok = AttestationCurrent(NodeOf[i])
    /\ IF ok THEN RegisterInstance(i, record) ELSE UNCHANGED membership
    /\ UNCHANGED <<token, attested>>

(* The instance is looked up, to authorize the caller, and then written.    *)
ServeHeartbeatInstance(i, age, ok) ==
    /\ HeartbeatInstance(i, age, ok)
    /\ UNCHANGED <<token, attested>>

(* The lookup normalizes the records before one is removed.                 *)
ServeRemoveInstance(i) ==
    /\ nodes' = LiveNodes
    /\ instances' = Restrict(LiveInstances, DOMAIN instances \ {i})
    /\ UNCHANGED <<token, attested>>

(* GetNode, ListNodes, GetInstance, ListInstances, ResolveEndpoint and      *)
(* ListParticipants, for the scheduler and for the agents.                  *)
ServeLookup ==
    /\ Normalize
    /\ UNCHANGED <<token, attested>>

(* One tick of every stored timestamp.  Nobody reads how old the record of  *)
(* something unavailable is, nor when a local token expired.                *)
Aged(record) ==
    IF record.state = "unavailable" THEN record
    ELSE [record EXCEPT !.age = Older(@)]

Age ==
    /\ nodes' = [n \in DOMAIN nodes |-> Aged(nodes[n])]
    /\ instances' = [i \in DOMAIN instances |-> Aged(instances[i])]
    /\ token' = [n \in EnrolledNodes |->
                    IF token[n].expired \in {0, LongExpired} THEN token[n]
                    ELSE [token[n] EXCEPT !.expired = @ + 1]]
    /\ UNCHANGED attested
=============================================================================
