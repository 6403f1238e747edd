----------------------------- MODULE Membership -----------------------------
(***************************************************************************)
(* The membership half of the control-plane store (internal/controlplane): *)
(* the records of nodes and of agent instances, the heartbeats that keep   *)
(* them alive and the discovery that resolves a profile to an endpoint.    *)
(*                                                                         *)
(* A timestamp is kept as its age in ticks, saturated one past the TTL: an *)
(* older record behaves like one just expired.  Writes carry the SENDER's  *)
(* timestamp (LastHeartbeatAt, "at"), which may be old when the store gets *)
(* it.  No code of the repository writes a state other than ready and      *)
(* unavailable, so the other states of types.go are left out.              *)
(***************************************************************************)
EXTENDS Integers, FiniteSets, Functions

CONSTANTS Nodes,      (* node IDs                                            *)
          Instances,  (* instance IDs, "<node>/<profile>"                    *)
          NodeOf,     (* AgentInstance.NodeID                                *)
          ProfileOf,  (* AgentInstance.Profile                               *)
          HeartbeatTTL  (* NodeHeartbeatTTL = InstanceHeartbeatTTL, in ticks *)

ASSUME MembershipAssumption ==
    /\ NodeOf \in [Instances -> Nodes]
    /\ DOMAIN ProfileOf = Instances
    /\ HeartbeatTTL \in Nat \ {0}

VARIABLES nodes,      (* MemoryStore.nodes                                   *)
          instances   (* MemoryStore.instances                               *)

membership == <<nodes, instances>>

-----------------------------------------------------------------------------
Ages == 0..(HeartbeatTTL + 1)

Older(age) == IF age > HeartbeatTTL THEN age ELSE age + 1

States == {"ready", "unavailable"}

(* "own" says that the record's endpoint is that of the latest process to   *)
(* run under the ID (a restarted host listens on another port); "overtook", *)
(* that it was registered by a process that had ended, while a later one    *)
(* was running.                                                             *)
NodeRecord == [state : States, age : Ages]
InstanceRecord == [state : States, age : Ages, own : BOOLEAN, overtook : BOOLEAN]

(* The record of a process that registers its own instance.                 *)
OwnRecord(age) == [state |-> "ready", age |-> age, own |-> TRUE, overtook |-> FALSE]

MembershipTypeOK ==
    /\ DOMAIN nodes \subseteq Nodes
    /\ \A n \in DOMAIN nodes : nodes[n] \in NodeRecord
    /\ DOMAIN instances \subseteq Instances
    /\ \A i \in DOMAIN instances : instances[i] \in InstanceRecord

MembershipInit ==
    /\ nodes = << >>
    /\ instances = << >>

-----------------------------------------------------------------------------
(* normalizeMembershipLiveness, which every operation but RemoveInstance    *)
(* runs before it looks at the maps; it writes what it finds expired.       *)
NodeExpired(n) == nodes[n].state # "unavailable" /\ nodes[n].age > HeartbeatTTL

LiveNodes ==
    [n \in DOMAIN nodes |->
        IF NodeExpired(n) THEN [nodes[n] EXCEPT !.state = "unavailable"]
                          ELSE nodes[n]]

InstanceExpired(i) ==
    /\ instances[i].state # "unavailable"
    /\ \/ NodeOf[i] \in DOMAIN nodes /\ LiveNodes[NodeOf[i]].state = "unavailable"
       \/ instances[i].age > HeartbeatTTL

LiveInstances ==
    [i \in DOMAIN instances |->
        IF InstanceExpired(i)
        THEN [instances[i] EXCEPT !.state = "unavailable"]
        ELSE instances[i]]

(* GetNode, ListNodes, GetInstance and ListInstances.                       *)
Normalize ==
    /\ nodes' = LiveNodes
    /\ instances' = LiveInstances

RegisterNode(n, state, age) ==
    /\ nodes' = [m \in DOMAIN nodes \cup {n} |->
                    IF m = n THEN [state |-> state, age |-> age]
                             ELSE LiveNodes[m]]
    /\ instances' = LiveInstances

HeartbeatNode(n, age, ok) ==
    /\ ok = (n \in DOMAIN nodes)
    /\ nodes' = IF ok
                THEN [LiveNodes EXCEPT ![n] = [state |-> "ready", age |-> age]]
                ELSE LiveNodes
    /\ instances' = LiveInstances

RegisterInstance(i, record) ==
    /\ nodes' = LiveNodes
    /\ instances' = [j \in DOMAIN instances \cup {i} |->
                        IF j = i THEN record ELSE LiveInstances[j]]

(* Mutant: a heartbeat creates the record it does not find.                 *)
HeartbeatUpserts(i, age, ok) ==
    /\ ok
    /\ nodes' = LiveNodes
    /\ instances' = [j \in DOMAIN instances \cup {i} |->
                        IF j = i THEN OwnRecord(age)
                                 ELSE LiveInstances[j]]

HeartbeatInstance(i, age, ok) ==
    /\ ok = (i \in DOMAIN instances)
    /\ nodes' = LiveNodes
    /\ instances' = IF ok
                    THEN [LiveInstances EXCEPT ![i].state = "ready",
                                               ![i].age = age]
                    ELSE LiveInstances

RemoveInstance(i) ==
    /\ instances' = Restrict(instances, DOMAIN instances \ {i})
    /\ UNCHANGED nodes

-----------------------------------------------------------------------------
(* isRoutableInstanceState on what a lookup reads, which is normalized.     *)
Routable == {i \in DOMAIN instances : LiveInstances[i].state = "ready"}

(* selectInstance: the freshest routable instance of a profile.  Ties go to *)
(* the smaller ID; the model keeps them all.                                *)
Selectable(profile) ==
    LET candidates == {i \in Routable : ProfileOf[i] = profile}
    IN  {i \in candidates :
            \A j \in candidates : instances[i].age <= instances[j].age}

(* ResolveEndpoint: an instance by its ID, else the best of a profile.      *)
Resolvable(name) ==
    IF name \in Routable THEN {name} ELSE Selectable(name)
=============================================================================
