---------------------------- MODULE RemoteStore -----------------------------
(***************************************************************************)
(* The control-plane store behind the control-plane API: the client        *)
(* (internal/controlplane/remote.go) puts a call into a message, the gRPC  *)
(* server (internal/grpc/server.go) finds out who calls, and the service   *)
(* (internal/controlplanesvc/service.go) authorizes the caller and runs    *)
(* the operation on its store, which takes effect at one moment.           *)
(*                                                                         *)
(* Each call has a connection and a handler of its own.  A client may give *)
(* up a call whose handler goes on, a message may be lost, and the server  *)
(* may be restarted, with its store in a file.                             *)
(***************************************************************************)
EXTENDS StoreOperations

CONSTANTS Handlers,    (* goroutines of the server                          *)
          ClientOf,    (* [Handlers -> Owners]: whom they serve             *)
          SubjectOf,   (* [Owners -> Subject]: of their certificates        *)
          AttestOf,    (* [Nodes -> Records]: the record of an attestation  *)
          Fabric,      (* the fabric of the service                         *)
          MaxTime, MaxRpcs, MaxLosses      (* bounds                        *)

\* What a certificate says of its owner (a conductor has the name of its node),
\* and whether the bundle it declares is the expected one.
Subject == [fabric : {Fabric, None}, kind : {"conductor", "node", "instance"},
            node : Nodes \cup {None}, inst : Instances \cup {None}, bundle : BOOLEAN]

VARIABLES time,
          kept,      (* the contents of the store                           *)
          at,        (* where a call is                                     *)
          sent,      (* its message, then what the handler made of it       *)
          back,      (* the response                                        *)
          heard,     (* what the client was told last                       *)
          awaited,   (* whether the client still waits                      *)
          asked,     (* history: when the call was made                     *)
          rpcs, losses

remoteVars == <<time, kept, at, sent, back, heard, awaited, asked, rpcs, losses>>

-----------------------------------------------------------------------------
(* What goes over the wire.  A lease has a view for each kind of key; its   *)
(* times, none of which is the zero time, are kept to the nanosecond.       *)

LeaderLeaseToProto(l) == [holder |-> l.owner, epoch |-> l.epoch, expires |-> l.until]

LeaderLeaseFromView(v) == [key |-> Leader, owner |-> v.holder, inst |-> None,
                           epoch |-> v.epoch, until |-> v.expires]

TaskLeaseToProto(l) == [task |-> l.key, owner |-> l.owner, epoch |-> l.epoch,
                        expires |-> l.until]

TaskLeaseFromView(v) == [key |-> v.task, owner |-> v.owner, inst |-> None,
                         epoch |-> v.epoch, until |-> v.expires]

ProfileLeaseToProto(l) == [profile |-> l.key, inst |-> l.inst, owner |-> l.owner,
                           epoch |-> l.epoch, expires |-> l.until]

\* Mutant: the epoch is left behind.
ProfileLeaseWithoutEpoch(v) == [key |-> v.profile, owner |-> v.owner, inst |-> v.inst,
                                epoch |-> 0, until |-> v.expires]

ProfileLeaseFromView(v) == [key |-> v.profile, owner |-> v.owner, inst |-> v.inst,
                            epoch |-> v.epoch, until |-> v.expires]

ToView(key, l) == IF key = Leader THEN LeaderLeaseToProto(l)
                  ELSE IF key \in TaskKeys THEN TaskLeaseToProto(l)
                  ELSE ProfileLeaseToProto(l)

FromView(key, v) == IF key = Leader THEN LeaderLeaseFromView(v)
                    ELSE IF key \in TaskKeys THEN TaskLeaseFromView(v)
                    ELSE ProfileLeaseFromView(v)

OfLeases(c) == c.op \in {"acquire", "renew", "release", "get"}

OfMembers(c) == c.op \in {"register", "heartbeat", "remove"}

\* What the client sends.  The time of a lease call is the server's.
MemberMessage(c) == [c EXCEPT !.lease = None]

RecordMessage(c) == [c EXCEPT !.lease = None]

LeaderMessage(c) == [c EXCEPT !.now = 0, !.lease = IF c.op \in {"renew", "release"}
                                                   THEN LeaderLeaseToProto(@) ELSE None]

LeaseMessage(c) == [c EXCEPT !.now = 0, !.lease = IF c.op \in {"renew", "release"}
                                                  THEN ToView(c.key, @) ELSE None]

Message(c) == IF OfLeases(c) THEN IF c.key = Leader THEN LeaderMessage(c) ELSE LeaseMessage(c)
              ELSE IF c.key \in Records THEN RecordMessage(c) ELSE MemberMessage(c)

CallOf(m, t) == [m EXCEPT !.lease = IF m.op \in {"renew", "release"} THEN FromView(m.key, @)
                                    ELSE NoLease,
                          !.now = IF OfLeases(m) THEN t ELSE @]

HasLease(m, answer) == m.op = "acquire" \/ (m.op \in {"renew", "get"} /\ answer.ok)

Response(m, answer) ==
    [answer EXCEPT !.lease = IF HasLease(m, answer) THEN ToView(m.key, @) ELSE None]

AnswerOf(m, response) ==
    [response EXCEPT !.lease = IF HasLease(m, response) THEN FromView(m.key, @) ELSE NoLease]

-----------------------------------------------------------------------------
(* Whom the handlers answer.  A reader needs no more than the fabric.       *)

AuthorizeFabric(s) == s.fabric = Fabric

AuthorizeConductor(s) == AuthorizeFabric(s) /\ s.kind = "conductor"

AuthorizeNode(s, n) == AuthorizeFabric(s) /\ s.kind = "node" /\ s.node = n

AuthorizeConductorNode(s, n) == AuthorizeConductor(s) /\ s.node = n

AuthorizeInstance(s, i, n) ==
    /\ AuthorizeFabric(s)
    /\ \/ s.kind = "instance" /\ s.inst = i /\ s.node = n
       \/ s.kind = "node" /\ s.node = n

Attested(n) == kept.record[AttestOf[n]] # None

Found(m) == kept.member[m].state # "none"

ValidateBundle(s) == s.bundle

LookupAllowed(s) == AuthorizeFabric(s)

\* The node of an instance: a registration names it, the record has it for the rest.
NodeOf(m) == IF m.op = "register" THEN m.value ELSE kept.member[m.key].node

\* RegisterNode and HeartbeatNode; RegisterInstance, HeartbeatInstance, RemoveInstance
MembershipAllowed(s, m) ==
    IF m.key \in Nodes
    THEN \/ AuthorizeConductorNode(s, m.key) /\ (m.op = "register" => ValidateBundle(s))
         \/ AuthorizeNode(s, m.key) /\ (m.op = "register" => Attested(m.key) /\ ValidateBundle(s))
    ELSE /\ m.op = "heartbeat" => Found(m.key)
         /\ (m.op = "remove" => Found(m.key)) => AuthorizeInstance(s, m.key, NodeOf(m))
         /\ m.op = "register" => Attested(m.value) /\ ValidateBundle(s)

LeaderAllowed(s, m) == IF m.op = "get" THEN AuthorizeFabric(s) ELSE AuthorizeConductor(s)

LeaseAllowed(s, m) == IF m.op = "get" THEN AuthorizeFabric(s) ELSE AuthorizeConductor(s)

\* AttestNode; UpsertRequest and UpsertTask
RecordAllowed(s, m) ==
    IF \E n \in Nodes : m.key = AttestOf[n]
    THEN \E n \in Nodes : m.key = AttestOf[n] /\ AuthorizeNode(s, n)
    ELSE AuthorizeConductor(s)

-----------------------------------------------------------------------------
InitRemote == /\ time = 0
              /\ kept = Empty
              /\ at = [h \in Handlers |-> "idle"]
              /\ sent = [h \in Handlers |-> None]
              /\ back = [h \in Handlers |-> None]
              /\ heard = [h \in Handlers |-> Nothing]
              /\ awaited = [h \in Handlers |-> FALSE]
              /\ asked = [h \in Handlers |-> 0]
              /\ rpcs = 0 /\ losses = 0

Loses == losses < MaxLosses /\ losses' = losses + 1

\* The call is over, for the server and for the client.
Over(over, told) ==
    /\ at' = [h \in Handlers |-> IF h \in over THEN "idle" ELSE at[h]]
    /\ sent' = [h \in Handlers |-> IF h \in over THEN None ELSE sent[h]]
    /\ back' = [h \in Handlers |-> IF h \in over THEN None ELSE back[h]]
    /\ awaited' = [h \in Handlers |-> h \notin over /\ awaited[h]]
    /\ asked' = [h \in Handlers |-> IF h \in over THEN 0 ELSE asked[h]]
    /\ heard' = [h \in Handlers |-> IF h \in over THEN told ELSE heard[h]]

\* A client has the leases it was told of by its other calls, too.
Ask(h) == /\ at[h] = "idle"
          /\ rpcs < MaxRpcs /\ rpcs' = rpcs + 1
          /\ \E q \in Handlers : /\ ClientOf[q] = ClientOf[h] /\ at[q] = "idle"
                                 /\ \E c \in Calls(ClientOf[h], heard[q].lease, time) :
                                       sent' = [sent EXCEPT ![h] = Message(c)]
          /\ at' = [at EXCEPT ![h] = "sent"]
          /\ awaited' = [awaited EXCEPT ![h] = TRUE]
          /\ asked' = [asked EXCEPT ![h] = time]
          /\ UNCHANGED <<time, kept, back, heard, losses>>

SubjectAt(h) == SubjectOf[ClientOf[h]]

\* The handler starts, or refuses: what it checks may be other when its operation runs.
Serve(h, allowed) ==
    /\ IF allowed
       THEN /\ sent' = [sent EXCEPT ![h] = CallOf(@, time)]
            /\ at' = [at EXCEPT ![h] = "running"]
            /\ UNCHANGED <<back, heard, awaited, asked>>
       ELSE Over({h}, Nothing)
    /\ UNCHANGED <<time, kept, rpcs, losses>>

ServeMembership(h) == /\ at[h] = "sent" /\ OfMembers(sent[h])
                      /\ Serve(h, MembershipAllowed(SubjectAt(h), sent[h]))

ServeLookup(h) == /\ at[h] = "sent" /\ sent[h].op \in {"look", "read"}
                  /\ Serve(h, LookupAllowed(SubjectAt(h)))

ServeLeader(h) == /\ at[h] = "sent" /\ OfLeases(sent[h]) /\ sent[h].key = Leader
                  /\ Serve(h, LeaderAllowed(SubjectAt(h), sent[h]))

ServeLease(h) == /\ at[h] = "sent" /\ OfLeases(sent[h]) /\ sent[h].key # Leader
                 /\ Serve(h, LeaseAllowed(SubjectAt(h), sent[h]))

ServeRecord(h) == /\ at[h] = "sent" /\ sent[h].op = "put"
                  /\ Serve(h, RecordAllowed(SubjectAt(h), sent[h]))

\* The operation of the store.
Execute(h) == /\ at[h] = "running"
              /\ LET result == Apply(kept, sent[h], time)
                 IN  /\ kept' \in {result.contents} \cup IF result.save THEN {} ELSE {kept}
                     /\ back' = [back EXCEPT ![h] = Response(sent[h], result.answer)]
              /\ at' = [at EXCEPT ![h] = "done"]
              /\ UNCHANGED <<time, sent, heard, awaited, asked, rpcs, losses>>

StoreFails(h) == /\ at[h] = "running" /\ Loses
                 /\ Over({h}, Nothing)
                 /\ UNCHANGED <<time, kept, rpcs>>

Deliver(h) == /\ at[h] = "done" /\ awaited[h]
              /\ Over({h}, AnswerOf(sent[h], back[h]))
              /\ UNCHANGED <<time, kept, rpcs, losses>>

\* The context of the client ends, or the connection breaks.
GiveUp(h) == /\ awaited[h] /\ Loses
             /\ awaited' = [awaited EXCEPT ![h] = FALSE]
             /\ UNCHANGED <<time, kept, at, sent, back, heard, asked, rpcs>>

\* Nobody waits for the message, or for the response.
Forget(h) == /\ at[h] \in {"sent", "done"} /\ ~awaited[h]
             /\ Over({h}, Nothing)
             /\ UNCHANGED <<time, kept, rpcs, losses>>

\* The server ends, with every call it has; the contents stay.
Restart == /\ \E h \in Handlers : at[h] # "idle"
           /\ Loses
           /\ Over({h \in Handlers : at[h] # "idle"}, Nothing)
           /\ UNCHANGED <<time, kept, rpcs>>

Elapse == /\ time < MaxTime
          /\ time' = time + 1
          /\ UNCHANGED <<kept, at, sent, back, heard, awaited, asked, rpcs, losses>>

NextRemote == \/ \E h \in Handlers : \/ Ask(h) \/ Execute(h) \/ StoreFails(h)
                                     \/ ServeMembership(h) \/ ServeLookup(h)
                                     \/ ServeLeader(h) \/ ServeLease(h) \/ ServeRecord(h)
                                     \/ Deliver(h) \/ GiveUp(h) \/ Forget(h)
              \/ Restart
              \/ Elapse

-----------------------------------------------------------------------------
(* Conductors have the leases and write the records of requests and tasks;  *)
(* a node writes its own attestation, and a node or an instance what is     *)
(* known of it, under its own name: whose an instance is, is what its last  *)
(* registration said.  A removal is authorized by what it finds, so that    *)
(* nothing is asked of one that finds nothing.                              *)
Entitled(s, c) ==
    /\ c.op # "remove" => s.fabric = Fabric
    /\ c.op \in {"acquire", "renew", "release"} => s.kind = "conductor"
    /\ c.op = "put" => IF \E n \in Nodes : c.key = AttestOf[n]
                       THEN s.kind = "node" /\ c.key = AttestOf[s.node]
                       ELSE s.kind = "conductor"
    /\ c.op \in {"register", "heartbeat"} =>
           IF c.key \in Nodes THEN s.kind # "instance" /\ s.node = c.key
           ELSE /\ s.kind # "conductor"
                /\ s.kind = "instance" => s.inst = c.key
                /\ c.op = "register" => s.node = c.value

EntitledCalls(o, mine, t) == {c \in Calls(o, mine, t) : Entitled(SubjectOf[o], c)}

\* A call begins when it is made, if the caller is entitled to it.
Begun(h) == \/ at[h] \in {"running", "done"}
            \/ at[h] = "sent" /\ Entitled(SubjectAt(h), sent[h])

StageOf == [h \in Handlers |-> IF ~Begun(h) THEN "idle"
                               ELSE IF at[h] = "done" THEN "done" ELSE "called"]

CallAt == [h \in Handlers |-> IF ~Begun(h) THEN None
                              ELSE IF at[h] = "sent" THEN CallOf(sent[h], asked[h])
                              ELSE [sent[h] EXCEPT !.now = asked[h]]]

Learnt == [h \in Handlers |-> IF at[h] = "done" THEN AnswerOf(sent[h], back[h]) ELSE heard[h]]

Store == INSTANCE AtomicStore WITH Callers <- Handlers, OwnerOf <- ClientOf,
                                   Calls <- EntitledCalls, clock <- time, contents <- kept,
                                   stage <- StageOf, call <- CallAt, answer <- Learnt

storeVars == <<time, kept, StageOf, CallAt, Learnt>>

(* Behind the API, too, each operation takes effect at one moment of a      *)
(* call, for one who is entitled to it, and on the lease that the caller    *)
(* has: whoever gives up, and whichever side ends.                          *)
RemoteIsAtomic == Store!Spec

RemoteSpec == InitRemote /\ [][NextRemote]_remoteVars
-----------------------------------------------------------------------------
(* What the messages carry: leases of which the views leave nothing out,    *)
(* calls that a message gives back, and answers.                            *)

ProperLease(l) == l \in Lease /\ (l.key \notin Profiles => l.inst = None)

ProperContents(s) ==
    /\ s \in Contents
    /\ \A k \in Keys : /\ ProperLease(s.lease[k])
                       /\ s.lease[k] # NoLease => s.lease[k].key = k

ProperCall(c) ==
    /\ c \in Call
    /\ ProperLease(c.lease)
    /\ IF c.op \in {"renew", "release"} THEN c.lease.key = c.key ELSE c.lease = NoLease
    /\ OfLeases(c) => c.key \in Keys
    /\ c.op = "acquire" => (c.key \notin Profiles => c.inst = None)
    /\ OfMembers(c) \/ c.op = "look" => c.key \in Members
    /\ c.op = "register" => c.value \in IF c.key \in Nodes THEN States ELSE Nodes
    /\ c.op \in {"put", "read"} => c.key \in Records
    /\ c.op = "put" => c.value \in Values

ProperAnswer(m, a) ==
    /\ a = [ok |-> a.ok, lease |-> a.lease, value |-> a.value]
    /\ ProperLease(a.lease)
    /\ IF HasLease(m, a) THEN a.lease.key = m.key ELSE a.lease = NoLease

\* What the messages of a call are made of, at each of its stages.
Wire(h) ==
    /\ at[h] = "sent" =>
          LET c == CallOf(sent[h], asked[h])
          IN  ProperCall(c) /\ c.now = asked[h] /\ sent[h] = Message(c)
    /\ at[h] \in {"running", "done"} => ProperCall(sent[h]) /\ sent[h].now \in asked[h] .. time
    /\ at[h] = "done" => ProperAnswer(sent[h], AnswerOf(sent[h], back[h]))
    /\ ProperLease(heard[h].lease)

RemoteShape ==
    /\ time \in Nat
    /\ ProperContents(kept)
    /\ at \in [Handlers -> {"idle", "sent", "running", "done"}]
    /\ asked \in [Handlers -> Nat]
    /\ \A h \in Handlers : asked[h] <= time
    /\ sent = [h \in Handlers |-> sent[h]]
    /\ back = [h \in Handlers |-> back[h]]
    /\ heard = [h \in Handlers |-> heard[h]]

RemoteInv == RemoteShape /\ \A h \in Handlers : Wire(h)
=============================================================================
