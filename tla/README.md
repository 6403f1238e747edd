# agentfab in TLA+

agentfab runs a fabric of LLM agents: a *conductor* decomposes a user's request
into a task graph, a *scheduler* dispatches the tasks to agents on one or many
nodes, a *control plane* keeps what conductors and nodes agree on, and the user
may pause, amend, restructure or cancel the work while it runs.  This directory
holds a TLA+ model of its coordination, the TLC runs that check it and the
TLAPS proofs of what holds for every size of the system.

Paths are relative to `src/internal`.  `PROJECT.json` maps every definition that
models code to its lines, and lists the runs, the mutants, the hazards and the
theorems.

## How to run

    tlc -config MCLeaseStore.cfg MCLeaseStore         (and the other MC*.cfg)
    tlc -config SchedulerGraph.cfg MCScheduler        (and SchedulerControl.cfg)
    tlc -config ConductorAmended.cfg MCConductor
    tlc -config EtcdRetry.cfg MCEtcdStore
    tlapm ControlPlane_proofs.tla                     (and the other *_proofs.tla)

Operators called "Mutant" are never part of a specification: each is a plausible
bug in one definition, and breaks the property it is listed with.

## The system

How the parts interact: `cmd/agentfab` reads a bundle (config), starts a
conductor and, locally, its agents; on other machines a *node host* starts
agents and registers them with the control plane.  The conductor asks a model
for a graph (`HandleRequest`), builds one `Scheduler` per request and calls
`Execute`.  The scheduler takes leases and instances from the control-plane
store, sends task assignments through the transport and waits for results that
its demultiplexer routes by task ID.  Agents of a review loop pass the task among
themselves and report to the conductor at the end.  The chat goroutine of the
user interface calls into conductor and scheduler while `Execute` runs.

| component | state | operations | hard behaviour | correctness |
|---|---|---|---|---|
| control-plane leases (`controlplane/memory.go`, `file.go`, `etcd.go`) | one lease record and one epoch counter per leader, task, profile | acquire, renew, get, release | the clock is sampled before the mutex or the transaction; owners crash, heartbeats renew next to releases, recovery releases what it read | an epoch names one grant; a lease passes by expiry, release or re-acquisition only; a live profile keeps its instance; renewals never shorten |
| task graph (`taskgraph/dag.go`) | statuses and dependencies | Validate, TopologicalSort, ReadyTasks, AllDone, FailDependents, HasRunningDependents | none in themselves; their callers change statuses without a lock | the sort finds every cycle; a cascade fails exactly what waits for the failure; no acyclic graph is stuck |
| scheduler (`conductor/scheduler.go`) | graph, `pending`, `dispatched`, `doneCh`, cancel functions, pause/resume channels, flags | Execute's loop, dispatch goroutines, Pause, Resume, Cancel, AmendTask, ReplaceGraph; placement and loops | a goroutine per dispatch and one of the user share statuses, flags and channels without a common lock | it starts tasks on delivered inputs, respects limits, ends; a stop reaches what runs; nothing stays running without a goroutine |
| result demux (`scheduler.go` 111-225) | subscriptions and bounded buffers per task | subscribe, route, unsubscribe | messages before a subscription, after it and beyond the buffer | a result reaches the dispatch it belongs to |
| conductor (`conductor/conductor.go`) | active graph and scheduler, leader lease, request records | HandleRequest, chat, amend, restructure, recovery, leader heartbeat | user operations during execution; a restarted or second conductor | a request has one verdict; recovery interrupts only what nobody executes |
| membership (`controlplane/memory.go`, `liveness.go`, `discovery.go`) | nodes and instances with their last heartbeat | register, heartbeat, list, remove, resolve an endpoint | late heartbeats, restarts under the same ID | what is routed to is alive and has room |
| file store (`controlplane/file.go`) | one JSON state file, a lock file | lock, read, run the operation, write a temporary file, rename | a crash or an error between the steps, several processes | every operation is atomic |
| etcd store (`controlplane/etcd.go`) | the same records under keys | the same operations as functions that etcd may run again | a commit that conflicts | the same as for the other stores |
| service and remote client (`controlplanesvc`, `controlplane/remote.go`) | attestations | attest, register, heartbeat, the store's calls | an attestation that expires under a running node; a handler that goes on after its client gave up | only attested nodes register; a remote call takes effect at one moment |
| loop state machine (`loop`) | state, transition count, history | Transition, ResolveNextState, ForceEscalate, Validate | the context travels with the message from agent to agent | a loop visits declared states and ends |
| agent (`agent`) | message inbox, loop context, the history and the files of a tool loop | handle an assignment, run tools, shorten the history, verify, give verdicts, pass a loop on, report, escalate | failing model calls, failing hand-over, a context that overflows, a model that answers anything | every assignment is answered; what is forgotten does no harm; an approval has evidence |
| task input (`scheduler.go`, `loop/context.go`, `agent.go`) | results, artifacts and the parts of a message | filter, list, compact, truncate | filters that meet bounds | what was made upstream reaches who depends on it |
| node host (`nodehost/host.go`) | agents, registration, heartbeat | start, sync membership, shut down | an agent that fails to start; attestation before every heartbeat | a node that runs stays a member |
| identity (`identity`, `mtls`) | tokens with use counts; an issuer's files, certificates in hand | issue, attest, renew, rotate the authority | a token used by two nodes, or twice by one; processes that share an issuer and die between two writes | a single-use token admits one node; who shakes hands trusts the other |
| transport (`local`, `grpc`) | bounded inboxes, cached connections | send, receive, register, close | full inboxes, moved endpoints | a refused message is reported to its sender |
| knowledge (`knowledge`, `conductor`) | the shared graph, an agent's graph, its cold storage, on disk | merge, prune, curate, move to cold, look up | goroutines that load, change and save the same files; two files written in steps | curation forgets nothing that it read; a lookup finds what is near |
| routing (`routing`) | tier per agent and task, statistics | model, escalate, record | only the benchmarks set a router | escalation ends |
| model calls (`llm/meter.go`) | usage per agent | generate with retries, account | timeouts, cancellation between retries | a call ends |
| workspaces (`runtime`, `local/storage.go`) | tiers of files, staged copies | refresh, sync, publish | agents that share a tier; a copy that is written back as a whole | what a task published is there for who depends on it |
| events, config, sandbox, structured output, user interface, benchmarks | none the coordination depends on | | | |

The hazards, each at its line, are in `PROJECT.json`; those without a property say
why.

## Modules

| module | models |
|---|---|
| `FencedLease` | what any lease promises: one register with an owner, a time and a token |
| `LeaseStore` | the calls of the control plane's leases; implements `FencedLease` |
| `ControlPlane_proofs` | the theorems of `LeaseStore`, `NodeHost` and `Certificates` |
| `TaskGraph` | the algorithms of `taskgraph/dag.go` |
| `TaskGraph_proofs` | its theorems |
| `GraphRun` | what the execution of a graph promises |
| `Scheduler` | Execute, the dispatch goroutines, the user's operations; implements `GraphRun` |
| `Scheduler_proofs` | its theorems |
| `LoopFSM` | the state machine of a review loop, as operators |
| `LoopRun` | one loop task: its dispatch, its wait, and the agents that pass it on |
| `LoopRun_proofs` | the theorems of `LoopRun` and `LoopLeases` |
| `LoopLeases` | the instances that conductors reserve for the loops they run |
| `Dispatch` | the dispatches of tasks with placement, leases, demux, wait, questions and health checks, and the agents they reach |
| `Dispatch_proofs` | its theorems |
| `AgentTurn` | one task in the hands of an agent: tool loop, model calls, commands, verification |
| `ToolHistory` | what the tool loop keeps and forgets: its history and the files of responses |
| `TaskInput` | how results get into the input of the tasks that depend on them |
| `Workspace` | the files agents work on, directly or in staged copies |
| `TaskRun_proofs` | the theorems of `GraphRun`, `AgentTurn`, `ToolHistory`, `TaskInput`, `Workspace`, `KnowledgeGraph` and `Knowledge` |
| `KnowledgeGraph` | the algorithms on one knowledge graph |
| `Knowledge` | the files of what a fabric knows, and who writes them |
| `Conductor` | conductors that start, lead, recover, handle requests and end |
| `Conductor_proofs` | its theorems |
| `Membership` | records of nodes and instances, heartbeats, resolution of endpoints |
| `Enrollment` | join tokens |
| `ControlPlaneService` | the handlers for node hosts, over `Membership` and `Enrollment` |
| `NodeHost` | node hosts and their calls, over `ControlPlaneService` |
| `Certificates` | the issuer in a shared directory, the certificates kept renewed, handshakes |
| `StoreOperations` | what each operation of the store does, as a function of the contents |
| `AtomicStore` | what any store promises: an operation takes effect at one moment |
| `FileStore` | the store in a file; implements `AtomicStore` |
| `AtomicStore_proofs` | the theorems of `FileStore` and `RemoteStore` |
| `EtcdStore` | the leases in etcd, whose transactions may run twice |
| `RemoteStore` | the store behind the control-plane API; implements `AtomicStore` |
| `MC*` | instances for TLC; where modules that do not interact share a run, `about` says which one a behavior is of |

### LeaseStore

The store keeps leases under different keys apart; the module follows one key,
whose kind Init chooses.  `lease` is the record of the store (`NoLease` when there
is none), `epoch` the counter that outlives it.  `held[p]` is the copy of the
record in the hands of goroutine `p`, `call[p]` its call in flight.  A call is two
steps, because the code takes `time.Now()` before the mutex (memory, file) or the
transaction (etcd): `Begin*` samples, `Acquire*`, `Renew*`, `Get*` commit.  The
stores differ in one place, an expired record met by a get, which is a choice in
`GetMisses`.  `RenewFoundProfile`, `DropFound`, `Release`, `ReconcileRelease` and
`RenewFails` are what scheduler and conductor do with what a call returned.  A
crash may also be a reply that is lost after the commit.  Two owners with the same
ID (a restarted conductor) are two callers with one owner.  `revoked` is a history
variable: the epochs whose holder gave them up.

### TaskGraph and GraphRun

`TaskGraph` has the code's algorithms, breadth-first walks by rounds, over a
dependency function.  `GraphRun` has the promise: `Acyclic` and `Doomed` are
declarative (every set of tasks has one that waits for none of it; the least
closed set around a failure), and the algorithms are checked against them.  Its
steps start a ready task, finish it, put it back to pending and cascade a failure.

### Scheduler

One step is what a goroutine does between two accesses another one can observe.
`pc` walks through the loop of `Execute`: `Loop` reads the pause channel, `Gate`
the resume channel, `Held` waits, `Drain` receives what a pause stopped, `Swap`
takes a new graph or the ready tasks, `Skip`, `Dispatch` and `Launch` start them,
`Settle` decides between waiting and the deadlock error, `Wait` and `More`
receive.  A goroutine in slot `w` delivers an outcome, fails or is lost, reads the
task's status, then the flags (two steps: this is where a resume may come in
between), may retry, and exits.  The user's operations are sequences of steps with
the code's own order; `user` is the operation under way.  Channels that are
replaced are numbered: a goroutine that read channel `n` finds it closed when it
was closed or replaced since (the code always closes before it replaces).

Abstractions: a restructuring creates the uncompleted tasks again under the same
IDs with the same dependencies, one of the outcomes `Decompose` may have.  The
deferred calls of a dispatch goroutine are one step.  The placement of a task on an
instance is a dispatch that may be lost (`Lose`); `Dispatch` has the placement.
The user does one operation at a time, while Execute has not returned, which is
what the chat loop of the terminal allows.

### LoopFSM and LoopRun

A loop definition is a record and the FSM a few operators, since the state of a
loop travels with its messages.  `LoopRun` has one task that is dispatched to a
loop: `Dispatch` (dispatchLoopTask), `Receive`, `GiveUp` and `TimeOut` (the wait),
`Amend`; and the agents: `Take` starts on a message and sends the status update,
`CompleteLoopStep` gives a verdict and routes it (`Route`, `Forward`, `Answer`),
`FailLoopTask` gives up.  Nothing stops an agent when its dispatch is abandoned, so
the hops of two dispatches go on side by side; `of` is the dispatch a hop really
descends from and `nonce` what its context says, and `lost` the dispatches whose
hop went down with an instance or whose result was refused by a full conductor.
`decisions` says whether a context carries the project's decisions, `prompted`
whether the prompt has them.

`Verdict` follows a reviewer's answer through `extractVerdictFromEnvelope`,
`extractVerdict` and the demand for evidence: an answer is what its envelope says,
what its first VERDICT line says, what its words sound like and which files it
names.  `BuildStatePrompt` is what an agent is asked to do in a state.

Abstractions: a loop runs under a control plane that has one instance per agent
(without one, nothing is ever given up); an instance that goes and returns keeps
its ID.  Questions to the user only reset the timer and are left out, as
are messages of other types and tasks.

`LoopLeases` is the part of the dispatch before the first message, with several
loops of several conductors: `Skip`, `Refused`, `Join`, `Choose` are what
`acquireProfilePlacement` may find of a profile, `Renew` and `Acquire` the call that
follows, in a step of its own, `Back` and `Release` the way out of a loop or of a
preparation that failed at a later profile, lease by lease.

### Dispatch

Several tasks of one profile, and the instances that offer it.  `phase` is where the
dispatch goroutine of a task is: `Select` chooses an instance from what the record
and the in-flight counts say, `Acquire` takes the task lease and counts, `Send`,
`Subscribe`, then the wait, in which a result is accepted or discarded by its
nonce, a question goes to the user and back (`ForwardQuery`, `UserAnswers`), the
health check finds the instance or the lease gone (`Redispatch`), or the time is
over.  `Route` is the demultiplexer with its overflow.  The other side is the
message loop of an agent: `Take`, `Report`, `Question`, the answer it waits for, and what
it drops from its inbox meanwhile (`forgotten`).  An instance may crash, be
withdrawn, be cut off, come back or start again under its old ID.  Renewals are
steps only where they matter: one that never comes (`Lapse`) and one whose answer
comes when its dispatch is over (`late`).

Abstractions: the bounds of the demultiplexer's channels (16) are not reached, so
that nothing is dropped; ties between instances of the same load are broken any
way; a task lease is an epoch, since `LeaseStore` has its record.

### AgentTurn

One task from `executeTask` to the answer.  `loop` has the iteration, its limit and
what counts against it; `resp` what the model's last response holds (tool calls,
file blocks, a question); `tries` the attempts of a call that failed (`meter.go`);
`groups` whether a process group of a command is alive.  The model may answer
anything at every call (`Sites`), so prompts are left out, and a context that
overflows is retried when there is a window to compact.  `Execute` is one tool call,
of which only the shell keeps what it left running; `RunVerify` the verification.

### ToolHistory, TaskInput, Workspace

`ToolHistory` takes the same loop round by round and follows its data.  `input` is
the history, as messages with a role and a size; `accumulated` the file blocks taken
out of responses, in their order, and `dir` the scratch directory they are written
to, which commands change.  `Prepare` trims or compacts, `Overflow` compacts once
more, `Work` is a response with tool calls, `TurnDown`, `Finish` and `Force` the ways
a response is returned: stripped of what has not changed and merged with what was
accumulated.

`TaskInput` is a chain of functions, from what `NodeOf` keeps of a result through
`Assignment` or `LoopAssignment` (what a message carries), `Forward` (what a loop hands
on, hop by hop) to `BuildTaskInput` and `TruncateDeps`.  A name counts by what the
filters look for, a size by what it takes to name a file.

`Workspace` has requests one after the other, each with a task per profile in the
order of their dependencies.  A file's content is who wrote it and in which request.
An agent works in the tiers themselves, as over `local.Storage`, the one storage of
the program, or in staged copies (`stagedTier`), which `RefreshWorkspace` fills and
`Sync` writes back.  No storage of the program is staged: the module's staged one
refuses no write and no delete, like the one the tests of the repository use, and
only what reads of it may fail (`RefreshFails`, `Views`).  A result lists the files of
the answer and of the tools run on it, not those found in scratch.

### KnowledgeGraph and Knowledge

`KnowledgeGraph` has merge, prune, staleness, lookup (breadth-first with depth, over
edges both ways, seeded by keywords) and the choice of what is cold, on a graph of
nodes with what the algorithms look at.  `Knowledge` has the three files and the
goroutines that load, change and save them: requests with the copies they loaded,
a refresh after each task, the pass at the end of a request, the hit counters,
the chat and the curation, which writes cold storage before the graph.  A save may
fail or tear, and the process crash between any two.

### Conductor

Any number of conductor processes on one control plane.  `pc` walks through `Start`
(register, lead, reconcile request by request and task by task, set up) and
shutdown; `stage` through `HandleRequest` (clarify, wait for knowledge, decompose,
record, execute, close).  Of an execution the module has what it writes to the
records and leases.  A loop task (`Loops`) may also end escalated, with artifacts, which `HasFailures`
lets pass, or without (`fruitless`; to the record it is escalated too).  `first` is
the graph that `HandleRequest` decomposed, `node` the graph its scheduler executes,
and they differ after a restructuring.  A write of a task record may fail, is logged
and forgotten (`syncTaskState`): `unsaved` has the records whose last write was lost.
History variables are `outcome`, the graphs as their executions left them, `lapsed`,
a leader lost its lease with work in hand, `amended`, and `begun`, the numbers that
were given to requests, which are never given twice.

### Membership, Enrollment, ControlPlaneService, NodeHost

`Membership` has the store's two tables with the age of each heartbeat, `Enrollment`
the tokens, `ControlPlaneService` the handlers that check an attestation before
they write, and `NodeHost` the hosts: `Start`, the heartbeat loop (`attest`, `node`,
`heartbeat`, then instance by instance), `Shutdown` and crash, with the two
goroutines of a host side by side.  A host without a configured control plane attests
with its own authority and opens the store (`StartLocal`), or finds a leader's address
in that store and is remote from then on (`StartWithLeader`).  A remote call or its
answer may be lost, and a call given up may arrive when its caller is gone, even when
the host runs again (`late`): no handler or store looks at a context.  Of a record,
`own` says that the endpoint is that of the process that runs, `overtook` that a late
call of an ended process wrote it while a later process ran.  A token is reusable
or not and fits the node or not (`Issue`).  A time is kept as an age, so that no clock
grows.

### Certificates

Processes that share a data directory.  A call of the issuer reads the authority,
the retired root and the state under a lock, rotates an authority near its end
(`EnsureSharedIssuerState`: three files, one after the other; `CutOff`: the process
dies between or in one)
and signs when the lock is free again, so that another rotation may come between.
`Renew` is the loop of a managed certificate with its margins and retries, `Handshake`
the call a handshake makes of the issuer; which certificates a peer accepts is
`Verifies`, with the roots of its `TrustBundle`.

### StoreOperations, AtomicStore, FileStore, EtcdStore

`StoreOperations` has every operation of the store (leader, task and profile leases,
nodes, instances, attested nodes, requests and tasks) as a function of contents,
call and time.  `AtomicStore` is what a store promises for any such function:
the operation takes effect at one moment between call and return, at a time between
the sample and that moment, or not at all.  `FileStore` takes the mutex, the file
lock, loads, runs, writes a temporary file and renames it; every step may fail and
the process may crash at every step.  `EtcdStore` runs a lease operation on a
snapshot, commits it if nothing it read has changed, and else runs it again, with
the variables of the closure as the first attempt left them.  `RemoteStore` is client,
server and service: a call and its answer may be lost, a client may give up a call
whose handler goes on, and a handler authorizes its caller by the records it finds
before it runs the operation.  Of an instance the node is what its last registration
named: a registration is authorized for the node that it names itself, a heartbeat or
removal for the node on record (`NodeOf`).  `asked` is a history variable: when a call was made,
which a handler does not learn, and from when on it may take effect.

## Runs

| run | instance | shows |
|---|---|---|
| `leases` | 3 goroutines, 2 of one owner; 2 instances; clock to 2, epochs to 3, ttl 1. Or two processes with certificates: leaf TTL 5, short TTL 3, margin 3, retired roots 2 longer, an authority of 8 rotated at 7, time to 8, one death between or in writes, one error | fencing, pinning, renewal, refinement of `FencedLease` for the three kinds; certificates of live processes trust each other |
| `graph_run` | all 65,536 relations over 4 tasks, cyclic ones and self-loops included, with every status the promise reaches. Or knowledge: one request, two manifests, a failure or a crash, one change of age; and lookups in every graph of a family over four nodes | algorithms equal definitions; the promise is safe and never stuck; curation forgets nothing and a lookup finds what is near |
| `scheduler_graph` | a diamond whose two middle tasks share a profile limited to one; every outcome, one lost dispatch, one retry; no user | Execute implements `GraphRun`, keeps the limit, never reports a deadlock, ends |
| `scheduler_control` | a chain of two, four goroutines, one lost dispatch, two operations of any kind and a resume for every pause, one restructuring | counts of goroutines, one goroutine per task that can be stopped, nothing left running that nobody executes, cancellation ends |
| `loop` | three definitions (the review loop of the decomposition prompt, two reviews in a row, one that fails validation), budget 3, inboxes of 1, the conductor's of 2, two dispatches, one crash or broken connection, with and without a timeout. Or leases: two loops of one conductor, one of them dispatched twice, and one of another, two profiles, three instances, one lapse, loss or store error | the budget holds, the right result settles the task, completion is approval with evidence, an answer comes; a running loop keeps what it reserved, and nothing stays reserved for nobody |
| `dispatch` | two tasks, two instances on two nodes with room for one task each, one of which may be lost; two faults (crash, cut, withdrawal, lapse, late renewal, question, timeout) | the result of the last dispatch counts, counts and leases follow the placements, a task ends unless its agent forgot it |
| `turn` | every kind of agent definition, 4 iterations, 2 verifications, 2 retries, a budget of 2 calls. Or a history: a window of 9, long results of 3, 6 rounds, one path with two contents. Or inputs: two dependencies, four kinds of names, at most two hops of a loop. Or workspaces: two profiles, one of them remote, two requests, one edit, direct or staged with one failed refresh | the loop is bounded although it raises its own limit, no command outlives it, it ends; what is forgotten does no harm; what was made upstream arrives |
| `conductor` | two processes with IDs of their own, one given requests: one of two tasks, the second a loop, and one that plans nothing; one fault, which may be writes of task records that get lost | one leader, what is recovered is at rest, every task of a completed request is completed or escalated with artifacts, a request ends |
| `cluster` | one node with one instance, with a configured control plane or without, with every kind of token; TTL 1, one late call at a time | nothing resolves to a process gone for longer than the TTL unless a late call of it overtook the one that runs, withdrawn stays withdrawn, a node joins with a token that lets it |
| `files` | three goroutines in two processes, two calls of any operation, one fault at any step, one tick. Or calls behind the API, at most two, of a conductor's two handlers and a node host's, one loss, one tick; or three calls of the conductor about the profile's lease, without a loss; one node and one instance | the store in a file implements `AtomicStore`, every call returns; a remote call implements it too |
| `conductor_amended`, `etcd_retry` | as `conductor` without faults; two conductors on etcd | violations: see below |

Why the bounds are enough.  `leases`: a stale sample needs one tick between sample and
commit, a takeover a second one; three epochs are a grant, its successor and a return to
the first owner; the same-owner hazards need two goroutines of one owner and the others a
second owner.  `graph_run`: four tasks contain every shape two walks can meet in (chain,
diamond, fork, join, cycle of each length). `scheduler_control`: every race in the hazard
list takes two operations, and two tasks are one that is stopped and one that depends on
it.  `loop`: a budget of 3 is spent by one revision, so that both an approval and an
exhausted budget occur; a full inbox needs two hops, which two dispatches give; stale
results and updates need an abandoned dispatch and a present one; a shared lease that is
released twice, with another grant in between, takes the three loops and a second
dispatch.  `dispatch`: a stale result takes one loss and a second dispatch, a late renewal
a second fault; with room for one on each node the two tasks compete for what is left.
`turn`: the limits leave a redirect and two verifications room to raise the limit one
after the other; a history of six rounds overflows its window twice; the room of an input
is less than two dependencies with all their files take, and so is its floor.
`conductor`: what a second conductor finds takes one end of the first; a second lapse
returns to states that one lapse reaches. `cluster`: an age of TTL plus one is any later
age, except for the end of a token, which counts to TTL plus two (`LongExpired`); a late
call of each kind meets every state of a later process; instances of a node, and nodes,
change nothing of each other's records, and the theorems hold for any number of them.
Certificates: the time covers one rotation and the end of the retired root, with the
proportions of the code (a leaf lives shorter than a root is kept).  `files`: two calls
are the one that is cut short and the one that meets what it left; a third goroutine makes
the mutex and the file lock both contended; a remote call that is given up, repeated and
overtaken takes two clients, and a renewal of a lease that was granted again in between
three calls.  The bounds (`MaxClock`, `MaxEpoch`, `MaxOps`, `MaxGen`, `MaxLost`,
`MaxRetries`, `Slots`, `MaxDispatches`, `MaxCrashes`, `MaxFaults`, `MaxCalls`, `MaxSpent`,
`MaxTries`, `MaxAges`, `MaxRpcs`, `MaxLosses`, `MaxTime`, `MaxNow`, `MaxCuts`,
`MaxErrors`, `MaxRequests`, `MaxEdits`, `MaxFailures`, `MaxListed`, `MaxHops`, `MaxLate`)
are guards of the actions that count. `CHECK_DEADLOCK FALSE` is in the configurations
where a clock or a counter reaches its bound, or a request or a task that returned does
nothing more; `cluster` never stops and is checked for it.

## Fairness

`Scheduler!Spec` has weak fairness on Execute and on every dispatch goroutine (Go
schedules runnable goroutines; an agent answers or its task times out) and on carrying an
operation of the user to its end, never on starting one: the user need not ever resume.
`LeaseStore` and `GraphRun` have no liveness property and no fairness.  `LoopRun` is fair
to the wait of the scheduler, to its timer and health check, and to every agent that is
up; not to crashes, restarts, dispatches or amendments.  `Dispatch` is fair to the
dispatch goroutines, to the ticker of the health check, to the agents that are up (a turn
ends: run `turn`), to a user who was asked and to the TTL that passes for an instance
without heartbeat; not to losses, restarts or lapses.  `AgentTurn` has weak fairness of
`NextTurn`: calls of a model, commands and questions have timeouts.  `ToolHistory`,
`TaskInput`, `Workspace`, `Knowledge`, `Certificates`, `RemoteStore` and `LoopLeases` have
safety properties only.  `Conductor` is fair to the `HandleRequest` of those that are
given requests (`Asked`), with the execution of what it dispatched, and to the goroutine
that learns; not to starting, leading, failing or being asked.  `NodeHost` is fair to the
heartbeat loop and strongly fair to an attestation and a registration that succeed: calls
are lost again and again, but not each of them.  Nothing is assumed of late calls.
`FileStore` is fair to every caller: both locks go to who waits.

## Disagreements

*Amended requests.*  `conductor.go:1411` says of RestructureGraph that it "cancels
running tasks, re-decomposes remaining work, and swaps the graph".  HandleRequest
keeps the graph it decomposed first in a local variable, and takes the verdict, the
artifacts and the result from it (`conductor.go:1004`): the tasks that took the place
of others do not count, so a request whose new tasks failed is recorded as
completed.  Run `conductor_amended`.

*etcd.*  `docs/architecture.md:31` says that a fabric contains "one active Conductor
leader", and line 192 that the etcd store is appropriate for it.  The function that
AcquireLeader hands to the transaction sets `acquired` (`etcd.go:113`), a variable
outside of it.  When the commit conflicts the function runs again, finds the
lease of the conductor that was faster, and returns with `acquired` still true.
Task and profile leases are acquired the same way.  Run `etcd_retry`.

The models also show the following, for which no run is kept.

*Restructuring.*  The goroutines that RestructureGraph cancels leave their tasks
running; Execute receives them while the model is still decomposing, finds nothing
in flight and nothing ready, and returns "deadlock: no ready tasks but graph not
done" (`conductor.go:1422`; `Scheduler`).

*Pause.*  `scheduler.go:1579` says that running tasks "are reset to pending so they
re-dispatch on resume".  Resume clears the paused flag before it resets them; a
goroutine between its two reads fails its task instead (`Scheduler`).

*Decisions.*  `scheduler.go:2007` builds the decision context "for review
enforcement across the loop".  An agent that passes a loop on leaves it out of the
context it sends, so only the first hop has it (`LoopRun`: `decisions`).

*Record.*  Status updates are not compared with the nonce of the dispatch; one of an
amended dispatch moves the record to the old hop's instance, which is what the
health check then looks at (`scheduler.go:2226`; `LoopRun`).

*Restart.*  A node host that crashed and is back under the same instance IDs before
its heartbeat is overdue has forgotten its task, and the health check sees nothing:
a task without a timeout is waited for without an end (`scheduler.go:2262`;
`Dispatch`: `forgotten`).

*IDs.*  Conductors that are not given an ID all have the default one
(`conductor.go:205`), and the lease of a leader is granted again to whoever has its ID.
`OneActiveLeader` is checked for conductors with IDs of their own, and fails for
others.

*Shared reservations.*  A profile lease belongs to a conductor, not to a loop: its loops
share it, the first that ends releases it, and the others run on while another
conductor may reserve the profile on another instance; a preparation that fails
gives back leases of loops that run.  `findSchedulableInstanceByID`
(`scheduler.go:1157`) asks for an instance that can be scheduled and prefers the one
it was given: when that one is unavailable and another is not, the loop uses the
other under a lease for the first, where `scheduler.go:1048` means to refuse.  A
heartbeat whose renewal fails once never tries again.  Two conductors whose loops
need two profiles in opposite order refuse each other for as long as they try at
the same time, without a pause in between (`LoopLeases`).

*Verdicts.*  The last resort of `extractVerdict` takes "not approved" for an approval,
and a reviewer entered on "revise" is given the prompt of a revision, which never
asks for a verdict (`agent.go:2310`, `loop/resolve.go:73`; `LoopRun`).

*Files of a turn.*  The comment at `agent.go:393` says that later blocks for a path
override earlier ones.  `mergeAccumulatedBlocks` takes the first and
`stripRedundantBlocks` compares with the latest: of a file that was deleted from
scratch an older version is returned.  The files of a response that verification
turned down are neither kept nor on disk when it runs (`agent.go:363`).  A history may
keep the result of a tool whose call it dropped (`ToolHistory`).

*Inputs.*  When files of a dependency pass the filter its part has no summary, and an
agent drops it; of the texts of a message only the first is read, so the tree of
existing artifacts is not (`scheduler.go:807`, `agent.go:2505`; `TaskInput`).

*Workspaces.*  `docs/storage-architecture.md:107` says that an agent "sees a
consistent shared-tier view that reflects everything its upstream task results have
settled in storage".  Over a staged storage it does not always: a sync writes every
file of the copy, old ones over what others published since and, at the end, over what
the turn itself has just published; and after a refresh that failed half way, the next
sync deletes from the storage what the refresh had emptied and not yet copied again.
`UpstreamIsVisible` therefore speaks of the content of files only where the
directories are the tiers, and of staged copies only while no refresh failed.  The
program is not affected: its storage says where its tiers are (`local/storage.go:212`).
Scratch is documented per task (`docs/storage-architecture.md:14`) and is a profile's,
kept to the end of the request on the conductor's machine (`Workspace`).

*Node hosts.*  A one-time token (`agentfab node token create --reusable=false`; the
default is true, `cmd/agentfab/node.go:240`) is used up by the attestation in Start
(`nodehost/host.go:179`).  Every sync attests again and is refused
(`identity/jointoken.go:130`), so that the host is up and its agents are never
registered; `EnrolledNodeJoins` asks for a token that is reusable or not used yet.  A
registration of an ended process that arrives after its host started again and
registered overwrites the endpoint, and the new process's heartbeats keep the record
fresh: lookups resolve to the old endpoint until the next sync registers the instance
again.  `LostIsUnresolvable` exempts what was overtaken like this while the later process
runs; when that has ended too, the TTL applies (`NodeHost`: `overtook`).

*Instances.*  The service authorizes the registration of an instance for the node that
the request names (`controlplanesvc/service.go:183`), whatever node the record under that
ID names: an attested node replaces the record of another node's instance
(`RemoteStore`: `NodeOf`).

*Task records.*  An error of the store is logged and forgotten when a task's record is
written (`conductor/scheduler.go:2218`).  A request may be recorded as completed while
the record of a task still says running, and a recovery releases leases only of tasks
that are on record (`CompletedIsDelivered` and `AtRest` name both).  A loop task that
escalated counts as delivered when it has artifacts (`taskgraph/dag.go:271`), so a
completed request may have tasks that are not (`Conductor`).

*Knowledge.*  The pass at the end of a request saves the graph the request loaded
before it executed, over what refreshes saved meanwhile (`conductor.go:832`); pruning
deletes decisions and stale nodes instead of moving them to cold storage, by the
limit of an arbitrary agent (`conductor.go:1049`); a graph whose file cannot be read is
replaced by an empty one and saved (`Knowledge`).

*Times and certificates.*  A time that was never set becomes a garbage time on its way
through the remote client, which takes only 0 for unset (`controlplane/remote.go`;
`RemoteStore` leaves times out).  A rotation cut off between the new authority and the
record of the old one loses the retired root (`identity/localdev.go:226`;
`Certificates`, which excludes what that cut leads to).

## Proofs

Each `THEOREM` and `LEMMA` of the `*_proofs` modules is proved to the last leaf, for
every value of the constants.  What a theorem assumes beyond the assumptions on
constants, which TLC evaluates in the runs, stands in its statement and is named
here.  Where a proof module holds the theorems of two components, their operators
have names of their own (`HostsSpec`, `TurnSpec`).

### Leases, node hosts and certificates (`ControlPlane_proofs`)

*Leases*, for all sets of callers, owners and instances, any TTL and any bounds.
The invariant of interest is not inductive: `LeaseInv` adds what a record in flight
says about the store (`CallInv`: a record with the epoch of the store's has its owner
and instance; `StoreInv`: the counter is ahead of the record, and no expiry is
further away than a TTL; `HolderInv`: outside profile leases an epoch is in one
caller's hands only and the copy in the store is that caller's).  Proved:
`TypeCorrect`, `LeaseInvariant`, `Fencing`, `Handover`, `Pinning`, `Refinement` (every
step of the store is a step or a stutter of `FencedLease`) and `Renewal`: outside profile
leases the record that a renewal finds is the caller's own copy, which it had before
it took its sample, so that sample plus TTL is no earlier than what is there.

*Node hosts*, for any number of nodes, instances and late calls, configured or not, with
any tokens, and any TTL.  `LostIsUnresolvable` fails to be inductive for two reasons: a
call in flight says nothing of the record it is about to write, and a host that is down
says nothing of what its last process sent.  `HostsInv` has both, per node.  `RecordInv`: a
ready record of an ended process is at least as old as the end of that process (`gone`),
unless a late call brought it while a later process runs (`overtook`), which counts only
until that one is over (`Unstarted`); a remote node's is no fresher than its
attestation; what a heartbeat is on its way to was registered before; and a process
that embeds the store has records of its own only of instances that it runs or is
withdrawing (`Placed`).  `CallsInv`: what was given up is about the sender's instances, and
as old as the end of the sender, when that has ended, and of the attestation it was sent
with (`LateInv`).  What the store does to a record is one of three things (`Keeps`: a look
or a heartbeat leaves owner and age; `Beaten`: a heartbeat renews it; or it is the record
of a registration), which the lemmas on `Membership` and `ControlPlaneService` say once; a
step of one node then concerns the others at most as a look (`StepOf`).  Proved:
`HostsTypeCorrect`, `LostResolvesNowhere`, with no condition on when late calls arrive, and
`WithdrawnForGood`, which is the case of an embedded host that waits for its heartbeat
loop to end.

*Certificates*, for any number of processes, times, deaths and errors: `Trusted`.
That two certificates accept each other is about the authority each was signed by and
the roots each was given, which may be two rotations apart.  `CertInv` says of every
process, while the files are usable, what it may still count on: `TimeOf` (a
certificate in hand is valid for as long as the retries that are left may take) and
`TrustOf` (its root is the present one or the retired one, which is kept until after the
certificate ends, and its bundle has the roots of all that are alive).  The proof is
arithmetic over lifetimes, and `CertificatesAssumption` names what it needs: an
authority is rotated (`RotationWindow`) earlier before its end than a leaf lives and
outlives a leaf, a retired root stays longer than the last leaf under it (`Slack`), a
certificate is renewed in the second half of the short lifetime (`RefreshMargin`), and
the margin has room for the renewals that may fail (`RoomToRetry`).  The code has 365
days, 30 days, 24 hours, one hour, and margins of an hour and of half of five minutes
with a retry every minute (`identity/localdev.go:18`, `identity/managed.go:16`,
`mtls/tls.go:22`).

### Task graphs (`TaskGraph_proofs`, `TaskRun_proofs`)

*Algorithms*, for every finite set of tasks.  The rounds of the walk and of Kahn's
sort are recursive functions, and the library's theorems about induction and
recursive definitions take operators as parameters, which the provers cannot
instantiate.  Both are therefore done by hand over sets: what fails at some round
fails at a least one (`WFMin`), and a recursive function exists because every number has
a table up to it.  `WalkIsClosure`: the breadth-first walk is the least set closed under
waiting.  `SortIsTopological`: the sort orders each task at most once and after what it
waits for, and leaves out only tasks that wait for one left out.
`ValidateFindsCycles`: `Validate` accepts exactly the graphs without a cycle.

*Executions*, for every set of graphs.  `GraphInv` strengthens `RunsOnDelivered` with
the types and the absence of cancelled tasks.  The core is `DoomedWait`: the tasks
with an undelivered dependency are closed under waiting, so the least closed set
around a failure lies within them, so a cascade meets only pending tasks.  Proved:
`GraphInvariant`, `TypeCorrect`, `DeliveredInputs`, `Progress` (no acyclic graph gets
stuck), `Finality` (nothing takes back an end) and `Judged`, which puts the theorems on
the algorithms together as the run states them.

### Scheduler (`Scheduler_proofs`)

For every graph, every limit, any number of goroutines and any sequence of user
operations.  `SchedulerInv` is the types with `PendingCountsGoroutines`: neither is
inductive without the other, since Execute decrements `pending` without a test.
`TokenInv` says that, while the first graph is executed, a dispatched task is in
exactly one place (about to be launched, in a goroutine registered under its ID, in
`doneCh`); its critical step is the drain after a pause, which forgets what was
dispatched when `pending` is 0, and there the count says that nobody is alive.
`LimitInv` carries the check of a limit over to the start of the goroutine.  Proved:
`SchedulerInvariant`, `TypeCorrect`, `Counting`, `Tokens`, `OneGoroutine`, `Counted` (what
the run checks as `GoroutinesAreCounted`), `Stoppable` and `Limits`.  `OneGoroutine` and
`Stoppable` speak of the first graph only, because both fail after a replacement:
Execute forgets what it dispatched (`scheduler.go:366`), and a task of the new graph
may be dispatched next to the goroutine of the old one under the same ID.

`Executed` is `RunningIsExecuted`.  A goroutine that is alive need not help its task: one
that has settled it may be about to exit while the task runs again.  `RunningInv`
therefore asks for one that has still to settle (`Settling`), and `TakeInv` says what a
restructured graph takes over: its nodes are fresh or were completed when it was
built, no goroutine is still to settle those (`DoneInv`), and what an amendment
reopens among them does not run before the graph is taken (`KeptInv`).  The property
speaks of the first two graphs; the run builds no third, and of what a third takes
over neither says anything.

`Promised` is the refinement of `GraphRun`, under `Ops = {}` and `Validate(Deps)`: a user who
amends or restructures takes results back, which `GraphRun` does not promise to
survive, and `decompose.go` lets no graph through that `Validate` refuses.  The mapping
reads a result that the adaptive router may still take back (`Settled`) as running.
`WorkInv` says that what is ready, launched or worked on waits for nothing, so a
start maps to a start; a cascade maps to a cascade because `Validate` excludes a task
that waits for itself.

### Conductors (`Conductor_proofs`)

For any number of conductors, requests, tasks, plans and faults, under `DistinctIDs`:
conductors have IDs of their own (`WithConductorID`).  Without one they share the
default and with it the lease, see *IDs* above.  `ConductorInv` goes along the life of a
process: who has a lease has the one in force, unless `lapsed` (`LeaderInv`); a request is
handled by one process, which leads (`HandleInv`); nothing is recorded of a number
before its request is (`NewInv`); the graph in a conductor's hands and the records
agree while it executes, up to the writes that were lost (`GraphInv`, `Shown`), the lease
of a dispatch is the process's own or gone, and only the process that handles a
request dispatches its tasks (`RecordInv`); and a recovery has left at rest what it has passed
(`RecoveryInv`, which follows it request by request and task by task).  Two leaders
would need two IDs in one record; a request recorded as completed was executed by
a process whose records no recovery touched, since nobody recovers while another
leads.  `CompletedDelivers` is about what an execution left behind
(`outcome`), which no failed write changes, and about the records up to `unsaved`.
Proved: `ConductorIsSound`, `TypeCorrect`, `OneLeader`, `Recovered` and
`CompletedDelivers`.

### Loops and their leases (`LoopRun_proofs`)

*Loops*, for every set of loop definitions, any number of agents, dispatches and
crashes and inboxes of any size.  `LoopInv` says of every message that its nonce is
that of the dispatch it descends from, of every hop that it is within its budget, not
in a terminal state and no later than the present dispatch, and that no two places
hold hops of one dispatch (`Unique`).  Uniqueness is stated over `Lines`, an agent's
message in work followed by its inbox: taking a message leaves the line as it is,
answering removes its head, passing on also appends to another.  That the sender is
done with a message when it passes it on is what keeps the hop single, and the test
of `count >= max` before the count is what keeps the budget.  Proved:
`LoopInvariant`, `TypeCorrect`, `Bounded` and `Settled`; the last because no message
without a nonce is ever in the system, which the conductor would accept
(`scheduler.go:2140`).  `Approved` is `CompletedIsApproved` under `EndsOnApproval`: no
transition leads to ESCALATED, and one from a review to a terminal state is on
approval.  It is the rule that the decomposition prompt gives
(`conductor/decompose.go:45`) and every template follows, but nothing in the code
enforces it: `Validate` lets an ordinary transition lead to ESCALATED, and a loop that
takes it is reported as completed.  The invariant it takes is `ApprovedMail`: a
result on its way that says completed is of a terminal state that the loop came to by
itself, and was earned.

*Leases of loops*, for any number of loops, profiles and instances.  `LeasesInv` adds to
`ReservationsHold` the shape of a lease and that a loop holds, or is about to ask for,
only leases of profiles that it needs, in its owner's name (`OwnLeases`).  The other half
(`KeepsLeases`) has to hold for every loop that is not giving back, not only for running
ones: what a preparation has gathered must still be there when it starts to run.
Proved: `Reserved`.

### Turns, and what they work on (`TaskRun_proofs`)

*Turns*, for every agent definition and any limits.  The loop moves its own limit, so
that `LoopIsBounded` needs to know what it was given (`LimitInv`), and at which places
a call over the budget can still be spent (`BudgetInv`: the head of every iteration
but the first asks, and the first is over when a second one begins); `RoomInv` keeps the
two counters that end a loop below their limits.  `AgentTurnAssumption` demands
bonuses of at least one, as the code has them (5 for a redirect at `agent.go:355`;
`verifyBonusIterations` when it is positive, else 5, at `agent.go:677`): with a bonus of
0 a loop could spend three calls over its budget, and the bound is two.
Proved: `TurnTypeCorrect`, `TurnIsBounded` and `TurnLeavesNothing`.

*Histories*, for any window, any sizes of messages and any number of rounds: `Harmless`.
What the model is asked with holds the task and fits the window, and what is returned has
every file that came with tool calls or with the last response.  `HistoryInv` keeps the
task at the head and the history, whenever the model is asked, within one of the window;
what a trim or a compaction leaves is a sum over a sequence, for which the module has
lemmas of its own (`SumsAdd`, `FlattenAdds`, `HasConcat`), each an induction over a length
done with least counterexamples.  Assumed is a window with room for the task (`Window` at
least 4, in units of a short message).

*Workspaces*, for any profiles, dependencies and edits, whether agents are local or remote
and the storage direct or staged: `Visible` (`UpstreamIsVisible`, which for a staged storage
speaks of the time before a refresh fails; a direct one has none that could).  `FilesInv`
says for every profile that a result which counts for the request comes of an agent that
is done (`IsDone`), that who has a task has the results it depends on (`HasInputs`), that
what a result lists stays in the shared tier, and as it was answered where the
directories are the tiers (`Stays`), and that a copy has what it is known to have had, so
that a sync deletes nothing (`Gone`), and what the results for its task list (`IsCopied`).
The steps of one agent take nothing of others away (`Spares`, `Grows`), and only a
refresh counts failures (`FailureIsCounted`).

*Inputs*, for any results, hops and sizes: `Arrives`, `UpstreamArrives` of the two modules
together: what a task published is named in the input of whoever depends on it, and is
where the name leads, on the terms of `Visible`.  `InputInv` has the two ends: the address
of a result leads to its files (`Nodes`), and what the assembled input says
(`InputsReachTheAgent`). `TruncateDeps` cuts every text to its share, and keeps something
of each because the floor has room for the names: `TaskInputAssumption` says so, `6 +
|Deps| * (|Kinds| + 1) =< Floor` in units of a name (the code's floor has 4096
characters).

### What a fabric knows (`TaskRun_proofs`)

*Lookups*, in every graph of finitely many nodes: `SearchFinds`.  That a breadth-first
search meets no node too late is `Searching`, over its rounds: the queue has the nodes in
the order of their depths, which differ by at most one; a node that was met and has
left the queue is as deep as the limit, or has its neighbors met, no more than one
deeper; and each was met at the end of a path as long as its depth.  The search ends
because the nodes in the queue and the rounds behind it are together as many as were met
(`SearchRounds`), and no more are met than the graph has.  Both inductions are over
sets of numbers, like those on histories.  With it `LookupIsRight` says what a lookup
returns when all that is found may be returned.

*Curation*, for any number of requests, manifests, limits, ages, failed saves and crashes:
`Known`, which is `KnowledgeIsKeptAndFound`.  A curation reads the graph once and writes
another one much later, over whatever requests and refreshes wrote meanwhile; what it
promises is about what it read.  `CurationInv` follows it: whatever it has taken out is
in cold storage with a new date, so that the purge that each later move ends with passes
it (`IsArchived`); the decisions it read are still in its graph; and until the model
has answered, its graph is a part of what it read (`IsPart`), so that a decision that
stood still stands and `ValidateCurated` asks for it.  The files may be torn at any
time, and then the curation gives up before it takes anything out; hence `IsFile` for
the agent's two files, and `WritersInv` for what goroutines have in memory.
`KnowledgeAssumption` says that manifests and the graphs a chat finds are graphs, the
latter finite.

### Dispatches (`Dispatch_proofs`)

For any number of tasks, instances, nodes and faults.  The nonces of what is under
way are never greater than the number of assignments sent, and a result is accepted
only with the last nonce (`FreshResults`).  For `Loads` the counts are the cardinalities
of the sets of placements, which one placement at a time changes; `Leases` rests on
the order of a placement's end: the lease is released by the epoch of the placement,
not by what the task says by then.  Proved: `TypeCorrect`, `FreshResults`, `Loads` and
`Leases`.

### Stores (`AtomicStore_proofs`)

*The file*, for any number of processes, goroutines and faults, and for any
operations: what an operation does (`Apply`) is never expanded.  `FileInv` says who
has which lock at which phase (`LockInv`), what a caller with both locks knows of
the file (`WorkInv`: what it loaded is what is there, and what it will write is what
its operation makes of it), that samples are not ahead of the clock (`ClockInv`) and
that every function has its domain (`ShapeInv`).  Proved: `Invariance` and
`Atomicity`, the refinement of `AtomicStore`: the operation takes effect with the
rename, or when it ran if it saves nothing.

*The service*, for any number of clients, calls, losses and restarts, under `ClientOf \in
[Handlers -> Owners]` (a handler serves one client).  `Remote` needs `Apply`: what arrives
must be the call that was made.  A message gives back its call, and the view of a lease
that the client has leaves nothing out, provided that the lease is proper (its fields are
those its kind has), which every operation preserves; times are the handler's, between
`asked` and now.  A call of one who is not entitled to it maps to no call at all.  `Entitled` asks for
what the handler can see: of a registration the node that it names, while heartbeats and
removals are authorized by what they find, so that nothing is asked of one that finds
nothing.  An owner may renew on any lease that one of its calls was told of, whatever
another was told since (`AtomicStore`'s `Begin`); that takes three calls, for which the
run has its third kind of behavior (`MaxRpcs`).

### What is only model-checked

All liveness, since it rests on fairness and ENABLED: `Ends`, `CancelEnds`, `Answered`,
`DispatchesEnd`, `TurnEnds`, `RequestsEnd`, `EnrolledNodeJoins` and `CallsEnd`.  And the
counterexamples of the two runs that expect a violation: `EtcdStore` is there for one of
them, and no theorem is about it.

## Not modelled

Of what is modelled: writes and deletes of a staged storage that fail, which are the
storage's affair and no storage of the program has; restoring from cold storage and forced
curation, which nothing but the benchmarks calls; the documents next to the knowledge
graphs; the tier of an agent's own files, which only it writes; mounted certificates;
credentials that the program does not use; a release of a lease that the store does not
answer.

Not planned: wording of prompts, repair of model output, scores of relevance,
rendering, configuration files, the encoding of certificates and messages, the
generated code, the operating system's sandbox, token prices and the benchmark
harness; they are sequential, input/output, or outside of what a model checker
reaches.
