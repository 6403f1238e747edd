----------------------------- MODULE Workspace ------------------------------
(***************************************************************************)
(* The files of agents (internal/runtime/materialize.go,                   *)
(* internal/local/storage.go, internal/agent/agent.go).  The storage has a *)
(* scratch tier for each profile and a shared tier, where every profile    *)
(* has a directory for its artifacts.  An agent works in the tiers         *)
(* themselves if the storage can say where they are, as the local one can, *)
(* and otherwise in staged copies, which it refreshes and syncs.           *)
(*                                                                         *)
(* A request has one task for each profile, in the order of Upstream.  The *)
(* content of a file is who wrote it, and in which request.  The tier of   *)
(* the agent, which only it writes, is left out, and so are the files that *)
(* isArtifactNoise names.                                                  *)
(*                                                                         *)
(* The one storage of the program knows where its tiers are.  What a       *)
(* staged one may refuse is its own affair: here it refuses nothing, and   *)
(* of its calls only those that read may fail.                             *)
(***************************************************************************)
EXTENDS Integers, Functions

CONSTANTS Profiles,    (* numbers, in the order of their directories         *)
          Upstream,    (* [Profiles -> SUBSET Profiles]: whose results are   *)
                       (* the inputs of its task                             *)
          Remote,      (* profiles that are not on the conductor's machine   *)
          Names,       (* of files, relative to a directory                  *)
          MaxRequests, MaxEdits, MaxFailures

ASSUME WorkspaceAssumption == Upstream \in [Profiles -> SUBSET Profiles]

VARIABLES
    staged,     (* whether the storage is no StorageMaterializer             *)
    request,
    shared,     (* the shared tier, a function of <<profile, name>>          *)
    scratch,    (* the scratch tiers                                         *)
    copy,       (* the staged tiers of the agents                            *)
    at,         (* where the agent of a profile is in Run                    *)
    edits,      (* its tool calls                                            *)
    blocks,     (* the file blocks of its answer                             *)
    told,       (* its last result                                           *)
    failures    (* refreshes that failed                                     *)

workspaceVars == <<staged, request, shared, scratch, copy, at, edits, blocks,
                   told, failures>>

None == <<>>

Stage == [shared |-> None, knownShared |-> {}, scratch |-> None, knownScratch |-> {}]

WorkspaceInit ==
    /\ staged \in BOOLEAN
    /\ request = 1
    /\ shared = None /\ scratch = [p \in Profiles |-> None]
    /\ copy = [p \in Profiles |-> Stage]
    /\ at = [p \in Profiles |-> "idle"]
    /\ edits = [p \in Profiles |-> 0]
    /\ blocks = [p \in Profiles |-> None]
    /\ told = [p \in Profiles |-> [request |-> 0, ok |-> TRUE, files |-> {}]]
    /\ failures = 0

\* The directories of the storage, and those an agent works in.
TierPath(p) == [shared |-> shared, scratch |-> scratch[p]]
SharedDir(p) == IF staged THEN copy[p].shared ELSE TierPath(p).shared
ScratchDir(p) == IF staged THEN copy[p].scratch ELSE TierPath(p).scratch

Mine(p) == [by |-> p, request |-> request]

\* The files f over the files g.
Over(f, g) == [x \in DOMAIN f \cup DOMAIN g |-> IF x \in DOMAIN f THEN f[x] ELSE g[x]]

Artifacts(p) == {f \in DOMAIN shared : f[1] = p}

-----------------------------------------------------------------------------
(* Refreshing and syncing a workspace.                                      *)

\* Mutant: whatever the directory does not have is gone.
NotThere(c) == DOMAIN shared \ DOMAIN c.shared

\* What the directory had when it was refreshed or synced, and has no more.
Gone(c) == c.knownShared \ DOMAIN c.shared

\* stagedTier.Sync writes every file of the directory, whoever has written it
\* since, and deletes what is gone from it.
SyncShared(p) ==
    /\ shared' = Over(copy[p].shared, Restrict(shared, DOMAIN shared \ Gone(copy[p])))
    /\ copy' = [copy EXCEPT ![p].knownShared = DOMAIN copy[p].shared,
                            ![p].knownScratch = DOMAIN copy[p].scratch]

SyncScratch(p) ==
    scratch' = [scratch EXCEPT ![p] =
                  Over(copy[p].scratch, Restrict(@, DOMAIN @ \ copy[p].knownScratch))]

\* Workspace.Sync; nothing to do where the directories are the tiers.
Sync(p) == IF staged THEN SyncScratch(p) /\ SyncShared(p)
           ELSE UNCHANGED <<shared, scratch, copy>>

\* What a refresh from tier may leave in the directory: it is emptied and filled
\* again as far as tier can be read, or left alone if it cannot be listed.
Views(c, tier) == {Restrict(tier, read) : read \in SUBSET DOMAIN tier} \cup {c.shared}

\* A refresh that failed keeps what was known.
Refreshed(c, tier, view) ==
    [c EXCEPT !.shared = view, !.knownShared = IF view = tier THEN DOMAIN tier ELSE @]

CountFailure(failed) == /\ failures' = IF failed THEN failures + 1 ELSE failures
                        /\ failures' <= MaxFailures

-----------------------------------------------------------------------------
(* A task.                                                                  *)

\* An agent is given its task when the results it depends on are in.
Assign(p) ==
    /\ at[p] = "idle" /\ told[p].request < request
    /\ \A u \in Upstream[p] : told[u].request = request /\ told[u].ok
    /\ at' = [at EXCEPT ![p] = "assigned"]
    /\ UNCHANGED <<staged, request, shared, scratch, copy, edits, blocks, told, failures>>

\* Run refreshes the workspace before it handles a message.
RefreshWorkspace(p) ==
    /\ at[p] = "assigned"
    /\ at' = [at EXCEPT ![p] = "task"]
    /\ copy' = IF ~staged THEN copy
               ELSE [copy EXCEPT ![p] = [Refreshed(@, shared, shared) EXCEPT
                                            !.scratch = scratch[p], !.knownScratch = DOMAIN scratch[p]]]
    /\ UNCHANGED <<staged, request, shared, scratch, edits, blocks, told, failures>>

\* Workspace.Refresh ends at the first tier that fails.
RefreshFails(p) ==
    /\ staged /\ at[p] = "assigned"
    /\ CountFailure(TRUE)
    /\ at' = [at EXCEPT ![p] = "task"]
    /\ \/ \E view \in Views(copy[p], shared) \ {shared} :
             copy' = [copy EXCEPT ![p] = Refreshed(@, shared, view)]
       \/ \E dir \in {Restrict(scratch[p], read) : read \in SUBSET DOMAIN scratch[p]}
                     \cup {copy[p].scratch} :
             copy' = [copy EXCEPT ![p] = [Refreshed(@, shared, shared) EXCEPT !.scratch = dir]]
    /\ UNCHANGED <<staged, request, shared, scratch, edits, blocks, told>>

\* populateScratchWithArtifacts and, in a loop, ensureScratchFromShared copy
\* from the storage what scratch does not have.
Populated(p, scratchDir, owners) ==
    LET names == {f[2] : f \in UNION {Artifacts(o) : o \in owners}} \ DOMAIN scratchDir
        Owner(n) == CHOOSE o \in owners : <<o, n>> \in DOMAIN shared /\
                       (o = p \/ <<p, n>> \notin DOMAIN shared)
    IN Over(scratchDir, [n \in names |-> shared[<<Owner(n), n>>]])

\* executeTask, up to the model, with a refresh of the shared tier.
BeginTask(p, view, worker) ==
    /\ at[p] = "task"
    /\ staged \/ view = shared
    /\ CountFailure(view # shared)
    /\ at' = [at EXCEPT ![p] = "work"]
    /\ LET filled == Populated(p, ScratchDir(p), {p} \cup worker)
       IN IF staged
          THEN /\ copy' = [copy EXCEPT ![p] = [Refreshed(@, shared, view) EXCEPT !.scratch = filled]]
               /\ UNCHANGED scratch
          ELSE scratch' = [scratch EXCEPT ![p] = filled] /\ UNCHANGED copy
    /\ UNCHANGED <<staged, request, shared, edits, blocks, told>>

\* A tool works on scratch and reads the shared tier (SandboxConfig), and
\* Execute syncs the workspace after it.
UseTool(p, files) ==
    /\ at[p] = "work" /\ edits[p] < MaxEdits
    /\ edits' = [edits EXCEPT ![p] = @ + 1]
    /\ IF staged
       THEN /\ copy' = [copy EXCEPT ![p].scratch = files]
            /\ UNCHANGED <<shared, scratch>>
       ELSE scratch' = [scratch EXCEPT ![p] = files] /\ UNCHANGED <<shared, copy>>
    /\ at' = IF staged THEN [at EXCEPT ![p] = "tool"] ELSE at
    /\ UNCHANGED <<staged, request, blocks, told, failures>>

\* What a tool may leave in scratch: one file more, or less.
Edited(p) ==
    LET dir == ScratchDir(p)
    IN {Over([n \in {m} |-> Mine(p)], dir) : m \in Names}
       \cup {Restrict(dir, DOMAIN dir \ {n}) : n \in DOMAIN dir}
       \cup {Over([n \in {f[2]} |-> SharedDir(p)[f]], dir) :
               f \in {f \in DOMAIN SharedDir(p) : f[1] \in Upstream[p]}}

SyncAfterTool(p) ==
    /\ at[p] = "tool" /\ at' = [at EXCEPT ![p] = "work"]
    /\ Sync(p)
    /\ UNCHANGED <<staged, request, edits, blocks, told, failures>>

\* ParseFileBlocks, as edited in place since (captureFromScratch).
FileBlocks(p, names) == [n \in names |-> Mine(p)]

\* materializeBlocksToScratch; a name that leaves the directory is no name.
Materialized(files, dir) == Over(files, dir)

\* The model answers, with file blocks perhaps.  They are written to scratch,
\* unless they came after a question to the user.
Answer(p, names, question) ==
    /\ at[p] = "work"
    /\ at' = [at EXCEPT ![p] = "answer"]
    /\ blocks' = [blocks EXCEPT ![p] = FileBlocks(p, names)]
    /\ LET dir == IF question THEN ScratchDir(p) ELSE Materialized(blocks'[p], ScratchDir(p))
       IN IF staged THEN copy' = [copy EXCEPT ![p].scratch = dir] /\ UNCHANGED scratch
          ELSE scratch' = [scratch EXCEPT ![p] = dir] /\ UNCHANGED copy
    /\ UNCHANGED <<staged, request, shared, edits, told, failures>>

\* A task that failed publishes nothing.
Fails(p) ==
    /\ at[p] = "work"
    /\ at' = [at EXCEPT ![p] = "sent"]
    /\ told' = [told EXCEPT ![p] = [@ EXCEPT !.request = request, !.ok = FALSE]]
    /\ UNCHANGED <<staged, request, shared, scratch, copy, edits, blocks, failures>>

\* The barrier of sendResult.
SyncBarrier(p) ==
    /\ at[p] = "answer" /\ at' = [at EXCEPT ![p] = "publish"]
    /\ Sync(p)
    /\ UNCHANGED <<staged, request, edits, blocks, told, failures>>

\* isUpstreamCopy: another agent has published the same under the same name.
UpstreamCopy(p, n) ==
    \E f \in DOMAIN shared : f[1] # p /\ f[2] = n /\ shared[f] = ScratchDir(p)[n]

\* persistScratchToShared.
Persists(p) == {n \in DOMAIN ScratchDir(p) \ DOMAIN blocks[p] : ~UpstreamCopy(p, n)}

\* The shared tier with the files of the answer and of scratch.
Built(p) ==
    LET persisted == Persists(p)
        Content(n) == IF n \in persisted THEN ScratchDir(p)[n] ELSE blocks[p][n]
    IN Over([f \in {<<p, n>> : n \in DOMAIN blocks[p] \cup persisted} |-> Content(f[2])], shared)

\* What the tools that run on a result leave in their output directory.
ToolOutputs == {{}} \cup {{n} : n \in Names}

\* runTools refreshes the shared tier for the tools, and writes what they leave.
RunTools(p, built, outputs, view) ==
    /\ DOMAIN blocks[p] \cup Persists(p) # {}
    /\ staged \/ view = built
    /\ CountFailure(view # built)
    /\ shared' = Over([f \in {<<p, n>> : n \in outputs} |-> Mine(p)], built)
    /\ copy' = IF staged THEN [copy EXCEPT ![p] = Refreshed(@, built, view)] ELSE copy

\* buildResultParts: what it writes of the answer and of the tools is in the
\* result, what it finds in scratch is not; then the result is sent.
Publish(p, outputs) ==
    /\ at[p] = "publish" /\ at' = [at EXCEPT ![p] = "sent"]
    /\ \/ outputs = {} /\ shared' = Built(p) /\ UNCHANGED <<copy, failures>>
       \/ \E view \in Views(copy[p], Built(p)) : RunTools(p, Built(p), outputs, view)
    /\ told' = [told EXCEPT ![p] = [request |-> request, ok |-> TRUE,
                                    files |-> DOMAIN blocks[p] \cup outputs]]
    /\ blocks' = [blocks EXCEPT ![p] = Restrict(@, DOMAIN @ \ outputs)]
    /\ UNCHANGED <<staged, request, scratch, edits>>

\* Run syncs the workspace once more after it handled a message.
SyncWorkspace(p) ==
    /\ at[p] = "sent" /\ at' = [at EXCEPT ![p] = "idle"]
    /\ Sync(p)
    /\ edits' = [edits EXCEPT ![p] = 0]
    /\ UNCHANGED <<staged, request, blocks, told, failures>>

\* cleanAllScratch, at the end of a request.
EndRequest ==
    /\ request < MaxRequests /\ request' = request + 1
    /\ \A p \in Profiles : at[p] = "idle"
    /\ \A p \in Profiles : told[p].request = request
                           \/ \E u \in Upstream[p] : told[u].request < request \/ ~told[u].ok
    /\ scratch' = [p \in Profiles |-> IF p \in Remote THEN scratch[p] ELSE None]
    /\ UNCHANGED <<staged, shared, copy, at, edits, blocks, told, failures>>

Work(p) ==
    \/ Assign(p) \/ RefreshWorkspace(p) \/ RefreshFails(p)
    \/ \E view \in Views(copy[p], shared), worker \in {{}, Upstream[p]} : BeginTask(p, view, worker)
    \/ \E files \in Edited(p) : UseTool(p, files)
    \/ SyncAfterTool(p)
    \/ \E names \in SUBSET Names, question \in BOOLEAN : Answer(p, names, question)
    \/ Fails(p) \/ SyncBarrier(p)
    \/ \E outputs \in ToolOutputs : Publish(p, outputs)
    \/ SyncWorkspace(p)

WorkspaceNext == EndRequest \/ \E p \in Profiles : Work(p)

WorkspaceSpec == WorkspaceInit /\ [][WorkspaceNext]_workspaceVars

-----------------------------------------------------------------------------
(* An agent "sees a consistent shared-tier view that reflects everything    *)
(* its upstream task results have settled in storage"                       *)
(* (docs/storage-architecture.md:107).  What a result lists stays in the    *)
(* shared tier, whatever others refresh, sync and publish meanwhile; while  *)
(* an agent works, every file that a result it depends on lists is in the   *)
(* directory it works in; and where the directories are the tiers, the      *)
(* files of the answer it depends on are there as they were answered.  Of   *)
(* staged copies this is said only while no refresh has failed, and nothing *)
(* is said of their content: a sync writes old copies over new files.       *)
UpstreamIsVisible ==
    failures = 0 =>
        /\ \A u \in Profiles : \A n \in told[u].files : <<u, n>> \in DOMAIN shared
        /\ \A p \in Profiles : at[p] \in {"work", "tool", "answer"} =>
            \A u \in Upstream[p] :
                /\ \A n \in told[u].files : <<u, n>> \in DOMAIN SharedDir(p)
                /\ ~staged => \A n \in DOMAIN blocks[u] : SharedDir(p)[<<u, n>>] = blocks[u][n]
=============================================================================
