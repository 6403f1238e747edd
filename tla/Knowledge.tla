----------------------------- MODULE Knowledge ------------------------------
(***************************************************************************)
(* What a fabric learns (internal/knowledge, and who calls it in           *)
(* internal/conductor).  There are three files: the shared graph, the      *)
(* graph of one agent and the agent's cold storage.  A request loads the   *)
(* first two into memory; while it executes and after it, goroutines       *)
(* extract knowledge and write both files (a refresh after a task, which   *)
(* nobody waits for, and one pass over the request); its end writes the    *)
(* agent's graph from memory; and when the conductor is idle, a curation   *)
(* moves nodes to cold storage.                                            *)
(*                                                                         *)
(* A load and a save are a step each, and between them others load and     *)
(* save.  The documents next to the graphs are left out.                   *)
(***************************************************************************)
EXTENDS KnowledgeGraph

CONSTANTS Agent,       (* the profile whose graph is followed               *)
          Requests,    (* numbers                                           *)
          Text,        (* [Requests -> IDs]: what is asked, as a node's ID  *)
          Manifests,   (* what Generate may find in results                 *)
          Pools,       (* graphs that a chat may find in the shared file    *)
          Keywords,
          MaxNodes,    (* the agent's MaxKnowledgeNodes                     *)
          Limits,      (* those of all agents                               *)
          Threshold,   (* the agent's CurationThreshold                     *)
          MaxAges, MaxFaults

ASSUME KnowledgeAssumption ==
    /\ \A m \in Manifests : IsGraph(m)
    /\ \A g \in Pools : IsGraph(g) /\ IsFiniteSet(IDsOf(g))

VARIABLES
    sharedGraph, active, cold,  (* the files                                *)
    stage,      (* where the conductor is with its request                  *)
    req,        (* the last request                                         *)
    base,       (* existingGraph: the shared graph the request loaded       *)
    mine,       (* AgentGraphs[Agent] of its scheduler                      *)
    writer,     (* the goroutines that apply a manifest                     *)
    asleep,     (* StartIdleCuration waits                                  *)
    curation,   (* curateAgent                                              *)
    ages, faults

requestVars == <<stage, req, base, mine>>
fileVars == <<sharedGraph, active, cold>>
knowledgeVars == <<fileVars, requestVars, writer, asleep, curation, ages, faults>>

\* A file that does not parse.
Torn == [torn |-> TRUE]

Writers == Requests \X {"refresh", "learn"}

Resting == [pc |-> "off", manifest |-> NewGraph, shared |-> NewGraph, agent |-> NewGraph]

Awake == [pc |-> "off", seen |-> NewGraph, graph |-> NewGraph]

\* The errors of most loads are dropped, and a new graph takes their place.
Loaded(file) == IF file = Torn THEN NewGraph ELSE file

KnowledgeInit ==
    /\ active = NewGraph /\ cold = NewGraph
    /\ req = 0 /\ base = NewGraph /\ mine = NewGraph
    /\ writer = [w \in Writers |-> Resting]
    /\ asleep = FALSE /\ curation = Awake
    /\ ages = 0 /\ faults = 0
    /\ \/ stage = "idle" /\ sharedGraph = NewGraph
       \/ stage = "chat" /\ sharedGraph \in Pools

-----------------------------------------------------------------------------
(* HandleRequest, as far as knowledge goes.                                 *)

RequestNode(q) ==
    OnlyNodes([NewGraph EXCEPT !.node = [id \in {Text[q]} |->
        [agent |-> "conductor", tags |-> {"user-request"}, words |-> {}, conf |-> 3, ttl |-> TRUE,
         old |-> FALSE, idle |-> FALSE, hits |-> 0]]], {Text[q]})

\* The curation that waits is cancelled; the pass over the last request has
\* ended (knowledgeWg), its refreshes may not have.
LoadShared(q) ==
    /\ stage = "idle" /\ q = req + 1
    /\ \A r \in Requests : writer[<<r, "learn">>].pc = "off"
    /\ req' = q /\ stage' = "load"
    /\ base' = Merge(Loaded(sharedGraph), RequestNode(q))
    /\ asleep' = FALSE
    /\ UNCHANGED <<fileVars, mine, writer, curation, ages, faults>>

SaveRequest ==
    /\ stage = "load"
    /\ sharedGraph' = base
    /\ mine' = Loaded(active)
    /\ stage' = "execute"
    /\ UNCHANGED <<active, cold, req, base, writer, asleep, curation, ages, faults>>

\* buildKnowledgeContext: the agent of a task is told what it knows, and what
\* it was told is a hit.  Nothing looks at the hits of the shared graph.
Consult ==
    /\ stage = "execute"
    /\ \E found \in LookupDual(mine, base, Agent, {}, 2, 15) :
          /\ found.own # {}
          /\ mine' = [mine EXCEPT !.node = [id \in IDsOf(mine) |->
                         IF id \in found.own THEN RecordHit(@[id]) ELSE @[id]]]
    /\ UNCHANGED <<fileVars, stage, req, base, writer, asleep, curation, ages, faults>>

\* Execute returns: a request that failed or was cancelled teaches nothing.
ExecuteReturns(ok) ==
    /\ stage = "execute"
    /\ stage' = IF ok THEN "persist" ELSE "idle"
    /\ writer' = IF ok THEN [writer EXCEPT ![<<req, "learn">>] = [Resting EXCEPT !.pc = "generate",
                                                                                 !.shared = base]]
                 ELSE writer
    /\ UNCHANGED <<fileVars, req, base, mine, asleep, curation, ages, faults>>

\* persistHitCounters writes what the scheduler has in memory.
PersistHitCounters ==
    /\ stage = "persist"
    /\ active' = IF IDsOf(mine) = {} THEN active ELSE mine
    /\ stage' = "idle" /\ asleep' = TRUE
    /\ UNCHANGED <<sharedGraph, cold, req, base, mine, writer, curation, ages, faults>>

-----------------------------------------------------------------------------
(* Extraction: Generate asks a model, Apply writes.                         *)

At(w, pc) == writer[w].pc = pc

\* scheduleKnowledgeRefresh, after a task with artifacts.
ScheduleRefresh ==
    /\ stage = "execute"
    /\ At(<<req, "refresh">>, "off")
    /\ writer' = [writer EXCEPT ![<<req, "refresh">>].pc = "load"]
    /\ UNCHANGED <<fileVars, requestVars, asleep, curation, ages, faults>>

RefreshLoads(q) ==
    /\ At(<<q, "refresh">>, "load")
    /\ writer' = [writer EXCEPT ![<<q, "refresh">>].pc = IF sharedGraph = Torn THEN "off" ELSE "generate",
                                ![<<q, "refresh">>].shared = Loaded(sharedGraph)]
    /\ UNCHANGED <<fileVars, requestVars, asleep, curation, ages, faults>>

GenerateManifest(w, m) ==
    /\ At(w, "generate")
    /\ writer' = [writer EXCEPT ![w].pc = "agent", ![w].manifest = m, ![w].agent = Loaded(active)]
    /\ UNCHANGED <<fileVars, requestVars, asleep, curation, ages, faults>>

\* The model fails, or finds nothing.
GenerateFails(w) ==
    /\ At(w, "generate")
    /\ writer' = [writer EXCEPT ![w] = Resting]
    /\ UNCHANGED <<fileVars, requestVars, asleep, curation, ages, faults>>

\* A refresh prunes to the limit of its agent, the pass over a request to that
\* of any agent.
LimitsOf(w) == IF w[2] = "refresh" THEN {MaxNodes} ELSE Limits

SaveAgent(w) ==
    /\ At(w, "agent")
    /\ LET part == AgentPart(writer[w].manifest, writer[w].shared, Agent)
       IN IF part.node = <<>> THEN active' = active
          ELSE \E max \in LimitsOf(w) : active' \in Prune(Merge(writer[w].agent, part), max)
    /\ writer' = [writer EXCEPT ![w].pc = "shared"]
    /\ UNCHANGED <<sharedGraph, cold, requestVars, asleep, curation, ages, faults>>

SaveShared(w) ==
    /\ At(w, "shared")
    /\ sharedGraph' = Merge(writer[w].shared, writer[w].manifest)
    /\ writer' = [writer EXCEPT ![w] = IF w[2] = "refresh" THEN [Resting EXCEPT !.pc = "rehydrate"]
                                       ELSE Resting]
    /\ UNCHANGED <<active, cold, requestVars, asleep, curation, ages, faults>>

\* The scheduler of the request goes on with what is in the files.
Rehydrate(q) ==
    /\ At(<<q, "refresh">>, "rehydrate")
    /\ writer' = [writer EXCEPT ![<<q, "refresh">>] = Resting]
    /\ mine' = IF q = req /\ stage \in {"execute", "persist"} /\ Torn \notin {sharedGraph, active}
               THEN active ELSE mine
    /\ UNCHANGED <<fileVars, stage, req, base, asleep, curation, ages, faults>>

-----------------------------------------------------------------------------
(* Curation.  The LLM call of a curation that was cancelled returns at once, *)
(* and the next curation sleeps first: there is one at a time.              *)

WakeForCuration ==
    /\ asleep /\ curation.pc = "off"
    /\ \A r \in Requests : At(<<r, "learn">>, "off")
    /\ asleep' = FALSE
    /\ curation' = IF active = Torn \/ Cardinality(IDsOf(Loaded(active))) < Threshold THEN Awake
                   ELSE [pc |-> "move", seen |-> active, graph |-> active]
    /\ UNCHANGED <<fileVars, requestVars, writer, ages, faults>>

\* Mutant: the archive is not read before it is written.
NewArchive == NewGraph

Archive == Loaded(cold)

Expired(g) == {id \in IDsOf(g) : g.node[id].old}

\* MoveToCold: the cold graph is saved before the active one.
MoveToCold ==
    /\ curation.pc = "move"
    /\ LET moved == Move(curation.graph, Archive, ColdEligible(curation.graph))
       IN IF cold = Torn THEN cold' = cold /\ curation' = Awake
          ELSE /\ cold' = PurgeColdExpired(moved.cold, Expired(moved.cold))
               /\ curation' = [curation EXCEPT !.graph = moved.active,
                                  !.pc = IF Cardinality(IDsOf(moved.active)) >= Threshold THEN "ask"
                                         ELSE "save"]
    /\ UNCHANGED <<sharedGraph, active, requestVars, writer, asleep, ages, faults>>

\* Curate, ValidateCurated and SwapCurated.
Consolidate(ids, dropped, edges) ==
    /\ curation.pc = "ask"
    /\ LET g == curation.graph
           Tags(id) == IF id \notin IDsOf(g) THEN {} ELSE g.node[id].tags \ dropped
           answer == Curated(g, ids, [id \in ids |-> Tags(id)], edges)
           swapped == Move(g, Archive, IDsOf(g) \ ids).cold
       IN /\ ValidateCurated(g, answer)
          /\ cold' = PurgeColdExpired(swapped, Expired(swapped))
          /\ curation' = [curation EXCEPT !.graph = answer, !.pc = "save"]
    /\ UNCHANGED <<sharedGraph, active, requestVars, writer, asleep, ages, faults>>

\* No model, no answer, one that is not valid, or the cold graph is not saved.
ConsolidateFails ==
    /\ curation.pc = "ask"
    /\ curation' = [curation EXCEPT !.pc = "save"]
    /\ UNCHANGED <<fileVars, requestVars, writer, asleep, ages, faults>>

SaveCurated ==
    /\ curation.pc = "save"
    /\ active' = curation.graph
    /\ curation' = Awake
    /\ UNCHANGED <<sharedGraph, cold, requestVars, writer, asleep, ages, faults>>

-----------------------------------------------------------------------------
(* Time and faults.                                                         *)

Aged(g) == IF g = Torn THEN g
           ELSE [g EXCEPT !.node = [id \in DOMAIN @ |->
                   [@[id] EXCEPT !.old = TRUE, !.idle = @ \/ g.node[id].hits < MinHits]]]

\* Months pass while nothing runs.
TimePasses ==
    /\ ages < MaxAges /\ ages' = ages + 1
    /\ stage = "idle" /\ curation.pc = "off" /\ \A w \in Writers : At(w, "off")
    /\ sharedGraph' = Aged(sharedGraph) /\ active' = Aged(active) /\ cold' = Aged(cold)
    /\ UNCHANGED <<requestVars, writer, asleep, curation, faults>>

\* A save that fails is logged, or ends what its goroutine does.
SaveFails ==
    /\ faults < MaxFaults /\ faults' = faults + 1
    /\ \/ \E w \in Writers : /\ writer[w].pc \in {"agent", "shared"}
                             /\ writer' = [writer EXCEPT ![w] = IF At(w, "agent") THEN [@ EXCEPT !.pc = "shared"]
                                                                ELSE Resting]
                             /\ UNCHANGED curation
       \/ /\ curation.pc \in {"move", "save"}
          /\ curation' = Awake /\ UNCHANGED writer
    /\ UNCHANGED <<fileVars, requestVars, asleep, ages>>

\* The process is gone, in the middle of a save perhaps.
Crash ==
    /\ faults < MaxFaults /\ faults' = faults + 1
    /\ stage # "chat"
    /\ \/ UNCHANGED fileVars
       \/ /\ curation.pc = "save" \/ \E w \in Writers : At(w, "agent")
          /\ active' = Torn /\ UNCHANGED <<sharedGraph, cold>>
       \/ /\ curation.pc \in {"move", "ask"}
          /\ cold' = Torn /\ UNCHANGED <<sharedGraph, active>>
       \/ /\ stage = "load" \/ \E w \in Writers : At(w, "shared")
          /\ sharedGraph' = Torn /\ UNCHANGED <<active, cold>>
    /\ stage' = "idle" /\ asleep' = FALSE /\ curation' = Awake
    /\ writer' = [w \in Writers |-> Resting]
    /\ base' = NewGraph /\ mine' = NewGraph
    /\ UNCHANGED <<req, ages>>

Extract == \E w \in Writers : \/ \E m \in Manifests : GenerateManifest(w, m)
                              \/ GenerateFails(w) \/ SaveAgent(w) \/ SaveShared(w)

Curate == \/ WakeForCuration \/ MoveToCold \/ ConsolidateFails \/ SaveCurated
          \/ \E ids \in SUBSET (IDsOf(curation.graph) \cup {"merged"}),
                dropped \in {{}, {"decision"}} :
                Consolidate(ids, dropped, {e \in curation.graph.edges : {e.from, e.to} \subseteq ids})

KnowledgeNext == \/ \E q \in Requests : LoadShared(q) \/ RefreshLoads(q) \/ Rehydrate(q)
        \/ SaveRequest \/ Consult \/ PersistHitCounters \/ ScheduleRefresh
        \/ \E ok \in BOOLEAN : ExecuteReturns(ok)
        \/ Extract \/ Curate \/ TimePasses \/ SaveFails \/ Crash

KnowledgeSpec == KnowledgeInit /\ [][KnowledgeNext]_knowledgeVars

-----------------------------------------------------------------------------
(* When a curation writes the agent's graph, everything that it read and    *)
(* left out is in cold storage already, and every decision that stood when  *)
(* it read is still in the graph (the comment at cold.go:52: "Decision-     *)
(* tagged nodes always stay active"): whatever the model answered and       *)
(* whoever else wrote meanwhile.                                            *)
CurationForgetsNothing ==
    [][curation.pc = "save" /\ active' # active /\ curation' = Awake /\ faults' = faults =>
         /\ IDsOf(curation.seen) \subseteq IDsOf(active') \cup IDsOf(cold)
         /\ Tagged(curation.seen, "decision") \subseteq IDsOf(active')]_knowledgeVars

\* Whether a path of at most n edges, over nodes that stand, leads from from to id.
Within(g, from, id, n) ==
    \E k \in 0 .. n : \E path \in [0 .. k -> IDsOf(g)] :
        /\ path[0] \in from /\ path[k] = id
        /\ \A i \in 1 .. k : path[i] \in Standing(g) \cap Neighbors(g, path[i - 1])

(* A lookup finds the standing nodes of other agents that are at most so    *)
(* many edges away from its agent's nodes or from what the keywords name,   *)
(* and no others: nothing stale or superseded, neither as a result nor on   *)
(* the way to one (bfsRelated).                                             *)
LookupFindsTheNear ==
    stage = "chat" =>
        \A keywords \in SUBSET Keywords, depth \in 1 .. 2 :
            LET g == sharedGraph
                own == {id \in Standing(g) : g.node[id].agent = Agent}
            IN {r.related : r \in Lookup(g, Agent, keywords, depth, Cardinality(IDsOf(g)))}
                 = {{id \in Standing(g) : g.node[id].agent # Agent /\ Within(g, seeds, id, depth)} :
                      seeds \in AddKeywordSeeds(g, keywords, own)}

(* What was learned serves later requests: no curation forgets it, and a    *)
(* lookup finds what is near.                                               *)
KnowledgeIsKeptAndFound == CurationForgetsNothing /\ []LookupFindsTheNear
=============================================================================
