--------------------------- MODULE KnowledgeGraph ---------------------------
(***************************************************************************)
(* The algorithms on one knowledge graph (internal/knowledge).  A graph    *)
(* has a node per ID and typed edges, which may lead nowhere.  Of a node   *)
(* there is what the algorithms look at: the agent that owns it, its tags, *)
(* the words of its title, summary and tags, its confidence, whether it    *)
(* has a TTL, and what time and use made of it: old (its last update is    *)
(* further away than the TTL), idle (its last hit, or its creation, is     *)
(* further away than coldDays) and the hits.                               *)
(***************************************************************************)
EXTENDS Integers, Sequences, FiniteSets, FiniteSetsExt, SequencesExt, Functions

CONSTANTS MinHits,   (* ColdStorageOpts.minHits: 3 in the code               *)
          MaxSeeds,  (* seeds that keywords add to a lookup: 5 in the code   *)
          MinConfidence,  (* PruneOpts.confidenceFloor                       *)
          High       (* the confidence that curation has to preserve         *)

NewGraph == [node |-> <<>>, edges |-> {}]

Fields == {"agent", "tags", "words", "conf", "ttl", "old", "idle", "hits"}

IsGraph(g) == DOMAIN g = {"node", "edges"} /\ \A id \in DOMAIN g.node : DOMAIN g.node[id] = Fields

IDsOf(g) == DOMAIN g.node

OnlyNodes(g, ids) == [g EXCEPT !.node = Restrict(@, ids)]

WithNode(g, id, n) == [g EXCEPT !.node = [i \in IDsOf(g) \cup {id} |-> IF i = id THEN n ELSE @[i]]]

\* The edges that lead from a node of the graph to another one.
Clean(g) == [g EXCEPT !.edges = {e \in @ : e.from \in IDsOf(g) /\ e.to \in IDsOf(g)}]

HasTag(n, tag) == tag \in n.tags

IsStale(n) == n.ttl /\ n.old

IsCold(n) == n.hits < MinHits /\ n.idle

RecordHit(n) == [n EXCEPT !.hits = IF @ < MinHits THEN @ + 1 ELSE @, !.idle = FALSE]

IsSuperseded(g, id) ==
    \E e \in g.edges : /\ e.to = id /\ e.rel = "supersedes"
                       /\ e.from \in IDsOf(g) /\ ~IsStale(g.node[e.from])

\* What a lookup, a decision or a curation counts with.
Standing(g) == {id \in IDsOf(g) : ~IsStale(g.node[id]) /\ ~IsSuperseded(g, id)}

Tagged(g, tag) == {id \in Standing(g) : HasTag(g.node[id], tag)}

\* The sets of the n best of ids: the code sorts, and leaves ties to chance.
Best(ids, n, Score(_)) ==
    {T \in SUBSET ids : /\ Cardinality(T) = IF n < Cardinality(ids) THEN n ELSE Cardinality(ids)
                        /\ \A x \in T, y \in ids \ T : Score(x) >= Score(y)}

-----------------------------------------------------------------------------
(* Writing.                                                                 *)

MergedNode(old, new) ==
    [new EXCEPT !.agent = old.agent,
                !.conf = IF new.conf > old.conf \/ old.conf = 0 THEN new.conf ELSE old.conf,
                !.ttl = new.ttl \/ old.ttl,
                !.hits = old.hits, !.idle = old.idle]

Merge(g, m) ==
    [node |-> [id \in IDsOf(g) \cup IDsOf(m) |->
                 IF id \notin IDsOf(m) THEN g.node[id]
                 ELSE IF id \in IDsOf(g) THEN MergedNode(g.node[id], m.node[id])
                 ELSE m.node[id]],
     edges |-> g.edges \cup m.edges]

\* The graphs that Prune may leave: without what is stale or of little
\* confidence, and of the rest the max most confident nodes.
Prune(g, max) ==
    LET kept == {id \in IDsOf(g) : /\ ~IsStale(g.node[id])
                                   /\ ~(g.node[id].conf > 0 /\ g.node[id].conf < MinConfidence)}
        Confidence(id) == g.node[id].conf
        Evict(ids) == IF ids = IDsOf(g) THEN g ELSE Clean(OnlyNodes(g, ids))
    IN {Evict(ids) : ids \in Best(kept, max, Confidence)}

\* What a manifest says of the nodes of one agent, and the edges among them;
\* whose a node is that the manifest does not have, the shared graph knows.
AgentPart(m, known, a) ==
    LET Owner(id) == IF id \in IDsOf(m) THEN m.node[id].agent
                     ELSE IF id \in IDsOf(known) THEN known.node[id].agent ELSE "nobody"
    IN [node |-> Restrict(m.node, {id \in IDsOf(m) : m.node[id].agent = a}),
        edges |-> {e \in m.edges : Owner(e.from) = a /\ Owner(e.to) = a}]

-----------------------------------------------------------------------------
(* Cold storage and curation.                                               *)

\* Nodes past their retention go, and with them the edges to nowhere.
PurgeColdExpired(g, expired) ==
    IF expired \cap IDsOf(g) = {} THEN g ELSE Clean(OnlyNodes(g, IDsOf(g) \ expired))

\* Both graphs once the nodes in gone went from the first to the second: an
\* edge that has an end there goes with it.
Move(g, cold, gone) ==
    [active |-> [node |-> Restrict(g.node, IDsOf(g) \ gone),
                 edges |-> {e \in g.edges : e.from \notin gone /\ e.to \notin gone}],
     cold |-> [node |-> [id \in IDsOf(cold) \cup gone |->
                           IF id \in gone THEN [g.node[id] EXCEPT !.old = FALSE] ELSE cold.node[id]],
               edges |-> cold.edges \cup {e \in g.edges : e.from \in gone \/ e.to \in gone}]]

\* What is not used moves, except for decisions.
ColdEligible(g) == {id \in IDsOf(g) : IsCold(g.node[id]) /\ ~HasTag(g.node[id], "decision")}

\* What the model may answer, as Curate takes it over: a node that it keeps
\* has its use and TTL from the original and no time of an update, one that it
\* adds has no time at all.
Curated(g, ids, tags, edges) ==
    [node |-> [id \in ids |->
                 IF id \in IDsOf(g) THEN [g.node[id] EXCEPT !.tags = tags[id], !.old = TRUE]
                 ELSE [agent |-> "curated", tags |-> tags[id], words |-> {}, conf |-> 0,
                       ttl |-> FALSE, old |-> TRUE, idle |-> TRUE, hits |-> 0]],
     edges |-> edges]

ValidateCurated(g, curated) ==
    /\ Cardinality(IDsOf(curated)) <= Cardinality(IDsOf(g))
    /\ \A id \in Standing(g) :
          HasTag(g.node[id], "decision") \/ g.node[id].conf >= High => id \in IDsOf(curated)
    /\ Clean(curated) = curated

-----------------------------------------------------------------------------
(* Reading.  Hits are recorded where something looks at them, in the graph  *)
(* of the agent (see Consult).                                              *)

KeywordOverlap(n, keywords) == Cardinality(n.words \cap keywords)

\* Seeds of a lookup: its agent's nodes, and some that have more than a tenth
\* of the keywords.
AddKeywordSeeds(g, keywords, seeds) ==
    LET Score(id) == KeywordOverlap(g.node[id], keywords)
        matches == {id \in Standing(g) \ seeds : 10 * Score(id) > Cardinality(keywords)}
    IN {seeds \cup T : T \in Best(matches, MaxSeeds, Score)}

\* buildAdjacency: edges are followed both ways.
Neighbors(g, id) == {e.to : e \in {e \in g.edges : e.from = id}}
                    \cup {e.from : e \in {e \in g.edges : e.to = id}}

\* One round of bfsRelated: the head of the queue, and what it leads to.  depth is
\* that at which each node was met.
Visit(g, search, maxDepth) ==
    LET cur == Head(search.queue)
        next == IF search.depth[cur] >= maxDepth THEN {}
                ELSE (Neighbors(g, cur) \cap Standing(g)) \ DOMAIN search.depth
    IN [queue |-> Tail(search.queue) \o SetToSeq(next),
        depth |-> [id \in DOMAIN search.depth \cup next |->
                      IF id \in next THEN search.depth[cur] + 1 ELSE search.depth[id]]]

\* No node is queued twice.
Search(g, seeds, maxDepth) ==
    LET search[n \in 0 .. Cardinality(IDsOf(g))] ==
            IF n = 0 THEN [queue |-> SetToSeq(seeds), depth |-> [id \in seeds |-> 0]]
            ELSE LET last == search[n - 1]
                 IN IF last.queue = <<>> THEN last ELSE Visit(g, last, maxDepth)
    IN search[Cardinality(IDsOf(g))].depth

\* What is met of other agents' nodes, the seeds among them included.
BfsRelated(g, seeds, agent, maxDepth) ==
    LET depth == Search(g, seeds, maxDepth)
    IN Restrict(depth, {id \in DOMAIN depth : g.node[id].agent # agent})

\* computeScore, in sixths: nearness, the share of the keywords and half the
\* confidence, which counts in thirds; nothing is more relevant than a seed.
Relevance(g, depth, keywords, id) ==
    IF depth[id] = 0 THEN 1000
    ELSE 6 \div depth[id] + g.node[id].conf
         + IF keywords = {} THEN 0
           ELSE (6 * KeywordOverlap(g.node[id], keywords)) \div Cardinality(keywords)

\* The results Lookup may have: own nodes, and the most relevant related ones.
LookupDual(own, g, agent, keywords, maxDepth, maxNodes) ==
    LET mine == {id \in Standing(own) : own.node[id].agent = agent}
        seeds == {id \in Standing(g) : g.node[id].agent = agent}
        Related(s) == LET depth == BfsRelated(g, s, agent, maxDepth)
                          Score(id) == Relevance(g, depth, keywords, id)
                      IN Best(DOMAIN depth, maxNodes, Score)
    IN {[own |-> mine, related |-> r] :
          r \in UNION {Related(s) : s \in AddKeywordSeeds(g, keywords, seeds)}}

Lookup(g, agent, keywords, maxDepth, maxNodes) ==
    LookupDual(g, g, agent, keywords, maxDepth, maxNodes)
=============================================================================
