----------------------------- MODULE MCGraphRun ------------------------------
(***************************************************************************)
(* The graphs that a request works on, of its tasks and of what its fabric *)
(* knows: a behavior is about one or the other.  Of tasks there is every   *)
(* graph over four, the cyclic ones and those with a task that waits for   *)
(* itself included.  Of knowledge there is one request, from nothing, and  *)
(* a chat that finds one of many graphs.                                   *)
(***************************************************************************)
EXTENDS GraphRun, Knowledge, TLC

VARIABLE about

MCGraphs == [Tasks -> SUBSET Tasks]

Edge(from, rel, to) == [from |-> from, rel |-> rel, to |-> to]

\* A piece of knowledge that a model is rather sure of.
Fact == [agent |-> "dev", tags |-> {}, words |-> {}, conf |-> 2, ttl |-> FALSE,
         old |-> FALSE, idle |-> FALSE, hits |-> 0]

Decision == [Fact EXCEPT !.tags = {"decision"}]

\* A decision and what depends on it; what takes the place of the decision,
\* and a guess about another agent.
MCManifests ==
    {[node |-> "rule" :> Decision @@ "fact" :> [Fact EXCEPT !.ttl = TRUE],
      edges |-> {Edge("fact", "depends_on", "rule")}],
     [node |-> "new" :> [Decision EXCEPT !.conf = 3] @@ "guess" :> [Fact EXCEPT !.agent = "ops", !.conf = 0],
      edges |-> {Edge("new", "supersedes", "rule")}]}

\* A node of the agent's own and three of another's, with any of these edges.
MCPools ==
    {[node |-> [id \in {"o", "p", "q", "r"} |->
                  [Fact EXCEPT !.agent = IF id = "o" THEN "dev" ELSE "ops", !.ttl = TRUE,
                               !.old = (id = stale), !.words = {"k"} \cap {IF id \in named THEN "k" ELSE "l"}]],
      edges |-> {Edge(e[1], IF e = over THEN "supersedes" ELSE "related_to", e[2]) : e \in pairs}] :
        stale \in {"none", "o", "p", "q"}, named \in {{}, {"q"}, {"q", "r"}},
        over \in {<<>>, <<"q", "p">>, <<"p", "r">>},
        pairs \in SUBSET {<<"o", "p">>, <<"q", "p">>, <<"q", "r">>, <<"r", "o">>, <<"p", "r">>}}

MCText == 1 :> "question"

MCInit == \/ about = "tasks" /\ Init /\ stage = "idle" /\ KnowledgeInit
          \/ about = "knowledge" /\ KnowledgeInit
             /\ deps = [t \in Tasks |-> {}] /\ status = [t \in Tasks |-> "pending"]

MCNext == /\ UNCHANGED about
          /\ \/ about = "tasks" /\ Next /\ UNCHANGED knowledgeVars
             \/ about = "knowledge" /\ KnowledgeNext /\ UNCHANGED vars

MCSpec == MCInit /\ [][MCNext]_<<about, vars, knowledgeVars>>

=============================================================================
