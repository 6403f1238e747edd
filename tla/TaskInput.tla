------------------------------ MODULE TaskInput -----------------------------
(***************************************************************************)
(* How the results of tasks get into the input of a task that depends on   *)
(* them: what the scheduler keeps of a result and what of that it puts     *)
(* into an assignment (internal/conductor/scheduler.go), what a loop hands *)
(* on (internal/loop/context.go, forwardLoopMessage), and what the agent   *)
(* makes of the message (buildTaskInput of internal/agent/agent.go), which *)
(* has to fit into the context of a model.                                 *)
(*                                                                         *)
(* A path is the sequence of its segments.  Of the name of a file counts   *)
(* what the filters look for.  Sizes are in units of what it takes to name *)
(* a file or a dependency.                                                 *)
(***************************************************************************)
EXTENDS Naturals, SequencesExt, FiniteSetsExt

CONSTANTS Deps,          (* the tasks that the one at hand depends on       *)
          Worker,        (* the profile of the one at hand                  *)
          Reviewer,      (* in a loop                                       *)
          AgentOf,       (* [Deps -> profiles]                              *)
          Kinds,         (* names: "design", "summary", "decision", others  *)
          Noise,         (* those that isArtifactNoise knows                *)
          Results,       (* sizes of what tasks answer, 0 for nothing       *)
          Room, Floor,   (* of truncateDeps, maxInputChars and minBudget    *)
          LastLine,      (* how much of a line is before the end of a text  *)
          MaxListed,     (* names in a list                                 *)
          MaxHops

(* There is room for the name of everything that is told.                   *)
TaskInputAssumption ==
    /\ IsFiniteSet(Deps) /\ IsFiniteSet(Kinds) /\ Results \subseteq Nat
    /\ Room \in Nat /\ Floor \in Nat /\ LastLine \in Nat
    /\ 6 + Cardinality(Deps) * (Cardinality(Kinds) + 1) <= Floor

VARIABLES node,      (* of a dependency, the fields of its TaskNode         *)
          loops,     (* whether the task has a loop                         *)
          hops, review,  (* how often it was handed on; to a reviewer       *)
          work,      (* WorkArtifactFiles                                   *)
          parts,     (* of the message to the agent                         *)
          sections   (* of its input, about what it depends on              *)

inputVars == <<node, loops, hops, review, work, parts, sections>>

-----------------------------------------------------------------------------
(* The result of a task, as the scheduler keeps it.                         *)

Path(agent, kind) == <<"artifacts", agent, kind>>

IsPrefixOf(dir, path) == Len(dir) <= Len(path) /\ SubSeq(path, 1, Len(dir)) = dir

CommonDirPrefix(paths) ==
    LET some == CHOOSE p \in paths : TRUE
        common == {n \in 0..Len(some) - 1 : \A p \in paths : IsPrefixOf(SubSeq(some, 1, n), p)}
    IN  SubSeq(some, 1, Max(common))

ExtractArtifactURI(uris) ==
    IF uris = {} THEN <<>>
    ELSE IF Cardinality(uris) = 1 THEN CHOOSE u \in uris : TRUE
    ELSE CommonDirPrefix(uris)

\* The result of a task of the agent: extractText, extractArtifactFiles.
NodeOf(d, files, result, completed) ==
    LET uris == {Path(AgentOf[d], k) : k \in files}
    IN  [files |-> files, uri |-> ExtractArtifactURI(uris), result |-> result,
         completed |-> completed]

FilterArtifacts(files) ==
    {k \in files : k # "summary" /\ ("design" \in files => k # "decision")}

-----------------------------------------------------------------------------
(* The parts of a message.                                                  *)

Part(key) == [key |-> key, dep |-> "", agent |-> "", uri |-> <<>>, files |-> {}, size |-> 1]

FileParts(d, files) ==
    SetToSeq({[Part("file") EXCEPT !.uri = Path(AgentOf[d], k)] : k \in files})

About(d) == [Part("dependency") EXCEPT !.dep = d, !.agent = AgentOf[d], !.size = 0]

\* With the names of the files and the result.
FullPart(d) == [About(d) EXCEPT !.uri = node[d].uri, !.files = node[d].files,
                                !.size = node[d].result]

HasOutput(d) == node[d].files # {} \/ node[d].result > 0

\* The parts of an assignment for a dependency.
DependencyParts(d) ==
    IF FilterArtifacts(node[d].files) # {}
    THEN FileParts(d, FilterArtifacts(node[d].files)) \o <<About(d)>>
    ELSE IF HasOutput(d) THEN <<FullPart(d)>> ELSE <<>>

Completed == {d \in Deps : node[d].completed}

\* buildDepPartsData
DepParts == FlattenSeq([i \in 1..Cardinality(Completed) |->
                      LET d == SetToSeq(Completed)[i]
                      IN  IF HasOutput(d) THEN <<FullPart(d)>> ELSE <<>>])

Shared == UNION {{Path(AgentOf[d], k) : k \in node[d].files} : d \in Deps}

\* isArtifactNoise
IsArtifactNoise(path) == Last(path) \in Noise

\* The listing of the shared tier, and the same once more as a tree.
ExistingArtifacts ==
    LET files == {p \in Shared : ~IsArtifactNoise(p)}
    IN  IF files = {} THEN <<>>
        ELSE <<Part("text"), [Part("existing") EXCEPT !.size = Cardinality(files)]>>

Common == <<Part("text"), Part("request"), Part("knowledge")>> \o ExistingArtifacts

\* buildPipelineContext, of more than one task.
PipelineContext == IF Deps = {} THEN <<>> ELSE <<Part("pipeline")>>

NoUpstream == IF Deps = {} THEN <<Part("first")>> ELSE <<>>

Assignment == Common \o PipelineContext \o NoUpstream
                \o FlattenSeq([i \in 1..Cardinality(Completed) |->
                                 DependencyParts(SetToSeq(Completed)[i])])

LoopAssignment == Common \o DepParts \o <<Part("context")>>

-----------------------------------------------------------------------------
(* From one agent of a loop to the next.                                    *)

\* compactDepPart
Compact(part) == [part EXCEPT !.size = IF @ > 1 THEN 1 ELSE @]

\* FilterDepParts: what the next agent made itself, it is not told in a review
\* or a revision.
FilterDepParts(known, next, toReview, verdict) ==
    LET others == FlattenSeq([i \in DOMAIN known |->
                                IF known[i].agent = next THEN <<>> ELSE <<known[i]>>])
    IN  IF toReview THEN others
        ELSE IF verdict = "revise" THEN [i \in DOMAIN others |-> Compact(others[i])]
        ELSE known

\* mergeArtifactFiles
MergeArtifactFiles(existing, latest) == existing \cup latest

Feedback(from, files) ==
    [Part("dependency") EXCEPT !.dep = "self", !.agent = from, !.files = files,
                               !.uri = IF files = {} THEN <<>> ELSE <<"artifacts", Worker>>]

-----------------------------------------------------------------------------
(* The input.                                                               *)

\* Part by part; a part that says nothing of a dependency but its name is
\* dropped, and so is every text but the first.
SectionOf(part) ==
    CASE part.key \in {"text", "request", "pipeline", "context"} -> <<>>
      [] part.key = "dependency" ->
           IF part.uri = <<>> /\ part.size = 0 THEN <<>>
           ELSE <<[part EXCEPT !.size = @ + 1,
                     !.files = IF Cardinality(@) <= MaxListed THEN @ ELSE {}]>>
      [] OTHER -> <<part>>

\* Where a text that has to end at a limit ends: at a line, if one ends late enough.
Cut(limit) == IF limit > limit \div 2 + LastLine THEN limit - LastLine ELSE limit

Total(numbers) ==
    LET total[n \in 0..Len(numbers)] == IF n = 0 THEN 0 ELSE total[n - 1] + numbers[n]
    IN  total[Len(numbers)]

TotalSize(texts) == Total([i \in DOMAIN texts |-> texts[i].size])

TruncateDeps(texts, room) ==
    LET budget == IF room < Floor THEN Floor ELSE room
        perDep == budget \div Len(texts)
        long == {i \in DOMAIN texts : texts[i].size > perDep}
        surplus == Total([i \in DOMAIN texts |->
                            IF i \in long THEN 0 ELSE perDep - texts[i].size])
        limit == perDep + surplus \div Cardinality(long)
    IN  IF texts = <<>> \/ TotalSize(texts) <= budget THEN texts
        ELSE [i \in DOMAIN texts |->
                 IF i \in long /\ texts[i].size > limit THEN [texts[i] EXCEPT !.size = Cut(limit)]
                 ELSE texts[i]]

BuildTaskInput(message) ==
    TruncateDeps(FlattenSeq([i \in DOMAIN message |-> SectionOf(message[i])]), Room)

-----------------------------------------------------------------------------
InputInit ==
    /\ node \in {[d \in Deps |-> NodeOf(d, f[d][1], f[d][2], f[d][3])] :
                    f \in [Deps -> (SUBSET Kinds) \X Results \X BOOLEAN]}
    /\ loops \in BOOLEAN
    /\ hops = 0 /\ review = FALSE /\ work = {}
    /\ parts = IF loops THEN LoopAssignment ELSE Assignment
    /\ sections = BuildTaskInput(parts)

\* forwardLoopMessage, with the files that the worker made.
Forward(files, verdict) ==
    /\ loops /\ hops < MaxHops
    /\ review => files = {}
    /\ work' = MergeArtifactFiles(work, files)
    /\ review' = ~review
    /\ hops' = hops + 1
    /\ parts' = <<Part("text"), Part("request")>>
                 \o FilterDepParts(DepParts, IF review' THEN Reviewer ELSE Worker, review', verdict)
                 \o <<Feedback(IF review THEN Reviewer ELSE Worker, work'), Part("context")>>
    /\ sections' = BuildTaskInput(parts')
    /\ UNCHANGED <<node, loops>>

InputNext == \E files \in SUBSET Kinds, verdict \in {"", "revise"} : Forward(files, verdict)

InputSpec == InputInit /\ [][InputNext]_inputVars

-----------------------------------------------------------------------------
Reader == IF review THEN Reviewer ELSE Worker

\* The input leads to the file: by its name, its directory or its address.
LeadsTo(path) ==
    \E s \in ToSet(sections) : s.size > 0 /\ s.uri # <<>> /\ IsPrefixOf(s.uri, path)

(* An assignment "includes pipeline context and dependency outputs"         *)
(* (docs/orchestration-internals.md:155): what every completed dependency   *)
(* delivered, in files or, if it has none, in words, is in the input, after *)
(* filters, lists that are cut and a context that is full, and from hop to  *)
(* hop of a loop, unless the reader made it itself; so are all files that   *)
(* the loop itself has made; and but for the notes on what was left out the *)
(* input does not exceed what was asked for.                                *)
InputsReachTheAgent ==
    /\ \A d \in Completed : hops = 0 \/ AgentOf[d] # Reader =>
          /\ \A k \in FilterArtifacts(node[d].files) : LeadsTo(Path(AgentOf[d], k))
          /\ FilterArtifacts(node[d].files) = {} /\ HasOutput(d) =>
                \E s \in ToSet(sections) : s.dep = d /\ s.size > 0
    /\ hops > 0 => \A k \in work : LeadsTo(Path(Worker, k))
    /\ TotalSize(sections) <= (IF Room < Floor THEN Floor ELSE Room)
=============================================================================
