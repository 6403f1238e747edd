----------------------------- MODULE ToolHistory ----------------------------
(***************************************************************************)
(* What a tool loop (generateWithTools of internal/agent/agent.go) keeps   *)
(* and forgets: the history it sends to the model, which it trims and      *)
(* compacts to a window of tokens, and the files that the responses of the *)
(* model brought along, which leave the history at once.  AgentTurn has    *)
(* the control of the loop; here a round is a step.                        *)
(*                                                                         *)
(* A message is its role and its size in units of tokens.  The files of a  *)
(* response are a function from paths to contents: a path occurs once.     *)
(***************************************************************************)
EXTENDS Naturals, SequencesExt

CONSTANTS Paths, Contents,
          Window,        (* contextBudget                                   *)
          Long,          (* the size of a long result of a tool             *)
          Iterations,    (* the limit of the loop                           *)
          Proactive,     (* the round from which on headroom is kept        *)
          Retries        (* verifyMaxRetries, and of redirects              *)

(* What the history is cut down to in the loop has room for the task.       *)
ToolHistoryAssumption == /\ Window \in Nat /\ Long \in Nat
                         /\ Window >= 4
                         /\ IsFiniteSet(Paths)

VARIABLES agent,         (* of Agent: ShellOnly, PromptCacheEnabled         *)
          input,         (* the history                                     *)
          accumulated,   (* accumulatedBlocks, by response                  *)
          dir,           (* the scratch directory, 0 for no file            *)
          iter, streak, attempt,    (* i, verifyStreak, verifyAttempt       *)
          step,
          last,          (* the files of the last response                  *)
          reply          (* the files of what the loop returns              *)

historyVars == <<agent, input, accumulated, dir, iter, streak, attempt, step, last, reply>>

-----------------------------------------------------------------------------
(* The history.                                                             *)

Message(role, size) == [role |-> role, size |-> size]

Task == <<Message("system", 2), Message("user", 2)>>

Total(numbers) ==
    LET total[n \in 0..Len(numbers)] == IF n = 0 THEN 0 ELSE total[n - 1] + numbers[n]
    IN  total[Len(numbers)]

\* estimateTokens
EstimateTokens(messages) == Total([i \in DOMAIN messages |-> messages[i].size])

\* trimOldToolResults: all but those since the last response.
TrimOldToolResults(messages) ==
    [i \in DOMAIN messages |->
        IF /\ messages[i].role = "tool"
           /\ \E j \in i + 1..Len(messages) : messages[j].role = "assistant"
        THEN Message("tool", 1) ELSE messages[i]]

From(messages, k) == SubSeq(messages, k, Len(messages))

\* Where the longest end begins that fits the budget next to the first two.
KeepFrom(messages, budget) ==
    CHOOSE k \in 3..Len(messages) + 1 :
        LET Fits(j) == EstimateTokens(SubSeq(messages, 1, 2) \o From(messages, j)) <= budget
        IN  (k <= Len(messages) => Fits(k)) /\ (k > 3 => ~Fits(k - 1))

CompactToolHistory(messages, budget) ==
    IF Len(messages) <= 2 \/ KeepFrom(messages, budget) = 3 THEN messages
    ELSE SubSeq(messages, 1, 2) \o <<Message("user", 1)>>
            \o From(messages, KeepFrom(messages, budget))

Compacted(messages, budget) ==
    IF EstimateTokens(messages) > budget THEN CompactToolHistory(messages, budget) ELSE messages

Headroom == (3 * Window) \div 4

\* What the model is sent in the round.
Prepared ==
    LET trimmed == IF iter > 0 /\ ~agent.cached THEN TrimOldToolResults(input) ELSE input
    IN  Compacted(IF iter >= Proactive THEN Compacted(trimmed, Headroom) ELSE trimmed, Window)

-----------------------------------------------------------------------------
(* The files.                                                               *)

Files == UNION {[some -> Contents] : some \in SUBSET Paths}

\* The files f over the files g.
Above(f, g) == [p \in DOMAIN f \cup DOMAIN g |-> IF p \in DOMAIN f THEN f[p] ELSE g[p]]

\* captureFromScratch
CaptureFromScratch(blocks) ==
    [i \in DOMAIN blocks |->
        [p \in DOMAIN blocks[i] |-> IF dir[p] # 0 THEN dir[p] ELSE blocks[i][p]]]

\* What is collected, and of each file the first and the latest version.
Collected(blocks) == UNION {DOMAIN blocks[i] : i \in DOMAIN blocks}
Versions(blocks, p) == {i \in DOMAIN blocks : p \in DOMAIN blocks[i]}
FirstOf(blocks) == [p \in Collected(blocks) |-> blocks[Min(Versions(blocks, p))][p]]
LatestOf(blocks) == [p \in Collected(blocks) |-> blocks[Max(Versions(blocks, p))][p]]

\* Mutant: what the loop collected stands for every file of the response.
StripCollected(response, blocks) ==
    [p \in DOMAIN response \ DOMAIN LatestOf(blocks) |-> response[p]]

\* stripRedundantBlocks
StripRedundantBlocks(response, blocks) ==
    [p \in {p \in DOMAIN response : p \in DOMAIN LatestOf(blocks) => LatestOf(blocks)[p] # response[p]}
        |-> response[p]]

\* mergeAccumulatedBlocks
MergeAccumulatedBlocks(response, blocks) == Above(response, FirstOf(blocks))

\* synthesizeFinalFromAccumulated
SynthesizeFinal(blocks) == LatestOf(blocks)

-----------------------------------------------------------------------------
\* A command of the shell is what its parts do.
Reading == {"read", "cd"}

\* isReadOnlyCommand and hasWriteRedirection
IsReadOnlyCommand(command) == command # {} /\ command \subseteq Reading

IsVerificationOnly(calls) ==
    calls # {} /\ \A c \in calls : c.tool = "shell" /\ IsReadOnlyCommand(c.command)

Calls == {{[tool |-> "shell", command |-> {"read", "cd"}]},
          {[tool |-> "shell", command |-> {"read", "redirect"}]}}

-----------------------------------------------------------------------------
Agents == [shellOnly : BOOLEAN, cached : BOOLEAN, verify : BOOLEAN]

HistoryInit ==
    /\ agent \in Agents
    /\ dir \in [Paths -> Contents \cup {0}]
    \* scratchListing
    /\ input = Task \o IF \E p \in Paths : dir[p] # 0 THEN <<Message("user", 1)>> ELSE <<>>
    /\ accumulated = <<>>
    /\ iter = 0 /\ streak = 0 /\ attempt = 0
    /\ step = "head"
    /\ last = <<>> /\ reply = <<>>

Prepare == /\ step = "head"
           /\ IF iter < Iterations THEN step' = "model" /\ input' = Prepared
              ELSE step' = "force" /\ UNCHANGED input
           /\ UNCHANGED <<agent, accumulated, dir, iter, streak, attempt, last, reply>>

\* isContextOverflowError, which is tried again if there is less to send.
Overflow == /\ step = "model"
            /\ Len(CompactToolHistory(input, Headroom)) < Len(input)
            /\ input' = CompactToolHistory(input, Headroom)
            /\ step' = "again"
            /\ UNCHANGED <<agent, accumulated, dir, iter, streak, attempt, last, reply>>

\* Files of the response, which the history has only the names of, and a tool
\* that changes a file, or none.
Work(files, calls) ==
    /\ step \in {"model", "again"}
    /\ LET new == IF agent.shellOnly THEN <<>> ELSE files
           blocks == IF new = <<>> THEN accumulated ELSE Append(accumulated, new)
           idle == blocks # <<>> /\ IsVerificationOnly(calls) /\ new = <<>>
       IN  /\ accumulated' = blocks
           /\ \E p \in Paths, c \in Contents \cup {0} : dir' = [Above(new, dir) EXCEPT ![p] = c]
           /\ streak' = IF idle THEN streak + 1 ELSE 0
    /\ \E size \in {1, Long} :
          input' = input \o <<Message("assistant", 1), Message("tool", size)>>
    /\ iter' = iter + 1
    /\ step' = IF streak' = 3 THEN "force" ELSE "head"
    /\ UNCHANGED <<agent, attempt, last, reply>>

\* The verification gate, or the redirect of an agent that has to use the shell.
\* The files of the response that is turned down are in the history, and nowhere
\* else.
TurnDown(files) ==
    /\ step \in {"model", "again"}
    /\ agent.verify \/ agent.shellOnly
    /\ attempt < Retries
    /\ attempt' = attempt + 1
    /\ input' = input \o <<Message("assistant", 1 + Cardinality(DOMAIN files)), Message("user", 1)>>
    /\ iter' = iter + 1
    /\ step' = "head"
    /\ UNCHANGED <<agent, accumulated, dir, streak, last, reply>>

Return(files, returned) ==
    /\ last' = files
    /\ reply' = returned
    /\ step' = "done"
    /\ UNCHANGED <<agent, input, dir, iter, streak, attempt>>

\* A response without tool calls that is not turned down.
Finish(files) ==
    /\ step \in {"model", "again"}
    /\ accumulated' = CaptureFromScratch(accumulated)
    /\ Return(files, MergeAccumulatedBlocks(StripRedundantBlocks(files, accumulated'), accumulated'))

\* After the loop: what was collected, or a last response.
Force(files) ==
    /\ step = "force"
    /\ accumulated' = CaptureFromScratch(accumulated)
    /\ IF accumulated = <<>> THEN Return(files, files)
       ELSE files = <<>> /\ Return(files, SynthesizeFinal(accumulated'))

HistoryNext == \/ Prepare \/ Overflow
               \/ \E files \in Files : \/ \E calls \in Calls : Work(files, calls)
                                       \/ TurnDown(files) \/ Finish(files) \/ Force(files)

HistorySpec == HistoryInit /\ [][HistoryNext]_historyVars

-----------------------------------------------------------------------------
(* "System (index 0) and user (index 1) messages are always preserved"      *)
(* (agent.go:1217), and in the loop the model is sent no more than the      *)
(* window and the note that something was left out.                         *)
HistoryFits ==
    step \in {"model", "again"} =>
        /\ SubSeq(input, 1, 2) = Task
        /\ EstimateTokens(input) <= Window + 1

(* "buildResultParts sees ALL files the agent produced across the entire    *)
(* loop" (agent.go:221): whatever the history has lost, what is returned    *)
(* has every file that came with tool calls or with the last response, the  *)
(* latter as it came and the former as the tools left them.                 *)
FilesAreReturned ==
    step = "done" =>
        \A p \in DOMAIN last \cup Collected(accumulated) :
            /\ p \in DOMAIN reply
            /\ dir[p] # 0 => reply[p] = IF p \in DOMAIN last THEN last[p] ELSE dir[p]

(* Both.                                                                    *)
ForgettingIsHarmless == HistoryFits /\ FilesAreReturned
=============================================================================
