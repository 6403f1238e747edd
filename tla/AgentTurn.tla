----------------------------- MODULE AgentTurn ------------------------------
(***************************************************************************)
(* One task in the hands of an agent (internal/agent/agent.go): executeTask *)
(* with the tool loop of generateWithTools, the model calls behind it      *)
(* (internal/llm/meter.go), the commands of the sandbox                    *)
(* (internal/sandbox/local.go) and the answer to the conductor.  The model *)
(* may answer anything, or fail; so may every command.                     *)
(*                                                                         *)
(* A prompt is what it makes the model do, so none is kept.  Of a response *)
(* the loop tells apart the tool calls it has, whether it has file blocks  *)
(* and whether it asks the user something.                                 *)
(***************************************************************************)
EXTENDS Integers

CONSTANTS Setups,          (* the agent definitions                         *)
          MaxIterations,   (* maxIterationsForScope                         *)
          RedirectBonus,   (* iterations granted by a redirect              *)
          VerifyRetries,   (* verifyMaxRetries                              *)
          VerifyBonus,     (* verifyBonusIterations                         *)
          MaxRetries,      (* of one model call                             *)
          Budget,          (* the token budget, in calls                    *)
          MaxSpent         (* bound on what is counted                      *)

MaxRedirects == 2
MaxStreak == 3
MaxAsks == 3

(* tools: has a ToolExecutor; window: has a context limit to compact to.    *)
Setup == [tools : BOOLEAN, shellOnly : BOOLEAN, verify : BOOLEAN, window : BOOLEAN]

ASSUME AgentTurnAssumption ==
    /\ Setups \subseteq Setup
    /\ MaxIterations \in Nat /\ MaxIterations > 1
    /\ RedirectBonus \in Nat \ {0}
    /\ VerifyRetries \in Nat
    /\ VerifyBonus \in Nat \ {0}
    /\ MaxRetries \in Nat
    /\ Budget \in Nat
    /\ MaxSpent \in Nat /\ MaxSpent > Budget

VARIABLES setup,    (* Agent.Def                                            *)
          pc,       (* where executeTask is                                 *)
          loop,     (* the local variables of generateWithTools             *)
          tries,    (* attempts of the model call under way                 *)
          resp,     (* the response at hand                                 *)
          asked,    (* askAttempt                                           *)
          spent,    (* what the meter has on record for the agent           *)
          over,     (* calls of this loop made over the budget              *)
          groups,   (* process groups alive, and those in bgGroups          *)
          verified, (* what the last verification of the turn said          *)
          outcome   (* the result sent to the conductor                     *)

turnVars == <<setup, pc, loop, tries, resp, asked, spent, over, groups,
          verified, outcome>>

-----------------------------------------------------------------------------
Sites == {"once", "loop", "compacted", "final", "summary"}  (* of Generate   *)

Places == Sites \cup
    {"start", "check", "respond", "verify", "tools", "lastverify", "finalized",
     "lasttools", "returned", "failed", "asking", "answer", "escalate",
     "sent"}

Response == [calls : {"none", "look", "work"},   (* look: isVerificationOnly *)
             blocks : BOOLEAN, asks : BOOLEAN]

NoResponse == [calls |-> "none", blocks |-> FALSE, asks |-> FALSE]

Loop == [iter : Nat, limit : Nat,
         called : BOOLEAN,        (* toolCallCount > 0                       *)
         blocks : BOOLEAN,        (* accumulatedBlocks is not empty          *)
         streak : 0..MaxStreak, attempt : 0..VerifyRetries,
         redirects : 0..MaxRedirects,
         tagged : BOOLEAN]        (* verifyFailed                            *)

NewLoop == [iter |-> 0, limit |-> MaxIterations, called |-> FALSE,
            blocks |-> FALSE, streak |-> 0, attempt |-> 0, redirects |-> 0,
            tagged |-> FALSE]

Outcomes == {"none", "completed", "failed", "overbudget"}

TurnTypeOK ==
    /\ setup \in Setups
    /\ pc \in Places
    /\ loop \in Loop
    /\ tries \in 0..MaxRetries
    /\ resp \in Response
    /\ asked \in 0..MaxAsks
    /\ spent \in 0..MaxSpent
    /\ over \in Nat
    /\ groups \in [alive : BOOLEAN, owned : BOOLEAN]
    /\ verified \in {"no", "passed", "failed"}
    /\ outcome \in Outcomes

NoGroups == [alive |-> FALSE, owned |-> FALSE]

InitTurn ==
    /\ setup \in Setups
    /\ pc = "start"
    /\ loop = NewLoop
    /\ tries = 0
    /\ resp = NoResponse
    /\ asked = 0
    /\ spent \in 0..MaxSpent   (* by earlier tasks                           *)
    /\ over = 0
    /\ groups = NoGroups
    /\ verified = "no"
    /\ outcome = "none"

(* Meter.CheckBudget compares what is on record, not what a call may cost.  *)
OverBudget == spent > Budget

-----------------------------------------------------------------------------
(* executeTask up to the first loop.  A budget that is already spent is     *)
(* answered with a result that is not marked failed.                        *)
EnterLoop == pc' = IF setup.tools THEN "check" ELSE "once"

StartTurn ==
    /\ pc = "start"
    /\ IF OverBudget
       THEN pc' = "answer" /\ outcome' = "overbudget"
       ELSE EnterLoop /\ UNCHANGED outcome
    /\ UNCHANGED <<setup, loop, tries, resp, asked, spent, over, groups, verified>>

(* The head of the loop.  The meter is asked between iterations only.       *)
Check ==
    /\ pc = "check"
    /\ pc' = IF loop.iter >= loop.limit THEN "lastverify"
             ELSE IF loop.iter > 0 /\ OverBudget THEN "failed"
             ELSE "loop"
    /\ UNCHANGED <<setup, loop, tries, resp, asked, spent, over, groups, verified, outcome>>

-----------------------------------------------------------------------------
(* MeteredModel.Generate.  An answer is recorded once, whatever number of   *)
(* attempts it took; a failed attempt is not.                               *)
After(site) ==
    CASE site = "once"    -> "returned"
      [] site = "final"   -> "finalized"
      [] site = "summary" -> "returned"
      [] OTHER            -> "respond"

Recorded == IF spent < MaxSpent THEN spent + 1 ELSE spent

ModelAnswers(site) ==
    /\ pc = site
    /\ resp' \in Response
    /\ pc' = After(site)
    /\ tries' = 0
    /\ spent' = Recorded
    /\ over' = IF OverBudget THEN over + 1 ELSE over
    /\ UNCHANGED <<setup, loop, asked, groups, verified, outcome>>

(* Mutant: a call is retried without a bound.                               *)
ModelRetriesAgain(site) ==
    /\ pc = site
    /\ tries' = IF tries < MaxRetries THEN tries + 1 ELSE 0
    /\ UNCHANGED <<setup, pc, loop, resp, asked, spent, over, groups, verified, outcome>>

(* isTransientError, and an attempt left.                                   *)
ModelRetries(site) ==
    /\ pc = site
    /\ tries < MaxRetries
    /\ tries' = tries + 1
    /\ UNCHANGED <<setup, pc, loop, resp, asked, spent, over, groups, verified, outcome>>

(* Any other error, the last attempt, or the context is over: a loop that   *)
(* overflowed the context tries once more on a shorter history; the last    *)
(* summary keeps the response it has.                                       *)
ModelGivesUp(site) ==
    /\ pc = site
    /\ pc' \in CASE site = "loop" /\ setup.window -> {"compacted", "failed"}
                 [] site = "summary"              -> {"returned"}
                 [] OTHER                         -> {"failed"}
    /\ tries' = 0
    /\ UNCHANGED <<setup, loop, resp, asked, spent, over, groups, verified, outcome>>

-----------------------------------------------------------------------------
(* sandbox.Run: a command that times out has its whole group killed, and    *)
(* so has one that ends, unless the caller keeps what it left running.      *)
Kept == [alive |-> TRUE, owned |-> TRUE]

(* Mutant: the group of a command that timed out is neither killed nor      *)
(* handed over.                                                             *)
RunKillsNothing(keep) ==
    groups' \in IF keep THEN {groups, Kept, [groups EXCEPT !.alive = TRUE]}
               ELSE {groups}

Run(keep) == groups' \in IF keep THEN {groups, Kept} ELSE {groups}

(* ToolExecutor.Execute.  A call that cannot be read or names no tool runs  *)
(* nothing; of the tools there are only the shell keeps what is running,    *)
(* and its group is noted for Cleanup, whether the command failed or not.   *)
Tools == {"unusable", "custom", "shell"}

Execute ==
    \E tool \in Tools :
        IF tool = "unusable" THEN UNCHANGED groups ELSE Run(tool = "shell")

(* runVerify: the command passes or not, on the directory that looks like   *)
(* the project's; one that runs out of time has not passed.                 *)
RunVerify(passed) ==
    /\ Run(FALSE)
    /\ verified' = IF passed THEN "passed" ELSE "failed"

(* Cleanup, deferred by generateWithTools.                                  *)
Cleanup == groups' = IF groups.owned THEN NoGroups ELSE groups

(* A response without tool calls.  An agent that must use the shell is told *)
(* so twice; the limit is set anew from the iteration it is in.             *)
Redirected ==
    /\ setup.shellOnly
    /\ loop.redirects < MaxRedirects
    /\ resp.blocks \/ ~loop.called

(* Mutant: the bonus is added to the limit, once more than it is counted.   *)
RaisedTwice(bonus) ==
    [loop EXCEPT !.iter = @ + 1, !.limit = @ + 1 + bonus]

Raised(bonus) ==
    [loop EXCEPT !.iter = @ + 1, !.limit = loop.iter + 1 + bonus]

Redirect ==
    /\ pc = "respond"
    /\ resp.calls = "none"
    /\ Redirected
    /\ loop' = [Raised(RedirectBonus) EXCEPT !.redirects = @ + 1]
    /\ pc' = "check"
    /\ UNCHANGED <<setup, tries, resp, asked, spent, over, groups, verified, outcome>>

(* The verification gate, while retries are left; runVerify.                *)
VerifyGate ==
    /\ pc = "respond"
    /\ resp.calls = "none"
    /\ ~Redirected
    /\ setup.verify
    /\ loop.attempt < VerifyRetries
    /\ \E passed \in BOOLEAN :
        /\ RunVerify(passed)
        /\ IF passed
           THEN pc' = "returned" /\ UNCHANGED loop
           ELSE /\ pc' = "check"
                /\ loop' = [Raised(VerifyBonus) EXCEPT !.attempt = @ + 1]
    /\ UNCHANGED <<setup, tries, resp, asked, spent, over, outcome>>

(* Without the gate the response is final.                                  *)
FinishTurn ==
    /\ pc = "respond"
    /\ resp.calls = "none"
    /\ ~Redirected
    /\ ~setup.verify \/ loop.attempt >= VerifyRetries
    /\ pc' = "returned"
    /\ UNCHANGED <<setup, loop, tries, resp, asked, spent, over, groups, verified, outcome>>

(* The tool calls of a response, one after the other.  What they change is  *)
(* no longer what was verified.                                             *)
UseTools ==
    /\ pc = "respond"
    /\ resp.calls # "none"
    /\ Execute
    /\ LET new     == resp.blocks /\ ~setup.shellOnly
           blocks  == loop.blocks \/ new
           idle    == blocks /\ resp.calls = "look" /\ ~new
           streak  == IF idle THEN loop.streak + 1 ELSE 0
       IN  /\ loop' = [loop EXCEPT !.called = TRUE, !.blocks = blocks,
                                   !.streak = streak,
                                   !.iter = IF streak < MaxStreak THEN @ + 1 ELSE @]
           /\ pc' = IF streak < MaxStreak THEN "check" ELSE "lastverify"
    /\ verified' = IF resp.calls = "work" THEN "no" ELSE verified
    /\ UNCHANGED <<setup, tries, resp, asked, spent, over, outcome>>

-----------------------------------------------------------------------------
(* The loop is over without a final response: verify once more, and answer  *)
(* with the files there are or ask the model for a last response.           *)
LastVerify ==
    /\ pc = "lastverify"
    /\ IF setup.verify
       THEN \E passed \in BOOLEAN :
            /\ RunVerify(passed)
            /\ loop' = [loop EXCEPT !.tagged = ~passed]
       ELSE UNCHANGED <<verified, groups, loop>>
    /\ IF loop.blocks
       THEN pc' = "returned" /\ resp' = NoResponse
       ELSE pc' = "final" /\ UNCHANGED resp
    /\ UNCHANGED <<setup, tries, asked, spent, over, outcome>>

(* Tool calls in the last response are run for an agent that works by shell *)
(* only, and are an error for the others.                                   *)
Finalized ==
    /\ pc = "finalized"
    /\ IF resp.calls = "none" THEN pc' = "returned" /\ UNCHANGED <<groups, verified>>
       ELSE IF setup.shellOnly
       THEN /\ pc' = "summary"
            /\ Execute
            /\ verified' = IF resp.calls = "work" THEN "no" ELSE verified
       ELSE pc' = "failed" /\ UNCHANGED <<groups, verified>>
    /\ UNCHANGED <<setup, loop, tries, resp, asked, spent, over, outcome>>

-----------------------------------------------------------------------------
(* Back in executeTask.  A question to the user is asked while attempts are *)
(* left; a user who does not answer is answered for.                        *)
ReturnFromLoop ==
    /\ pc = "returned"
    /\ Cleanup
    /\ IF resp.asks /\ asked < MaxAsks
       THEN pc' = "asking" /\ UNCHANGED outcome
       ELSE /\ pc' = "answer"
            /\ outcome' = IF loop.tagged THEN "failed" ELSE "completed"
    /\ UNCHANGED <<setup, loop, tries, resp, asked, spent, over, verified>>

(* Mutant: the attempts are not counted.                                    *)
AskForever ==
    /\ pc = "asking"
    /\ loop' = NewLoop
    /\ over' = 0
    /\ EnterLoop
    /\ UNCHANGED <<setup, tries, resp, asked, spent, groups, verified, outcome>>

Ask ==
    /\ pc = "asking"
    /\ asked' = asked + 1
    /\ loop' = NewLoop
    /\ over' = 0
    /\ EnterLoop
    /\ UNCHANGED <<setup, tries, resp, spent, groups, verified, outcome>>

(* An error of generateWithTools: escalate, to a target or not, and in both *)
(* cases a result that is marked failed.                                    *)
Fail ==
    /\ pc = "failed"
    /\ Cleanup
    /\ pc' = "escalate"
    /\ UNCHANGED <<setup, loop, tries, resp, asked, spent, over, verified, outcome>>

Escalate ==
    /\ pc = "escalate"
    /\ outcome' = "failed"
    /\ pc' = "answer"
    /\ UNCHANGED <<setup, loop, tries, resp, asked, spent, over, groups, verified>>

(* sendResult: sync, build the parts, send.                                 *)
SendResult ==
    /\ pc = "answer"
    /\ pc' = "sent"
    /\ UNCHANGED <<setup, loop, tries, resp, asked, spent, over, groups, verified, outcome>>

Generate(site) == ModelAnswers(site) \/ ModelRetries(site) \/ ModelGivesUp(site)

NextTurn ==
    \/ StartTurn
    \/ Check
    \/ \E site \in Sites : Generate(site)
    \/ Redirect
    \/ VerifyGate
    \/ FinishTurn
    \/ UseTools
    \/ LastVerify
    \/ Finalized
    \/ ReturnFromLoop
    \/ Ask
    \/ Fail
    \/ Escalate
    \/ SendResult

(* Model calls, commands and questions have time limits, so every step of   *)
(* the turn is followed by another until it is over.                        *)
TurnSpec == InitTurn /\ [][NextTurn]_turnVars /\ WF_turnVars(NextTurn)

-----------------------------------------------------------------------------
(* The limit of a tool loop is moved by redirects and by verifications that *)
(* failed, from inside the loop it bounds (agent.go:356, 376).  It never    *)
(* goes beyond what the two budgets grant together.  The token budget is    *)
(* "checked before or during LLM execution to stop runaway work"            *)
(* (docs/glossary.md:69): a loop makes at most two model calls over budget, *)
(* the two that finalize it.                                                *)
LoopIsBounded ==
    /\ loop.iter <= loop.limit
    /\ loop.limit <= MaxIterations + loop.redirects * RedirectBonus
                                   + loop.attempt * VerifyBonus
    /\ over <= 2

(* What tools left running is killed before the agent waits for the user or *)
(* answers (toolexec.go:349), on every way out of the loop.                 *)
NoToolOutlivesTheLoop ==
    pc \in {"asking", "escalate", "answer", "sent"} => ~groups.alive

(* Every task is answered, whatever model, tools and user do.               *)
TurnEnds == <>(pc = "sent")
=============================================================================
