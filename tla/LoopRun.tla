------------------------------- MODULE LoopRun -------------------------------
(***************************************************************************)
(* One loop task: the goroutine of the scheduler that dispatches it and    *)
(* waits (dispatchLoopTask, waitForLoopCompletion), and the agents that    *)
(* pass it on among themselves (agent/agent.go).  A hop is a message that  *)
(* carries the loop's context to an agent; an agent handles one message at *)
(* a time and reports to the conductor.  A dispatch that was given up does *)
(* not stop the agents: its hops go on next to those of the next one.      *)
(***************************************************************************)
EXTENDS LoopFSM, FiniteSets

CONSTANTS Agents,
          Defs,           (* the loop definitions considered                *)
          InboxSize,      (* of an agent's inbox                            *)
          MailSize,       (* of the conductor's                             *)
          MaxDispatches,  (* bound: dispatches of the task                  *)
          MaxCrashes      (* bound: crashes of agent instances              *)

ASSUME LoopAssumption ==
    /\ NoAgent \notin Agents
    /\ {InboxSize, MailSize, MaxDispatches, MaxCrashes} \subseteq Nat
    /\ \A def \in Defs :
          /\ def.max \in Nat /\ def.initial \in STRING
          /\ def.transitions \in Seq([from : STRING, to : STRING, on : STRING])
          /\ \A s \in States(def) : def.agent[s] \in Agents \cup {NoAgent}

VARIABLES
    def,          (* the loop's definition                                  *)
    timeouts,     (* has the task a timeout                                 *)
    status,       (* the task's                                             *)
    nonce,        (* of the present dispatch, 0 before the first            *)
    assigned,     (* task.AssignedInstance                                  *)
    mail,         (* the conductor's inbox                                  *)
    inbox, work,  (* of each agent: messages waiting, messages in work      *)
    up,           (* the instances alive                                    *)
    crashes,
    lost          (* history: dispatches whose hop or report is lost        *)

vars == <<def, timeouts, status, nonce, assigned, mail, inbox, work, up, crashes, lost>>

Nonces == 1 .. MaxDispatches

\* `of` is the dispatch a hop descends from, `nonce` what its context says.
Hop == [of : Nonces, nonce : Nat, state : STRING, count : Nat,
        decisions : BOOLEAN, prompted : BOOLEAN]

\* `earned`: the agent had no verdict to give, or has evidence for it.
Report == [type : {"status", "result"}, from : Agents, of : Nonces, nonce : Nat,
           status : {"running", "completed", "failed", "escalated"},
           state : STRING, earned : BOOLEAN]

TypeOK == /\ def \in Defs
          /\ timeouts \in BOOLEAN
          /\ status \in {"pending", "running", "completed", "failed", "escalated"}
          /\ nonce \in 0 .. MaxDispatches
          /\ assigned \in Agents \cup {NoAgent}
          /\ mail \in Seq(Report) /\ Len(mail) <= MailSize
          /\ inbox \in [Agents -> Seq(Hop)]
          /\ work \in [Agents -> Seq(Hop)]
          /\ \A a \in Agents : Len(inbox[a]) <= InboxSize /\ Len(work[a]) <= 1
          /\ up \in SUBSET Agents
          /\ crashes \in 0 .. MaxCrashes
          /\ lost \in SUBSET Nonces

Init == /\ def \in Defs
        /\ timeouts \in BOOLEAN
        /\ status = "pending"
        /\ nonce = 0
        /\ assigned = NoAgent
        /\ mail = <<>>
        /\ inbox = [a \in Agents |-> <<>>]
        /\ work = [a \in Agents |-> <<>>]
        /\ up = Agents
        /\ crashes = 0
        /\ lost = {}

-----------------------------------------------------------------------------
(* Messages.  A send is refused by an instance that is down or whose inbox  *)
(* is full; the sender is told.                                             *)

Accepts(a) == a \in up /\ Len(inbox[a]) < InboxSize

\* Whatever an agent sends the conductor when it is full is logged and gone.
Tell(report) ==
    IF Len(mail) < MailSize
    THEN mail' = Append(mail, report) /\ UNCHANGED lost
    ELSE /\ UNCHANGED mail
         /\ lost' = IF report.type = "result" THEN lost \cup {report.of} ELSE lost

-----------------------------------------------------------------------------
(* The scheduler.                                                           *)

\* The definition is checked and the profiles reserved (LoopLeases) before the first
\* message; a reservation that is refused is tried again, any other error, like a
\* message that the first agent refuses, fails the task.
Dispatch ==
    /\ status = "pending"
    /\ nonce < MaxDispatches
    /\ nonce' = nonce + 1
    /\ LET first == def.agent[def.initial]
           hop   == [of |-> nonce', nonce |-> nonce', state |-> def.initial, count |-> 0,
                     decisions |-> TRUE, prompted |-> FALSE]
       IN \/ /\ Validate(def) /\ first # NoAgent
             /\ assigned' = first
             /\ IF Accepts(first)
                THEN status' = "running" /\ inbox' = [inbox EXCEPT ![first] = Append(@, hop)]
                ELSE status' = "failed" /\ UNCHANGED inbox
          \/ /\ status' = "failed"
             /\ UNCHANGED <<assigned, inbox>>
          \/ /\ Validate(def)
             /\ status' = "pending"
             /\ assigned' = NoAgent
             /\ UNCHANGED inbox
    /\ UNCHANGED <<def, timeouts, mail, work, up, crashes, lost>>

\* A result that names another dispatch is discarded; one that names none is taken.
Current(report) == report.type = "result" /\ report.nonce \in {0, nonce}

\* Outside of a dispatch the messages of a task are parked, and cleared by the next.
Receive ==
    /\ mail # <<>>
    /\ mail' = Tail(mail)
    /\ LET report == Head(mail) IN
       IF status # "running" THEN UNCHANGED <<status, assigned>>
       ELSE /\ assigned' = IF report.type = "status" THEN report.from ELSE assigned
            /\ status' = IF Current(report) THEN report.status ELSE status
    /\ UNCHANGED <<def, timeouts, nonce, inbox, work, up, crashes, lost>>

\* checkTaskExecutionHealth: the instance on record is gone, the task tried again.
GiveUp == /\ status = "running"
          /\ assigned \notin up
          /\ status' = "pending"
          /\ assigned' = NoAgent
          /\ UNCHANGED <<def, timeouts, nonce, mail, inbox, work, up, crashes, lost>>

TimeOut == /\ status = "running"
           /\ timeouts
           /\ status' = "failed"
           /\ UNCHANGED <<def, timeouts, nonce, assigned, mail, inbox, work, up, crashes, lost>>

\* The user amends the task: its goroutine stops and it is dispatched again.
Amend == /\ status # "pending"
         /\ nonce < MaxDispatches
         /\ status' = "pending"
         /\ UNCHANGED <<def, timeouts, nonce, assigned, mail, inbox, work, up, crashes, lost>>

-----------------------------------------------------------------------------
(* The agents.                                                              *)

Working(a) == a \in up /\ work[a] # <<>>

\* The message an agent works on.
At(a) == work[a][1]

ReportOf(a, type, stat, state, earned) ==
    [type |-> type, from |-> a, of |-> At(a).of, nonce |-> At(a).nonce,
     status |-> stat, state |-> state, earned |-> earned]

\* A message is taken from the inbox, and the conductor told where the loop is.
Take(a) == /\ a \in up
           /\ work[a] = <<>>
           /\ inbox[a] # <<>>
           /\ LET hop == Head(inbox[a]) IN
              /\ work' = [work EXCEPT ![a] = <<hop>>]
              /\ Tell([type |-> "status", from |-> a, of |-> hop.of, nonce |-> hop.nonce,
                       status |-> "running", state |-> hop.state, earned |-> FALSE])
           /\ inbox' = [inbox EXCEPT ![a] = Tail(@)]
           /\ UNCHANGED <<def, timeouts, status, nonce, assigned, up, crashes>>

\* The agent's last word on a message is a result to the conductor.
Answer(a, stat, state, earned) ==
    /\ Tell(ReportOf(a, "result", stat, state, earned))
    /\ work' = [work EXCEPT ![a] = <<>>]
    /\ UNCHANGED <<def, timeouts, status, nonce, assigned, up>>

\* failLoopTask: no budget left, or the model cannot be called.
FailLoopTask(a) == /\ Working(a)
                   /\ Answer(a, "failed", At(a).state, FALSE)
                   /\ UNCHANGED <<inbox, crashes>>

\* What an agent is asked to do in a state: its task, a revision of its work, or a
\* review.  Only a review lists the verdicts and has the project's decisions.
BuildStatePrompt(state, lastVerdict) ==
    IF state = def.initial THEN "work"
    ELSE IF lastVerdict = "revise" THEN "revision"
    ELSE IF IsReviewState(def, state) THEN "review"
    ELSE "bare"

\* Mutant: the context that is passed on has no nonce.
PassedOnAnonymously(hop, next, count, verdict) ==
    [of |-> hop.of, nonce |-> 0, state |-> next, count |-> count, decisions |-> FALSE,
     prompted |-> hop.decisions /\ BuildStatePrompt(next, verdict) = "review"]

\* forwardLoopMessage: the prompt of a review is built with the decisions in hand;
\* the context sent along does not have them.
PassedOn(hop, next, count, verdict) ==
    [of |-> hop.of, nonce |-> hop.nonce, state |-> next, count |-> count, decisions |-> FALSE,
     prompted |-> hop.decisions /\ BuildStatePrompt(next, verdict) = "review"]

\* Mutant: a hop that is refused is only logged.
ForwardUnanswered(a, next, count, verdict, earned) ==
    LET to == def.agent[next] IN
    /\ to # NoAgent /\ inbox' = IF Accepts(to)
                                THEN [inbox EXCEPT ![to] = Append(@, PassedOn(At(a), next, count, verdict))]
                                ELSE inbox
    /\ work' = [work EXCEPT ![a] = <<>>]
    /\ UNCHANGED <<def, timeouts, status, nonce, assigned, mail, up, crashes, lost>>

\* A hop that the next agent refuses ends the loop as escalated; so does one whose
\* connection breaks, although the hop may have arrived.
Forward(a, next, count, verdict, earned) ==
    LET to == def.agent[next]
        sent == [inbox EXCEPT ![to] = Append(@, PassedOn(At(a), next, count, verdict))]
    IN \/ /\ to # NoAgent /\ Accepts(to)
          /\ inbox' = sent
          /\ work' = [work EXCEPT ![a] = <<>>]
          /\ UNCHANGED <<def, timeouts, status, nonce, assigned, mail, up, crashes, lost>>
       \/ /\ ~(to # NoAgent /\ Accepts(to))
          /\ Answer(a, "escalated", next, earned)
          /\ UNCHANGED <<inbox, crashes>>
       \/ /\ to # NoAgent /\ Accepts(to) /\ crashes < MaxCrashes
          /\ crashes' = crashes + 1
          /\ inbox' \in {inbox, sent}
          /\ Answer(a, "escalated", next, earned)

(* An answer of a reviewer: the verdict of its envelope and of the first    *)
(* line that gives one, what its words sound like (not approved sounds      *)
(* approved), whether it called a tool or has none, whether there are files *)
(* of both sides to compare, and of which side it names one.                *)
Reviews == [envelope : {"approved", "revise", ""}, line : {"approved", "revise", ""},
            words : SUBSET {"approved", "revise"}, tools : BOOLEAN, files : BOOLEAN,
            names : SUBSET {"upstream", "work"}]

ExtractVerdict(review) ==
    CASE review.line # "" -> review.line
      [] review.line = "" /\ "approved" \in review.words -> "approved"
      [] review.line = "" /\ review.words = {"revise"} -> "revise"
      [] OTHER -> ""

ExtractVerdictFromEnvelope(review) ==
    IF review.envelope # "" THEN review.envelope ELSE ExtractVerdict(review)

\* collectDepArtifactFiles, reviewHasFileEvidence
HasEvidence(review) == review.files => review.names = {"upstream", "work"}

\* An approval is turned into a revision when the reviewer called no tool, or named
\* no file of those it was to compare.
Verdict(review) ==
    IF ExtractVerdictFromEnvelope(review) = "approved" /\ ~(review.tools /\ HasEvidence(review))
    THEN "revise" ELSE ExtractVerdictFromEnvelope(review)

Verdicts == {[verdict |-> Verdict(r), earned |-> r.tools /\ HasEvidence(r)] : r \in Reviews}

\* Mutant: a loop out of budget is reported like one in a terminal state.
RouteUnescalated(a, verdict, earned) ==
    LET hop  == At(a)
        next == ResolveNextState(def, hop.state, verdict)
        step == Transition(def, hop.state, hop.count, next)
    IN IF next = "none" \/ step.outcome = "error"
       THEN Answer(a, "escalated", hop.state, earned) /\ UNCHANGED <<inbox, crashes>>
       ELSE IF IsTerminal(def, step.state)
       THEN Answer(a, "completed", step.state, earned) /\ UNCHANGED <<inbox, crashes>>
       ELSE Forward(a, step.state, step.count, verdict, earned)

\* The transition on the verdict: the loop ends, escalates, or goes to the next agent.
Route(a, verdict, earned) ==
    LET hop  == At(a)
        next == ResolveNextState(def, hop.state, verdict)
        step == Transition(def, hop.state, hop.count, next)
    IN IF next = "none" \/ step.outcome # "transitioned"
       THEN Answer(a, "escalated", hop.state, earned) /\ UNCHANGED <<inbox, crashes>>
       ELSE IF IsTerminal(def, step.state)
       THEN Answer(a, "completed", step.state, earned) /\ UNCHANGED <<inbox, crashes>>
       ELSE Forward(a, step.state, step.count, verdict, earned)

CompleteLoopStep(a) ==
    /\ Working(a)
    /\ IF IsReviewState(def, At(a).state)
       THEN \E v \in Verdicts : Route(a, v.verdict, v.earned)
       ELSE Route(a, "", TRUE)

-----------------------------------------------------------------------------
(* Instances.                                                               *)

Held(a) == {inbox[a][i].of : i \in DOMAIN inbox[a]} \cup {work[a][i].of : i \in DOMAIN work[a]}

Crash(a) == /\ a \in up
            /\ crashes < MaxCrashes
            /\ crashes' = crashes + 1
            /\ up' = up \ {a}
            /\ lost' = lost \cup Held(a)
            /\ inbox' = [inbox EXCEPT ![a] = <<>>]
            /\ work' = [work EXCEPT ![a] = <<>>]
            /\ UNCHANGED <<def, timeouts, status, nonce, assigned, mail>>

\* Under its old ID, perhaps before anybody noticed.
Restart(a) == /\ a \in Agents \ up
              /\ up' = up \cup {a}
              /\ UNCHANGED <<def, timeouts, status, nonce, assigned, mail, inbox, work,
                             crashes, lost>>

Agent(a) == Take(a) \/ FailLoopTask(a) \/ CompleteLoopStep(a)

Next == \/ Dispatch \/ Receive \/ GiveUp \/ TimeOut \/ Amend
        \/ \E a \in Agents : Agent(a) \/ Crash(a) \/ Restart(a)

\* The scheduler waits, checks and times out; an agent that is up works.
Fairness == /\ WF_vars(Receive) /\ WF_vars(GiveUp) /\ WF_vars(TimeOut)
            /\ \A a \in Agents : WF_vars(Agent(a))

Spec == Init /\ [][Next]_vars /\ Fairness

-----------------------------------------------------------------------------
Hops == UNION {{inbox[a][i] : i \in DOMAIN inbox[a]} \cup
               {work[a][i]  : i \in DOMAIN work[a]} : a \in Agents}

(* A loop is bounded: a dispatch has one hop at a time, which never         *)
(* outspends its budget nor goes on in a terminal state, whatever was       *)
(* refused, given up or dispatched again meanwhile.                         *)
OneBoundedHop ==
    /\ \A g, h \in Hops : g.of = h.of => g = h
    /\ \A a, b \in Agents : a # b => Held(a) \cap Held(b) = {}
    /\ \A h \in Hops : h.count <= def.max /\ (h.count > 0 => ~IsTerminal(def, h.state))

(* A task is settled by a result of its present dispatch, although the hops *)
(* of those before may still be on their way.                               *)
SettledByItsDispatch ==
    [][status' # status /\ mail' # mail => Head(mail).of = nonce]_vars

(* A task completes only when its loop came to a terminal state by itself,  *)
(* and its last verdict, when it had to give one, came with its evidence.   *)
CompletedIsApproved ==
    [][status = "running" /\ status' = "completed" =>
           Head(mail).state \in def.terminal \ {Escalated} /\ Head(mail).earned]_vars

(* A dispatch is answered: only a task without a timeout waits for ever,    *)
(* and only for a hop or a result that got lost.                            *)
Answered == status = "running" ~> status # "running" \/ (nonce \in lost /\ ~timeouts)

=============================================================================
