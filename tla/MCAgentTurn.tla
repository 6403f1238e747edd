---------------------------- MODULE MCAgentTurn -----------------------------
(***************************************************************************)
(* What an agent gets, what it does with it, what it remembers meanwhile,  *)
(* and where it does it: a behavior is about one of the four.  Of turns    *)
(* there is every agent definition the loop tells apart: without tools,    *)
(* with tools, by shell only, each with and without verification and a     *)
(* context limit.  Of workspaces there are two agents, the second on the   *)
(* results of the first, in two requests; their turns end.  Inputs come    *)
(* from two tasks, one by the agent's own profile, one by its reviewer's.  *)
(***************************************************************************)
EXTENDS AgentTurn, Workspace, TLC

CONSTANTS Paths, Contents, Window, Long, Iterations, Proactive, Retries,
          Deps, Worker, Reviewer, AgentOf, Kinds, Noise, Results, Room, Floor,
          LastLine, MaxListed, MaxHops

VARIABLES about,
          agent, input, accumulated, dir, iter, streak, attempt, step, last, reply,
          node, loops, hops, review, work, parts, sections

historyVars == <<agent, input, accumulated, dir, iter, streak, attempt, step, last, reply>>
inputVars == <<node, loops, hops, review, work, parts, sections>>

History == INSTANCE ToolHistory
Input == INSTANCE TaskInput

ASSUME HistoryAssumption == History!ToolHistoryAssumption
ASSUME InputAssumption == Input!TaskInputAssumption

MCSetups == {s \in Setup : s.tools \/ ~(s.shellOnly \/ s.verify \/ s.window)}

MCUpstream == 1 :> {} @@ 2 :> {1}

MCAgentOf == "1" :> "dev" @@ "2" :> "design"

NoTurn == /\ setup = [tools |-> TRUE, shellOnly |-> TRUE, verify |-> TRUE, window |-> TRUE]
          /\ pc = "sent" /\ loop = NewLoop /\ tries = 0 /\ resp = NoResponse
          /\ asked = 0 /\ spent = 0 /\ over = 0 /\ groups = NoGroups
          /\ verified = "no" /\ outcome = "completed"

NoWorkspace == WorkspaceInit /\ ~staged

NoHistory == /\ History!HistoryInit
             /\ agent = [shellOnly |-> FALSE, cached |-> FALSE, verify |-> FALSE]
             /\ \A p \in Paths : dir[p] = 0

NoInput == /\ node = [d \in Deps |-> Input!NodeOf(d, {}, 0, FALSE)]
           /\ loops = FALSE /\ hops = 0 /\ review = FALSE /\ work = {}
           /\ parts = <<>> /\ sections = <<>>

MCInit ==
    \/ about = "turn" /\ InitTurn /\ NoWorkspace /\ NoHistory /\ NoInput
    \/ about = "workspace" /\ NoTurn /\ WorkspaceInit /\ NoHistory /\ NoInput
    \/ about = "history" /\ NoTurn /\ NoWorkspace /\ History!HistoryInit /\ NoInput
    \/ about = "input" /\ NoTurn /\ NoWorkspace /\ NoHistory /\ Input!InputInit

MCNext ==
    /\ UNCHANGED about
    /\ \/ /\ about = "turn" /\ NextTurn
          /\ UNCHANGED <<workspaceVars, historyVars, inputVars>>
       \/ /\ about = "workspace" /\ WorkspaceNext
          /\ UNCHANGED <<turnVars, historyVars, inputVars>>
       \/ /\ about = "history" /\ History!HistoryNext
          /\ UNCHANGED <<turnVars, workspaceVars, inputVars>>
       \/ /\ about = "input" /\ Input!InputNext
          /\ UNCHANGED <<turnVars, workspaceVars, historyVars>>

MCSpec == /\ MCInit
          /\ [][MCNext]_<<about, turnVars, workspaceVars, historyVars, inputVars>>
          /\ WF_turnVars(NextTurn)

-----------------------------------------------------------------------------
(* The history and the files of a tool loop, see ToolHistory: what is       *)
(* forgotten does no harm.                                                  *)
ForgettingIsHarmless == History!ForgettingIsHarmless

(* What was made upstream reaches the agent: in the input of its task, see  *)
(* TaskInput, and in the files it works on, see Workspace.                  *)
UpstreamArrives == Input!InputsReachTheAgent /\ UpstreamIsVisible
=============================================================================
