------------------------------- MODULE LoopFSM -------------------------------
(***************************************************************************)
(* Review loops (internal/loop) as operators.  A definition is a record:   *)
(* its states with the agent of each (NoAgent for none), its transitions   *)
(* in the order in which the code tries them, and its budget.  The state   *)
(* of a loop travels with its messages, so the FSM has no variable.        *)
(***************************************************************************)
EXTENDS Naturals, Sequences

CONSTANT NoAgent      (* the agent of a terminal state                      *)

\* The terminal state the code itself moves to.
Escalated == "ESCALATED"

States(def) == DOMAIN def.agent

IsTerminal(def, state) == state \in def.terminal

From(def, state) == {i \in DOMAIN def.transitions : def.transitions[i].from = state}

Earliest(I) == CHOOSE i \in I : \A j \in I : i <= j

\* A condition is "" when the transition has none.
On(def, state, verdict) == {i \in From(def, state) : def.transitions[i].on = verdict}

IsReviewState(def, state) == On(def, state, "") # From(def, state)

\* The transition on the verdict, or else an unconditional one; "none" is the error.
ResolveNextState(def, state, verdict) ==
    LET matching == On(def, state, verdict) IN
    LET chosen == IF matching # {} THEN matching ELSE On(def, state, "")
    IN IF chosen = {} THEN "none" ELSE def.transitions[Earliest(chosen)].to

\* Mutant: the budget is compared after the count, one transition late.
TransitionLate(def, state, count, to) ==
    IF IsTerminal(def, state) THEN [outcome |-> "error", state |-> state, count |-> count]
    ELSE IF count > def.max
         THEN [outcome |-> "escalated", state |-> Escalated, count |-> count + 1]
    ELSE IF ~\E i \in From(def, state) : def.transitions[i].to = to
         THEN [outcome |-> "error", state |-> state, count |-> count]
    ELSE [outcome |-> "transitioned", state |-> to, count |-> count + 1]

\* The budget goes before the check that the transition exists.
Transition(def, state, count, to) ==
    IF IsTerminal(def, state) THEN [outcome |-> "error", state |-> state, count |-> count]
    ELSE IF count >= def.max
         THEN [outcome |-> "escalated", state |-> Escalated, count |-> count + 1]
    ELSE IF ~\E i \in From(def, state) : def.transitions[i].to = to
         THEN [outcome |-> "error", state |-> state, count |-> count]
    ELSE [outcome |-> "transitioned", state |-> to, count |-> count + 1]

\* ESCALATED must be there to fall back to; nothing asks that a terminal state
\* can be reached, or that a review state has a transition for each verdict.
Validate(def) ==
    /\ States(def) # {} /\ def.terminal # {} /\ def.max > 0
    /\ def.initial \in States(def) /\ def.terminal \subseteq States(def)
    /\ \A s \in States(def) \ def.terminal : def.agent[s] # NoAgent /\ From(def, s) # {}
    /\ \A i \in DOMAIN def.transitions :
          {def.transitions[i].from, def.transitions[i].to} \subseteq States(def)
    /\ Escalated \in def.terminal
=============================================================================
