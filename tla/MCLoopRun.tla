------------------------------ MODULE MCLoopRun ------------------------------
(***************************************************************************)
(* Loops of a developer and a reviewer: the one the decomposition prompt   *)
(* gives as an example, one that has two reviews in a row, and one that    *)
(* lacks the state to fall back to.  Other behaviors are about the leases  *)
(* of three loops: two of one conductor that share a profile, and one of   *)
(* another conductor that needs the profiles of the first in the other     *)
(* order.                                                                  *)
(***************************************************************************)
EXTENDS LoopRun, TLC

CONSTANTS dev, rev, MaxTransitions,
          Loops, OwnerOf, Needs, First, Profiles, Offers, Free, MaxTries, MaxFaults

VARIABLES about,
          lease, epochs, host, stage, at, wanted, held, after, attempts, faults, lapsed

leaseVars == <<lease, epochs, host, stage, at, wanted, held, after, attempts, faults, lapsed>>

Leases == INSTANCE LoopLeases

ASSUME LeasesAssumption == Leases!LoopLeasesAssumption

Move(from, to, on) == [from |-> from, to |-> to, on |-> on]

Review ==
    [agent |-> [WORKING |-> dev, REVIEWING |-> rev, REVISING |-> dev,
                APPROVED |-> NoAgent, ESCALATED |-> NoAgent],
     transitions |-> <<Move("WORKING", "REVIEWING", ""),
                       Move("REVIEWING", "APPROVED", "approved"),
                       Move("REVIEWING", "REVISING", "revise"),
                       Move("REVISING", "REVIEWING", "")>>,
     initial |-> "WORKING", terminal |-> {"APPROVED", "ESCALATED"}, max |-> MaxTransitions]

TwoReviews ==
    [agent |-> [WORKING |-> dev, REVIEWING |-> rev, CHECKING |-> rev,
                APPROVED |-> NoAgent, ESCALATED |-> NoAgent],
     transitions |-> <<Move("WORKING", "REVIEWING", ""),
                       Move("REVIEWING", "CHECKING", "approved"),
                       Move("REVIEWING", "WORKING", "revise"),
                       Move("CHECKING", "APPROVED", "approved"),
                       Move("CHECKING", "WORKING", "")>>,
     initial |-> "WORKING", terminal |-> {"APPROVED", "ESCALATED"}, max |-> MaxTransitions]

NoFallback ==
    [agent |-> [WORKING |-> dev, APPROVED |-> NoAgent],
     transitions |-> <<Move("WORKING", "APPROVED", "")>>,
     initial |-> "WORKING", terminal |-> {"APPROVED"}, max |-> MaxTransitions]

MCDefs == {Review, TwoReviews, NoFallback}

MCOwnerOf == 1 :> "c1" @@ 2 :> "c1" @@ 3 :> "c2"
MCNeeds == 1 :> <<"p", "q">> @@ 2 :> <<"p">> @@ 3 :> <<"q", "p">>
MCFirst == 1 :> "p" @@ 2 :> "p" @@ 3 :> "q"
MCTries == 1 :> 2 @@ 2 :> 1 @@ 3 :> 1
MCOffers == "p" :> {"p1", "p2"} @@ "q" :> {"q1"}

\* The rule of the prompt and of the templates, which nothing checks: no transition leads
\* to ESCALATED, and a review ends the loop on an approval.
EndsOnApproval ==
    \A d \in Defs : \A i \in DOMAIN d.transitions :
       d.transitions[i].to \in d.terminal =>
          /\ d.transitions[i].to # Escalated
          /\ IsReviewState(d, d.transitions[i].from) => d.transitions[i].on = "approved"

ASSUME ApprovalAssumption == EndsOnApproval

NoLoop == /\ Init /\ def = Review /\ timeouts = FALSE

MCInit == \/ about = "loop" /\ Init /\ Leases!Init
          \/ about = "leases" /\ NoLoop /\ Leases!Init

MCNext == /\ UNCHANGED about
          /\ \/ about = "loop" /\ Next /\ UNCHANGED leaseVars
             \/ about = "leases" /\ Leases!Next /\ UNCHANGED vars

MCSpec == MCInit /\ [][MCNext]_<<about, vars, leaseVars>> /\ Fairness

(* The instances a loop reserves, see LoopLeases: they stay reserved while  *)
(* it runs, and for no longer.                                              *)
ReservationsHold == Leases!ReservationsHold
=============================================================================
