----------------------------- MODULE MCScheduler -----------------------------
(***************************************************************************)
(* Graphs for the scheduler: a diamond, whose two middle tasks share a     *)
(* profile, and a chain.                                                   *)
(***************************************************************************)
EXTENDS Scheduler, TLC

Diamond == (1 :> {}) @@ (2 :> {1}) @@ (3 :> {1}) @@ (4 :> {2, 3})
Chain   == (1 :> {}) @@ (2 :> {1})

\* The middle of the diamond is one profile, everything else another.
Middle == [t \in Tasks |-> IF t \in {2, 3} THEN 1 ELSE 0]
OneAtATime == (0 :> 0) @@ (1 :> 1)
NoLimit == (0 :> 0) @@ (1 :> 0)
=============================================================================
