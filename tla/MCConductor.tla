----------------------------- MODULE MCConductor -----------------------------
(* Two conductor processes on one fabric: users talk to a, b stands by.     *)
EXTENDS Conductor, TLC
CONSTANTS a, b

\* A request of two tasks, and one that asks for nothing.
Work == 1 :> {{1, 2}} @@ 2 :> {}

\* With an ID of their own, as WithConductorID is for.
Distinct == a :> a @@ b :> b
=============================================================================
