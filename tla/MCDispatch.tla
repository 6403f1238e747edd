----------------------------- MODULE MCDispatch -----------------------------
(* Two tasks and two instances of their profile.                            *)
EXTENDS Dispatch, TLC
CONSTANTS a, b
Apart    == a :> 1 @@ b :> 2
OneEach  == 1 :> 1 @@ 2 :> 1
=============================================================================
