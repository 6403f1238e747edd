---------------------------- MODULE MCEtcdStore -----------------------------
(* Two conductors.                                                          *)
EXTENDS EtcdStore, TLC
CONSTANTS a, b, i, n

MCOwnerOf == a :> a @@ b :> b
=============================================================================
