---------------------------- MODULE MCSmcHelper ----------------------------
(* SmcHelper for TLC: clients run the same program and can be exchanged.     *)
EXTENDS SmcHelper, TLC

ClientSymmetry == Permutations(Clients)
=============================================================================
