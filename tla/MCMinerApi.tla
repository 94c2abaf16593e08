------------------------------ MODULE MCMinerApi ------------------------------
(***************************************************************************)
(* Instance of MinerApi for TLC: two callers, which no action tells apart. *)
(***************************************************************************)
EXTENDS MinerApi, TLC

CallerSymmetry == Permutations(Callers)
=============================================================================
