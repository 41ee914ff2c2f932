---- MODULE MC_TorumOrders ----
(* Attempts of entries; the sets the configurations choose between.  A setup *)
(* is only compared with another, so renaming setups changes nothing.        *)
EXTENDS TorumOrders, TLC

OneSetup == {"A"}
SetupSymmetry == Permutations(Setups)
====
