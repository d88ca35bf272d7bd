-------------------------- MODULE MCKrakenHarpoon --------------------------
(* Small instances of KrakenHarpoon for TLC. *)
EXTENDS KrakenHarpoon

HarpoonSymmetry == Permutations(Harpoons)
=============================================================================
