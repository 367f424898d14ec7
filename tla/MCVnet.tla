------------------------------- MODULE MCVnet -------------------------------
(* Instance of Vnet for TLC: three guests, two addresses, two frame slots. *)
EXTENDS Vnet, TLC

Symmetry == Permutations(Vms) \cup Permutations(Macs)
=============================================================================
