------------------------------ MODULE MCVault ------------------------------
(***************************************************************************)
(* Bounded instances of Vault.  Labels, keys and values are model values   *)
(* the store never tells apart, so their permutations are symmetries; all  *)
(* properties checked with them are safety properties.                     *)
(***************************************************************************)
EXTENDS Vault, TLC

Symmetry == Permutations(Labels) \cup Permutations(KeyLabels) \cup Permutations(Values)
=============================================================================
