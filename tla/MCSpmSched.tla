----------------------------- MODULE MCSpmSched -----------------------------
(* A front partition that calls a back partition, and one on its own. *)
EXTENDS SpmSched

MCDeps == [p \in 1 .. NSps |-> IF p = 1 THEN {2} ELSE {}]
=============================================================================
