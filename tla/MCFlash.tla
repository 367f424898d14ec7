------------------------------- MODULE MCFlash -------------------------------
(***************************************************************************)
(* Flash and XspiNor side by side: a behaviour is one of the other's, so   *)
(* the run explores the sum of the two and not their product.              *)
(***************************************************************************)
EXTENDS Flash, XspiNor

MCInit ==
  /\ Init
  /\ NorInit

MCNext ==
  \/ drv.pc = "idle" /\ drv.op = "none" /\ drv.lut = "ours" /\ Next /\ UNCHANGED norVars
  \/ port = "rt" /\ dev.line = NoLine /\ dev.cell = [u \in Units |-> Blank]
     /\ sess = NoSession /\ faults + cuts = 0 /\ NorNext /\ UNCHANGED vars

MCSpec == MCInit /\ [][MCNext]_<<vars, norVars>>
==============================================================================
