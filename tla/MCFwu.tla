------------------------------- MODULE MCFwu -------------------------------
(***************************************************************************)
(* Instances of Fwu.  In the run about boots two images of two blocks and  *)
(* three guests: one newer in each image and one without a record in the   *)
(* second; time, which matters to owners only, stands still.  In the run   *)
(* about owners one image of a single block, one guest and a counter that  *)
(* wraps.                                                                  *)
(***************************************************************************)
EXTENDS Fwu, TLC

CONSTANTS g1, g2, g3, a, b

MCVersion == a :> 1 @@ b :> 2
MCRecord  == a :> (g1 :> 1) @@ b :> (g1 :> 1)
MCRecordThree ==
    a :> (g1 :> 1 @@ g2 :> 2 @@ g3 :> 1) @@ b :> (g1 :> 2 @@ g2 :> 1)
MCSize    == a :> 2 @@ b :> 2
MCSizeOne == a :> 1
NoTime    == tick = 0
=============================================================================
