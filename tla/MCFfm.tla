------------------------------- MODULE MCFfm -------------------------------
(* A front service with Non-secure clients, and a back service it depends on. *)
EXTENDS Ffm, TLC

CONSTANTS g1, g2, front, back, sF, sB

MCOwner == (sF :> front) @@ (sB :> back)
MCAllowed == (Guests \X {sF}) \cup {<<front, sB>>}
MCSymmetry == Permutations(Guests)

\* How often the slots of both pools were released: generations start at 1.
Releases ==
    Cardinality({<<c, g>> \in Conns \X Gens : g < conn[c].gen})
        + Cardinality({<<m, g>> \in Msgs \X Gens : g < msg[m].gen})

\* Bound: a second restart and a fourth release are checked, not followed.
Explored == inst[front] + inst[back] <= 1 /\ Releases <= 3
=============================================================================
