------------------------- MODULE MCAccountExposure -------------------------
(* Four proposals in three symbols, two of them in the same one.           *)
EXTENDS AccountExposure, TLC

CONSTANTS p1, p2, p3, p4, x, y, z

MCSymbolOf == (p1 :> x) @@ (p2 :> x) @@ (p3 :> y) @@ (p4 :> z)
MCQty == (p1 :> 1) @@ (p2 :> 2) @@ (p3 :> 1) @@ (p4 :> 2)
=============================================================================
