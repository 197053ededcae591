------------------------- MODULE MCRequestController -------------------------
(***************************************************************************)
(* RequestController for three requests, two of them of one key.           *)
(***************************************************************************)
EXTENDS RequestController, TLC

CONSTANTS r1, r2, r3, k1, k2

MCKeyOf == (r1 :> k1) @@ (r2 :> k1) @@ (r3 :> k2)
=============================================================================
