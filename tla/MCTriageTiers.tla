---------------------------- MODULE MCTriageTiers ----------------------------
(* Four events: one in the bucket that the range's start cuts through, two  *)
(* in the next bucket, one on the first instant of the last.                *)
EXTENDS TriageTiers, TLC

CONSTANTS e1, e2, e3, e4

Times == e1 :> 4 @@ e2 :> 8 @@ e3 :> 9 @@ e4 :> 10
=============================================================================
