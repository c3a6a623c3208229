----------------------------- MODULE MCVramRing -----------------------------
(* Constants of the model-checking runs of VramRing.                       *)
EXTENDS VramRing

CONSTANTS a, b, r
=============================================================================
