---------------------------- MODULE MCFrameTable ----------------------------
(* Constants of the model-checking runs of FrameTable.                     *)
EXTENDS FrameTable

CONSTANTS k1, k2
=============================================================================
