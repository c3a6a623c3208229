----------------------------- MODULE MCTimeline -----------------------------
(* Constants of the model-checking runs of DeviceTimeline.                 *)
EXTENDS DeviceTimeline, TLC

CONSTANTS a, b, r

(* Compute contexts are interchangeable.                                   *)
ComputeSymmetry == Permutations(Computing \ Rendering)
=============================================================================
