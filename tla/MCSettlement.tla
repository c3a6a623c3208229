---------------------------- MODULE MCSettlement ----------------------------
(* Settlement on small instances: which threads submit on which contexts.  *)
EXTENDS Settlement, TLC

CONSTANTS c1, c2, t1, t2

OneEach   == c1 :> {t1} @@ c2 :> {t2}
Split     == t1 :> {"write", "frame"} @@ t2 :> {"read", "present"}
BothWrite == t1 :> {"write"} @@ t2 :> {"write"}
OneAll    == c1 :> {t1} @@ c2 :> {t1}
All       == t1 :> {"read", "write", "present", "frame"}
=============================================================================
