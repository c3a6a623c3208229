------------------------------ MODULE MCLedger ------------------------------
(* Constants of the model-checking runs of Ledger.                         *)
EXTENDS Ledger, TLC

CONSTANTS ctxA, ctxB, ctxR, main, other, buf

OneThread  == [c \in Contexts |-> main]
TwoThreads == (ctxA :> main) @@ (ctxB :> other)

(* One parcel: read it, overwrite it, update it in place.                  *)
OneParcel ==
  { [reads |-> {buf}, writes |-> {}],
    [reads |-> {}, writes |-> {buf}],
    [reads |-> {buf}, writes |-> {buf}] }
=============================================================================
