------------------------------ MODULE MCReplay ------------------------------
(* Constants of the Replay runs.                                           *)
EXTENDS Replay, TLC

CONSTANTS a, b, c, p1, p2, c1, c2, compute, transfer

No    == [reads |-> FALSE, writes |-> FALSE, kind |-> compute]
R(k)  == [reads |-> TRUE,  writes |-> FALSE, kind |-> k]
W(k)  == [reads |-> FALSE, writes |-> TRUE,  kind |-> k]
RW(k) == [reads |-> TRUE,  writes |-> TRUE,  kind |-> k]

TwoContexts == (a :> c1) @@ (b :> c1) @@ (c :> c2)

OneContext  == [s \in {a, b, c} |-> c1]

(* Readers, writers that read, and schemes that leave the parcel alone.    *)
OneParcel == {[p \in {p1} |-> x] : x \in {R(compute), RW(transfer), No}}
(* One reader and writers of two kinds.                                    *)
Kernels   == {[p \in {p1} |-> x] : x \in {R(compute), W(compute), W(transfer)}}
=============================================================================
