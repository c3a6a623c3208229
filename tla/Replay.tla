------------------------------- MODULE Replay -------------------------------
(***************************************************************************)
(* Retained replay of schemes and the topology-dirty bit that invalidates  *)
(* it.                                                                     *)
(*                                                                         *)
(* The first submit of a scheme records its command buffer and retains it; *)
(* later submits replay it.  The barriers a submission needs against what  *)
(* is already in the ledger are derived at every submit, but a replay      *)
(* executes the ones *baked* when the buffer was recorded.  So that they   *)
(* do not become stale, a scheme registers its footprint on every parcel   *)
(* it binds (the interaction set); a scheme whose registration changes the *)
(* set of a parcel raises the topology-dirty bit of the other schemes      *)
(* there, which record anew at their next submit.                          *)
(*                                                                         *)
(* A submit has four steps: prepare (read the bit, drop the key), record   *)
(* or replay, stamp the parcels, and the bookkeeping that registers the    *)
(* footprint and clears the bit.  An error leaves it between two of them.  *)
(*                                                                         *)
(* A scheme has one retained partition; one that is submitted after it may *)
(* fail.  The GPU itself, waits and tickets are the business of Ledger.    *)
(***************************************************************************)
EXTENDS Integers, FiniteSets

CONSTANTS
  Schemes,          (* the schemes                                          *)
  Contexts,         (* submission contexts                                  *)
  On,               (* On[s]: the context scheme s submits on               *)
  Parcels,          (* the parcels they bind                                *)
  Kinds,            (* pipeline kinds that access memory                    *)
  Footprints,       (* the accesses a scheme may make to the parcels        *)
  Read,             (* the source of a barrier behind reads                 *)
  None,             (* no last write                                        *)
  OneThread,        (* TRUE: one thread submits all schemes                 *)
  LateFailures,     (* TRUE: a later partition of a submit may fail         *)
  MaxEdits,         (* bound on the mutations of schemes                    *)
  MaxFailures       (* bound on the failing submits                         *)

Access == [reads : BOOLEAN, writes : BOOLEAN, kind : Kinds]
Source == Kinds \cup {Read}
Roles  == {"Reads", "Writes"}

ASSUME ReplayAssumption ==
  /\ On \in [Schemes -> Contexts]
  /\ Footprints \subseteq [Parcels -> Access]
  /\ Read \notin Kinds
  /\ None \notin [by : Schemes, kind : Kinds]
  /\ OneThread \in BOOLEAN /\ LateFailures \in BOOLEAN
  /\ MaxEdits \in Nat /\ MaxFailures \in Nat

VARIABLES
  uses,        (* uses[s]: net access of the scheme's graph                 *)
  dirty,       (* dirty[s]: SchemeDirty                                     *)
  flag,        (* flag[s]: topology_dirty                                   *)
  key,         (* key[s]: the scheme holds a retention key                  *)
  held,        (* held[s]: the backend holds a retained buffer              *)
  baked,       (* baked[s]: the barriers recorded into it                   *)
  edges,       (* edges[p]: the interaction set of parcel p                 *)
  registered,  (* registered[s]: prev_topology_parcels                      *)
  step,        (* step[s]: where the scheme is in a submit                  *)
  prep,        (* prep[s]: what prepare_ir_submit found, and the record     *)
  lastWrite,   (* lastWrite[p][c]: kinds of the last write, and its scheme  *)
  readers,     (* readers[p][c]: schemes that have read p on c              *)
  writers,     (* writers[p][c]: schemes that have written p on c (history) *)
  edits, failures

scheme == <<uses, dirty, edits>>
retained == <<held, baked>>
ledger == <<lastWrite, readers, writers>>
topology == <<edges, registered>>
vars   == <<uses, dirty, flag, key, held, baked, edges, registered, step, prep,
            lastWrite, readers, writers, edits, failures>>

Touches(a, p) == a[p].reads \/ a[p].writes
Bound(s)      == {p \in Parcels : Touches(uses[s], p)}

(* The edge of a scheme on a parcel (interaction_role_from_net,            *)
(* interaction_kind_bits_from_net).                                        *)
EdgeOf(s, p) == [by |-> s, role |-> IF uses[s][p].writes THEN "Writes" ELSE "Reads",
                 kind |-> uses[s][p].kind]

(* Scheme s must stay behind the last write to p on context c (for a read: *)
(* on any context), and behind the reads of p on its own.                  *)
AfterWrite(s, p, c) ==
  /\ lastWrite[p][c] # None
  /\ uses[s][p].reads \/ (uses[s][p].writes /\ c = On[s])
AfterReads(s, p) == uses[s][p].writes /\ readers[p][On[s]] # {}

(* The barriers the ledger asks of scheme s: parcel and source.            *)
Prologue(s) ==
  {b \in Parcels \X Source :
     \/ \E c \in Contexts : AfterWrite(s, b[1], c) /\ b[2] = lastWrite[b[1]][c].kind
     \/ AfterReads(s, b[1]) /\ b[2] = Read}

NoPrep == [topo |-> FALSE, struct |-> FALSE, recorded |-> FALSE]

Init ==
  /\ uses \in [Schemes -> Footprints]
  /\ dirty      = [s \in Schemes |-> "structure"]
  /\ flag       = [s \in Schemes |-> FALSE]
  /\ key        = [s \in Schemes |-> FALSE]
  /\ held       = [s \in Schemes |-> FALSE]
  /\ baked      = [s \in Schemes |-> {}]
  /\ edges      = [p \in Parcels |-> {}]
  /\ registered = [s \in Schemes |-> {}]
  /\ step       = [s \in Schemes |-> "idle"]
  /\ prep       = [s \in Schemes |-> NoPrep]
  /\ lastWrite  = [p \in Parcels |-> [c \in Contexts |-> None]]
  /\ readers    = [p \in Parcels |-> [c \in Contexts |-> {}]]
  /\ writers    = [p \in Parcels |-> [c \in Contexts |-> {}]]
  /\ edits      = 0
  /\ failures   = 0

Submitting(s) == step[s] \in {"prepared", "recorded", "stamped"}

(* The thread that has scheme s is not inside a submit: a context is used  *)
(* by one thread, and with OneThread there is only one.                    *)
Idle(s) ==
  /\ step[s] = "idle"
  /\ \A o \in Schemes : Submitting(o) => ~OneThread /\ On[o] # On[s]

-----------------------------------------------------------------------------
(* The graph of a scheme is changed: nodes or bindings ...                 *)
Restructure(s, a) ==
  /\ Idle(s)
  /\ edits < MaxEdits
  /\ edits' = edits + 1
  /\ uses'  = [uses EXCEPT ![s] = a]
  /\ dirty' = [dirty EXCEPT ![s] = "structure"]
  /\ UNCHANGED <<flag, key, retained, topology, step, prep, ledger, failures>>

(* ... or only parameters, which change the fingerprint of its partition.  *)
SetParams(s) ==
  /\ Idle(s)
  /\ edits < MaxEdits
  /\ edits' = edits + 1
  /\ dirty' = [dirty EXCEPT ![s] = IF @ = "clean" THEN "params" ELSE @]
  /\ UNCHANGED <<uses, flag, key, retained, topology, step, prep, ledger, failures>>

(* The backend gives a retained buffer up, as when its row is needed.      *)
Evict(s) ==
  /\ step[s] = "idle"
  /\ held[s]
  /\ held'  = [held EXCEPT ![s] = FALSE]
  /\ baked' = [baked EXCEPT ![s] = {}]
  /\ UNCHANGED <<scheme, flag, key, topology, step, prep, ledger, failures>>

(* Mutant of Prepare: the bit is read but the key is kept.                 *)
PrepareKeepsKey(s) ==
  /\ Idle(s)
  /\ prep' = [prep EXCEPT ![s] = [topo |-> flag[s], struct |-> dirty[s] = "structure",
                                  recorded |-> FALSE]]
  /\ key'  = [key EXCEPT ![s] = @ /\ dirty[s] # "structure"]
  /\ step' = [step EXCEPT ![s] = "prepared"]
  /\ UNCHANGED <<scheme, flag, retained, topology, ledger, failures>>

(* prepare_ir_submit: a raised bit or a changed graph drops the key.       *)
Prepare(s) ==
  /\ Idle(s)
  /\ prep' = [prep EXCEPT ![s] = [topo |-> flag[s], struct |-> dirty[s] = "structure",
                                  recorded |-> FALSE]]
  /\ key'  = [key EXCEPT ![s] = @ /\ dirty[s] # "structure" /\ ~flag[s]]
  /\ step' = [step EXCEPT ![s] = "prepared"]
  /\ UNCHANGED <<scheme, flag, retained, topology, ledger, failures>>

(* The partition has a key that still fits and a buffer behind it.         *)
CanReplay(s) == key[s] /\ dirty[s] = "clean" /\ held[s]

(* The retained buffer is submitted again, with the waits of now and the   *)
(* barriers of then.                                                       *)
Resubmit(s) ==
  /\ step[s] = "prepared"
  /\ CanReplay(s)
  /\ step' = [step EXCEPT ![s] = "recorded"]
  /\ UNCHANGED <<scheme, flag, key, retained, topology, prep, ledger, failures>>

(* The partition is recorded with the prologue of now, and retained.       *)
Record(s) ==
  /\ step[s] = "prepared"
  /\ ~CanReplay(s)
  /\ baked'  = [baked EXCEPT ![s] = Prologue(s)]
  /\ held'   = [held EXCEPT ![s] = TRUE]
  /\ key'    = [key EXCEPT ![s] = TRUE]
  /\ prep'   = [prep EXCEPT ![s].recorded = TRUE]
  /\ step'   = [step EXCEPT ![s] = "recorded"]
  /\ UNCHANGED <<scheme, flag, topology, ledger, failures>>

(* apply_partition_epoch_stamps.                                           *)
Stamp(s) ==
  /\ step[s] = "recorded"
  /\ lastWrite' = [p \in Parcels |-> IF uses[s][p].writes
                     THEN [lastWrite[p] EXCEPT ![On[s]] = [by |-> s, kind |-> uses[s][p].kind]]
                     ELSE lastWrite[p]]
  /\ writers'   = [p \in Parcels |-> IF uses[s][p].writes
                     THEN [writers[p] EXCEPT ![On[s]] = @ \cup {s}] ELSE writers[p]]
  /\ readers'   = [p \in Parcels |-> IF uses[s][p].reads
                     THEN [readers[p] EXCEPT ![On[s]] = @ \cup {s}] ELSE readers[p]]
  /\ step'      = [step EXCEPT ![s] = "stamped"]
  /\ UNCHANGED <<scheme, flag, key, retained, topology, prep, failures>>

Others(s, p) == {e \in edges[p] : e.by # s}

(* The parcels whose interaction set the registration of s changes.        *)
Changed(s) == {p \in Bound(s) : EdgeOf(s, p) \notin edges[p]}

(* The other schemes on the parcels in P.                                  *)
Peers(s, P) == {e.by : e \in UNION {Others(s, p) : p \in P}}

(* Mutant of Reregister: an edge taken out and put back counts as new.     *)
ReregisterForgets(s) ==
  /\ edges' = [p \in Parcels |->
       (IF p \in registered[s] THEN Others(s, p) ELSE edges[p])
         \cup (IF p \in Bound(s) THEN {EdgeOf(s, p)} ELSE {})]
  /\ registered' = [registered EXCEPT ![s] = Bound(s)]
  /\ flag' = [o \in Schemes |-> o \in Peers(s, Bound(s)) \/ (flag[o] /\ ~(o = s /\ prep[s].topo))]

(* Mutant of Reregister: parcels left behind keep the scheme's edge.       *)
ReregisterKeeps(s) ==
  /\ edges' = [p \in Parcels |->
       IF p \in Bound(s) THEN Others(s, p) \cup {EdgeOf(s, p)} ELSE edges[p]]
  /\ registered' = [registered EXCEPT ![s] = Bound(s)]
  /\ flag' = [o \in Schemes |-> o \in Peers(s, Changed(s)) \/ (flag[o] /\ ~(o = s /\ prep[s].topo))]

(* reregister_scheme_topology: take the edges of the last registration     *)
(* out, put the present ones in, and raise the bit of the other schemes on *)
(* each parcel where they differ.  After that the bit is cleared if this   *)
(* submit had found it raised.                                             *)
Reregister(s) ==
  /\ edges' = [p \in Parcels |->
       (IF p \in registered[s] THEN Others(s, p) ELSE edges[p])
         \cup (IF p \in Bound(s) THEN {EdgeOf(s, p)} ELSE {})]
  /\ registered' = [registered EXCEPT ![s] = Bound(s)]
  /\ flag' = [o \in Schemes |-> o \in Peers(s, Changed(s)) \/ (flag[o] /\ ~(o = s /\ prep[s].topo))]

(* finish_ir_submit_bookkeeping: only a submit that recorded registers.    *)
Finish(s) ==
  /\ step[s] = "stamped"
  /\ dirty' = [dirty EXCEPT ![s] = "clean"]
  /\ IF prep[s].struct \/ prep[s].topo \/ prep[s].recorded
     THEN Reregister(s)
     ELSE UNCHANGED <<topology, flag>>
  /\ step' = [step EXCEPT ![s] = "idle"]
  /\ prep' = [prep EXCEPT ![s] = NoPrep]
  /\ UNCHANGED <<uses, edits, key, retained, ledger, failures>>

(* A submit fails, before its partition went out or after it was stamped;  *)
(* either way nothing is registered and the bits stay as they are.         *)
Fail(s) ==
  /\ step[s] = "prepared" \/ (LateFailures /\ step[s] = "stamped")
  /\ failures < MaxFailures
  /\ failures' = failures + 1
  /\ step' = [step EXCEPT ![s] = "idle"]
  /\ prep' = [prep EXCEPT ![s] = NoPrep]
  /\ UNCHANGED <<scheme, flag, key, retained, topology, ledger>>

(* Dropping a scheme takes its edges out and tells nobody.                 *)
Drop(s) ==
  /\ Idle(s)
  /\ step'   = [step EXCEPT ![s] = "gone"]
  /\ edges'  = [p \in Parcels |-> IF p \in registered[s] THEN Others(s, p) ELSE edges[p]]
  /\ registered' = [registered EXCEPT ![s] = {}]
  /\ key'    = [key EXCEPT ![s] = FALSE]
  /\ held'   = [held EXCEPT ![s] = FALSE]
  /\ baked'  = [baked EXCEPT ![s] = {}]
  /\ flag'   = [flag EXCEPT ![s] = FALSE]
  /\ UNCHANGED <<scheme, prep, ledger, failures>>

Next ==
  \E s \in Schemes :
    \/ \E a \in Footprints : Restructure(s, a)
    \/ SetParams(s)
    \/ Evict(s)
    \/ Prepare(s)
    \/ Resubmit(s)
    \/ Record(s)
    \/ Stamp(s)
    \/ Finish(s)
    \/ Fail(s)
    \/ Drop(s)

Spec == Init /\ [][Next]_vars

-----------------------------------------------------------------------------
TypeOK ==
  /\ uses  \in [Schemes -> Footprints]
  /\ dirty \in [Schemes -> {"structure", "params", "clean"}]
  /\ flag  \in [Schemes -> BOOLEAN]
  /\ key   \in [Schemes -> BOOLEAN]
  /\ held  \in [Schemes -> BOOLEAN]
  /\ baked \in [Schemes -> SUBSET (Parcels \X Source)]
  /\ edges \in [Parcels -> SUBSET [by : Schemes, role : Roles, kind : Kinds]]
  /\ registered \in [Schemes -> SUBSET Parcels]
  /\ step  \in [Schemes -> {"idle", "prepared", "recorded", "stamped", "gone"}]
  /\ prep  \in [Schemes -> [topo : BOOLEAN, struct : BOOLEAN, recorded : BOOLEAN]]
  /\ lastWrite \in [Parcels -> [Contexts -> [by : Schemes, kind : Kinds] \cup {None}]]
  /\ readers \in [Parcels -> [Contexts -> SUBSET Schemes]]
  /\ writers \in [Parcels -> [Contexts -> SUBSET Schemes]]
  /\ edits \in 0..MaxEdits
  /\ failures \in 0..MaxFailures

(* Scheme o has left work in the ledger of p behind which s must put a     *)
(* barrier.                                                                *)
Conflicts(s, o, p) ==
  \/ (uses[s][p].reads  /\ \E c \in Contexts : o \in writers[p][c])
  \/ (uses[s][p].writes /\ o \in writers[p][On[s]] \cup readers[p][On[s]])

Replaying(s) == step[s] = "prepared" /\ CanReplay(s)
Covered(s)   == {b[1] : b \in baked[s]}

(* A buffer that is replayed has a barrier on every parcel on which the    *)
(* scheme depends on another one, however the schemes were created, edited *)
(* and dropped since the buffer was recorded: the bit reaches every buffer *)
(* that lacks one (scheme.rs, prepare_ir_submit).                          *)
ReplayCoversForeign ==
  \A s \in Schemes : Replaying(s) =>
    \A o \in Schemes \ {s} : \A p \in Parcels :
      Conflicts(s, o, p) => p \in Covered(s)

(* Interaction sets hold one edge per scheme, and only edges its next      *)
(* registration or its drop will take out again.                           *)
EdgesAreTracked ==
  \A p \in Parcels : \A e \in edges[p] :
    /\ p \in registered[e.by]
    /\ step[e.by] # "gone"
    /\ \A f \in edges[p] : f.by = e.by => f = e

(* Why: the inductive invariant, for one thread and no late failures.      *)
(* What a submit under way has found and done ...                          *)
SubmitOrder ==
  /\ \A s, o \in Schemes : Submitting(s) /\ Submitting(o) => s = o
  /\ \A s \in Schemes :
       /\ Submitting(s) => (prep[s].struct <=> dirty[s] = "structure")
       /\ step[s] = "prepared" /\ key[s] =>
            ~flag[s] /\ ~prep[s].topo /\ dirty[s] # "structure"
       /\ step[s] \in {"recorded", "stamped"} /\ ~prep[s].recorded =>
            ~prep[s].topo /\ dirty[s] = "clean"
       /\ step[s] = "gone" => ~key[s]

(* ... a graph that did not change has its edges in place ...              *)
GraphsAreRegistered ==
  \A s \in Schemes : step[s] # "gone" /\ dirty[s] # "structure" =>
    \A p \in Bound(s) : EdgeOf(s, p) \in edges[p]

(* ... an edge stands for work that is in the ledger ...                   *)
EdgesFollowWork ==
  /\ \A p \in Parcels : \A e \in edges[p] :
       e.by \in IF e.role = "Writes" THEN writers[p][On[e.by]] ELSE readers[p][On[e.by]]
  /\ \A s \in Schemes : step[s] = "stamped" => \A p \in Parcels :
       /\ uses[s][p].writes => s \in writers[p][On[s]]
       /\ uses[s][p].reads  => s \in readers[p][On[s]]
  /\ \A p \in Parcels : \A c \in Contexts : writers[p][c] # {} => lastWrite[p][c] # None

(* ... and a buffer that may be replayed covers all work but that of the   *)
(* submit under way, whose registration will tell.                         *)
Replayable(s) ==
  /\ key[s] /\ held[s]
  /\ \/ step[s] \in {"recorded", "stamped"} /\ prep[s].recorded
     \/ ~flag[s] /\ dirty[s] # "structure"

BuffersCoverWork ==
  \A s \in Schemes : Replayable(s) =>
    \A o \in Schemes \ {s} : \A p \in Parcels :
      Conflicts(s, o, p) =>
        p \in Covered(s) \/ (step[o] = "stamped" /\ p \in Changed(o))

ReplayOrder == SubmitOrder /\ GraphsAreRegistered /\ EdgesFollowWork /\ BuffersCoverWork

(* Schemes on shared parcels stop making each other record anew: once      *)
(* graphs no longer change, records forced by the bit come to an end,      *)
(* whatever the order of submits ("correct, not free", schemes.md).        *)
RerecordsEnd ==
  <>[][\A s \in Schemes : ~(Record(s) /\ prep[s].topo)]_vars

(* The doc of graph_commands_with_sync_prologue (graph.rs): "the topology  *)
(* dirty bit forces re-record before any topology-driven prologue change,  *)
(* so the baked barrier stays current".  Checked for the barriers behind   *)
(* other schemes' work: what the ledger asks for is what was baked.        *)
ForeignPrologue(s) ==
  {b \in Prologue(s) :
     \/ \E c \in Contexts : /\ AfterWrite(s, b[1], c)
                            /\ lastWrite[b[1]][c].by # s
                            /\ b[2] = lastWrite[b[1]][c].kind
     \/ b[2] = Read /\ readers[b[1]][On[s]] \ {s} # {}}

BakedBarrierStaysCurrent ==
  \A s \in Schemes : Replaying(s) => ForeignPrologue(s) \subseteq baked[s]

(* The same for a scheme's own earlier submits (the loop-carried hazards   *)
(* of the test at cross_submit.rs:987).                                    *)
LoopCarriedStaysCurrent ==
  \A s \in Schemes : Replaying(s) => Prologue(s) \subseteq baked[s]
=============================================================================
