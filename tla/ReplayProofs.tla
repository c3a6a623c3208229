---------------------------- MODULE ReplayProofs ----------------------------
(***************************************************************************)
(* Proofs about Replay, for any schemes, parcels, contexts and bounds.     *)
(***************************************************************************)
EXTENDS Replay, TLAPS

(***************************************************************************)
(* The types hold: the bookkeeping of a submit leaves bits, edges and      *)
(* baked barriers well formed.                                             *)
(***************************************************************************)
LEMMA PrologueType ==
  ASSUME NEW s \in Schemes
  PROVE  Prologue(s) \in SUBSET (Parcels \X Source)
BY DEF Prologue

LEMMA EdgeType ==
  ASSUME TypeOK, NEW s \in Schemes, NEW p \in Parcels
  PROVE  EdgeOf(s, p) \in [by : Schemes, role : Roles, kind : Kinds]
<1>1. uses[s][p] \in Access
  BY ReplayAssumption DEF TypeOK
<1> QED
  BY <1>1 DEF EdgeOf, Access, Roles

LEMMA TypesInit == Init => TypeOK
BY ReplayAssumption DEF Init, TypeOK, NoPrep

LEMMA TypesStep == TypeOK /\ [Next]_vars => TypeOK'
<1> SUFFICES ASSUME TypeOK, [Next]_vars PROVE TypeOK'
  OBVIOUS
<1> USE DEF scheme, retained, ledger, topology
<1>1. ASSUME NEW s \in Schemes, NEW a \in Footprints, Restructure(s, a) PROVE TypeOK'
  BY <1>1, ReplayAssumption DEF TypeOK, Restructure
<1>2. ASSUME NEW s \in Schemes, SetParams(s) PROVE TypeOK'
  <2>1. dirty' \in [Schemes -> {"structure", "params", "clean"}]
    BY <1>2 DEF TypeOK, SetParams
  <2>2. edits' \in 0..MaxEdits
    BY <1>2, ReplayAssumption DEF TypeOK, SetParams
  <2> QED
    BY <1>2, <2>1, <2>2 DEF TypeOK, SetParams
<1>3. ASSUME NEW s \in Schemes, Evict(s) PROVE TypeOK'
  BY <1>3 DEF TypeOK, Evict
<1>4. ASSUME NEW s \in Schemes, Prepare(s) PROVE TypeOK'
  <2>1. (dirty[s] = "structure") \in BOOLEAN /\ flag[s] \in BOOLEAN
    BY DEF TypeOK
  <2>2. prep' \in [Schemes -> [topo : BOOLEAN, struct : BOOLEAN, recorded : BOOLEAN]]
    BY <1>4, <2>1 DEF TypeOK, Prepare
  <2>3. key' \in [Schemes -> BOOLEAN]
    BY <1>4 DEF TypeOK, Prepare
  <2>4. step' \in [Schemes -> {"idle", "prepared", "recorded", "stamped", "gone"}]
    BY <1>4 DEF TypeOK, Prepare
  <2> QED
    BY <1>4, <2>2, <2>3, <2>4 DEF TypeOK, Prepare
<1>5. ASSUME NEW s \in Schemes, Resubmit(s) PROVE TypeOK'
  BY <1>5 DEF TypeOK, Resubmit
<1>6. ASSUME NEW s \in Schemes, Record(s) PROVE TypeOK'
  <2>1. baked' \in [Schemes -> SUBSET (Parcels \X Source)]
    BY <1>6, PrologueType DEF TypeOK, Record
  <2>2. prep' \in [Schemes -> [topo : BOOLEAN, struct : BOOLEAN, recorded : BOOLEAN]]
    BY <1>6 DEF TypeOK, Record
  <2> QED
    BY <1>6, <2>1, <2>2 DEF TypeOK, Record
<1>7. ASSUME NEW s \in Schemes, Stamp(s) PROVE TypeOK'
  <2>1. On[s] \in Contexts /\ \A p \in Parcels : uses[s][p] \in Access
    BY ReplayAssumption DEF TypeOK
  <2>2. lastWrite' \in [Parcels -> [Contexts -> [by : Schemes, kind : Kinds] \cup {None}]]
    BY <1>7, <2>1 DEF TypeOK, Stamp, Access
  <2>3. writers' \in [Parcels -> [Contexts -> SUBSET Schemes]]
    BY <1>7, <2>1 DEF TypeOK, Stamp, Access
  <2>4. readers' \in [Parcels -> [Contexts -> SUBSET Schemes]]
    BY <1>7, <2>1 DEF TypeOK, Stamp, Access
  <2> QED
    BY <1>7, <2>2, <2>3, <2>4 DEF TypeOK, Stamp
<1>8. ASSUME NEW s \in Schemes, Finish(s) PROVE TypeOK'
  <2>1. prep' \in [Schemes -> [topo : BOOLEAN, struct : BOOLEAN, recorded : BOOLEAN]]
    BY <1>8 DEF TypeOK, Finish, NoPrep
  <2>2. flag' \in [Schemes -> BOOLEAN]
    BY <1>8 DEF TypeOK, Finish, Reregister
  <2>3. registered' \in [Schemes -> SUBSET Parcels]
    <3>1. Bound(s) \in SUBSET Parcels
      BY DEF Bound
    <3>2. registered' = registered \/ registered' = [registered EXCEPT ![s] = Bound(s)]
      BY <1>8 DEF Finish, Reregister
    <3> QED
      BY <3>1, <3>2 DEF TypeOK
  <2>4. edges' \in [Parcels -> SUBSET [by : Schemes, role : Roles, kind : Kinds]]
    <3>1. CASE ~(prep[s].struct \/ prep[s].topo \/ prep[s].recorded)
      BY <1>8, <3>1 DEF TypeOK, Finish
    <3>2. CASE prep[s].struct \/ prep[s].topo \/ prep[s].recorded
      <4>1. edges' = [p \in Parcels |->
               (IF p \in registered[s] THEN Others(s, p) ELSE edges[p])
                 \cup (IF p \in Bound(s) THEN {EdgeOf(s, p)} ELSE {})]
        BY <1>8, <3>2 DEF Finish, Reregister
      <4>2. \A p \in Parcels :
              /\ Others(s, p) \subseteq edges[p]
              /\ edges[p] \in SUBSET [by : Schemes, role : Roles, kind : Kinds]
              /\ EdgeOf(s, p) \in [by : Schemes, role : Roles, kind : Kinds]
        BY EdgeType DEF TypeOK, Others
      <4> QED
        BY <4>1, <4>2
    <3> QED
      BY <3>1, <3>2
  <2>5. dirty' \in [Schemes -> {"structure", "params", "clean"}]
    BY <1>8 DEF TypeOK, Finish
  <2>6. step' \in [Schemes -> {"idle", "prepared", "recorded", "stamped", "gone"}]
    BY <1>8 DEF TypeOK, Finish
  <2> QED
    BY <1>8, <2>1, <2>2, <2>3, <2>4, <2>5, <2>6 DEF TypeOK, Finish
<1>9. ASSUME NEW s \in Schemes, Fail(s) PROVE TypeOK'
  <2>1. prep' \in [Schemes -> [topo : BOOLEAN, struct : BOOLEAN, recorded : BOOLEAN]]
    BY <1>9 DEF TypeOK, Fail, NoPrep
  <2>2. failures' \in 0..MaxFailures
    BY <1>9, ReplayAssumption DEF TypeOK, Fail
  <2> QED
    BY <1>9, <2>1, <2>2 DEF TypeOK, Fail
<1>10. ASSUME NEW s \in Schemes, Drop(s) PROVE TypeOK'
  <2>1. edges' \in [Parcels -> SUBSET [by : Schemes, role : Roles, kind : Kinds]]
    BY <1>10 DEF TypeOK, Drop, Others
  <2>2. registered' \in [Schemes -> SUBSET Parcels]
    BY <1>10 DEF TypeOK, Drop
  <2> QED
    BY <1>10, <2>1, <2>2 DEF TypeOK, Drop
<1>11. CASE UNCHANGED vars
  BY <1>11 DEF vars, TypeOK
<1> QED
  BY <1>1, <1>2, <1>3, <1>4, <1>5, <1>6, <1>7, <1>8, <1>9, <1>10, <1>11 DEF Next

(* Spec => []TypeOK: flags, edges and baked barriers stay well formed      *)
(* through submits that record, replay or fail.                            *)
THEOREM ReplayTypes == Spec => []TypeOK
BY TypesInit, TypesStep, PTL DEF Spec

-----------------------------------------------------------------------------
(***************************************************************************)
(* Interaction sets: every edge is one its scheme will take out again.     *)
(***************************************************************************)
LEMMA TrackedInit == Init => EdgesAreTracked
BY DEF Init, EdgesAreTracked

LEMMA TrackedStep == TypeOK /\ EdgesAreTracked /\ [Next]_vars => EdgesAreTracked'
<1> SUFFICES ASSUME TypeOK, EdgesAreTracked, [Next]_vars PROVE EdgesAreTracked'
  OBVIOUS
<1> USE DEF scheme, retained, ledger, topology
<1> DEFINE Quiet(s) == /\ UNCHANGED topology
                       /\ \E x \in {"idle", "prepared", "recorded", "stamped"} :
                            step' = [step EXCEPT ![s] = x]
<1>1. ASSUME NEW s \in Schemes, Quiet(s) PROVE EdgesAreTracked'
  <2>1. \A o \in Schemes : step[o] # "gone" => step'[o] # "gone"
    BY <1>1 DEF TypeOK
  <2>2. \A p \in Parcels : \A e \in edges[p] : e.by \in Schemes
    BY DEF TypeOK
  <2> QED
    BY <1>1, <2>1, <2>2 DEF EdgesAreTracked
<1>2. ASSUME NEW s \in Schemes, Finish(s) PROVE EdgesAreTracked'
  <2>1. CASE UNCHANGED topology
    BY <1>1, <1>2, <2>1 DEF Finish
  <2>2. CASE Reregister(s)
    <3> SUFFICES ASSUME NEW p \in Parcels, NEW e \in edges'[p]
                 PROVE  /\ p \in registered'[e.by]
                        /\ step'[e.by] # "gone"
                        /\ \A f \in edges'[p] : f.by = e.by => f = e
      BY DEF EdgesAreTracked
    <3>1. \A f \in edges'[p] : f \in Others(s, p) \/ (p \in Bound(s) /\ f = EdgeOf(s, p))
      BY <2>2 DEF Reregister, Others, EdgesAreTracked
    <3>2. EdgeOf(s, p).by = s
      BY DEF EdgeOf
    <3>3. registered' = [registered EXCEPT ![s] = Bound(s)] /\ step' = [step EXCEPT ![s] = "idle"]
      BY <1>2, <2>2 DEF Finish, Reregister
    <3>4. CASE e \in Others(s, p)
      <4>1. e.by \in Schemes \ {s} /\ e \in edges[p]
        BY <3>4 DEF Others, TypeOK
      <4>2. p \in registered'[e.by] /\ step'[e.by] # "gone"
        BY <3>3, <4>1 DEF EdgesAreTracked, TypeOK
      <4> QED
        BY <3>1, <3>2, <4>1, <4>2 DEF EdgesAreTracked, Others
    <3>5. CASE p \in Bound(s) /\ e = EdgeOf(s, p)
      BY <3>1, <3>2, <3>3, <3>5 DEF TypeOK, Others
    <3> QED
      BY <3>1, <3>4, <3>5
  <2> QED
    BY <1>2, <2>1, <2>2 DEF Finish
<1>3. ASSUME NEW s \in Schemes, Drop(s) PROVE EdgesAreTracked'
  <2> SUFFICES ASSUME NEW p \in Parcels, NEW e \in edges'[p]
               PROVE  /\ p \in registered'[e.by]
                      /\ step'[e.by] # "gone"
                      /\ \A f \in edges'[p] : f.by = e.by => f = e
    BY DEF EdgesAreTracked
  <2>1. edges'[p] \subseteq edges[p] /\ e.by # s
    BY <1>3 DEF Drop, Others, EdgesAreTracked
  <2>2. e.by \in Schemes
    BY <2>1 DEF TypeOK
  <2> QED
    BY <1>3, <2>1, <2>2 DEF Drop, EdgesAreTracked, TypeOK
<1>4. ASSUME NEW s \in Schemes, NEW a \in Footprints, Restructure(s, a) PROVE EdgesAreTracked'
  BY <1>4 DEF Restructure, EdgesAreTracked
<1>5. ASSUME NEW s \in Schemes, SetParams(s) \/ Evict(s) PROVE EdgesAreTracked'
  BY <1>5 DEF SetParams, Evict, EdgesAreTracked
<1>6. ASSUME NEW s \in Schemes, Prepare(s) \/ Resubmit(s) \/ Record(s) \/ Stamp(s) \/ Fail(s)
      PROVE  EdgesAreTracked'
  <2>1. Quiet(s)
    BY <1>6 DEF Prepare, Resubmit, Record, Stamp, Fail
  <2> QED
    BY <1>1, <2>1
<1>7. CASE UNCHANGED vars
  BY <1>7 DEF vars, EdgesAreTracked
<1> QED
  BY <1>2, <1>3, <1>4, <1>5, <1>6, <1>7 DEF Next

(* Spec => []EdgesAreTracked: interaction sets hold one edge per scheme,   *)
(* and none that a later registration or a drop would miss.                *)
THEOREM EdgesStayTracked == Spec => []EdgesAreTracked
<1>1. TypeOK /\ EdgesAreTracked /\ [Next]_vars => TypeOK' /\ EdgesAreTracked'
  BY TypesStep, TrackedStep
<1> QED
  BY <1>1, TypesInit, TrackedInit, PTL DEF Spec

-----------------------------------------------------------------------------
(***************************************************************************)
(* Replays on one thread, when no partition fails after another of the     *)
(* same submit went out.                                                   *)
(***************************************************************************)
OneSubmitter == OneThread /\ ~LateFailures

LEMMA OrderInit == Init => ReplayOrder
BY DEF Init, ReplayOrder, SubmitOrder, GraphsAreRegistered, EdgesFollowWork,
       BuffersCoverWork, Replayable, Submitting, NoPrep

LEMMA SubmitOrderStep ==
  ASSUME OneSubmitter, TypeOK, SubmitOrder, [Next]_vars
  PROVE  SubmitOrder'
<1> USE DEF scheme, retained, ledger, topology, OneSubmitter
<1>1. ASSUME NEW s \in Schemes, NEW a \in Footprints, Restructure(s, a) PROVE SubmitOrder'
  BY <1>1 DEF Restructure, Idle, SubmitOrder, Submitting, TypeOK
<1>2. ASSUME NEW s \in Schemes, SetParams(s) PROVE SubmitOrder'
  BY <1>2 DEF SetParams, Idle, SubmitOrder, Submitting, TypeOK
<1>3. ASSUME NEW s \in Schemes, Evict(s) PROVE SubmitOrder'
  BY <1>3 DEF Evict, SubmitOrder, Submitting, TypeOK
<1>4. ASSUME NEW s \in Schemes, Prepare(s) PROVE SubmitOrder'
  BY <1>4, ZenonT(30) DEF Prepare, Idle, SubmitOrder, Submitting, TypeOK
<1>5. ASSUME NEW s \in Schemes, Resubmit(s) PROVE SubmitOrder'
  BY <1>5 DEF Resubmit, CanReplay, SubmitOrder, Submitting, TypeOK
<1>6. ASSUME NEW s \in Schemes, Record(s) PROVE SubmitOrder'
  BY <1>6 DEF Record, SubmitOrder, Submitting, TypeOK
<1>7. ASSUME NEW s \in Schemes, Stamp(s) PROVE SubmitOrder'
  BY <1>7 DEF Stamp, SubmitOrder, Submitting, TypeOK
<1>8. ASSUME NEW s \in Schemes, Finish(s) PROVE SubmitOrder'
  <2>1. \A o \in Schemes \ {s} : ~Submitting(o)
    BY <1>8 DEF Finish, SubmitOrder, Submitting
  <2>2. /\ step' = [step EXCEPT ![s] = "idle"]
        /\ dirty' = [dirty EXCEPT ![s] = "clean"]
        /\ key' = key
    BY <1>8 DEF Finish
  <2> QED
    BY <2>1, <2>2 DEF SubmitOrder, Submitting, TypeOK
<1>9. ASSUME NEW s \in Schemes, Fail(s) PROVE SubmitOrder'
  BY <1>9 DEF Fail, SubmitOrder, Submitting, TypeOK
<1>10. ASSUME NEW s \in Schemes, Drop(s) PROVE SubmitOrder'
  BY <1>10 DEF Drop, Idle, SubmitOrder, Submitting, TypeOK
<1>11. CASE UNCHANGED vars
  BY <1>11 DEF vars, SubmitOrder, Submitting
<1> QED
  BY <1>1, <1>2, <1>3, <1>4, <1>5, <1>6, <1>7, <1>8, <1>9, <1>10, <1>11 DEF Next

(* After a registration the scheme's own edges are those of its graph, and *)
(* those of the others are as before.                                      *)
LEMMA EdgesAfterFinish ==
  ASSUME TypeOK, SubmitOrder, GraphsAreRegistered, EdgesAreTracked, NEW s \in Schemes, Finish(s)
  PROVE  /\ \A p \in Parcels : \A e \in edges[p] : e.by # s => e \in edges'[p]
         /\ \A p \in Parcels : \A e \in edges'[p] :
              e \in edges[p] \/ (p \in Bound(s) /\ e = EdgeOf(s, p))
         /\ \A p \in Bound(s) : EdgeOf(s, p) \in edges'[p]
<1> USE DEF topology
<1>1. CASE prep[s].struct \/ prep[s].topo \/ prep[s].recorded
  BY <1>1 DEF Finish, Reregister, Others, Bound
<1>2. CASE ~(prep[s].struct \/ prep[s].topo \/ prep[s].recorded)
  <2>1. UNCHANGED edges /\ dirty[s] # "structure" /\ step[s] # "gone"
    BY <1>2 DEF Finish, SubmitOrder, Submitting
  <2> QED
    BY <2>1 DEF GraphsAreRegistered, Bound
<1> QED
  BY <1>1, <1>2

LEMMA GraphsAreRegisteredStep ==
  ASSUME TypeOK, SubmitOrder, GraphsAreRegistered, EdgesAreTracked, [Next]_vars
  PROVE  GraphsAreRegistered'
<1> USE DEF scheme, retained, ledger, topology
<1>1. ASSUME NEW s \in Schemes, NEW a \in Footprints, Restructure(s, a) PROVE GraphsAreRegistered'
  BY <1>1 DEF Restructure, GraphsAreRegistered, Bound, Touches, EdgeOf, TypeOK
<1>2. ASSUME NEW s \in Schemes, SetParams(s) PROVE GraphsAreRegistered'
  BY <1>2 DEF SetParams, GraphsAreRegistered, Bound, Touches, EdgeOf, TypeOK
<1>3. ASSUME NEW s \in Schemes,
             Evict(s) \/ Prepare(s) \/ Resubmit(s) \/ Record(s) \/ Stamp(s) \/ Fail(s)
      PROVE  GraphsAreRegistered'
  <2>1. UNCHANGED <<uses, dirty, edges>>
    BY <1>3 DEF Evict, Prepare, Resubmit, Record, Stamp, Fail
  <2>2. \A o \in Schemes : step'[o] # "gone" => step[o] # "gone"
    BY <1>3 DEF Evict, Prepare, Resubmit, Record, Stamp, Fail, Idle, TypeOK
  <2> QED
    BY <2>1, <2>2 DEF GraphsAreRegistered, Bound, Touches, EdgeOf
<1>4. ASSUME NEW s \in Schemes, Finish(s) PROVE GraphsAreRegistered'
  <2> SUFFICES ASSUME NEW o \in Schemes, step'[o] # "gone", dirty'[o] # "structure",
                      NEW p \in Bound(o)
               PROVE  EdgeOf(o, p) \in edges'[p]
    BY <1>4 DEF Finish, GraphsAreRegistered, Bound, Touches, EdgeOf
  <2>1. CASE o = s
    BY <1>4, <2>1, EdgesAfterFinish
  <2>2. CASE o # s
    <3>1. EdgeOf(o, p) \in edges[p]
      BY <1>4, <2>2 DEF Finish, GraphsAreRegistered, TypeOK
    <3> QED
      BY <1>4, <2>2, <3>1, EdgesAfterFinish DEF EdgeOf, Bound
  <2> QED
    BY <2>1, <2>2
<1>5. ASSUME NEW s \in Schemes, Drop(s) PROVE GraphsAreRegistered'
  <2> SUFFICES ASSUME NEW o \in Schemes, step'[o] # "gone", dirty'[o] # "structure",
                      NEW p \in Bound(o)
               PROVE  EdgeOf(o, p) \in edges'[p]
    BY <1>5 DEF Drop, GraphsAreRegistered, Bound, Touches, EdgeOf
  <2>1. o # s
    BY <1>5 DEF Drop, TypeOK
  <2>2. EdgeOf(o, p) \in edges[p]
    BY <1>5, <2>1 DEF Drop, GraphsAreRegistered, TypeOK
  <2>3. EdgeOf(o, p).by = o /\ p \in Parcels
    BY DEF EdgeOf, Bound
  <2> QED
    BY <1>5, <2>1, <2>2, <2>3 DEF Drop, Others
<1>6. CASE UNCHANGED vars
  BY <1>6 DEF vars, GraphsAreRegistered, Bound, Touches, EdgeOf
<1> QED
  BY <1>1, <1>2, <1>3, <1>4, <1>5, <1>6 DEF Next
(* What a stamp adds: the scheme, on its own context.                      *)
LEMMA StampAdds ==
  ASSUME TypeOK, NEW s \in Schemes, Stamp(s), NEW p \in Parcels, NEW c \in Contexts
  PROVE  /\ writers'[p][c] = writers[p][c] \cup (IF uses[s][p].writes /\ c = On[s] THEN {s} ELSE {})
         /\ readers'[p][c] = readers[p][c] \cup (IF uses[s][p].reads /\ c = On[s] THEN {s} ELSE {})
         /\ lastWrite[p][c] # None => lastWrite'[p][c] # None
         /\ uses[s][p].writes /\ c = On[s] => lastWrite'[p][c] # None
         /\ ~(uses[s][p].writes /\ c = On[s]) => writers'[p][c] = writers[p][c]
<1>1. uses[s][p] \in Access /\ On[s] \in Contexts
  BY ReplayAssumption DEF TypeOK
<1>2. [by |-> s, kind |-> uses[s][p].kind] # None
  BY <1>1, ReplayAssumption DEF Access
<1>3. writers'[p][c] = writers[p][c] \cup (IF uses[s][p].writes /\ c = On[s] THEN {s} ELSE {})
  BY <1>1 DEF Stamp, TypeOK, Access
<1>4. readers'[p][c] = readers[p][c] \cup (IF uses[s][p].reads /\ c = On[s] THEN {s} ELSE {})
  BY <1>1 DEF Stamp, TypeOK, Access
<1>5. lastWrite'[p] = IF uses[s][p].writes
        THEN [lastWrite[p] EXCEPT ![On[s]] = [by |-> s, kind |-> uses[s][p].kind]]
        ELSE lastWrite[p]
  BY DEF Stamp
<1>6. lastWrite[p] \in [Contexts -> [by : Schemes, kind : Kinds] \cup {None}]
  BY DEF TypeOK
<1> QED
  BY <1>1, <1>2, <1>3, <1>4, <1>5, <1>6

LEMMA EdgesFollowWorkStep ==
  ASSUME TypeOK, SubmitOrder, GraphsAreRegistered, EdgesAreTracked, EdgesFollowWork, [Next]_vars
  PROVE  EdgesFollowWork'
<1> USE DEF scheme, retained, ledger, topology
<1>1. ASSUME NEW s \in Schemes,
             \/ \E a \in Footprints : Restructure(s, a)
             \/ SetParams(s) \/ Evict(s) \/ Prepare(s) \/ Resubmit(s) \/ Record(s) \/ Fail(s)
      PROVE  EdgesFollowWork'
  <2>1. UNCHANGED <<edges, ledger>>
    BY <1>1 DEF Restructure, SetParams, Evict, Prepare, Resubmit, Record, Fail
  <2>2. \A o \in Schemes : step'[o] = "stamped" => step[o] = "stamped" /\ uses'[o] = uses[o]
    BY <1>1 DEF Restructure, SetParams, Evict, Prepare, Resubmit, Record, Fail, Idle, TypeOK
  <2> QED
    BY <2>1, <2>2 DEF EdgesFollowWork
<1>2. ASSUME NEW s \in Schemes, Stamp(s) PROVE EdgesFollowWork'
  <2>1. UNCHANGED <<edges, uses>> /\ step' = [step EXCEPT ![s] = "stamped"]
    BY <1>2 DEF Stamp
  <2>2. \A o \in Schemes : On[o] \in Contexts
    BY ReplayAssumption
  <2>3. \A p \in Parcels : \A c \in Contexts :
          writers[p][c] \subseteq writers'[p][c] /\ readers[p][c] \subseteq readers'[p][c]
    BY <1>2, StampAdds
  <2>4. \A p \in Parcels : \A e \in edges'[p] :
          e.by \in IF e.role = "Writes" THEN writers'[p][On[e.by]] ELSE readers'[p][On[e.by]]
    <3> SUFFICES ASSUME NEW p \in Parcels, NEW e \in edges[p]
                 PROVE e.by \in IF e.role = "Writes" THEN writers'[p][On[e.by]] ELSE readers'[p][On[e.by]]
      BY <2>1
    <3>1. e.by \in Schemes
      BY DEF TypeOK
    <3> QED
      BY <2>2, <2>3, <3>1 DEF EdgesFollowWork
  <2>5. \A o \in Schemes : step'[o] = "stamped" => \A p \in Parcels :
          /\ uses'[o][p].writes => o \in writers'[p][On[o]]
          /\ uses'[o][p].reads  => o \in readers'[p][On[o]]
    <3> SUFFICES ASSUME NEW o \in Schemes, step'[o] = "stamped", NEW p \in Parcels
                 PROVE  /\ uses[o][p].writes => o \in writers'[p][On[o]]
                        /\ uses[o][p].reads  => o \in readers'[p][On[o]]
      BY <2>1
    <3>1. CASE o = s
      BY <1>2, <2>2, <3>1, StampAdds
    <3>2. CASE o # s
      BY <2>1, <2>2, <2>3, <3>2 DEF EdgesFollowWork, TypeOK
    <3> QED
      BY <3>1, <3>2
  <2>6. \A p \in Parcels : \A c \in Contexts : writers'[p][c] # {} => lastWrite'[p][c] # None
    <3> SUFFICES ASSUME NEW p \in Parcels, NEW c \in Contexts, writers'[p][c] # {}
                 PROVE  lastWrite'[p][c] # None
      OBVIOUS
    <3>1. CASE uses[s][p].writes /\ c = On[s]
      BY <1>2, <3>1, StampAdds
    <3>2. CASE ~(uses[s][p].writes /\ c = On[s])
      <4>1. writers'[p][c] = writers[p][c]
        BY <1>2, <3>2, StampAdds
      <4>2. lastWrite[p][c] # None
        BY <4>1 DEF EdgesFollowWork
      <4> QED
        BY <1>2, <4>2, StampAdds
    <3> QED
      BY <3>1, <3>2
  <2> QED
    BY <2>4, <2>5, <2>6 DEF EdgesFollowWork
<1>3. ASSUME NEW s \in Schemes, Finish(s) PROVE EdgesFollowWork'
  <2>1. UNCHANGED <<uses, ledger>> /\ step' = [step EXCEPT ![s] = "idle"] /\ step[s] = "stamped"
    BY <1>3 DEF Finish
  <2>2. ASSUME NEW p \in Parcels, NEW e \in edges'[p]
        PROVE  e.by \in IF e.role = "Writes" THEN writers[p][On[e.by]] ELSE readers[p][On[e.by]]
    <3>1. CASE e \in edges[p]
      BY <3>1 DEF EdgesFollowWork
    <3>2. CASE p \in Bound(s) /\ e = EdgeOf(s, p)
      BY <2>1, <3>2 DEF EdgesFollowWork, EdgeOf, Bound, Touches
    <3> QED
      BY <1>3, <3>1, <3>2, EdgesAfterFinish
  <2> QED
    <3>1. \A o \in Schemes : step'[o] = "stamped" => step[o] = "stamped"
      BY <2>1 DEF TypeOK
    <3> QED
      BY <2>1, <2>2, <3>1 DEF EdgesFollowWork
<1>4. ASSUME NEW s \in Schemes, Drop(s) PROVE EdgesFollowWork'
  <2>1. \A p \in Parcels : edges'[p] \subseteq edges[p]
    BY <1>4 DEF Drop, Others
  <2> QED
    <3>1. UNCHANGED <<uses, ledger>> /\ \A o \in Schemes : step'[o] = "stamped" => step[o] = "stamped"
      BY <1>4 DEF Drop, TypeOK
    <3> QED
      BY <2>1, <3>1 DEF EdgesFollowWork
<1>5. CASE UNCHANGED vars
  BY <1>5 DEF vars, EdgesFollowWork
<1> QED
  BY <1>1, <1>2, <1>3, <1>4, <1>5 DEF Next
(* A buffer just recorded has a barrier behind everything in the ledger.   *)
LEMMA PrologueCovers ==
  ASSUME TypeOK, EdgesFollowWork, NEW s \in Schemes, NEW o \in Schemes, NEW p \in Parcels,
         Conflicts(s, o, p)
  PROVE  \E b \in Prologue(s) : b[1] = p
<1>1. CASE \E c \in Contexts : o \in writers[p][c] /\ (uses[s][p].reads \/ (uses[s][p].writes /\ c = On[s]))
  <2>1. PICK c \in Contexts : o \in writers[p][c] /\ (uses[s][p].reads \/ (uses[s][p].writes /\ c = On[s]))
    BY <1>1
  <2>2. lastWrite[p][c] # None
    BY <2>1 DEF EdgesFollowWork
  <2>3. lastWrite[p][c].kind \in Kinds
    BY <2>2 DEF TypeOK
  <2> DEFINE b == <<p, lastWrite[p][c].kind>>
  <2>4. b \in Parcels \X Source /\ b[1] = p /\ b[2] = lastWrite[p][c].kind
    BY <2>3 DEF Source
  <2>5. AfterWrite(s, b[1], c)
    BY <2>1, <2>2, <2>4 DEF AfterWrite
  <2> QED
    BY <2>4, <2>5 DEF Prologue
<1>2. CASE uses[s][p].writes /\ o \in readers[p][On[s]]
  <2> DEFINE b == <<p, Read>>
  <2>1. b \in Parcels \X Source /\ b[1] = p /\ b[2] = Read
    BY DEF Source
  <2>2. AfterReads(s, b[1])
    BY <1>2, <2>1 DEF AfterReads
  <2> QED
    BY <2>1, <2>2 DEF Prologue
<1>3. On[s] \in Contexts
  BY ReplayAssumption
<1> QED
  BY <1>1, <1>2, <1>3 DEF Conflicts

(* Work that a scheme registered before it stamps it again is no news.     *)
LEMMA StampOfRegisteredWork ==
  ASSUME TypeOK, EdgesFollowWork, NEW s \in Schemes, NEW o \in Schemes, NEW p \in Parcels,
         Stamp(o), Conflicts(s, o, p)', EdgeOf(o, p) \in edges[p]
  PROVE  Conflicts(s, o, p)
<1>1. uses' = uses /\ On[o] \in Contexts /\ On[s] \in Contexts
  BY ReplayAssumption DEF Stamp, scheme
<1>2. IF uses[o][p].writes THEN o \in writers[p][On[o]] ELSE o \in readers[p][On[o]]
  BY DEF EdgesFollowWork, EdgeOf
<1>3. CASE uses[o][p].writes
  <2>1. o \in writers[p][On[o]]
    BY <1>2, <1>3
  <2>2. \A c \in Contexts : o \in writers'[p][c] \cup readers'[p][c] =>
           o \in writers[p][c] \cup readers[p][c]
    BY <1>1, <2>1, StampAdds
  <2>3. \A c \in Contexts : o \in writers'[p][c] => o \in writers[p][c]
    BY <1>1, <2>1, StampAdds
  <2> QED
    BY <1>1, <2>2, <2>3 DEF Conflicts
<1>4. CASE ~uses[o][p].writes
  <2>1. o \in readers[p][On[o]]
    BY <1>2, <1>4
  <2>2. \A c \in Contexts : writers'[p][c] = writers[p][c]
    BY <1>4, StampAdds
  <2>3. \A c \in Contexts : o \in readers'[p][c] => o \in readers[p][c]
    BY <1>1, <2>1, StampAdds
  <2> QED
    BY <1>1, <2>2, <2>3 DEF Conflicts
<1> QED
  BY <1>3, <1>4

(* Conflicts only come from entries of the ledger.                         *)
LEMMA ConflictsWereThere ==
  ASSUME NEW s \in Schemes, NEW o \in Schemes, NEW p \in Parcels,
         uses'[s] = uses[s], Conflicts(s, o, p)',
         \A c \in Contexts : o \in writers'[p][c] => o \in writers[p][c],
         \A c \in Contexts : o \in readers'[p][c] => o \in readers[p][c]
  PROVE  Conflicts(s, o, p)
<1>1. On[s] \in Contexts
  BY ReplayAssumption
<1>2. \/ uses'[s][p].reads /\ \E c \in Contexts : o \in writers'[p][c]
      \/ uses'[s][p].writes /\ o \in writers'[p][On[s]] \cup readers'[p][On[s]]
  BY DEF Conflicts
<1>3. CASE uses'[s][p].reads /\ \E c \in Contexts : o \in writers'[p][c]
  <2>1. PICK c \in Contexts : o \in writers'[p][c]
    BY <1>3
  <2>2. o \in writers[p][c]
    BY <2>1
  <2> QED
    BY <1>3, <2>2 DEF Conflicts
<1>4. CASE uses'[s][p].writes /\ o \in writers'[p][On[s]] \cup readers'[p][On[s]]
  <2>1. o \in writers[p][On[s]] \cup readers[p][On[s]]
    BY <1>1, <1>4
  <2> QED
    BY <1>4, <2>1 DEF Conflicts
<1> QED
  BY <1>2, <1>3, <1>4

LEMMA BuffersCoverWorkStep ==
  ASSUME OneSubmitter, TypeOK, ReplayOrder, EdgesAreTracked, [Next]_vars
  PROVE  BuffersCoverWork'
<1> USE DEF scheme, retained, ledger, topology, ReplayOrder
<1>1. ASSUME NEW x \in Schemes,
             \/ \E a \in Footprints : Restructure(x, a)
             \/ SetParams(x) \/ Evict(x) \/ Prepare(x) \/ Fail(x) \/ Drop(x)
      PROVE  BuffersCoverWork'
  <2> SUFFICES ASSUME NEW s \in Schemes, Replayable(s)', NEW o \in Schemes \ {s}, NEW p \in Parcels,
                      Conflicts(s, o, p)'
               PROVE  (p \in Covered(s) \/ (step[o] = "stamped" /\ p \in Changed(o)))'
    BY DEF BuffersCoverWork
  <2>1. UNCHANGED ledger
    BY <1>1 DEF Restructure, SetParams, Evict, Prepare, Fail, Drop
  <2>2. Replayable(s) /\ uses'[s] = uses[s] /\ baked'[s] = baked[s]
    <3>1. ASSUME NEW a \in Footprints, Restructure(x, a) PROVE Replayable(s) /\ uses'[s] = uses[s] /\ baked'[s] = baked[s]
      BY <3>1 DEF Restructure, Idle, Replayable, TypeOK
    <3>2. ASSUME SetParams(x) PROVE Replayable(s) /\ uses'[s] = uses[s] /\ baked'[s] = baked[s]
      BY <3>2 DEF SetParams, Idle, Replayable, TypeOK
    <3>3. ASSUME Evict(x) PROVE Replayable(s) /\ uses'[s] = uses[s] /\ baked'[s] = baked[s]
      BY <3>3 DEF Evict, Replayable, TypeOK
    <3>4. ASSUME Prepare(x) PROVE Replayable(s) /\ uses'[s] = uses[s] /\ baked'[s] = baked[s]
      BY <3>4 DEF Prepare, Idle, Replayable, TypeOK
    <3>5. ASSUME Fail(x) PROVE Replayable(s) /\ uses'[s] = uses[s] /\ baked'[s] = baked[s]
      BY <3>5 DEF Fail, OneSubmitter, Replayable, TypeOK
    <3>6. ASSUME Drop(x) PROVE Replayable(s) /\ uses'[s] = uses[s] /\ baked'[s] = baked[s]
      BY <3>6 DEF Drop, Idle, Replayable, TypeOK
    <3> QED
      BY <1>1, <3>1, <3>2, <3>3, <3>4, <3>5, <3>6
  <2>3. Conflicts(s, o, p)
    BY <2>1, <2>2 DEF Conflicts
  <2>4. step[o] = "stamped" => /\ step'[o] = "stamped"
                               /\ uses'[o] = uses[o]
                               /\ edges' = edges
    BY <1>1 DEF Restructure, SetParams, Evict, Prepare, Fail, Drop, Idle, Submitting, TypeOK,
                OneSubmitter
  <2>5. step[o] = "stamped" /\ p \in Changed(o) => (step[o] = "stamped" /\ p \in Changed(o))'
    BY <2>4 DEF Changed, Bound, Touches, EdgeOf
  <2> QED
    BY <2>2, <2>3, <2>5 DEF BuffersCoverWork, Covered
<1>2. ASSUME NEW x \in Schemes, Resubmit(x) PROVE BuffersCoverWork'
  <2> SUFFICES ASSUME NEW s \in Schemes, Replayable(s)', NEW o \in Schemes \ {s}, NEW p \in Parcels,
                      Conflicts(s, o, p)'
               PROVE  (p \in Covered(s) \/ (step[o] = "stamped" /\ p \in Changed(o)))'
    BY DEF BuffersCoverWork
  <2>1. UNCHANGED <<uses, dirty, flag, key, held, baked, edges, prep, ledger>>
        /\ step' = [step EXCEPT ![x] = "recorded"]
    BY <1>2 DEF Resubmit
  <2>2. Replayable(s)
    <3>1. CASE s = x
      BY <1>2, <3>1 DEF Resubmit, CanReplay, Replayable, SubmitOrder
    <3>2. CASE s # x
      BY <2>1, <3>2 DEF Replayable, TypeOK
    <3> QED
      BY <3>1, <3>2
  <2>3. Conflicts(s, o, p)
    BY <2>1 DEF Conflicts
  <2>4. step[o] = "stamped" /\ p \in Changed(o) => (step[o] = "stamped" /\ p \in Changed(o))'
    BY <1>2, <2>1 DEF Resubmit, Changed, Bound, Touches, EdgeOf, TypeOK
  <2> QED
    BY <2>1, <2>2, <2>3, <2>4 DEF BuffersCoverWork, Covered
<1>3. ASSUME NEW x \in Schemes, Record(x) PROVE BuffersCoverWork'
  <2> SUFFICES ASSUME NEW s \in Schemes, Replayable(s)', NEW o \in Schemes \ {s}, NEW p \in Parcels,
                      Conflicts(s, o, p)'
               PROVE  (p \in Covered(s) \/ (step[o] = "stamped" /\ p \in Changed(o)))'
    BY DEF BuffersCoverWork
  <2>1. UNCHANGED <<uses, dirty, flag, edges, ledger>>
        /\ step' = [step EXCEPT ![x] = "recorded"] /\ step[x] = "prepared"
        /\ baked' = [baked EXCEPT ![x] = Prologue(x)]
    BY <1>3 DEF Record
  <2>2. Conflicts(s, o, p)
    BY <2>1 DEF Conflicts
  <2>3. CASE s = x
    <3>1. \E b \in Prologue(x) : b[1] = p
      BY <2>2, <2>3, PrologueCovers
    <3>2. baked'[x] = Prologue(x)
      BY <2>1 DEF TypeOK
    <3> QED
      BY <2>3, <3>1, <3>2 DEF Covered
  <2>4. CASE s # x
    <3>1. Replayable(s) /\ baked'[s] = baked[s]
      BY <1>3, <2>1, <2>4 DEF Record, Replayable, TypeOK
    <3>2. step[o] = "stamped" /\ p \in Changed(o) => (step[o] = "stamped" /\ p \in Changed(o))'
      BY <2>1 DEF Changed, Bound, Touches, EdgeOf, TypeOK
    <3> QED
      BY <2>2, <3>1, <3>2 DEF BuffersCoverWork, Covered
  <2> QED
    BY <2>3, <2>4
<1>4. ASSUME NEW x \in Schemes, Stamp(x) PROVE BuffersCoverWork'
  <2> SUFFICES ASSUME NEW s \in Schemes, Replayable(s)', NEW o \in Schemes \ {s}, NEW p \in Parcels,
                      Conflicts(s, o, p)'
               PROVE  (p \in Covered(s) \/ (step[o] = "stamped" /\ p \in Changed(o)))'
    BY DEF BuffersCoverWork
  <2>1. UNCHANGED <<uses, dirty, flag, key, held, baked, edges, prep>>
        /\ step' = [step EXCEPT ![x] = "stamped"] /\ step[x] = "recorded"
    BY <1>4 DEF Stamp
  <2>2. Replayable(s)
    BY <2>1 DEF Replayable, TypeOK
  <2>3. CASE Conflicts(s, o, p)
    <3>1. step[o] = "stamped" /\ p \in Changed(o) => (step[o] = "stamped" /\ p \in Changed(o))'
      BY <2>1 DEF Changed, Bound, Touches, EdgeOf, TypeOK
    <3> QED
      BY <2>1, <2>2, <2>3, <3>1 DEF BuffersCoverWork, Covered
  <2>4. CASE ~Conflicts(s, o, p)
    <3>1. o = x
      <4>1. CASE o # x
        <5>1. \A c \in Contexts : o \in writers'[p][c] => o \in writers[p][c]
          BY <1>4, <4>1, StampAdds
        <5>2. \A c \in Contexts : o \in readers'[p][c] => o \in readers[p][c]
          BY <1>4, <4>1, StampAdds
        <5>3. uses'[s] = uses[s]
          BY <2>1
        <5>4. Conflicts(s, o, p)
          BY <5>1, <5>2, <5>3, ConflictsWereThere
        <5> QED
          BY <2>4, <5>4
      <4> QED
        BY <4>1
    <3>2. EdgeOf(o, p) \notin edges[p]
      BY <1>4, <2>4, <3>1, StampOfRegisteredWork
    <3>3. p \in Bound(o)
      <4>1. CASE ~(uses[x][p].writes \/ uses[x][p].reads)
        <5>1. \A c \in Contexts : o \in writers'[p][c] => o \in writers[p][c]
          BY <1>4, <4>1, StampAdds
        <5>2. \A c \in Contexts : o \in readers'[p][c] => o \in readers[p][c]
          BY <1>4, <4>1, StampAdds
        <5>3. uses'[s] = uses[s]
          BY <2>1
        <5>4. Conflicts(s, o, p)
          BY <5>1, <5>2, <5>3, ConflictsWereThere
        <5> QED
          BY <2>4, <5>4
      <4> QED
        BY <3>1, <4>1 DEF Bound, Touches
    <3>4. (p \in Changed(o))' /\ step'[o] = "stamped"
      BY <2>1, <3>1, <3>2, <3>3 DEF Changed, Bound, Touches, EdgeOf, TypeOK
    <3> QED
      BY <3>4
  <2> QED
    BY <2>3, <2>4
<1>5. ASSUME NEW x \in Schemes, Finish(x) PROVE BuffersCoverWork'
  <2> SUFFICES ASSUME NEW s \in Schemes, Replayable(s)', NEW o \in Schemes \ {s}, NEW p \in Parcels,
                      Conflicts(s, o, p)'
               PROVE  p \in Covered(s)'
    BY DEF BuffersCoverWork
  <2>1. UNCHANGED <<uses, key, held, baked, ledger>> /\ step[x] = "stamped"
        /\ step' = [step EXCEPT ![x] = "idle"] /\ dirty' = [dirty EXCEPT ![x] = "clean"]
    BY <1>5 DEF Finish
  <2>2. Conflicts(s, o, p)
    BY <2>1 DEF Conflicts
  <2>3. \A z \in Schemes \ {x} : ~Submitting(z)
    BY <2>1 DEF SubmitOrder, Submitting
  <2>4. key[s] /\ held[s] /\ ~flag'[s]
    BY <2>1, <2>3 DEF Replayable, Submitting, TypeOK
  <2>5. CASE s = x
    <3>1. Replayable(s)
      <4>1. CASE prep[x].recorded
        BY <2>1, <2>4, <2>5, <4>1 DEF Replayable
      <4>2. CASE ~prep[x].recorded
        <5>1. ~prep[x].topo /\ dirty[x] = "clean"
          BY <2>1, <4>2 DEF SubmitOrder
        <5>2. flag'[x] = FALSE => flag[x] = FALSE
          BY <1>5, <5>1 DEF Finish, Reregister, TypeOK
        <5>3. ~flag[x]
          BY <2>4, <2>5, <5>2 DEF TypeOK
        <5> QED
          BY <2>4, <2>5, <5>1, <5>3 DEF Replayable
      <4> QED
        BY <4>1, <4>2
    <3>2. ~(step[o] = "stamped")
      BY <2>3, <2>5 DEF Submitting
    <3> QED
      BY <2>1, <2>2, <3>1, <3>2 DEF BuffersCoverWork, Covered
  <2>6. CASE s # x
    <3>1. dirty[s] # "structure" /\ step[s] # "gone" /\ ~(step[s] \in {"recorded", "stamped"})
      BY <2>1, <2>3, <2>4, <2>6 DEF Replayable, Submitting, SubmitOrder, TypeOK
    <3>2. p \in Bound(s) /\ EdgeOf(s, p) \in edges[p]
      BY <2>2, <3>1 DEF Conflicts, Bound, Touches, GraphsAreRegistered
    <3>3. ~flag[s]
      <4>1. flag'[s] = FALSE => flag[s] = FALSE
        BY <1>5, <2>6 DEF Finish, Reregister, TypeOK
      <4> QED
        BY <2>4, <4>1 DEF TypeOK
    <3>4. Replayable(s)
      BY <2>4, <3>1, <3>3 DEF Replayable
    <3>5. ~(step[o] = "stamped" /\ p \in Changed(o))
      <4> SUFFICES ASSUME step[o] = "stamped", p \in Changed(o) PROVE FALSE
        OBVIOUS
      <4>1. o = x
        BY <2>3 DEF Submitting
      <4>2. CASE prep[x].struct \/ prep[x].topo \/ prep[x].recorded
        <5>1. Reregister(x)
          BY <1>5, <4>2 DEF Finish
        <5>2. EdgeOf(s, p) \in Others(x, p) /\ EdgeOf(s, p).by = s
          BY <2>6, <3>2 DEF Others, EdgeOf
        <5>3. s \in Peers(x, Changed(x))
          BY <4>1, <5>2 DEF Peers
        <5>4. flag'[s]
          BY <5>1, <5>3 DEF Reregister
        <5> QED
          BY <2>4, <5>4
      <4>3. CASE ~(prep[x].struct \/ prep[x].topo \/ prep[x].recorded)
        BY <2>1, <4>1, <4>3 DEF SubmitOrder, Submitting, GraphsAreRegistered, Changed, Bound
      <4> QED
        BY <4>2, <4>3
    <3> QED
      BY <2>1, <2>2, <3>4, <3>5 DEF BuffersCoverWork, Covered
  <2> QED
    BY <2>5, <2>6
<1>6. CASE UNCHANGED vars
  <2> SUFFICES ASSUME NEW s \in Schemes, Replayable(s)', NEW o \in Schemes \ {s}, NEW p \in Parcels,
                      Conflicts(s, o, p)'
               PROVE  (p \in Covered(s) \/ (step[o] = "stamped" /\ p \in Changed(o)))'
    BY DEF BuffersCoverWork
  <2>1. UNCHANGED <<uses, dirty, flag, key, held, baked, edges, step, prep, ledger>>
    BY <1>6 DEF vars
  <2>2. Replayable(s) /\ Conflicts(s, o, p)
    BY <2>1 DEF Replayable, Conflicts
  <2>3. p \in Covered(s) \/ (step[o] = "stamped" /\ p \in Changed(o))
    BY <2>2 DEF BuffersCoverWork
  <2> QED
    BY <2>1, <2>3 DEF Covered, Changed, Bound, Touches, EdgeOf
<1> QED
  BY <1>1, <1>2, <1>3, <1>4, <1>5, <1>6 DEF Next

(* The invariant makes the property: what is about to be replayed is       *)
(* replayable and nobody else is inside a submit.                          *)
LEMMA OrderCovers ==
  ASSUME TypeOK, ReplayOrder
  PROVE  ReplayCoversForeign
<1> SUFFICES ASSUME NEW s \in Schemes, Replaying(s), NEW o \in Schemes \ {s}, NEW p \in Parcels,
                    Conflicts(s, o, p)
             PROVE  p \in Covered(s)
  BY DEF ReplayCoversForeign
<1>1. Replayable(s)
  BY DEF Replaying, CanReplay, Replayable, ReplayOrder, SubmitOrder
<1>2. step[o] # "stamped"
  BY DEF Replaying, ReplayOrder, SubmitOrder, Submitting
<1> QED
  BY <1>1, <1>2 DEF ReplayOrder, BuffersCoverWork

(* With one submitting thread and no late failures, a graph that did not   *)
(* change has its edges in the interaction sets, an edge stands for work   *)
(* in the ledger, and a buffer that may be replayed covers the work of all *)
(* other schemes (reregister_scheme_topology, prepare_ir_submit).          *)
THEOREM TopologyFollowsWork == OneSubmitter => (Spec => []ReplayOrder)
<1> SUFFICES ASSUME OneSubmitter PROVE Spec => []ReplayOrder
  OBVIOUS
<1> DEFINE IInv == TypeOK /\ EdgesAreTracked /\ ReplayOrder
<1>1. Init => IInv
  BY TypesInit, TrackedInit, OrderInit
<1>2. IInv /\ [Next]_vars => IInv'
  <2> SUFFICES ASSUME IInv, [Next]_vars PROVE IInv'
    OBVIOUS
  <2>1. TypeOK' /\ EdgesAreTracked'
    BY TypesStep, TrackedStep
  <2>2. SubmitOrder' /\ GraphsAreRegistered' /\ EdgesFollowWork'
    BY SubmitOrderStep, GraphsAreRegisteredStep, EdgesFollowWorkStep DEF ReplayOrder
  <2>3. BuffersCoverWork'
    BY BuffersCoverWorkStep
  <2> QED
    BY <2>1, <2>2, <2>3 DEF ReplayOrder
<1> QED
  BY <1>1, <1>2, PTL DEF Spec

(* OneSubmitter => (Spec => []ReplayCoversForeign): with one submitting    *)
(* thread the topology-dirty bit reaches every buffer that lacks a barrier *)
(* behind another scheme's work before it is replayed.                     *)
THEOREM ReplaysAreCovered == OneSubmitter => (Spec => []ReplayCoversForeign)
<1>1. TypeOK /\ ReplayOrder => ReplayCoversForeign
  BY OrderCovers
<1> QED
  BY <1>1, ReplayTypes, TopologyFollowsWork, PTL
=============================================================================
