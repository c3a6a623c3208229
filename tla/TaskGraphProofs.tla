--------------------------- MODULE TaskGraphProofs ---------------------------
(* What holds of every recorded graph.                                     *)
(*  - Packing temporaries changes no schedule: the graph that is executed  *)
(*    has the depths of the graph that was recorded (ScheduleOrder).       *)
(*  - The GPU touches conflicting bytes in record order, drawables apart   *)
(*    (SubmissionOrder, BracketedInOrder).                                 *)
(*  - Temporaries that share a buffer keep their contents (Contents).      *)
EXTENDS TaskGraph, FiniteSetTheorems, TLAPS

(* Dependencies of the graph as recorded.                                  *)
Recorded(i, j) ==
  \/ i < j /\ \E u \in graph.nodes[i].uses, v \in graph.nodes[j].uses : Conflict(u, v)
  \/ Kind(i) \in BufferUploads /\ Kind(j) \in TextureUploads
  \/ <<i, j>> \in graph.precedes

(* The planned depths respect all of them, or some nodes wait for each     *)
(* other.                                                                  *)
Layered  == \A i, j \in Nodes : Recorded(i, j) => planned[i] < planned[j]
Stuck(U) == U # {} /\ \A i \in U : \E j \in U : Recorded(j, i)

(* What the traversal under way has established.                           *)
TraversalOrder ==
  phase \in {"ordering", "checking"} =>
    /\ \A i \in visited, j \in Nodes : Depends(j, i) => j \in visited
    /\ \A i \in visited, j \in Nodes : Depends(i, j) => depth[i] < depth[j]
    /\ \A j \in Nodes : depth[j] = 0 \/ \E i \in visited : Depends(i, j) /\ depth[j] = depth[i] + 1

PlanOrder ==
  phase # "ordering" =>
    /\ \A j \in Nodes : planned[j] = 0 \/ \E i \in Nodes : Recorded(i, j) /\ planned[j] = planned[i] + 1
    /\ Layered \/ \E U \in SUBSET Nodes : Stuck(U)

(* Of the temporaries in one buffer each ends before the next begins.      *)
PackOrder ==
  /\ phase = "ordering" => \A t \in Temporaries : slotOf[t] = 0
  /\ \A k \in 1..Len(slots) : Binding(slots[k]) # {} /\ slotOf[slots[k]] = k
  /\ \A t \in Temporaries : slotOf[t] # 0 => t = slots[slotOf[t]] \/ Precedes(t, slots[slotOf[t]])
  /\ \A s, t \in Temporaries : slotOf[s] # 0 /\ slotOf[s] = slotOf[t] /\ s # t =>
       Precedes(s, t) \/ Precedes(t, s)

(* The second traversal follows the plan, or cannot end.                   *)
CheckOrder ==
  phase = "checking" =>
    /\ Layered => /\ \A j \in Nodes : depth[j] <= planned[j]
                  /\ \A i \in visited : depth[i] = planned[i]
    /\ \A U \in SUBSET Nodes : Stuck(U) => U \cap visited = {}

ScheduleOrder ==
  /\ TypeOK
  /\ TraversalOrder
  /\ PlanOrder
  /\ PackOrder
  /\ CheckOrder
  /\ SharingAddsNoDelay

-----------------------------------------------------------------------------
LEMMA Recordings ==
  ASSUME TypeOK
  PROVE  /\ Nodes \subseteq Nat
         /\ \A i \in Nodes : graph.nodes[i].uses \subseteq Bindings
         /\ \A t \in Temporaries : Binding(t) \subseteq Nodes
         /\ \A t \in Temporaries : \A i \in Binding(t) : Rank(i) = 0
         /\ \A i \in Nodes : Rank(i) \in Nat
  <1>1. /\ Nodes \subseteq Nat
        /\ \A i \in Nodes : graph.nodes[i].uses \subseteq Bindings
    BY TaskGraphAssumption, FS_CardinalityType DEF TypeOK, Nodes, Numbered
  <1>2. ASSUME NEW t \in Temporaries, NEW i \in Binding(t) PROVE i \in Nodes /\ Rank(i) = 0
    BY TaskGraphAssumption DEF TypeOK, Nodes, Binding, Rank, Kind
  <1> QED BY <1>1, <1>2 DEF Rank

(* A use of a temporary is a use by a dispatch, of all of it.              *)
LEMMA TemporaryUses ==
  ASSUME TypeOK, NEW i \in Nodes, NEW u \in graph.nodes[i].uses, u.resource.class = "temporary"
  PROVE  u.resource.id \in Temporaries /\ u.resource.part = 0 /\ i \in Binding(u.resource.id)
  BY TaskGraphAssumption DEF TypeOK, Nodes, Binding

(* Lowering keeps every dependency.                                        *)
LEMMA RecordedDepends ==
  ASSUME TypeOK, NEW i \in Nodes, NEW j \in Nodes, Recorded(i, j)
  PROVE  Depends(i, j)
  <1>1. CASE i < j /\ \E u \in graph.nodes[i].uses, v \in graph.nodes[j].uses : Conflict(u, v)
    <2>1. PICK u \in graph.nodes[i].uses, v \in graph.nodes[j].uses : Conflict(u, v)
      BY <1>1
    <2>2. u \in Bindings /\ v \in Bindings
      BY Recordings
    <2> DEFINE a == [resource |-> Lower(u.resource), access |-> u.access]
               b == [resource |-> Lower(v.resource), access |-> v.access]
    <2>3. a \in Uses(i) /\ b \in Uses(j)
      BY DEF Uses
    <2>4. Aliases(Lower(u.resource), Lower(v.resource))
      BY <2>1, <2>2 DEF Conflict, Aliases, Lower, Bindings
    <2>5. Conflict(a, b)
      BY <2>1, <2>4 DEF Conflict, Writes
    <2> QED BY <1>1, <2>3, <2>5 DEF Depends
  <1> QED BY <1>1 DEF Recorded, Depends

(* Before temporaries are placed there are no others.                      *)
LEMMA DependsRecorded ==
  ASSUME TypeOK, \A t \in Temporaries : slotOf[t] = 0,
         NEW i \in Nodes, NEW j \in Nodes, Depends(i, j)
  PROVE  Recorded(i, j)
  <1>1. CASE i < j /\ \E u \in Uses(i), v \in Uses(j) : Conflict(u, v)
    <2>1. PICK a \in Uses(i), b \in Uses(j) : Conflict(a, b)
      BY <1>1
    <2>2. PICK u \in graph.nodes[i].uses : a = [resource |-> Lower(u.resource), access |-> u.access]
      BY DEF Uses
    <2>3. PICK v \in graph.nodes[j].uses : b = [resource |-> Lower(v.resource), access |-> v.access]
      BY DEF Uses
    <2>4. Lower(u.resource) = u.resource /\ Lower(v.resource) = v.resource
      BY TemporaryUses DEF Lower
    <2>5. Conflict(u, v)
      BY <2>1, <2>2, <2>3, <2>4 DEF Conflict, Writes
    <2> QED BY <1>1, <2>5 DEF Recorded
  <1> QED BY <1>1 DEF Recorded, Depends

(* In a plan without cycles the dependencies that lowering adds, those of  *)
(* the temporaries in one buffer, lead to later waves too.                 *)
LEMMA DependenciesAreLayered ==
  ASSUME TypeOK, PackOrder, Layered, NEW i \in Nodes, NEW j \in Nodes, Depends(i, j)
  PROVE  planned[i] < planned[j]
  <1>1. SUFFICES Recorded(i, j) \/ planned[i] < planned[j]
    BY DEF Layered
  <1>2. CASE i < j /\ \E u \in Uses(i), v \in Uses(j) : Conflict(u, v)
    <2>1. PICK a \in Uses(i), b \in Uses(j) : Conflict(a, b)
      BY <1>2
    <2>2. PICK u \in graph.nodes[i].uses : a = [resource |-> Lower(u.resource), access |-> u.access]
      BY DEF Uses
    <2>3. PICK v \in graph.nodes[j].uses : b = [resource |-> Lower(v.resource), access |-> v.access]
      BY DEF Uses
    <2>4. /\ u \in Bindings /\ v \in Bindings
          /\ u.resource.class \in Classes /\ v.resource.class \in Classes
      BY Recordings DEF Bindings
    <2>5. (Writes(u) \/ Writes(v)) /\ Aliases(Lower(u.resource), Lower(v.resource))
      BY <2>1, <2>2, <2>3 DEF Conflict, Writes
    <2> DEFINE s == u.resource.id
               t == v.resource.id
    <2>6. CASE Lower(u.resource) = u.resource /\ Lower(v.resource) = v.resource
      BY <1>2, <2>5, <2>6 DEF Recorded, Conflict
    <2>7. CASE Lower(u.resource) # u.resource \/ Lower(v.resource) # v.resource
      <3>1. /\ u.resource.class = "temporary" /\ v.resource.class = "temporary"
            /\ slotOf[s] # 0 /\ slotOf[s] = slotOf[t]
        BY <2>4, <2>5, <2>7 DEF Lower, Aliases, Classes
      <3>2. /\ s \in Temporaries /\ u.resource.part = 0 /\ i \in Binding(s)
            /\ t \in Temporaries /\ v.resource.part = 0 /\ j \in Binding(t)
        BY <3>1, TemporaryUses
      <3>3. CASE s = t
        BY <1>2, <2>5, <3>1, <3>2, <3>3 DEF Recorded, Conflict, Aliases
      <3>4. CASE s # t
        <4>1. Precedes(s, t) \/ Precedes(t, s)
          BY <3>1, <3>2, <3>4 DEF PackOrder
        <4>2. ~Precedes(t, s)
          BY <1>2, <3>2, Recordings DEF Precedes
        <4>3. EarlierWave(planned, i, j)
          BY <4>1, <4>2, <3>2 DEF Precedes
        <4> QED BY <4>3, <3>2, Recordings DEF EarlierWave
      <3> QED BY <3>3, <3>4
    <2> QED BY <2>6, <2>7
  <1> QED BY <1>2 DEF Depends, Recorded

LEMMA PrecedesTransitive ==
  ASSUME TypeOK, NEW r \in Temporaries, NEW s \in Temporaries, NEW t \in Temporaries,
         Precedes(r, s), Precedes(s, t), Binding(s) # {}
  PROVE  Precedes(r, t)
  <1> SUFFICES ASSUME NEW i \in Binding(r), NEW j \in Binding(t)
               PROVE  i < j /\ EarlierWave(planned, i, j)
    BY DEF Precedes
  <1>1. PICK m \in Binding(s) : TRUE
    OBVIOUS
  <1>2. /\ i < m /\ EarlierWave(planned, i, m)
        /\ m < j /\ EarlierWave(planned, m, j)
    BY DEF Precedes
  <1>3. /\ i \in Nat /\ m \in Nat /\ j \in Nat
        /\ planned[i] \in Nat /\ planned[m] \in Nat /\ planned[j] \in Nat
        /\ Rank(i) = 0 /\ Rank(m) = 0 /\ Rank(j) = 0
    BY <1>1, Recordings DEF TypeOK
  <1> QED BY <1>2, <1>3 DEF EarlierWave

-----------------------------------------------------------------------------
(* Types.                                                                  *)
LEMMA TypesInit ==
  ASSUME Init
  PROVE  TypeOK
  BY DEF Init, TypeOK, Phases, Nodes, Temporaries

LEMMA VisitKeepsTypes ==
  ASSUME TypeOK, NEW n \in Nodes, Visit(n)
  PROVE  TypeOK'
  <1>1. depth' \in [Nodes -> Nat]
    BY DEF TypeOK, Visit
  <1> QED BY <1>1 DEF TypeOK, Visit, Nodes, Temporaries, gpuVars

LEMMA PlaceKeepsTypes ==
  ASSUME TypeOK, NEW t \in Temporaries, Place(t)
  PROVE  TypeOK'
  <1>1. slots' \in Seq(Temporaries) /\ slotOf' \in [Temporaries -> 0..Len(slots')]
    <2>1. CASE FreeSlots(t) = {} /\ slots' = Append(slots, t)
               /\ slotOf' = [slotOf EXCEPT ![t] = Len(slots) + 1]
      <3>1. slots' \in Seq(Temporaries) /\ Len(slots') = Len(slots) + 1 /\ Len(slots) \in Nat
        BY <2>1 DEF TypeOK
      <3> QED BY <2>1, <3>1 DEF TypeOK
    <2>2. ASSUME NEW k \in FreeSlots(t), slots' = [slots EXCEPT ![k] = t],
                 slotOf' = [slotOf EXCEPT ![t] = k]
          PROVE  slots' \in Seq(Temporaries) /\ slotOf' \in [Temporaries -> 0..Len(slots')]
      <3>1. k \in 1..Len(slots)
        BY DEF FreeSlots
      <3>2. slots' \in Seq(Temporaries) /\ Len(slots') = Len(slots) /\ Len(slots) \in Nat
        BY <2>2, <3>1 DEF TypeOK
      <3> QED BY <2>2, <3>1, <3>2 DEF TypeOK
    <2> QED BY <2>1, <2>2 DEF Place
  <1> QED BY <1>1 DEF TypeOK, Place, Nodes, Temporaries, gpuVars

LEMMA SubmissionKeepsTypes ==
  ASSUME TypeOK, Submit \/ Bail \/ SubmitDownload \/ RunHost \/ \E e \in issued : Run(e)
  PROVE  TypeOK' /\ UNCHANGED <<graph, planVars>>
         /\ (phase' = phase \/ {phase, phase'} \subseteq {"submitting", "submitted", "bailed"})
  <1>1. CASE Submit
    BY <1>1 DEF TypeOK, Submit, Advance, Phases, Nodes, Temporaries, planVars
  <1>2. CASE Bail
    BY <1>2 DEF TypeOK, Bail, Phases, Nodes, Temporaries, planVars, gpuVars
  <1>3. CASE SubmitDownload
    <2>1. (CHOOSE n \in Members(First) : TRUE) \in Nodes
      BY <1>3 DEF SubmitDownload, Has, Members
    <2> QED BY <1>3, <2>1 DEF TypeOK, SubmitDownload, Nodes, Temporaries, planVars
  <1>4. CASE RunHost
    BY <1>4 DEF TypeOK, RunHost, Advance, Phases, Nodes, Temporaries, planVars
  <1>5. CASE \E e \in issued : Run(e)
    BY <1>5 DEF TypeOK, Run, Nodes, Temporaries, planVars
  <1> QED BY <1>1, <1>2, <1>3, <1>4, <1>5

LEMMA TypesNext ==
  ASSUME TypeOK, [Next]_vars
  PROVE  TypeOK'
  <1>1. CASE Plan \/ Lowered \/ Accept \/ Refuse
    BY <1>1 DEF TypeOK, Plan, Lowered, Accept, Refuse, Phases, Nodes, Temporaries, planVars, gpuVars
  <1>2. CASE UNCHANGED vars
    BY <1>2 DEF TypeOK, vars, Nodes, Temporaries, planVars, gpuVars
  <1> QED BY <1>1, <1>2, VisitKeepsTypes, PlaceKeepsTypes, SubmissionKeepsTypes DEF Next

(* A submit keeps its types: whatever is recorded, depths are natural      *)
(* numbers, each placed temporary has one existing shared buffer, and the  *)
(* GPU runs only what was submitted to it.                                 *)
THEOREM TaskGraphTypes == Spec => []TypeOK
  BY TypesInit, TypesNext, PTL DEF Spec

-----------------------------------------------------------------------------
(* While graph, plan and slots stay the same so do the orders they define. *)
LEMMA SameOrders ==
  ASSUME UNCHANGED <<graph, slotOf>>
  PROVE  /\ Nodes' = Nodes
         /\ \A i, j \in Nodes : Depends(i, j)' <=> Depends(i, j)
         /\ \A i, j \in Nodes : Recorded(i, j)' <=> Recorded(i, j)
  BY DEF Nodes, Depends, Recorded, Uses, Lower, Kind

LEMMA SamePlan ==
  ASSUME UNCHANGED <<graph, planned>>
  PROVE  /\ \A t \in Temporaries : Binding(t)' = Binding(t)
         /\ \A s, t \in Temporaries : Precedes(s, t)' <=> Precedes(s, t)
         /\ Layered' <=> Layered
         /\ \A U \in SUBSET Nodes : Stuck(U)' <=> Stuck(U)
  <1>1. \A t \in Temporaries : Binding(t)' = Binding(t)
    BY DEF Binding, Nodes
  <1>2. \A s, t \in Temporaries : Precedes(s, t)' <=> Precedes(s, t)
    BY <1>1 DEF Precedes, EarlierWave, Rank, Kind
  <1>3. /\ Nodes' = Nodes
        /\ \A i, j \in Nodes : Recorded(i, j)' <=> Recorded(i, j)
    BY DEF Nodes, Recorded, Kind
  <1> QED BY <1>1, <1>2, <1>3 DEF Layered, Stuck

LEMMA OrderInit ==
  ASSUME Init
  PROVE  ScheduleOrder
  <1>1. TypeOK
    BY TypesInit
  <1> QED BY <1>1 DEF Init, ScheduleOrder, TraversalOrder, PlanOrder, PackOrder, CheckOrder,
                      SharingAddsNoDelay, Temporaries, Nodes

LEMMA SubmissionKeepsOrder ==
  ASSUME ScheduleOrder, TypeOK', UNCHANGED <<graph, planVars>>,
         phase' = phase \/ {phase, phase'} \subseteq {"submitting", "submitted", "bailed"}
  PROVE  ScheduleOrder'
  <1>1. /\ Nodes' = Nodes
        /\ \A i, j \in Nodes : Depends(i, j)' <=> Depends(i, j)
        /\ \A i, j \in Nodes : Recorded(i, j)' <=> Recorded(i, j)
    BY SameOrders DEF planVars
  <1>2. /\ \A t \in Temporaries : Binding(t)' = Binding(t)
        /\ \A s, t \in Temporaries : Precedes(s, t)' <=> Precedes(s, t)
        /\ Layered' <=> Layered
        /\ \A U \in SUBSET Nodes : Stuck(U)' <=> Stuck(U)
    BY SamePlan DEF planVars
  <1>3. TraversalOrder'
    BY <1>1 DEF ScheduleOrder, TypeOK, TraversalOrder, planVars
  <1>4. PlanOrder'
    BY <1>1, <1>2 DEF ScheduleOrder, PlanOrder, planVars
  <1>5. PackOrder'
    BY <1>2 DEF ScheduleOrder, PackOrder, planVars, TypeOK, Temporaries
  <1>6. CheckOrder'
    BY <1>1, <1>2 DEF ScheduleOrder, CheckOrder, planVars
  <1>7. SharingAddsNoDelay'
    BY DEF ScheduleOrder, SharingAddsNoDelay, planVars
  <1> QED BY <1>3, <1>4, <1>5, <1>6, <1>7 DEF ScheduleOrder

(* The traversal takes n: what it depends on was taken, so its depth is    *)
(* final, and what depends on it moves behind it.                          *)
LEMMA VisitKeepsTraversal ==
  ASSUME ScheduleOrder, TypeOK', NEW n \in Nodes, Visit(n)
  PROVE  /\ TraversalOrder'
         /\ \A i \in visited \cup {n} : depth'[i] = depth[i]
         /\ \A j \in Nodes : depth'[j] = depth[j] \/ (Depends(n, j) /\ depth'[j] = depth[n] + 1)
  <1>1. /\ Nodes' = Nodes
        /\ \A i, j \in Nodes : Depends(i, j)' <=> Depends(i, j)
    BY SameOrders DEF Visit
  <1>2. /\ n \notin visited /\ visited' = visited \cup {n} /\ visited \subseteq Nodes
        /\ depth \in [Nodes -> Nat]
        /\ \A j \in Nodes : Depends(j, n) => j \in visited
        /\ \A j \in Nodes : depth'[j] = IF Depends(n, j) /\ depth[j] <= depth[n]
                                        THEN depth[n] + 1 ELSE depth[j]
    BY DEF Visit, Ready, ScheduleOrder, TypeOK
  <1>3. /\ \A i \in visited, j \in Nodes : Depends(j, i) => j \in visited
        /\ \A i \in visited, j \in Nodes : Depends(i, j) => depth[i] < depth[j]
        /\ \A j \in Nodes : depth[j] = 0 \/ \E i \in visited : Depends(i, j) /\ depth[j] = depth[i] + 1
    BY DEF ScheduleOrder, TraversalOrder, Visit
  <1>4. \A i \in visited \cup {n} : ~Depends(n, i)
    BY <1>2, <1>3
  <1>5. \A i \in visited \cup {n} : depth'[i] = depth[i]
    BY <1>2, <1>4
  <1>6. \A i \in visited', j \in Nodes : Depends(j, i) => j \in visited'
    BY <1>2, <1>3
  <1>7. ASSUME NEW i \in visited', NEW j \in Nodes, Depends(i, j)
        PROVE  depth'[i] < depth'[j]
    <2>1. depth'[i] = depth[i] /\ depth[i] \in Nat /\ depth[j] \in Nat /\ depth[n] \in Nat
      BY <1>2, <1>5
    <2>2. CASE i = n
      BY <1>2, <1>7, <2>1, <2>2
    <2>3. CASE i \in visited
      <3>1. depth[i] < depth[j]
        BY <1>3, <1>7, <2>3
      <3> QED BY <1>2, <2>1, <3>1
    <2> QED BY <1>2, <2>2, <2>3
  <1>8. ASSUME NEW j \in Nodes
        PROVE  depth'[j] = 0 \/ \E i \in visited' : Depends(i, j) /\ depth'[j] = depth'[i] + 1
    BY <1>2, <1>3, <1>5
  <1>9. TraversalOrder'
    BY <1>1, <1>2, <1>6, <1>7, <1>8 DEF TraversalOrder
  <1> QED BY <1>2, <1>5, <1>9

LEMMA VisitKeepsOrder ==
  ASSUME ScheduleOrder, TypeOK', NEW n \in Nodes, Visit(n)
  PROVE  ScheduleOrder'
  <1>1. /\ TraversalOrder'
        /\ \A i \in visited \cup {n} : depth'[i] = depth[i]
        /\ \A j \in Nodes : depth'[j] = depth[j] \/ (Depends(n, j) /\ depth'[j] = depth[n] + 1)
    BY VisitKeepsTraversal
  <1>2. /\ Nodes' = Nodes
        /\ \A i, j \in Nodes : Recorded(i, j)' <=> Recorded(i, j)
        /\ \A t \in Temporaries : Binding(t)' = Binding(t)
        /\ \A s, t \in Temporaries : Precedes(s, t)' <=> Precedes(s, t)
        /\ Layered' <=> Layered
        /\ \A U \in SUBSET Nodes : Stuck(U)' <=> Stuck(U)
    BY SameOrders, SamePlan DEF Visit
  <1>3. PlanOrder'
    BY <1>2 DEF ScheduleOrder, PlanOrder, Visit
  <1>4. PackOrder'
    BY <1>2 DEF ScheduleOrder, PackOrder, Visit, TypeOK, Temporaries
  <1>5. SharingAddsNoDelay'
    BY DEF ScheduleOrder, SharingAddsNoDelay, Visit
  <1>6. ASSUME phase = "checking" PROVE CheckOrder'
    <2>1. /\ n \in Nodes \ visited /\ visited' = visited \cup {n} /\ visited \subseteq Nodes
          /\ depth \in [Nodes -> Nat] /\ planned \in [Nodes -> Nat]
          /\ planned' = planned
          /\ \A j \in Nodes : Depends(j, n) => j \in visited
      BY DEF Visit, Ready, ScheduleOrder, TypeOK
    <2>2. ASSUME Layered
          PROVE  /\ \A j \in Nodes : depth'[j] <= planned[j]
                 /\ \A i \in visited' : depth'[i] = planned[i]
      <3>1. /\ \A j \in Nodes : depth[j] <= planned[j]
            /\ \A i \in visited : depth[i] = planned[i]
        BY <1>6, <2>2 DEF ScheduleOrder, CheckOrder
      <3>2. depth[n] = planned[n]
        <4>1. CASE planned[n] = 0
          BY <2>1, <3>1, <4>1
        <4>2. CASE \E i \in Nodes : Recorded(i, n) /\ planned[n] = planned[i] + 1
          <5>1. PICK i \in Nodes : Recorded(i, n) /\ planned[n] = planned[i] + 1
            BY <4>2
          <5>2. Depends(i, n) /\ i \in visited
            BY <2>1, <5>1, RecordedDepends DEF ScheduleOrder
          <5>3. depth[i] < depth[n]
            BY <1>6, <5>2 DEF ScheduleOrder, TraversalOrder
          <5> QED BY <2>1, <3>1, <5>1, <5>2, <5>3
        <4> QED BY <1>6, <4>1, <4>2 DEF ScheduleOrder, PlanOrder
      <3>3. ASSUME NEW j \in Nodes PROVE depth'[j] <= planned[j]
        <4>1. Depends(n, j) => planned[n] < planned[j]
          BY <2>2, DependenciesAreLayered DEF ScheduleOrder
        <4> QED BY <1>1, <2>1, <3>1, <3>2, <4>1
      <3> QED BY <1>1, <2>1, <3>1, <3>2, <3>3
    <2>3. ASSUME NEW U \in SUBSET Nodes, Stuck(U)
          PROVE  U \cap visited' = {}
      <3>1. U \cap visited = {}
        BY <1>6, <2>3 DEF ScheduleOrder, CheckOrder
      <3>2. n \notin U
        BY <2>1, <2>3, <3>1, RecordedDepends DEF Stuck, ScheduleOrder
      <3> QED BY <2>1, <3>1, <3>2
    <2> QED BY <1>2, <2>1, <2>2, <2>3 DEF CheckOrder
  <1>7. CheckOrder'
    BY <1>6 DEF CheckOrder, Visit
  <1> QED BY <1>1, <1>3, <1>4, <1>5, <1>7 DEF ScheduleOrder

(* The first traversal ends: it took all nodes, or those left wait for     *)
(* each other.                                                             *)
LEMMA PlanKeepsOrder ==
  ASSUME ScheduleOrder, TypeOK', Plan
  PROVE  ScheduleOrder'
  <1>1. /\ Nodes' = Nodes
        /\ \A i, j \in Nodes : Recorded(i, j)' <=> Recorded(i, j)
        /\ \A t \in Temporaries : Binding(t)' = Binding(t)
    BY SameOrders DEF Plan, Binding, Nodes
  <1>2. \A i, j \in Nodes : Depends(i, j) <=> Recorded(i, j)
    BY RecordedDepends, DependsRecorded DEF ScheduleOrder, PackOrder, Plan
  <1>3. /\ \A i \in visited, j \in Nodes : Recorded(i, j) => depth[i] < depth[j]
        /\ \A j \in Nodes : depth[j] = 0 \/ \E i \in visited : Recorded(i, j) /\ depth[j] = depth[i] + 1
        /\ visited \subseteq Nodes /\ planned' = depth
    BY <1>2 DEF ScheduleOrder, TraversalOrder, Plan, TypeOK
  <1>4. PlanOrder'
    <2>1. CASE visited = Nodes
      BY <1>1, <1>3, <2>1 DEF PlanOrder, Layered
    <2>2. CASE visited # Nodes
      <3> DEFINE U == Nodes \ visited
      <3>1. Stuck(U)
        BY <1>2, <1>3, <2>2 DEF Stuck, Plan, Stalled, Ready
      <3>2. Stuck(U)'
        BY <1>1, <3>1 DEF Stuck, Plan
      <3>3. \E W \in SUBSET Nodes' : Stuck(W)'
        BY <1>1, <3>2
      <3> QED BY <1>1, <1>3, <3>3 DEF PlanOrder
    <2> QED BY <2>1, <2>2
  <1>5. \A t \in Temporaries : slotOf'[t] = 0
    BY DEF ScheduleOrder, PackOrder, Plan
  <1>6. PackOrder'
    <2>1. Len(slots) \in Nat /\ \A k \in 1..Len(slots) : slots[k] \in Temporaries
      BY DEF ScheduleOrder, TypeOK
    <2> QED BY <1>1, <1>5, <2>1 DEF ScheduleOrder, PackOrder, Plan, Temporaries
  <1> QED BY <1>4, <1>6 DEF ScheduleOrder, TraversalOrder, CheckOrder, SharingAddsNoDelay, Plan

(* A temporary is placed behind all that are in the buffer already.        *)
LEMMA PlaceKeepsPacking ==
  ASSUME ScheduleOrder, TypeOK', NEW t \in Temporaries, Place(t)
  PROVE  PackOrder'
  <1> USE DEF Temporaries
  <1>1. /\ \A s \in Temporaries : Binding(s)' = Binding(s)
        /\ \A r, s \in Temporaries : Precedes(r, s)' <=> Precedes(r, s)
    BY SamePlan DEF Place
  <1>2. /\ slots \in Seq(Temporaries) /\ Len(slots) \in Nat
        /\ \A k \in 1..Len(slots) : slots[k] \in Temporaries
        /\ slotOf \in [Temporaries -> 0..Len(slots)]
        /\ phase = "packing" /\ phase' = "packing"
        /\ slotOf[t] = 0 /\ Binding(t) # {}
    BY SMTT(30) DEF ScheduleOrder, TypeOK, Place, NextInterval, Unplaced
  <1>3. /\ \A k \in 1..Len(slots) : Binding(slots[k]) # {} /\ slotOf[slots[k]] = k
        /\ \A s \in Temporaries : slotOf[s] # 0 => s = slots[slotOf[s]] \/ Precedes(s, slots[slotOf[s]])
        /\ \A r, s \in Temporaries : slotOf[r] # 0 /\ slotOf[r] = slotOf[s] /\ r # s =>
             Precedes(r, s) \/ Precedes(s, r)
    BY DEF ScheduleOrder, PackOrder
  <1>4. PICK k \in Nat \ {0} :
          /\ slotOf' = [slotOf EXCEPT ![t] = k]
          /\ \/ k \in FreeSlots(t) /\ slots' = [slots EXCEPT ![k] = t]
             \/ k = Len(slots) + 1 /\ slots' = Append(slots, t)
    BY <1>2 DEF Place, FreeSlots
  <1>5. \A s \in Temporaries : slotOf[s] = k => Precedes(s, t)
    <2>1. CASE k = Len(slots) + 1
      BY <1>2, <2>1
    <2>2. CASE k \in FreeSlots(t)
      <3>1. k \in 1..Len(slots) /\ Precedes(slots[k], t)
        BY <2>2 DEF FreeSlots
      <3> QED BY <1>2, <1>3, <3>1, PrecedesTransitive DEF ScheduleOrder
    <2> QED BY <1>4, <2>1, <2>2
  <1>6. /\ Len(slots') \in Nat
        /\ \A l \in 1..Len(slots') : slots'[l] = IF l = k THEN t ELSE slots[l]
        /\ \A l \in 1..Len(slots') : l # k => l \in 1..Len(slots)
        /\ k \in 1..Len(slots')
    <2>1. CASE k = Len(slots) + 1 /\ slots' = Append(slots, t)
      BY <1>2, <2>1
    <2>2. CASE k \in 1..Len(slots) /\ slots' = [slots EXCEPT ![k] = t]
      BY <1>2, <2>2
    <2> QED BY <1>4, <2>1, <2>2 DEF FreeSlots
  <1>7. \A s \in Temporaries : slotOf'[s] = IF s = t THEN k ELSE slotOf[s]
    BY <1>2, <1>4
  <1>8. ASSUME NEW l \in 1..Len(slots')
        PROVE  Binding(slots'[l]) # {} /\ slotOf'[slots'[l]] = l
    <2>1. CASE l = k
      BY <1>2, <1>6, <1>7, <2>1
    <2>2. CASE l # k
      <3>1. l \in 1..Len(slots) /\ slots'[l] = slots[l] /\ slots[l] # t
        BY <1>2, <1>3, <1>6, <2>2
      <3> QED BY <1>2, <1>3, <1>7, <3>1
    <2> QED BY <2>1, <2>2
  <1>9. ASSUME NEW s \in Temporaries, slotOf'[s] # 0
        PROVE  s = slots'[slotOf'[s]] \/ Precedes(s, slots'[slotOf'[s]])
    <2>1. CASE s = t \/ slotOf[s] = k
      BY <1>5, <1>6, <1>7, <2>1
    <2>2. CASE s # t /\ slotOf[s] # k
      <3>1. slotOf'[s] = slotOf[s] /\ slotOf[s] \in 1..Len(slots)
        BY <1>2, <1>7, <1>9, <2>2
      <3>2. slotOf[s] \in 1..Len(slots') /\ slots'[slotOf[s]] = slots[slotOf[s]]
        BY <1>2, <1>4, <1>6, <2>2, <3>1 DEF FreeSlots
      <3> QED BY <1>3, <3>1, <3>2
    <2> QED BY <2>1, <2>2
  <1>10. ASSUME NEW r \in Temporaries, NEW s \in Temporaries,
                slotOf'[r] # 0, slotOf'[r] = slotOf'[s], r # s
         PROVE  Precedes(r, s) \/ Precedes(s, r)
    BY <1>3, <1>5, <1>7, <1>10
  <1>11. \A l \in 1..Len(slots') : slots'[l] \in Temporaries
    BY <1>2, <1>6
  <1>12. \A s \in Temporaries : slotOf'[s] # 0 => slots'[slotOf'[s]] \in Temporaries
    BY <1>11 DEF TypeOK
  <1>13. \A l \in 1..Len(slots') : (Binding(slots[l]) # {} /\ slotOf[slots[l]] = l)'
    BY <1>1, <1>8, <1>11
  <1>14. \A s \in Temporaries :
           (slotOf[s] # 0 => s = slots[slotOf[s]] \/ Precedes(s, slots[slotOf[s]]))'
    BY <1>1, <1>9, <1>12
  <1>15. \A r, s \in Temporaries :
           (slotOf[r] # 0 /\ slotOf[r] = slotOf[s] /\ r # s => Precedes(r, s) \/ Precedes(s, r))'
    BY <1>1, <1>10
  <1> QED BY <1>2, <1>13, <1>14, <1>15 DEF PackOrder

LEMMA PlaceKeepsOrder ==
  ASSUME ScheduleOrder, TypeOK', NEW t \in Temporaries, Place(t)
  PROVE  ScheduleOrder'
  <1>1. /\ Nodes' = Nodes
        /\ \A i, j \in Nodes : Recorded(i, j)' <=> Recorded(i, j)
        /\ Layered' <=> Layered
        /\ \A U \in SUBSET Nodes : Stuck(U)' <=> Stuck(U)
    BY SamePlan DEF Place, Nodes, Recorded, Kind
  <1>2. phase = "packing" /\ phase' = "packing"
    BY DEF Place
  <1>3. PlanOrder'
    BY <1>1, <1>2 DEF ScheduleOrder, PlanOrder, Place
  <1> QED BY <1>2, <1>3, PlaceKeepsPacking
          DEF ScheduleOrder, TraversalOrder, CheckOrder, SharingAddsNoDelay

(* The second traversal starts, and ends with all nodes taken or is given  *)
(* up.                                                                     *)
LEMMA CheckingKeepsOrder ==
  ASSUME ScheduleOrder, TypeOK', Lowered \/ Accept \/ Refuse
  PROVE  ScheduleOrder'
  <1>1. /\ Nodes' = Nodes
        /\ \A i, j \in Nodes : Recorded(i, j)' <=> Recorded(i, j)
        /\ \A t \in Temporaries : Binding(t)' = Binding(t)
        /\ \A s, t \in Temporaries : Precedes(s, t)' <=> Precedes(s, t)
        /\ Layered' <=> Layered
        /\ \A U \in SUBSET Nodes : Stuck(U)' <=> Stuck(U)
    BY SameOrders, SamePlan DEF Lowered, Accept, Refuse, planVars
  <1>2. /\ phase # "ordering" /\ phase' # "ordering"
        /\ UNCHANGED <<graph, planned, slots, slotOf>>
    BY DEF Lowered, Accept, Refuse, planVars
  <1>3. PlanOrder' /\ PackOrder'
    <2>1. PlanOrder'
      BY <1>1, <1>2 DEF ScheduleOrder, PlanOrder
    <2>2. PackOrder'
      BY <1>1, <1>2 DEF ScheduleOrder, PackOrder, TypeOK, Temporaries
    <2> QED BY <2>1, <2>2
  <1>4. CASE Lowered
    <2>1. phase' = "checking" /\ visited' = {} /\ depth' = [i \in Nodes |-> 0]
          /\ planned \in [Nodes -> Nat]
      BY <1>4 DEF Lowered, ScheduleOrder, TypeOK
    <2>2. TraversalOrder' /\ CheckOrder'
      BY <1>1, <1>2, <2>1 DEF TraversalOrder, CheckOrder
    <2> QED BY <1>3, <2>1, <2>2 DEF ScheduleOrder, SharingAddsNoDelay
  <1>5. CASE Accept
    <2>1. /\ phase = "checking" /\ phase' = "submitting" /\ visited = Nodes
          /\ UNCHANGED <<depth, planned>>
      BY <1>5 DEF Accept
    <2>2. \A U \in SUBSET Nodes : ~Stuck(U)
      BY <2>1 DEF ScheduleOrder, CheckOrder, Stuck
    <2>3. \A i \in Nodes : depth[i] = planned[i]
      BY <2>1, <2>2 DEF ScheduleOrder, PlanOrder, CheckOrder
    <2>4. depth = planned
      BY <2>3 DEF ScheduleOrder, TypeOK
    <2> QED BY <1>3, <2>1, <2>4 DEF ScheduleOrder, TraversalOrder, CheckOrder, SharingAddsNoDelay
  <1>6. CASE Refuse
    BY <1>3, <1>6 DEF Refuse, ScheduleOrder, TraversalOrder, CheckOrder, SharingAddsNoDelay
  <1> QED BY <1>4, <1>5, <1>6

LEMMA OrderNext ==
  ASSUME ScheduleOrder, [Next]_vars
  PROVE  ScheduleOrder'
  <1>1. TypeOK'
    BY TypesNext DEF ScheduleOrder
  <1>2. CASE UNCHANGED vars
    BY <1>1, <1>2, SubmissionKeepsOrder DEF vars
  <1>3. CASE Submit \/ Bail \/ SubmitDownload \/ RunHost \/ \E e \in issued : Run(e)
    BY <1>1, <1>3, SubmissionKeepsTypes, SubmissionKeepsOrder DEF ScheduleOrder
  <1> QED BY <1>1, <1>2, <1>3, VisitKeepsOrder, PlanKeepsOrder, PlaceKeepsOrder, CheckingKeepsOrder
          DEF Next

(* Packing temporaries onto shared buffers (TransientScheduler::pack)      *)
(* changes no schedule: a graph that validate_acyclic accepts after        *)
(* lowering has every node at the depth it had before.                     *)
THEOREM SharingKeepsTheSchedule == Spec => []SharingAddsNoDelay
  <1>1. Spec => []ScheduleOrder
    BY OrderInit, OrderNext, PTL DEF Spec
  <1>2. ScheduleOrder => SharingAddsNoDelay
    BY DEF ScheduleOrder
  <1> QED BY <1>1, <1>2, PTL

-----------------------------------------------------------------------------
(* Barriers form chains: one is passed once the work before it was executed*)
(* and the barriers it follows were passed.                                *)
Behindhand(b) ==
  \A e \in issued : e.queue = b.queue /\ e.at < b.at /\ e.job.stage \in Earlier(b.src) => e \in ran

Feeds(a, b) == a.queue = b.queue /\ a.at < b.at /\ Later(a.dst) \cap Earlier(b.src) # {}

LEMMA Chains ==
  \A b \in barriers : Done[b] <=> Behindhand(b) /\ \A a \in barriers : Feeds(a, b) => Done[a]
  <1> DEFINE Closed(S) == \A b \in S : Behindhand(b) /\ \A a \in barriers : Feeds(a, b) => a \in S
             D == {b \in barriers : \E S \in SUBSET barriers : Closed(S) /\ b \in S}
             Solves(f) == f = [b \in barriers |-> Behindhand(b) /\ \A a \in barriers : Feeds(a, b) => f[a]]
             f == [b \in barriers |-> b \in D]
  <1>1. ASSUME NEW b \in barriers
        PROVE  b \in D <=> Behindhand(b) /\ \A a \in barriers : Feeds(a, b) => a \in D
    <2>1. ASSUME b \in D PROVE Behindhand(b) /\ \A a \in barriers : Feeds(a, b) => a \in D
      BY <2>1
    <2>2. ASSUME Behindhand(b), \A a \in barriers : Feeds(a, b) => a \in D
          PROVE  b \in D
      <3> DEFINE S == D \cup {b}
      <3>1. Closed(S)
        <4>1. ASSUME NEW c \in D PROVE Behindhand(c) /\ \A a \in barriers : Feeds(a, c) => a \in D
          BY <4>1
        <4> QED BY <2>2, <4>1
      <3>2. S \in SUBSET barriers
        OBVIOUS
      <3> QED BY <3>1, <3>2
    <2> QED BY <2>1, <2>2
  <1>2. Solves(f)
    <2>1. \A b \in barriers : f[b] = (b \in D)
      OBVIOUS
    <2> HIDE DEF D
    <2>2. ASSUME NEW b \in barriers
          PROVE  (b \in D) = (Behindhand(b) /\ \A a \in barriers : Feeds(a, b) => f[a])
      <3> HIDE DEF f
      <3>1. (\A a \in barriers : Feeds(a, b) => f[a]) <=> \A a \in barriers : Feeds(a, b) => a \in D
        BY <2>1
      <3>2. b \in D <=> Behindhand(b) /\ \A a \in barriers : Feeds(a, b) => f[a]
        BY <1>1, <3>1
      <3> QED BY <3>2
    <2> QED BY <2>2
  <1>3. Done = CHOOSE g : Solves(g)
    BY DEF Done, Behindhand, Feeds
  <1> HIDE DEF f, D
  <1>4. Solves(Done)
    <2> HIDE DEF Solves
    <2> QED BY <1>2, <1>3
  <1> QED BY <1>4

-----------------------------------------------------------------------------
(* Waves and places are numbers in the order of submission.                *)
Size == Cardinality(Nodes)

LEMMA NodeNumbers ==
  ASSUME TypeOK
  PROVE  /\ Size \in Nat
         /\ Nodes \subseteq Nat
         /\ \A i \in Nodes : 1 <= i /\ i <= Size
         /\ \A i \in Nodes : Rank(i) \in 0..Size /\ depth[i] \in Nat
  <1>1. IsFiniteSet(Nodes) /\ Nodes = 1..Size
    BY TaskGraphAssumption DEF TypeOK, Nodes, Numbered, Size
  <1>2. Size \in Nat
    BY <1>1, FS_CardinalityType DEF Size
  <1>3. \A i \in Nodes : i \in Nat /\ 1 <= i /\ i <= Size
    BY <1>1, <1>2
  <1> QED BY <1>2, <1>3 DEF Rank, TypeOK

LEMMA Multiples ==
  ASSUME NEW a \in Nat, NEW b \in Nat, NEW c \in Nat, a < b
  PROVE  a * c \in Nat /\ b * c \in Nat /\ a * c + c <= b * c
  <1>1. PICK k \in Nat : b = a + 1 + k
    <2>1. b - a - 1 \in Nat /\ b = a + 1 + (b - a - 1)
      OBVIOUS
    <2> QED BY <2>1
  <1>2. k * c \in Nat /\ a * c \in Nat
    OBVIOUS
  <1>3. b * c = a * c + c + k * c
    BY <1>1
  <1> QED BY <1>2, <1>3

LEMMA WaveNumbers ==
  ASSUME TypeOK, NEW i \in Nodes
  PROVE  Wave(i) \in Nat
  <1>1. depth[i] \in Nat /\ Size \in Nat /\ Rank(i) \in Nat
    BY NodeNumbers
  <1>2. depth[i] * (Size + 1) \in Nat
    BY <1>1
  <1> QED BY <1>1, <1>2 DEF Wave, WaveOf, Size

LEMMA DeeperWave ==
  ASSUME TypeOK, NEW i \in Nodes, NEW j \in Nodes, depth[i] < depth[j]
  PROVE  Wave(i) < Wave(j)
  <1>1. /\ depth[i] \in Nat /\ depth[j] \in Nat /\ Size \in Nat /\ Rank(i) \in 0..Size
        /\ Rank(j) \in Nat
    BY NodeNumbers
  <1>2. /\ depth[i] * (Size + 1) \in Nat /\ depth[j] * (Size + 1) \in Nat
        /\ depth[i] * (Size + 1) + (Size + 1) <= depth[j] * (Size + 1)
    BY <1>1, Multiples
  <1>3. Wave(i) = depth[i] * (Size + 1) + Rank(i) /\ Wave(j) = depth[j] * (Size + 1) + Rank(j)
    BY DEF Wave, WaveOf, Size
  <1> QED BY <1>1, <1>2, <1>3

(* A CPU dispatch has its wave to itself.                                  *)
LEMMA HostAlone ==
  ASSUME TypeOK, NEW i \in Nodes, NEW j \in Nodes, Wave(i) = Wave(j), Kind(i) = "cpu"
  PROVE  i = j
  <1>1. /\ depth[i] \in Nat /\ depth[j] \in Nat /\ Size \in Nat
        /\ Rank(i) \in Nat /\ Rank(j) \in Nat /\ Wave(i) \in Nat /\ i \in Nat /\ 1 <= i
    BY NodeNumbers, WaveNumbers
  <1>2. depth[i] = depth[j]
    BY <1>1, DeeperWave
  <1>3. Rank(i) = Rank(j)
    <2>1. depth[i] * (Size + 1) \in Nat
      BY <1>1
    <2>2. Wave(i) = depth[i] * (Size + 1) + Rank(i) /\ Wave(j) = depth[j] * (Size + 1) + Rank(j)
      BY DEF Wave, WaveOf, Size
    <2>3. \A d, r, s \in Nat : d + r = d + s => r = s
      OBVIOUS
    <2>4. depth[i] * (Size + 1) + Rank(i) = depth[i] * (Size + 1) + Rank(j)
      BY <1>2, <2>2
    <2> QED BY <1>1, <2>1, <2>3, <2>4
  <1> QED BY <1>1, <1>3 DEF Rank

LEMMA BaseNumbers ==
  ASSUME TypeOK, NEW v \in Nat
  PROVE  Base(v) \in Nat
  <1>1. Size \in Nat
    BY NodeNumbers
  <1>2. v * (6 * Size + 9) \in Nat
    BY <1>1
  <1> QED BY <1>2 DEF Base, Size

(* Between the starts of two waves there is room for all that is issued.   *)
LEMMA BaseOrder ==
  ASSUME TypeOK, NEW v \in Nat, NEW w \in Nat, v < w
  PROVE  Base(v) + 6 * Size + 9 <= Base(w)
  <1>1. Size \in Nat /\ 6 * Size + 9 \in Nat
    BY NodeNumbers
  <1>2. v * (6 * Size + 9) + (6 * Size + 9) <= w * (6 * Size + 9)
    BY <1>1, Multiples
  <1>3. v * (6 * Size + 9) \in Nat /\ w * (6 * Size + 9) \in Nat
    BY <1>1
  <1> QED BY <1>1, <1>2, <1>3 DEF Base, Size

LEMMA Places ==
  ASSUME TypeOK, NEW i \in Nodes
  PROVE  /\ PlaceOf(i) \in Nat /\ Base(Wave(i)) \in Nat
         /\ Base(Wave(i)) + 3 <= PlaceOf(i) /\ PlaceOf(i) <= Base(Wave(i)) + 6 * Size
  <1>1. Base(Wave(i)) \in Nat /\ Size \in Nat /\ i \in Nat /\ 1 <= i /\ i <= Size
    BY NodeNumbers, WaveNumbers, BaseNumbers
  <1> QED BY <1>1 DEF PlaceOf, Size

-----------------------------------------------------------------------------
(* The inductive invariant of submission.                                  *)
Going == phase \in {"submitting", "submitted", "bailed"}

(* What the plan provides: conflicting nodes are in different waves, a CPU *)
(* dispatch begins a partition; nothing is submitted before.               *)
Accepted ==
  /\ Going \/ phase = "checking" => \A t \in Temporaries : Binding(t) # {} => slotOf[t] # 0
  /\ Going => /\ \A i, j \in Nodes : Depends(i, j) => depth[i] < depth[j]
              /\ cuts \subseteq Waves
              /\ \A w \in Waves : Has(w, "cpu") => w \in cuts
  /\ ~Going => issued = {} /\ barriers = {} /\ submitted = {} /\ host = 0

(* Waves are submitted in their order.                                     *)
Advanced ==
  /\ submitted \subseteq Waves
  /\ \A v \in Waves, w \in submitted : v < w => v \in submitted
  /\ phase = "submitting" /\ Waves # {} => submitted # Waves
  /\ host # 0 => phase = "submitting" /\ Kind(host) = "cpu" /\ Wave(host) = First

(* The wave of what was issued, and the three forms it has.                *)
WaveAt(e) == Wave(e.job.node)

IsCommand(e) ==
  LET i == e.job.node IN
  /\ Kind(i) # "cpu" /\ e.job \in Jobs(i) /\ e.at = PlaceOf(i) /\ Wave(i) \in submitted
  /\ Kind(i) = "render" => e.queue = "graphics"
  /\ WaveBarriers(Wave(i), e.queue) \subseteq barriers
  /\ OwnBarriers(i, e.queue) \subseteq barriers

IsDownload(e) ==
  LET i == e.job.node IN
  /\ Kind(i) = "cpu" /\ e.job = Download(i) /\ e.queue = "compute" /\ e.at = Base(Wave(i)) + 1
  /\ Wave(i) \in submitted \/ host = i
  /\ \A k \in Keys(Wave(i)) \cap Copied(i, {"read", "update"}) :
       Barrier("compute", Base(Wave(i)), Source(Wave(i), k, "compute"), {"transfer"}) \in barriers

IsUpload(e) ==
  LET i == e.job.node IN
  /\ Kind(i) = "cpu" /\ e.job = Upload(i) /\ e.queue = "compute" /\ e.at = Base(Wave(i)) + 3
  /\ Wave(i) \in submitted

Formed ==
  \A e \in issued : e.job.node \in Nodes /\ (IsCommand(e) \/ IsDownload(e) \/ IsUpload(e))

(* A wave is submitted with all its work, ...                              *)
Covered ==
  /\ \A i \in Nodes : Wave(i) \in submitted => \A job \in JobsOf(i) : \E e \in issued : e.job = job
  /\ host # 0 => \A job \in JobsOf(host) \ {Upload(host)} : \E e \in issued : e.job = job

(* ... once, ...                                                           *)
Once == \A d, f \in issued : d.job = f.job => d = f

(* ... a CPU dispatch after all before it has run, ...                     *)
HostWaited ==
  \A i \in Nodes : Kind(i) = "cpu" /\ Wave(i) \in submitted =>
    \A e \in issued : WaveAt(e) < Wave(i) \/ e.job = Download(i) => e \in ran

(* ... and the two queues wait for each other.                             *)
QueuesWait == \A d, f \in issued : WaveAt(d) < WaveAt(f) /\ d.queue # f.queue => d.at < f.start

SubmissionOrder ==
  TypeOK /\ Accepted /\ Advanced /\ Formed /\ Covered /\ Once /\ HostWaited /\ QueuesWait

-----------------------------------------------------------------------------
(* Once a graph is accepted its waves, barriers and jobs stay the same.    *)
LEMMA SameNodes ==
  ASSUME UNCHANGED <<graph, depth, slotOf>>
  PROVE  /\ Nodes' = Nodes /\ Waves' = Waves
         /\ \A i : /\ Kind(i)' = Kind(i) /\ Uses(i)' = Uses(i) /\ Wave(i)' = Wave(i)
                   /\ PlaceOf(i)' = PlaceOf(i)
         /\ \A w : Base(w)' = Base(w) /\ Members(w)' = Members(w)
  <1>1. Nodes' = Nodes
    BY DEF Nodes
  <1>2. \A i : Kind(i)' = Kind(i)
    BY DEF Kind
  <1>3. ASSUME NEW i PROVE Uses(i)' = Uses(i)
    <2>1. \A r : Lower(r)' = Lower(r)
      BY DEF Lower
    <2> QED BY <2>1 DEF Uses
  <1>4. \A i : Wave(i)' = Wave(i)
    BY <1>1, <1>2 DEF Wave, WaveOf, Rank
  <1>5. Waves' = Waves
    BY <1>1, <1>4 DEF Waves
  <1>6. \A w : Base(w)' = Base(w)
    BY <1>1 DEF Base
  <1>7. \A w : Members(w)' = Members(w)
    BY <1>1, <1>4 DEF Members
  <1>8. ASSUME NEW i PROVE PlaceOf(i)' = PlaceOf(i)
    BY <1>1, <1>2, <1>4, <1>6 DEF PlaceOf
  <1> QED BY <1>1, <1>2, <1>3, <1>4, <1>5, <1>6, <1>7, <1>8

LEMMA SameWork ==
  ASSUME UNCHANGED <<graph, depth, slotOf>>
  PROVE  /\ \A w, kind : Has(w, kind)' <=> Has(w, kind)
         /\ \A i, a : Copied(i, a)' = Copied(i, a)
         /\ \A i : Jobs(i)' = Jobs(i) /\ JobsOf(i)' = JobsOf(i)
         /\ \A i, q : OwnBarriers(i, q)' = OwnBarriers(i, q)
  <1>1. \A i : Kind(i)' = Kind(i) /\ Uses(i)' = Uses(i) /\ PlaceOf(i)' = PlaceOf(i)
    BY SameNodes
  <1>2. \A w, kind : Has(w, kind)' <=> Has(w, kind)
    BY SameNodes DEF Has
  <1>3. \A i, a : Copied(i, a)' = Copied(i, a)
    BY <1>1 DEF Copied
  <1>4. \A i : Jobs(i)' = Jobs(i)
    BY <1>1 DEF Jobs
  <1>5. \A i : JobsOf(i)' = JobsOf(i)
    BY <1>1, <1>3, <1>4 DEF JobsOf
  <1>6. \A i, q : OwnBarriers(i, q)' = OwnBarriers(i, q)
    BY <1>1 DEF OwnBarriers
  <1> QED BY <1>2, <1>3, <1>4, <1>5, <1>6

LEMMA SameBarriers ==
  ASSUME UNCHANGED <<graph, depth, slotOf>>
  PROVE  /\ \A w : Crossing(w)' = Crossing(w) /\ Keys(w)' = Keys(w)
         /\ \A w, k, q : Source(w, k, q)' = Source(w, k, q) /\ Target(w, k, q)' = Target(w, k, q)
         /\ \A w, q : WaveBarriers(w, q)' = WaveBarriers(w, q)
  <1>1. /\ Nodes' = Nodes /\ \A i : Kind(i)' = Kind(i) /\ Uses(i)' = Uses(i)
        /\ \A w : Base(w)' = Base(w) /\ Members(w)' = Members(w)
    BY SameNodes
  <1>2. \A w : Crossing(w)' = Crossing(w)
    BY <1>1 DEF Crossing
  <1>3. \A w : Keys(w)' = Keys(w)
    BY <1>2 DEF Keys
  <1>4. \A w, k : Behind(w, k)' = Behind(w, k)
    BY <1>2 DEF Behind
  <1>5. \A i, u, q : StagesOf(i, u, q)' = StagesOf(i, u, q)
    BY <1>1 DEF StagesOf
  <1>6. \A w, k, q : Source(w, k, q)' = Source(w, k, q)
    BY <1>4, <1>5 DEF Source
  <1>7. \A w, k, q : Target(w, k, q)' = Target(w, k, q)
    BY <1>4, <1>5 DEF Target
  <1>8. \A w, q : WaveBarriers(w, q)' = WaveBarriers(w, q)
    BY <1>1, <1>3, <1>6, <1>7 DEF WaveBarriers
  <1> QED BY <1>2, <1>3, <1>6, <1>7, <1>8

-----------------------------------------------------------------------------
(* The order in which the GPU runs what is issued.                         *)

(* Lowered bindings: no temporaries are left.                              *)
LEMMA LoweredUses ==
  ASSUME TypeOK, Accepted, Going, NEW i \in Nodes, NEW u \in Uses(i)
  PROVE  /\ u.resource.class \in {"buffer", "slot", "texture", "target", "lease"}
         /\ u.resource.class = "target" =>
              Kind(i) = IF u.access = "read" THEN "resolve" ELSE "render"
         /\ u.resource.class # "slot" => u \in graph.nodes[i].uses
         /\ u.access \in Accesses
  <1>1. PICK x \in graph.nodes[i].uses : u = [resource |-> Lower(x.resource), access |-> x.access]
    BY DEF Uses
  <1>2. x \in Bindings /\ x.resource.class \in Classes /\ x.access \in Accesses
    BY Recordings DEF Bindings
  <1>3. x = [resource |-> x.resource, access |-> x.access]
    BY <1>2 DEF Bindings
  <1>4. CASE x.resource.class = "temporary"
    <2>1. slotOf[x.resource.id] # 0
      BY <1>4, TemporaryUses DEF Accepted
    <2> QED BY <1>1, <1>2, <1>4, <2>1 DEF Lower
  <1>5. CASE x.resource.class # "temporary"
    <2>1. u = x
      BY <1>1, <1>3, <1>5 DEF Lower
    <2>2. x.resource.class = "target" => Kind(i) = IF x.access = "read" THEN "resolve" ELSE "render"
      BY TaskGraphAssumption DEF TypeOK, Nodes, Kind
    <2> QED BY <1>2, <1>5, <2>1, <2>2 DEF Classes
  <1> QED BY <1>4, <1>5

(* What conflicts with an earlier node is in a later wave.                 *)
LEMMA ConflictsAreLayered ==
  ASSUME TypeOK, Accepted, Going, NEW i \in Nodes, NEW j \in Nodes, i < j,
         NEW u \in Uses(i), NEW v \in Uses(j), Conflict(u, v)
  PROVE  depth[i] < depth[j] /\ Wave(i) < Wave(j)
  <1>1. Depends(i, j)
    BY DEF Depends
  <1>2. depth[i] < depth[j]
    BY <1>1 DEF Accepted
  <1> QED BY <1>2, DeeperWave

Covering == {"buffer", "slot", "texture"}

(* The wave barrier of two conflicting bindings.                           *)
LEMMA WaveBarrier ==
  ASSUME NEW i \in Nodes, NEW j \in Nodes, depth[i] < depth[j],
         NEW u \in Uses(i), NEW v \in Uses(j), Conflict(u, v), u.resource.class \in Covering, NEW q
  PROVE  LET k == KeyOf(u.resource) IN
         /\ k \in Keys(Wave(j)) /\ k = KeyOf(v.resource)
         /\ StagesOf(i, u, q) \subseteq Source(Wave(j), k, q)
         /\ StagesOf(j, v, q) \subseteq Target(Wave(j), k, q)
         /\ Barrier(q, Base(Wave(j)), Source(Wave(j), k, q), Target(Wave(j), k, q))
              \in WaveBarriers(Wave(j), q)
  <1> DEFINE w == Wave(j)
             k == KeyOf(u.resource)
             c == <<i, u, j, v>>
  <1>1. j \in Members(w)
    BY DEF Members
  <1>2. c \in UNION {{<<x, a, y, b>> : a \in Uses(x), b \in Uses(y)} : x \in Nodes, y \in Members(w)}
    <2> DEFINE Pairs(x, y) == {<<x, a, y, b>> : a \in Uses(x), b \in Uses(y)}
    <2>1. c \in Pairs(i, j)
      OBVIOUS
    <2> HIDE DEF c, w, Pairs
    <2>2. c \in UNION {Pairs(x, y) : x \in Nodes, y \in Members(w)}
      <3>1. Pairs(i, j) \in {Pairs(x, y) : x \in Nodes, y \in Members(w)}
        BY <1>1
      <3> QED BY <2>1, <3>1
    <2> QED BY <2>2 DEF Pairs
  <1>3. c[1] = i /\ c[2] = u /\ c[3] = j /\ c[4] = v
    OBVIOUS
  <1> HIDE DEF c, w
  <1>4. c \in Crossing(w)
    BY <1>2, <1>3 DEF Crossing, Covering
  <1>5. k \in Keys(w) /\ c \in Behind(w, k)
    BY <1>3, <1>4 DEF Keys, Behind
  <1>6. k = KeyOf(v.resource)
    BY DEF KeyOf, Conflict, Aliases
  <1> HIDE DEF k
  <1>7. StagesOf(i, u, q) \subseteq Source(w, k, q) /\ StagesOf(j, v, q) \subseteq Target(w, k, q)
    BY <1>3, <1>5 DEF Source, Target
  <1>8. Barrier(q, Base(w), Source(w, k, q), Target(w, k, q)) \in WaveBarriers(w, q)
    BY <1>5 DEF WaveBarriers
  <1> QED BY <1>5, <1>6, <1>7, <1>8 DEF k, w

(* A barrier that work waits for, and one that this one waits for.         *)
LEMMA ThroughOne ==
  ASSUME NEW f, MayRun(f), NEW b \in barriers, b.queue = f.queue, b.at < f.at,
         f.job.stage \in Later(b.dst),
         NEW d \in issued, d.queue = b.queue, d.at < b.at, d.job.stage \in Earlier(b.src)
  PROVE  d \in ran
  <1>1. Done[b]
    BY DEF MayRun
  <1> QED BY <1>1, Chains DEF Behindhand

LEMMA ThroughTwo ==
  ASSUME NEW f, MayRun(f), NEW b \in barriers, b.queue = f.queue, b.at < f.at,
         f.job.stage \in Later(b.dst),
         NEW a \in barriers, Feeds(a, b),
         NEW d \in issued, d.queue = a.queue, d.at < a.at, d.job.stage \in Earlier(a.src)
  PROVE  d \in ran
  <1>1. Done[b]
    BY DEF MayRun
  <1>2. Done[a]
    BY <1>1, Chains
  <1> QED BY <1>2, Chains DEF Behindhand

LEMMA BarrierFields ==
  ASSUME NEW q, NEW at, NEW src, NEW dst
  PROVE  LET b == Barrier(q, at, src, dst) IN
         b.queue = q /\ b.at = at /\ b.src = src /\ b.dst = dst
  BY DEF Barrier

LEMMA StageSets ==
  /\ \A S : S \subseteq Earlier(S) /\ S \subseteq Later(S)
  /\ Graphics \subseteq Earlier({"output"})
  /\ \A S : "input" \in S => Graphics \subseteq Later(S)
  BY DEF Earlier, Later, Graphics

(* Where and in which stage issued work executes.                          *)
LEMMA IssuedPlace ==
  ASSUME TypeOK, Formed, NEW e \in issued
  PROVE  /\ e.job.node \in Nodes /\ WaveAt(e) \in Nat /\ Base(WaveAt(e)) \in Nat /\ Size \in Nat
         /\ e.at \in Nat /\ Base(WaveAt(e)) + 1 <= e.at /\ e.at <= Base(WaveAt(e)) + 6 * Size + 3
         /\ WaveAt(e) \in submitted \/ host = e.job.node
  <1>1. e.job.node \in Nodes /\ (IsCommand(e) \/ IsDownload(e) \/ IsUpload(e))
    BY DEF Formed
  <1>2. WaveAt(e) \in Nat /\ Base(WaveAt(e)) \in Nat /\ Size \in Nat
    BY <1>1, WaveNumbers, BaseNumbers, NodeNumbers DEF WaveAt
  <1> USE DEF WaveAt
  <1>3. CASE IsCommand(e)
    BY <1>1, <1>2, <1>3, Places DEF IsCommand
  <1>4. CASE IsDownload(e)
    BY <1>1, <1>2, <1>4 DEF IsDownload
  <1>5. CASE IsUpload(e)
    BY <1>1, <1>2, <1>5 DEF IsUpload
  <1> QED BY <1>1, <1>2, <1>3, <1>4, <1>5

LEMMA JobStages ==
  ASSUME TypeOK, NEW i \in Nodes, NEW job \in Jobs(i)
  PROVE  /\ Kind(i) \in Kinds
         /\ job.node = i
         /\ Kind(i) = "render" => job.stage \in Graphics
         /\ Kind(i) = "dispatch" => job.stage = "compute"
         /\ Kind(i) \notin {"render", "dispatch"} => job.stage = "transfer"
  <1>1. Kind(i) \in Kinds
    BY TaskGraphAssumption DEF TypeOK, Nodes, Kind
  <1>2. CASE Kind(i) = "render"
    <2>1. Jobs(i) = {Job(i, s, Accesses) : s \in Graphics}
      BY <1>2 DEF Jobs
    <2> QED BY <1>1, <1>2, <2>1 DEF Job
  <1>3. CASE Kind(i) = "dispatch"
    <2>1. Jobs(i) = {Job(i, "compute", Accesses)}
      BY <1>3 DEF Jobs
    <2> QED BY <1>1, <1>3, <2>1 DEF Job
  <1>4. CASE Kind(i) \notin {"render", "dispatch"}
    <2>1. Jobs(i) = {Job(i, "transfer", Accesses)}
      BY <1>4 DEF Jobs
    <2> QED BY <1>1, <1>4, <2>1 DEF Job
  <1> QED BY <1>1, <1>2, <1>3, <1>4

LEMMA HostJobs ==
  ASSUME NEW i
  PROVE  /\ Download(i).node = i /\ Download(i).stage = "transfer"
         /\ Upload(i).node = i /\ Upload(i).stage = "transfer"
         /\ Download(i) # Upload(i)
         /\ Download(i).accesses = {"read", "update"}
  <1>1. "read" \in {"read", "update"} /\ "read" \notin {"write", "update"}
    OBVIOUS
  <1>2. Download(i).accesses # Upload(i).accesses
    BY <1>1 DEF Download, Upload, Job
  <1> QED BY <1>2 DEF Download, Upload, Job

(* The stages a wave barrier names for an access include that of the job   *)
(* that makes it, except reads by the shaders of a render pass.            *)
LEMMA AccessStage ==
  ASSUME TypeOK, NEW i \in Nodes, NEW job, NEW u, NEW q,
         job \in Jobs(i) \/ (Kind(i) = "cpu" /\ job \in {Download(i), Upload(i)}),
         Kind(i) = "render" => q = "graphics",
         u.resource.class # "target", Touches(job, u)
  PROVE  /\ Kind(i) # "render" => job.stage \in StagesOf(i, u, q)
         /\ Writes(u) => job.stage \in StagesOf(i, u, q)
         /\ Kind(i) = "render" => job.stage \in Later(StagesOf(i, u, q))
  <1>1. CASE Kind(i) = "render"
    <2>1. job \in Jobs(i) /\ job.node = i /\ job.stage \in Graphics /\ q = "graphics"
      BY <1>1, JobStages
    <2>2. CASE Writes(u)
      <3>1. job.stage \in Graphics /\ StagesOf(i, u, q) = Graphics
        BY <1>1, <2>1, <2>2 DEF StagesOf, Blits, BufferUploads, TextureUploads
      <3> QED BY <1>1, <3>1, StageSets
    <2>3. CASE ~Writes(u)
      <3>1. StagesOf(i, u, q) = {"compute", "input"}
        BY <1>1, <2>3 DEF StagesOf, Blits, BufferUploads, TextureUploads
      <3> QED BY <1>1, <2>1, <2>3, <3>1, StageSets
    <2> QED BY <2>2, <2>3
  <1>2. CASE Kind(i) = "dispatch"
    BY <1>2, JobStages DEF StagesOf, Blits, BufferUploads, TextureUploads
  <1>3. CASE Kind(i) \notin {"render", "dispatch"}
    <2>1. job.stage = "transfer"
      BY <1>3, JobStages, HostJobs
    <2>2. Kind(i) \in Blits \cup {"cpu"}
      BY <1>3, TaskGraphAssumption DEF TypeOK, Nodes, Kind, Kinds
    <2> QED BY <1>3, <2>1, <2>2 DEF StagesOf
  <1> QED BY <1>1, <1>2, <1>3

(* Barriers of an earlier wave's node and of a later wave's are apart.     *)
LEMMA PlacesApart ==
  ASSUME TypeOK, Formed, NEW d \in issued, NEW f \in issued, NEW i \in Nodes, NEW j \in Nodes,
         d.job.node = i, f.job.node = j, Wave(i) < Wave(j)
  PROVE  /\ d.at < Base(Wave(j)) /\ Base(Wave(j)) < f.at
         /\ d.at < PlaceOf(j) - 1 /\ PlaceOf(i) + 1 < f.at /\ PlaceOf(i) + 1 < PlaceOf(j) - 1
  <1>1. /\ WaveAt(d) = Wave(i) /\ WaveAt(f) = Wave(j) /\ Size \in Nat
        /\ Wave(i) \in Nat /\ Wave(j) \in Nat /\ Base(Wave(i)) \in Nat /\ Base(Wave(j)) \in Nat
    BY NodeNumbers, WaveNumbers, BaseNumbers DEF WaveAt
  <1>2. Base(Wave(i)) + 6 * Size + 9 <= Base(Wave(j))
    BY <1>1, BaseOrder
  <1>3. /\ d.at \in Nat /\ d.at <= Base(Wave(i)) + 6 * Size + 3
        /\ f.at \in Nat /\ Base(Wave(j)) + 1 <= f.at
    BY <1>1, IssuedPlace
  <1>4. /\ PlaceOf(i) \in Nat /\ PlaceOf(i) <= Base(Wave(i)) + 6 * Size
        /\ PlaceOf(j) \in Nat /\ Base(Wave(j)) + 3 <= PlaceOf(j)
    BY Places
  <1> QED BY <1>1, <1>2, <1>3, <1>4

(* What a wave barrier covers.                                             *)
LEMMA RunsBehindWave ==
  ASSUME TypeOK, Formed, NEW d \in issued, NEW f \in issued, MayRun(f), d.queue = f.queue,
         NEW i \in Nodes, NEW j \in Nodes, d.job.node = i, f.job.node = j, depth[i] < depth[j],
         NEW u \in Uses(i), NEW v \in Uses(j), Conflict(u, v), u.resource.class \in Covering,
         d.job.stage \in StagesOf(i, u, f.queue),
         f.job.stage \in Later(StagesOf(j, v, f.queue)),
         IsCommand(f) \/ (IsDownload(f) /\ v.access \in {"read", "update"})
  PROVE  d \in ran
  <1> DEFINE k == KeyOf(u.resource)
             q == f.queue
             s == Source(Wave(j), k, q)
             t == Target(Wave(j), k, q)
  <1>1. /\ k \in Keys(Wave(j)) /\ k = KeyOf(v.resource)
        /\ StagesOf(i, u, q) \subseteq s /\ StagesOf(j, v, q) \subseteq t
        /\ Barrier(q, Base(Wave(j)), s, t) \in WaveBarriers(Wave(j), q)
    BY WaveBarrier
  <1> HIDE DEF k, s, t
  <1>2. d.job.stage \in Earlier(s)
    BY <1>1, StageSets DEF q
  <1>3. d.at < Base(Wave(j)) /\ Base(Wave(j)) < f.at
    BY DeeperWave, PlacesApart
  <1>4. CASE IsCommand(f)
    <2> DEFINE b == Barrier(q, Base(Wave(j)), s, t)
    <2>1. b \in barriers
      BY <1>1, <1>4 DEF IsCommand, q
    <2>2. b.queue = q /\ b.at = Base(Wave(j)) /\ b.src = s /\ b.dst = t
      BY BarrierFields
    <2>3. f.job.stage \in Later(t)
      BY <1>1 DEF Later, q
    <2> HIDE DEF b
    <2> QED BY <1>2, <1>3, <2>1, <2>2, <2>3, ThroughOne DEF q
  <1>5. CASE IsDownload(f) /\ v.access \in {"read", "update"}
    <2> DEFINE b == Barrier("compute", Base(Wave(j)), Source(Wave(j), k, "compute"), {"transfer"})
    <2>1. q = "compute" /\ f.job = Download(j)
      BY <1>5 DEF IsDownload, q
    <2>2. k \in Copied(j, {"read", "update"})
      BY <1>1, <1>5 DEF Copied
    <2>3. b \in barriers
      BY <1>1, <1>5, <2>2 DEF IsDownload
    <2>4. b.queue = "compute" /\ b.at = Base(Wave(j)) /\ b.src = s /\ b.dst = {"transfer"}
      BY <2>1, BarrierFields DEF s
    <2>5. f.job.stage \in Later({"transfer"})
      BY <2>1, HostJobs, StageSets
    <2> HIDE DEF b
    <2>6. b.queue = f.queue /\ d.queue = b.queue /\ b.at < f.at /\ d.at < b.at
      BY <1>3, <2>1, <2>4 DEF q
    <2>7. f.job.stage \in Later(b.dst) /\ d.job.stage \in Earlier(b.src)
      BY <1>2, <2>4, <2>5
    <2> QED BY <2>3, <2>6, <2>7, ThroughOne
  <1> QED BY <1>4, <1>5

(* A render pass is followed by a barrier and preceded by one.             *)
LEMMA RunsBehindRender ==
  ASSUME TypeOK, Formed, NEW d \in issued, NEW f \in issued, MayRun(f), d.queue = f.queue,
         NEW i \in Nodes, NEW j \in Nodes, d.job.node = i, f.job.node = j, depth[i] < depth[j],
         Kind(i) = "render", IsCommand(d), IsCommand(f),
         f.job.stage # "input"
  PROVE  d \in ran
  <1> DEFINE q == f.queue
             a == Barrier(q, PlaceOf(i) + 1, {"output"}, {"compute", "transfer"})
             b == Barrier(q, PlaceOf(j) - 1, {"compute", "transfer"}, {"shade", "output"})
  <1>1. a \in barriers
    <2>1. a \in OwnBarriers(i, q)
      BY DEF OwnBarriers
    <2> HIDE DEF a
    <2> QED BY <2>1 DEF IsCommand
  <1>2. a.queue = q /\ a.at = PlaceOf(i) + 1 /\ a.src = {"output"} /\ a.dst = {"compute", "transfer"}
    BY BarrierFields
  <1>3. b.queue = q /\ b.at = PlaceOf(j) - 1 /\ b.src = {"compute", "transfer"} /\ b.dst = {"shade", "output"}
    BY BarrierFields
  <1>4. Kind(j) = "render" => b \in barriers
    <2>1. Kind(j) = "render" => b \in OwnBarriers(j, q)
      BY DEF OwnBarriers
    <2> HIDE DEF b
    <2> QED BY <2>1 DEF IsCommand
  <1> HIDE DEF a, b
  <1>5. d.job.stage \in Earlier(a.src)
    <2>1. d.job.stage \in Graphics
      BY JobStages DEF IsCommand
    <2> QED BY <1>2, <2>1, StageSets
  <1>6. d.at = PlaceOf(i) /\ PlaceOf(i) \in Nat /\ d.at < a.at
    BY <1>2, Places DEF IsCommand
  <1>7. PlaceOf(i) + 1 < f.at /\ PlaceOf(i) + 1 < PlaceOf(j) - 1 /\ f.at = PlaceOf(j) /\ PlaceOf(j) \in Nat
    BY DeeperWave, PlacesApart, Places DEF IsCommand
  <1>8. f.job \in Jobs(j)
    BY DEF IsCommand
  <1>9. CASE Kind(j) # "render"
    <2>1. f.job.stage \in {"compute", "transfer"}
      BY <1>8, <1>9, JobStages
    <2>2. f.job.stage \in Later(a.dst)
      BY <1>2, <2>1, StageSets
    <2> QED BY <1>1, <1>2, <1>5, <1>6, <1>7, <2>2, ThroughOne
  <1>10. CASE Kind(j) = "render"
    <2>1. f.job.stage \in {"shade", "output"}
      BY <1>8, <1>10, JobStages DEF Graphics
    <2>2. f.job.stage \in Later(b.dst)
      BY <1>3, <2>1, StageSets
    <2>3. b.at < f.at
      BY <1>3, <1>7
    <2>4. Feeds(a, b)
      <3>1. "compute" \in Later(a.dst) /\ "compute" \in Earlier(b.src)
        BY <1>2, <1>3, StageSets
      <3> QED BY <1>2, <1>3, <1>7, <3>1 DEF Feeds
    <2> QED BY <1>1, <1>2, <1>3, <1>4, <1>5, <1>6, <1>10, <2>2, <2>3, <2>4, ThroughTwo
  <1> QED BY <1>9, <1>10

(* ... and so is a resolve.                                                *)
LEMMA RunsBehindResolve ==
  ASSUME TypeOK, Formed, NEW d \in issued, NEW f \in issued, MayRun(f), d.queue = f.queue,
         NEW i \in Nodes, NEW j \in Nodes, d.job.node = i, f.job.node = j, depth[i] < depth[j],
         Kind(i) = "resolve", IsCommand(d), f.job.stage \in AllStages
  PROVE  d \in ran
  <1> DEFINE q == f.queue
             a == Barrier(q, PlaceOf(i) + 1, {"transfer"}, AllStages)
  <1>1. a \in barriers
    <2>1. a \in OwnBarriers(i, q)
      BY DEF OwnBarriers
    <2> HIDE DEF a
    <2> QED BY <2>1 DEF IsCommand
  <1>2. a.queue = q /\ a.at = PlaceOf(i) + 1 /\ a.src = {"transfer"} /\ a.dst = AllStages
    BY BarrierFields
  <1> HIDE DEF a
  <1>3. d.job.stage \in Earlier(a.src)
    BY <1>2, JobStages, StageSets DEF IsCommand
  <1>4. d.at = PlaceOf(i) /\ PlaceOf(i) \in Nat /\ d.at < a.at
    BY <1>2, Places DEF IsCommand
  <1>5. a.at < f.at
    BY <1>2, DeeperWave, PlacesApart
  <1>6. f.job.stage \in Later(a.dst)
    BY <1>2, StageSets
  <1> QED BY <1>1, <1>2, <1>3, <1>4, <1>5, <1>6, ThroughOne

(* What comes before a render pass or a resolve.                           *)
LEMMA RunsBeforeBracket ==
  ASSUME TypeOK, Formed, NEW d \in issued, NEW f \in issued, MayRun(f), d.queue = f.queue,
         NEW i \in Nodes, NEW j \in Nodes, d.job.node = i, f.job.node = j, depth[i] < depth[j],
         IsCommand(f), d.job.stage = "transfer",
         \/ Kind(j) = "render" /\ f.job.stage = "output"
         \/ Kind(j) = "resolve"
  PROVE  d \in ran
  <1> DEFINE q == f.queue
  <1>1. PICK b \in barriers :
          b.queue = q /\ b.at = PlaceOf(j) - 1 /\ "transfer" \in b.src /\ f.job.stage \in b.dst
    <2>1. CASE Kind(j) = "render" /\ f.job.stage = "output"
      <3> DEFINE b == Barrier(q, PlaceOf(j) - 1, {"compute", "transfer"}, {"shade", "output"})
      <3>1. b \in OwnBarriers(j, q)
        BY <2>1 DEF OwnBarriers
      <3>2. b.queue = q /\ b.at = PlaceOf(j) - 1 /\ b.src = {"compute", "transfer"} /\ b.dst = {"shade", "output"}
        BY BarrierFields
      <3> HIDE DEF b
      <3> QED BY <2>1, <3>1, <3>2 DEF IsCommand
    <2>2. CASE Kind(j) = "resolve"
      <3> DEFINE b == Barrier(q, PlaceOf(j) - 1, {"transfer"}, {"transfer"})
      <3>1. b \in OwnBarriers(j, q)
        BY <2>2 DEF OwnBarriers
      <3>2. b.queue = q /\ b.at = PlaceOf(j) - 1 /\ b.src = {"transfer"} /\ b.dst = {"transfer"}
        BY BarrierFields
      <3>3. f.job.stage = "transfer"
        BY <2>2, JobStages DEF IsCommand
      <3> HIDE DEF b
      <3> QED BY <3>1, <3>2, <3>3 DEF IsCommand
    <2> QED BY <2>1, <2>2
  <1>2. d.job.stage \in Earlier(b.src) /\ f.job.stage \in Later(b.dst)
    BY <1>1, StageSets
  <1>3. d.at < b.at /\ b.at < f.at
    BY <1>1, DeeperWave, PlacesApart, Places DEF IsCommand
  <1> QED BY <1>1, <1>2, <1>3, ThroughOne

(* Of the nodes that use a drawable, the earlier one is a resolve, or both *)
(* are copies and the later one is a resolve.                              *)
Bracketed(i, j, u) ==
  u.resource.class = "lease" => Kind(i) = "resolve" \/ (Kind(j) = "resolve" /\ Kind(i) \in Blits)

(* Some natural numbers have a least one.                                  *)
LEMMA LeastNumber ==
  ASSUME NEW S \in SUBSET Nat, S # {}
  PROVE  \E m \in S : \A n \in S : m <= n
  <1> DEFINE T == {0..n : n \in S}
  <1>1. T \subseteq FiniteSubsetsOf(Nat) /\ T # {}
    <2> SUFFICES ASSUME NEW n \in S PROVE 0..n \in FiniteSubsetsOf(Nat)
      OBVIOUS
    <2>1. n \in Nat
      OBVIOUS
    <2>2. IsFiniteSet(0..n)
      BY <2>1, FS_Interval
    <2> QED
      BY <2>1, <2>2 DEF FiniteSubsetsOf
  <1>2. PICK x \in T : \A y \in T : ~(<<y, x>> \in StrictSubsetOrdering(Nat))
    <2> HIDE DEF T
    <2> QED
      BY <1>1, FS_StrictSubsetOrderingWellFounded, WFMin
  <1>3. PICK m \in S : x = 0..m
    OBVIOUS
  <1>4. \A n \in S : m <= n
    <2> SUFFICES ASSUME NEW n \in S, n < m PROVE FALSE
      OBVIOUS
    <2>1. n \in Nat /\ m \in Nat
      OBVIOUS
    <2>2. 0..n \subseteq 0..m /\ m \notin 0..n /\ m \in 0..m
      BY <2>1
    <2>3. <<0..n, x>> \in StrictSubsetOrdering(Nat)
      BY <1>3, <2>2 DEF StrictSubsetOrdering
    <2> QED
      BY <1>2, <2>3
  <1> QED
    BY <1>4

(* The least wave that is not submitted.                                   *)
LEMMA FirstWave ==
  ASSUME TypeOK, Advanced, phase = "submitting", Nodes # {}
  PROVE  /\ First \in Waves /\ First \notin submitted /\ First \in Nat
         /\ \A w \in Waves \ submitted : First <= w
         /\ \A w \in Waves : w < First => w \in submitted
         /\ \A w \in submitted : w < First
  <1>1. Waves \in SUBSET Nat
    BY WaveNumbers DEF Waves
  <1>2. Waves \ submitted # {}
    BY DEF Advanced, Waves
  <1>3. \E m \in Waves \ submitted : \A n \in Waves \ submitted : m <= n
    BY <1>1, <1>2, LeastNumber
  <1>4. First \in Waves \ submitted /\ \A n \in Waves \ submitted : First <= n
    BY <1>3 DEF First, Min
  <1>5. ASSUME NEW w \in submitted PROVE w < First
    <2>1. w \in Waves /\ w \in Nat /\ First \in Nat /\ w # First
      BY <1>1, <1>4 DEF Advanced
    <2>2. ~(First < w)
      BY <1>4 DEF Advanced
    <2> QED BY <2>1, <2>2
  <1>6. ASSUME NEW w \in Waves, w < First PROVE w \in submitted
    BY <1>1, <1>4, <1>6
  <1> QED BY <1>1, <1>4, <1>5, <1>6

(* All of the waves before one that is issued are submitted.               *)
LEMMA EarlierIsSubmitted ==
  ASSUME TypeOK, Advanced, Formed, NEW f \in issued, NEW i \in Nodes, Wave(i) < WaveAt(f)
  PROVE  Wave(i) \in submitted
  <1>1. f.job.node \in Nodes /\ (WaveAt(f) \in submitted \/ host = f.job.node)
    BY IssuedPlace
  <1>2. Wave(i) \in Waves
    BY DEF Waves
  <1>3. CASE WaveAt(f) \in submitted
    BY <1>2, <1>3 DEF Advanced
  <1>4. CASE host = f.job.node
    <2>1. host # 0
      BY <1>1, <1>4, NodeNumbers
    <2>2. phase = "submitting" /\ WaveAt(f) = First
      BY <1>4, <2>1 DEF Advanced, WaveAt
    <2> QED BY <1>1, <1>2, <2>2, FirstWave
  <1> QED BY <1>1, <1>3, <1>4

LEMMA RunsInOrder ==
  ASSUME SubmissionOrder, NEW d \in issued, NEW f \in issued, MayRun(f),
         NEW i \in Nodes, NEW j \in Nodes, d.job.node = i, f.job.node = j, i < j,
         NEW u \in Uses(i), NEW v \in Uses(j), Conflict(u, v), Bracketed(i, j, u),
         Touches(d.job, u), Touches(f.job, v)
  PROVE  d \in ran
  <1> USE DEF SubmissionOrder
  <1>1. Going
    BY DEF Accepted
  <1>2. depth[i] < depth[j] /\ Wave(i) < Wave(j) /\ WaveAt(d) = Wave(i) /\ WaveAt(f) = Wave(j)
    BY <1>1, ConflictsAreLayered DEF WaveAt
  <1>3. /\ u.resource.class \in {"buffer", "slot", "texture", "target", "lease"}
        /\ u.resource.class = "target" =>
             /\ Kind(i) = IF u.access = "read" THEN "resolve" ELSE "render"
             /\ Kind(j) = IF v.access = "read" THEN "resolve" ELSE "render"
        /\ v.resource.class = u.resource.class
    <2>1. v.resource.class = u.resource.class
      BY DEF Conflict, Aliases
    <2> QED BY <1>1, <2>1, LoweredUses
  <1>4. /\ IsCommand(d) \/ IsDownload(d) \/ IsUpload(d)
        /\ IsCommand(f) \/ IsDownload(f) \/ IsUpload(f)
    BY DEF Formed
  <1>5. CASE d.queue # f.queue
    BY <1>2, <1>5 DEF QueuesWait, MayRun
  <1>6. CASE IsUpload(f)
    <2>1. Kind(j) = "cpu" /\ Wave(j) \in submitted
      BY <1>6 DEF IsUpload
    <2> QED BY <1>2, <2>1 DEF HostWaited
  <1>7. CASE IsDownload(d)
    <2>1. Kind(i) = "cpu" /\ d.job = Download(i)
      BY <1>7 DEF IsDownload
    <2>2. Wave(i) \in submitted
      BY <1>2, EarlierIsSubmitted
    <2> QED BY <2>1, <2>2 DEF HostWaited
  <1>8. CASE /\ d.queue = f.queue
             /\ IsCommand(d) \/ IsUpload(d)
             /\ IsCommand(f) \/ IsDownload(f)
    <2>1. /\ IsCommand(d) => d.job \in Jobs(i)
          /\ IsUpload(d) => Kind(i) = "cpu" /\ d.job = Upload(i)
          /\ IsCommand(f) => f.job \in Jobs(j)
          /\ IsDownload(f) => Kind(j) = "cpu" /\ f.job = Download(j) /\ f.queue = "compute"
          /\ Kind(i) = "cpu" <=> IsUpload(d)
          /\ Kind(j) = "cpu" <=> IsDownload(f)
      BY <1>8 DEF IsCommand, IsUpload, IsDownload
    <2>2. /\ Kind(i) = "render" => f.queue = "graphics" /\ IsCommand(d) /\ IsCommand(f)
          /\ Kind(j) = "render" => f.queue = "graphics" /\ IsCommand(f)
      BY <1>8, <2>1 DEF IsCommand, IsDownload
    <2>3. IsDownload(f) => v.access \in {"read", "update"}
      BY <2>1, HostJobs DEF Touches
    <2>4. Kind(i) \in Kinds /\ Kind(j) \in Kinds
      BY TaskGraphAssumption DEF TypeOK, Nodes, Kind
    <2>5. /\ d.job \in Jobs(i) \/ (Kind(i) = "cpu" /\ d.job \in {Download(i), Upload(i)})
          /\ f.job \in Jobs(j) \/ (Kind(j) = "cpu" /\ f.job \in {Download(j), Upload(j)})
      BY <1>8, <2>1
    <2>6. CASE Kind(i) = "render" /\ f.job.stage # "input"
      BY <1>2, <1>8, <2>2, <2>6, RunsBehindRender
    <2>7. CASE Kind(i) = "resolve" /\ u.resource.class \notin Covering
      <3>1. f.job.stage \in AllStages
        BY <2>4, <2>5, JobStages, HostJobs DEF AllStages, Graphics
      <3>2. IsCommand(d)
        BY <1>8, <2>1, <2>7
      <3> QED BY <1>2, <1>8, <2>7, <3>1, <3>2, RunsBehindResolve
    <2>8. CASE u.resource.class \in Covering /\ (Kind(i) = "render" => f.job.stage = "input")
      <3>1. v.resource.class # "target" /\ u.resource.class # "target"
        BY <1>3, <2>8 DEF Covering
      <3>2. d.job.stage \in StagesOf(i, u, f.queue)
        <4>1. CASE Kind(i) # "render"
          BY <2>2, <2>5, <3>1, <4>1, AccessStage
        <4>2. CASE Kind(i) = "render"
          <5>1. f.job.stage = "input" /\ f.job.stage \notin {"transfer", "compute", "shade"}
            BY <2>8, <4>2
          <5>2. Kind(j) = "render"
            BY <2>5, <5>1, JobStages, HostJobs
          <5>3. ~Writes(v)
            BY <3>1, <5>1, <5>2 DEF Touches
          <5>4. Writes(u)
            BY <5>3 DEF Conflict
          <5> QED BY <2>2, <2>5, <3>1, <5>4, AccessStage
        <4> QED BY <4>1, <4>2
      <3>3. f.job.stage \in Later(StagesOf(j, v, f.queue))
        BY <2>2, <2>5, <3>1, AccessStage, StageSets
      <3> QED BY <1>2, <1>8, <2>3, <2>8, <3>2, <3>3, RunsBehindWave
    <2>9. CASE u.resource.class = "target" /\ Kind(i) # "resolve" /\ f.job.stage = "input"
      <3>1. Kind(j) = "render"
        BY <2>5, <2>9, JobStages, HostJobs
      <3> QED BY <1>3, <2>9, <3>1 DEF Touches
    <2>10. CASE u.resource.class = "lease" /\ Kind(i) # "resolve"
      <3>1. Kind(j) = "resolve" /\ Kind(i) \in Blits
        BY <2>10 DEF Bracketed
      <3>2. IsCommand(f) /\ d.job.stage = "transfer"
        BY <1>8, <2>1, <2>5, <3>1, JobStages, HostJobs DEF Blits, BufferUploads, TextureUploads
      <3> QED BY <1>2, <1>8, <3>1, <3>2, RunsBeforeBracket
    <2> QED BY <1>3, <2>6, <2>7, <2>8, <2>9, <2>10 DEF Covering
  <1> QED BY <1>4, <1>5, <1>6, <1>7, <1>8

(* ... and so whatever conflicts with running work has run.                *)
LEMMA EarlierJobsHaveRun ==
  ASSUME SubmissionOrder, NEW f \in issued, MayRun(f),
         NEW i \in Nodes, i < f.job.node, NEW u \in Uses(i), NEW v \in Uses(f.job.node),
         Conflict(u, v), Bracketed(i, f.job.node, u), Touches(f.job, v),
         NEW e \in JobsOf(i), Touches(e, u)
  PROVE  \E d \in ran : d.job = e
  <1> USE DEF SubmissionOrder
  <1>1. f.job.node \in Nodes /\ Going
    BY IssuedPlace DEF Accepted
  <1>2. Wave(i) < WaveAt(f)
    BY <1>1, ConflictsAreLayered DEF WaveAt
  <1>3. Wave(i) \in submitted
    BY <1>2, EarlierIsSubmitted
  <1>4. PICK d \in issued : d.job = e
    BY <1>3 DEF Covered
  <1>5. e.node = i
    <2>1. CASE Kind(i) = "cpu"
      BY <2>1, HostJobs DEF JobsOf
    <2>2. CASE Kind(i) # "cpu"
      BY <2>2, JobStages DEF JobsOf
    <2> QED BY <2>1, <2>2
  <1>6. d \in ran
    BY <1>1, <1>4, <1>5, RunsInOrder
  <1> QED BY <1>4, <1>6

-----------------------------------------------------------------------------
(* Steps of a submit keep that order.                                      *)
LEMMA SubmissionInit ==
  ASSUME Init
  PROVE  SubmissionOrder
  <1>1. TypeOK
    BY TypesInit
  <1>2. /\ phase = "ordering" /\ issued = {} /\ barriers = {} /\ submitted = {} /\ host = 0 /\ ran = {}
    BY DEF Init
  <1> QED BY <1>1, <1>2 DEF SubmissionOrder, Accepted, Going, Advanced, Formed, Covered, Once,
                            HostWaited, QueuesWait

LEMMA PlanningKeepsSubmission ==
  ASSUME SubmissionOrder, TypeOK',
         (\E i \in Nodes : Visit(i)) \/ Plan \/ (\E t \in Temporaries : Place(t)) \/ Lowered \/ Refuse
  PROVE  SubmissionOrder'
  <1>1. /\ ~Going /\ ~Going' /\ UNCHANGED <<graph, submitted, host, issued, barriers, ran>>
        /\ phase' = "checking" => phase = "checking" \/ Unplaced = {}
        /\ phase' = "checking" => slotOf' = slotOf
    BY DEF Visit, Plan, Place, Lowered, Refuse, Going, planVars, gpuVars
  <1>2. issued' = {} /\ barriers' = {} /\ submitted' = {} /\ host' = 0
    BY <1>1 DEF SubmissionOrder, Accepted
  <1>3. Accepted'
    <2>1. \A t \in Temporaries : Binding(t)' = Binding(t)
      BY <1>1 DEF Binding, Nodes
    <2>2. ASSUME phase' = "checking", NEW t \in Temporaries, Binding(t) # {}
          PROVE  slotOf'[t] # 0
      BY <1>1, <2>2 DEF SubmissionOrder, Accepted, Unplaced
    <2> QED BY <1>1, <1>2, <2>1, <2>2 DEF Accepted, Temporaries
  <1>4. phase' # "submitting"
    BY <1>1 DEF Going
  <1>5. Advanced' /\ Formed' /\ Covered' /\ Once' /\ HostWaited' /\ QueuesWait'
    BY <1>2, <1>4 DEF Advanced, Formed, Covered, Once, HostWaited, QueuesWait
  <1> QED BY <1>3, <1>5 DEF SubmissionOrder

LEMMA AcceptKeepsSubmission ==
  ASSUME SubmissionOrder, ScheduleOrder, TypeOK', Accept
  PROVE  SubmissionOrder'
  <1>1. /\ phase = "checking" /\ phase' = "submitting" /\ visited = Nodes /\ cuts' = Cuts
        /\ UNCHANGED <<graph, depth, slotOf, submitted, host, issued, barriers, ran>>
    BY DEF Accept, gpuVars
  <1>2. issued' = {} /\ barriers' = {} /\ submitted' = {} /\ host' = 0
    BY <1>1 DEF SubmissionOrder, Accepted, Going
  <1>3. /\ Nodes' = Nodes /\ Waves' = Waves /\ \A w, kind : Has(w, kind)' <=> Has(w, kind)
    BY <1>1, SameNodes, SameWork
  <1>4. Accepted'
    <2>1. \A t \in Temporaries : Binding(t)' = Binding(t)
      BY <1>1 DEF Binding, Nodes
    <2>2. ASSUME NEW t \in Temporaries, Binding(t) # {} PROVE slotOf'[t] # 0
      BY <1>1, <2>2 DEF SubmissionOrder, Accepted
    <2>3. ASSUME NEW i \in Nodes, NEW j \in Nodes, Depends(i, j)' PROVE depth'[i] < depth'[j]
      <3>1. Depends(i, j)
        BY <1>1, <2>3, SameOrders
      <3> QED BY <1>1, <3>1 DEF ScheduleOrder, TraversalOrder
    <2>4. ASSUME NEW w \in Waves, Has(w, "cpu") PROVE w \in Cuts
      BY <2>4 DEF Cuts, OpensLogical
    <2>5. Going'
      BY <1>1 DEF Going
    <2>6. Cuts \subseteq Waves
      BY DEF Cuts
    <2> QED BY <1>1, <1>2, <1>3, <2>1, <2>2, <2>3, <2>4, <2>5, <2>6 DEF Accepted, Temporaries
  <1>5. Advanced' /\ Formed' /\ Covered' /\ Once' /\ HostWaited' /\ QueuesWait'
    <2>1. Advanced'
      BY <1>2 DEF Advanced
    <2> QED BY <1>2, <2>1 DEF Formed, Covered, Once, HostWaited, QueuesWait
  <1> QED BY <1>4, <1>5 DEF SubmissionOrder

(* What is issued keeps its form.                                          *)
LEMMA FormKept ==
  ASSUME UNCHANGED <<graph, depth, slotOf>>, NEW e, e.job.node \in Nodes,
         submitted \subseteq submitted', barriers \subseteq barriers',
         host = e.job.node => host' = host \/ Wave(host) \in submitted'
  PROVE  /\ e.job.node \in Nodes' /\ WaveAt(e)' = WaveAt(e)
         /\ IsCommand(e) => IsCommand(e)'
         /\ IsDownload(e) => IsDownload(e)'
         /\ IsUpload(e) => IsUpload(e)'
  <1> DEFINE i == e.job.node
  <1>1. /\ Nodes' = Nodes /\ Kind(i)' = Kind(i) /\ Wave(i)' = Wave(i) /\ PlaceOf(i)' = PlaceOf(i)
        /\ Base(Wave(i))' = Base(Wave(i))
    <2>1. \A w : Base(w)' = Base(w)
      BY SameNodes
    <2>2. Wave(i)' = Wave(i)
      BY SameNodes
    <2> QED BY <2>1, <2>2, SameNodes
  <1>2. WaveAt(e)' = WaveAt(e)
    BY <1>1 DEF WaveAt
  <1>3. Jobs(i)' = Jobs(i) /\ OwnBarriers(i, e.queue)' = OwnBarriers(i, e.queue)
    BY SameWork
  <1>4. WaveBarriers(Wave(i), e.queue)' = WaveBarriers(Wave(i), e.queue)
    <2>1. \A w : WaveBarriers(w, e.queue)' = WaveBarriers(w, e.queue)
      BY SameBarriers
    <2> QED BY <1>1, <2>1
  <1>5. IsCommand(e) => IsCommand(e)'
    BY <1>1, <1>3, <1>4 DEF IsCommand
  <1>6. /\ Keys(Wave(i))' = Keys(Wave(i))
        /\ \A k : Source(Wave(i), k, "compute")' = Source(Wave(i), k, "compute")
        /\ Copied(i, {"read", "update"})' = Copied(i, {"read", "update"})
    <2>1. \A w, k : Keys(w)' = Keys(w) /\ Source(w, k, "compute")' = Source(w, k, "compute")
      BY SameBarriers
    <2> QED BY <1>1, <2>1, SameWork
  <1>7. IsDownload(e) => IsDownload(e)'
    BY <1>1, <1>6 DEF IsDownload, Download, Job
  <1>8. IsUpload(e) => IsUpload(e)'
    BY <1>1 DEF IsUpload, Upload, Job
  <1> QED BY <1>1, <1>2, <1>5, <1>7, <1>8

(* The accepted plan stays accepted.                                       *)
LEMMA AcceptedKept ==
  ASSUME Accepted, Going, Going', UNCHANGED <<graph, depth, slotOf, cuts>>
  PROVE  Accepted'
  <1>1. /\ Nodes' = Nodes /\ Waves' = Waves /\ \A w, kind : Has(w, kind)' <=> Has(w, kind)
        /\ \A i, j \in Nodes : Depends(i, j)' <=> Depends(i, j)
        /\ \A t \in Temporaries : Binding(t)' = Binding(t)
    BY SameNodes, SameWork, SameOrders DEF Binding, Nodes
  <1> QED BY <1>1 DEF Accepted, Temporaries

(* Work issued behind all that is submitted keeps the order.               *)
LEMMA IssueKeepsOrder ==
  ASSUME SubmissionOrder, phase = "submitting", Nodes # {},
         UNCHANGED <<graph, depth, slotOf, ran>>,
         NEW New, NEW q, issued' = issued \cup New,
         \A f \in New : /\ f.job.node \in Nodes /\ First <= WaveAt(f)
                        /\ f.queue = q /\ f.start = Base(First),
         \A d, f \in New : d.job = f.job => d = f,
         host # 0 => q = "compute" /\ \A f \in New : f.job = Upload(host),
         \A i \in Nodes : Kind(i) = "cpu" /\ Wave(i) \in submitted' /\ Wave(i) \notin submitted =>
           issued = ran /\ Wave(i) = First /\ \A f \in New : f.job # Download(i)
  PROVE  Once' /\ HostWaited' /\ QueuesWait'
  <1> USE DEF SubmissionOrder
  <1>1. /\ First \in Nat
        /\ \A w \in submitted : w < First
    BY FirstWave
  <1>2. ASSUME NEW f \in New PROVE f.job.node \in Nodes /\ WaveAt(f) \in Nat
    BY WaveNumbers DEF WaveAt
  <1>3. ASSUME NEW d \in issued
        PROVE  /\ WaveAt(d) \in Nat /\ d.job.node \in Nodes
               /\ \/ WaveAt(d) \in submitted /\ WaveAt(d) < First
                  \/ /\ host # 0 /\ d.job.node = host /\ WaveAt(d) = First
                     /\ d.queue = "compute" /\ d.job = Download(host)
    <2>1. /\ WaveAt(d) \in Nat /\ d.job.node \in Nodes
          /\ WaveAt(d) \in submitted \/ host = d.job.node
      BY IssuedPlace
    <2>2. CASE WaveAt(d) \in submitted
      BY <1>1, <2>1, <2>2
    <2>3. CASE WaveAt(d) \notin submitted
      <3>1. host # 0 /\ d.job.node = host
        BY <2>1, <2>3, NodeNumbers
      <3>2. WaveAt(d) = First
        BY <3>1 DEF Advanced, WaveAt
      <3>3. IsDownload(d)
        BY <2>3 DEF Formed, IsCommand, IsUpload, WaveAt
      <3> QED BY <2>1, <3>1, <3>2, <3>3 DEF IsDownload
    <2> QED BY <2>2, <2>3
  <1>4. \A e : WaveAt(e)' = WaveAt(e)
    BY SameNodes DEF WaveAt
  <1>5. Once'
    <2>1. ASSUME NEW d \in issued, NEW f \in New PROVE d.job # f.job
      <3>1. WaveAt(d) < First \/ (host # 0 /\ d.job = Download(host))
        BY <1>3
      <3>2. CASE WaveAt(d) < First
        <4>1. WaveAt(d) # WaveAt(f)
          BY <1>1, <1>2, <1>3, <3>2
        <4> QED BY <4>1 DEF WaveAt
      <3>3. CASE host # 0 /\ d.job = Download(host)
        BY <3>3, HostJobs
      <3> QED BY <3>1, <3>2, <3>3
    <2>2. \A d, f \in issued : d.job = f.job => d = f
      BY DEF Once
    <2> QED BY <2>1, <2>2 DEF Once
  <1>6. HostWaited'
    <2>1. SUFFICES ASSUME NEW i \in Nodes, Kind(i) = "cpu", Wave(i) \in submitted',
                          NEW e \in issued', WaveAt(e) < Wave(i) \/ e.job = Download(i)
                   PROVE  e \in ran
      <3>1. /\ Nodes' = Nodes /\ \A i : Kind(i)' = Kind(i) /\ Wave(i)' = Wave(i)
            /\ \A i : Download(i)' = Download(i)
        BY SameNodes DEF Download, Job
      <3> QED BY <1>4, <3>1 DEF HostWaited
    <2>2. Wave(i) \in Nat
      BY WaveNumbers
    <2>3. CASE Wave(i) \in submitted
      <3>1. Wave(i) < First
        BY <1>1, <2>3
      <3>2. e \notin New
        <4>1. CASE e.job = Download(i)
          <5>1. WaveAt(e) = Wave(i)
            BY <4>1, HostJobs DEF WaveAt
          <5> QED BY <1>1, <1>2, <2>2, <3>1, <5>1
        <4>2. CASE WaveAt(e) < Wave(i)
          BY <1>1, <1>2, <2>2, <3>1, <4>2
        <4> QED BY <2>1, <4>1, <4>2
      <3>3. e \in issued
        BY <3>2
      <3> QED BY <2>1, <2>3, <3>3 DEF HostWaited
    <2>4. CASE Wave(i) \notin submitted
      <3>1. issued = ran /\ Wave(i) = First /\ \A f \in New : f.job # Download(i)
        BY <2>1, <2>4
      <3>2. e \notin New
        <4>1. ASSUME e \in New PROVE First <= WaveAt(e) /\ WaveAt(e) \in Nat
          BY <1>2, <4>1
        <4> QED BY <1>1, <2>1, <3>1, <4>1
      <3> QED BY <3>1, <3>2
    <2> QED BY <2>3, <2>4
  <1>7. QueuesWait'
    <2>1. SUFFICES ASSUME NEW d \in issued', NEW f \in issued',
                          WaveAt(d) < WaveAt(f), d.queue # f.queue
                   PROVE  d.at < f.start
      BY <1>4 DEF QueuesWait
    <2>2. CASE d \in issued /\ f \in issued
      BY <2>1, <2>2 DEF QueuesWait
    <2>3. CASE d \in New /\ f \in New
      BY <2>1, <2>3
    <2>4. CASE d \in New /\ f \in issued
      <3>1. WaveAt(f) \in Nat /\ WaveAt(d) \in Nat /\ WaveAt(f) <= First /\ First <= WaveAt(d)
        BY <1>1, <1>2, <1>3, <2>4
      <3> QED BY <1>1, <2>1, <3>1
    <2>5. CASE d \in issued /\ f \in New
      <3>1. f.queue = q /\ f.start = Base(First)
        BY <2>5
      <3>2. WaveAt(d) < First
        BY <1>3, <2>1, <2>5, <3>1
      <3>3. /\ Base(WaveAt(d)) \in Nat /\ Size \in Nat /\ d.at \in Nat /\ WaveAt(d) \in Nat
            /\ d.at <= Base(WaveAt(d)) + 6 * Size + 3
        BY <2>5, IssuedPlace
      <3>4. Base(WaveAt(d)) + 6 * Size + 9 <= Base(First)
        BY <1>1, <3>2, <3>3, BaseOrder
      <3>5. Base(First) \in Nat
        BY <1>1, BaseNumbers
      <3> QED BY <3>1, <3>3, <3>4, <3>5
    <2> QED BY <2>2, <2>3, <2>4, <2>5
  <1> QED BY <1>5, <1>6, <1>7

LEMMA FormsKept ==
  ASSUME TypeOK, Formed, UNCHANGED <<graph, depth, slotOf>>,
         submitted \subseteq submitted', barriers \subseteq barriers',
         host = 0 \/ host' = host \/ Wave(host) \in submitted',
         NEW New, issued' = issued \cup New,
         \A f \in New : f.job.node \in Nodes /\ (IsCommand(f)' \/ IsDownload(f)' \/ IsUpload(f)')
  PROVE  Formed'
  <1>1. Nodes' = Nodes
    BY SameNodes
  <1>2. ASSUME NEW e \in issued
        PROVE  e.job.node \in Nodes /\ (IsCommand(e)' \/ IsDownload(e)' \/ IsUpload(e)')
    <2>1. e.job.node \in Nodes /\ (IsCommand(e) \/ IsDownload(e) \/ IsUpload(e))
      BY DEF Formed
    <2>2. host = e.job.node => host' = host \/ Wave(host) \in submitted'
      BY <2>1, NodeNumbers
    <2> QED BY <2>1, <2>2, FormKept
  <1> QED BY <1>1, <1>2 DEF Formed

(* What is issued stays issued.                                            *)
LEMMA CoverKept ==
  ASSUME Covered, UNCHANGED <<graph, depth, slotOf>>, issued \subseteq issued',
         \A i \in Nodes : Wave(i) \in submitted' /\ Wave(i) \notin submitted =>
           \A job \in JobsOf(i) : \E e \in issued' : e.job = job,
         host' # 0 => \A job \in JobsOf(host') \ {Upload(host')} : \E e \in issued' : e.job = job
  PROVE  Covered'
  <1>1. /\ Nodes' = Nodes /\ \A i : Wave(i)' = Wave(i) /\ JobsOf(i)' = JobsOf(i)
    BY SameNodes, SameWork
  <1>2. ASSUME NEW i \in Nodes, Wave(i) \in submitted', NEW job \in JobsOf(i)
        PROVE  \E e \in issued' : e.job = job
    BY <1>2 DEF Covered
  <1>3. host' # 0 => JobsOf(host)' = JobsOf(host') /\ Upload(host)' = Upload(host')
    <2>1. Kind(host)' = Kind(host')
      BY DEF Kind
    <2>2. Uses(host)' = Uses(host')
      BY DEF Uses, Lower
    <2>3. \A a : Copied(host, a)' = Copied(host', a)
      BY <2>2 DEF Copied
    <2>4. Upload(host)' = Upload(host') /\ Download(host)' = Download(host')
      BY DEF Upload, Download, Job
    <2>6. Jobs(host)' = Jobs(host')
      BY <2>1 DEF Jobs, Job
    <2> QED BY <2>1, <2>3, <2>4, <2>6 DEF JobsOf
  <1> QED BY <1>1, <1>2, <1>3 DEF Covered

(* The waves of the partition that is submitted next.                      *)
LEMMA PartitionWaves ==
  ASSUME SubmissionOrder, phase = "submitting", Nodes # {}, ~Has(First, "cpu")
  PROVE  LET p == Partition(First) IN
         /\ p \subseteq Waves /\ \A w \in p : w \in Nat /\ First <= w /\ w \notin submitted
         /\ \A v \in Waves, w \in submitted \cup p : v < w => v \in submitted \cup p
         /\ \A w \in p : ~Has(w, "cpu") /\ (Has(w, "render") => Queue(p) = "graphics")
  <1> DEFINE p == Partition(First)
  <1> USE DEF SubmissionOrder
  <1>1. /\ First \in Waves /\ First \in Nat
        /\ \A w \in Waves : w < First => w \in submitted
        /\ \A w \in submitted : w < First
    BY FirstWave
  <1>2. \A w \in p : w \in Waves /\ w >= First /\ \A o \in cuts : First < o => w < o
    BY DEF Partition
  <1>3. \A w \in Waves : w \in Nat
    BY WaveNumbers DEF Waves
  <1>4. ASSUME NEW w \in p PROVE w \in Nat /\ First <= w /\ w \notin submitted
    <2> HIDE DEF p
    <2>1. w \in Nat /\ w >= First
      BY <1>2, <1>3
    <2>2. First <= w /\ ~(w < First)
      BY <1>1, <2>1
    <2> QED BY <1>1, <2>1, <2>2
  <1>5. ASSUME NEW v \in Waves, NEW w \in submitted \cup p, v < w
        PROVE  v \in submitted \cup p
    <2>1. CASE w \in submitted
      BY <1>5, <2>1 DEF Advanced
    <2>2. CASE w \in p /\ v < First
      BY <1>1, <2>2
    <2>3. CASE w \in p /\ ~(v < First)
      <3>1. v >= First
        BY <1>1, <1>3, <2>3
      <3>2. \A o \in cuts : o \in Nat
        BY <1>3 DEF Accepted, Going
      <3>3. \A o \in cuts : First < o => v < o
        BY <1>2, <1>3, <1>5, <2>3, <3>2
      <3> QED BY <3>1, <3>3 DEF Partition
    <2> QED BY <2>1, <2>2, <2>3
  <1>6. ASSUME NEW w \in p PROVE ~Has(w, "cpu")
    <2>1. SUFFICES ASSUME Has(w, "cpu") PROVE FALSE
      OBVIOUS
    <2>2. Going
      BY DEF Going
    <2>3. w \in cuts
      BY <1>2, <2>1, <2>2 DEF Accepted
    <2>4. w # First /\ First <= w /\ w \in Nat
      BY <1>4, <2>1
    <2>5. First < w
      BY <1>1, <2>4
    <2>6. w < w
      BY <1>2, <2>3, <2>5
    <2> QED BY <2>4, <2>6
  <1>7. \A w \in p : Has(w, "render") => Queue(p) = "graphics"
    BY DEF Queue, Renders
  <1> QED BY <1>2, <1>4, <1>5, <1>6, <1>7

LEMMA SubmitKeepsSubmission ==
  ASSUME SubmissionOrder, TypeOK', Submit
  PROVE  SubmissionOrder'
  <1> USE DEF SubmissionOrder
  <1> DEFINE p == Partition(First)
             q == Queue(p)
             N == UNION {Members(w) : w \in p}
             New == UNION {{Issue(j, q, PlaceOf(i), Base(First)) : j \in Jobs(i)} : i \in N}
  <1>1. /\ phase = "submitting" /\ host = 0 /\ host' = 0 /\ ~Has(First, "cpu")
        /\ UNCHANGED <<graph, depth, slotOf, cuts, ran>>
        /\ submitted' = submitted \cup p
        /\ phase' = IF submitted \cup p = Waves THEN "submitted" ELSE phase
        /\ issued' = issued \cup New
        /\ barriers' = barriers \cup (UNION {WaveBarriers(w, q) : w \in p})
                               \cup (UNION {OwnBarriers(i, q) : i \in N})
    BY DEF Submit, Advance, planVars
  <1>2. Nodes' = Nodes /\ Waves' = Waves
    BY <1>1, SameNodes
  <1>3. p \subseteq Waves
    BY DEF Partition
  <1>4. ASSUME Nodes # {}
        PROVE  /\ \A w \in p : w \in Nat /\ First <= w /\ w \notin submitted
               /\ \A v \in Waves, w \in submitted \cup p : v < w => v \in submitted \cup p
               /\ \A w \in p : ~Has(w, "cpu") /\ (Has(w, "render") => q = "graphics")
    BY <1>1, <1>4, PartitionWaves
  <1>5. \A i \in N : i \in Nodes /\ Wave(i) \in p
    BY DEF Members
  <1>6. \A f \in New : \E i \in N : \E j \in Jobs(i) : f = Issue(j, q, PlaceOf(i), Base(First))
    OBVIOUS
  <1>7. ASSUME NEW i \in N, NEW j \in Jobs(i)
        PROVE  Issue(j, q, PlaceOf(i), Base(First)) \in New
    OBVIOUS
  <1>8. /\ submitted \subseteq submitted' /\ barriers \subseteq barriers'
        /\ \A w \in p : WaveBarriers(w, q) \subseteq barriers'
        /\ \A i \in N : OwnBarriers(i, q) \subseteq barriers'
    <2> HIDE DEF p, q, N, New
    <2>1. submitted \subseteq submitted' /\ barriers \subseteq barriers'
      BY <1>1
    <2>2. ASSUME NEW w \in p PROVE WaveBarriers(w, q) \subseteq barriers'
      BY <1>1
    <2>3. ASSUME NEW n \in N PROVE OwnBarriers(n, q) \subseteq barriers'
      <3>1. OwnBarriers(n, q) \in {OwnBarriers(i, q) : i \in N}
        OBVIOUS
      <3>2. UNION {OwnBarriers(i, q) : i \in N} \subseteq barriers'
        BY <1>1
      <3> QED BY <3>1, <3>2
    <2> QED BY <2>1, <2>2, <2>3
  <1>9. \A i \in Nodes : Wave(i) \in p => i \in N
    BY DEF Members
  <1> HIDE DEF p, q, N, New
  <1>10. ASSUME NEW f \in New
         PROVE  /\ f.job.node \in N /\ f.job \in Jobs(f.job.node)
                /\ f = Issue(f.job, q, PlaceOf(f.job.node), Base(First))
                /\ f.queue = q /\ f.at = PlaceOf(f.job.node) /\ f.start = Base(First)
    <2>0. PICK i \in N : \E j \in Jobs(i) : f = Issue(j, q, PlaceOf(i), Base(First))
      BY <1>6
    <2>1. PICK j \in Jobs(i) : f = Issue(j, q, PlaceOf(i), Base(First))
      BY <2>0
    <2>2. j.node = i
      BY <1>5, JobStages
    <2>3. /\ f.job = j /\ f.queue = q /\ f.at = PlaceOf(i) /\ f.start = Base(First)
      BY <2>1 DEF Issue
    <2> QED BY <2>1, <2>2, <2>3
  <1>11. Accepted'
    BY <1>1, AcceptedKept DEF Going
  <1>12. Advanced'
    <2>1. CASE Nodes = {}
      <3>1. Waves = {}
        BY <2>1 DEF Waves
      <3> QED BY <1>1, <1>2, <1>3, <3>1 DEF Advanced
    <2>2. CASE Nodes # {}
      <3>1. submitted' \subseteq Waves
        BY <1>1, <1>3 DEF Advanced
      <3>2. \A v \in Waves, w \in submitted' : v < w => v \in submitted'
        BY <1>1, <1>4, <2>2
      <3> QED BY <1>1, <1>2, <3>1, <3>2 DEF Advanced
    <2> QED BY <2>1, <2>2
  <1>13. ASSUME NEW f \in New PROVE f.job.node \in Nodes /\ IsCommand(f)'
    <2>0. PICK i : i = f.job.node
      OBVIOUS
    <2>1. /\ i \in N /\ i \in Nodes /\ Wave(i) \in p /\ f.job \in Jobs(i) /\ f.queue = q /\ f.at = PlaceOf(i)
      BY <1>5, <1>10, <2>0
    <2>2. Nodes # {}
      BY <2>1
    <2>3. Kind(i) # "cpu" /\ (Kind(i) = "render" => q = "graphics")
      BY <1>4, <2>1, <2>2 DEF Has, Members
    <2>4. /\ Kind(i)' = Kind(i) /\ Wave(i)' = Wave(i) /\ PlaceOf(i)' = PlaceOf(i)
      BY <1>1, SameNodes
    <2>5. Jobs(i)' = Jobs(i) /\ OwnBarriers(i, f.queue)' = OwnBarriers(i, f.queue)
      BY <1>1, SameWork
    <2>6. WaveBarriers(Wave(i), f.queue)' = WaveBarriers(Wave(i), f.queue)
      <3>1. \A w : WaveBarriers(w, f.queue)' = WaveBarriers(w, f.queue)
        BY <1>1, SameBarriers
      <3> QED BY <2>4, <3>1
    <2>7. Wave(i) \in submitted'
      BY <1>1, <2>1
    <2>8. WaveBarriers(Wave(i), f.queue) \subseteq barriers' /\ OwnBarriers(i, f.queue) \subseteq barriers'
      BY <1>8, <2>1
    <2> QED BY <2>0, <2>1, <2>3, <2>4, <2>5, <2>6, <2>7, <2>8 DEF IsCommand
  <1>14. Formed'
    BY <1>1, <1>8, <1>13, FormsKept
  <1>15. Covered'
    <2>1. ASSUME NEW i \in Nodes, Wave(i) \in submitted', Wave(i) \notin submitted, NEW job \in JobsOf(i)
          PROVE  \E e \in issued' : e.job = job
      <3>1. Wave(i) \in p /\ i \in N
        BY <1>1, <1>9, <2>1
      <3>2. Kind(i) # "cpu"
        BY <1>4, <3>1 DEF Has, Members
      <3>3. job \in Jobs(i)
        BY <2>1, <3>2 DEF JobsOf
      <3>4. Issue(job, q, PlaceOf(i), Base(First)) \in issued'
        BY <1>1, <1>7, <3>1, <3>3
      <3> QED BY <3>4 DEF Issue
    <2> QED BY <1>1, <2>1, CoverKept
  <1>16. Once' /\ HostWaited' /\ QueuesWait'
    <2>1. CASE Nodes = {}
      <3>1. issued = {} /\ New = {}
        BY <1>13, <2>1 DEF Formed
      <3>2. issued' = {}
        BY <1>1, <3>1
      <3> QED BY <3>2 DEF Once, HostWaited, QueuesWait
    <2>2. CASE Nodes # {}
      <3>1. \A f \in New : /\ f.job.node \in Nodes /\ First <= WaveAt(f)
                           /\ f.queue = q /\ f.start = Base(First)
        BY <1>4, <1>5, <1>10, <2>2 DEF WaveAt
      <3>2. \A d, f \in New : d.job = f.job => d = f
        BY <1>10
      <3>3. \A i \in Nodes : Kind(i) = "cpu" /\ Wave(i) \in submitted' => Wave(i) \in submitted
        BY <1>1, <1>4, <2>2 DEF Has, Members
      <3> QED BY <1>1, <2>2, <3>1, <3>2, <3>3, IssueKeepsOrder
    <2> QED BY <2>1, <2>2
  <1> QED BY <1>11, <1>12, <1>14, <1>15, <1>16

LEMMA SubmitDownloadKeepsSubmission ==
  ASSUME SubmissionOrder, TypeOK', SubmitDownload
  PROVE  SubmissionOrder'
  <1> USE DEF SubmissionOrder
  <1>1. PICK i : i = CHOOSE n \in Members(First) : TRUE
    OBVIOUS
  <1> DEFINE r == Copied(i, {"read", "update"})
             New == {Issue(j, "compute", Base(First) + 1, Base(First)) :
                       j \in IF r = {} THEN {} ELSE {Download(i)}}
  <1>2. /\ phase = "submitting" /\ phase' = phase /\ host = 0 /\ host' = i /\ Has(First, "cpu")
        /\ UNCHANGED <<graph, depth, slotOf, cuts, ran, submitted>>
        /\ issued' = issued \cup New
        /\ barriers' = barriers \cup
             {Barrier("compute", Base(First), Source(First, k, "compute"), {"transfer"}) :
                k \in Keys(First) \cap r}
    BY <1>1 DEF SubmitDownload, planVars
  <1>3. PICK n \in Nodes : Wave(n) = First /\ Kind(n) = "cpu"
    BY <1>2 DEF Has, Members
  <1>4. /\ i \in Nodes /\ Wave(i) = First /\ Kind(i) = "cpu" /\ i # 0
    <2>1. i \in Members(First)
      BY <1>1, <1>3 DEF Members
    <2>2. i \in Nodes /\ Wave(i) = First
      BY <2>1 DEF Members
    <2>3. i = n
      BY <1>3, <2>2, HostAlone
    <2> QED BY <1>3, <2>2, <2>3, NodeNumbers
  <1>5. /\ \A f \in New : f = Issue(Download(i), "compute", Base(First) + 1, Base(First)) /\ r # {}
        /\ r # {} => Issue(Download(i), "compute", Base(First) + 1, Base(First)) \in New
    OBVIOUS
  <1> HIDE DEF New
  <1>6. ASSUME NEW f \in New
        PROVE  /\ f.job = Download(i) /\ f.job.node = i /\ f.queue = "compute"
               /\ f.at = Base(First) + 1 /\ f.start = Base(First)
    BY <1>5, HostJobs DEF Issue
  <1>7. Nodes' = Nodes /\ Waves' = Waves /\ First' = First
    BY <1>2, SameNodes DEF First
  <1>8. Accepted'
    BY <1>2, AcceptedKept DEF Going
  <1>9. /\ Kind(i)' = Kind(i) /\ Wave(i)' = Wave(i) /\ Kind(host)' = Kind(i) /\ Wave(host)' = Wave(i)
        /\ Base(Wave(i))' = Base(First)
    <2>1. Kind(i)' = Kind(i) /\ Wave(i)' = Wave(i) /\ \A w : Base(w)' = Base(w)
      BY <1>2, SameNodes
    <2>2. Kind(host)' = Kind(i)'
      BY <1>2 DEF Kind
    <2>3. Wave(host)' = Wave(i)'
      BY <1>2, <2>2 DEF Wave, WaveOf, Rank
    <2> QED BY <1>4, <2>1, <2>2, <2>3
  <1>10. Advanced'
    BY <1>2, <1>4, <1>7, <1>9 DEF Advanced
  <1>11. \A k \in Keys(First) \cap r :
           Barrier("compute", Base(First), Source(First, k, "compute"), {"transfer"}) \in barriers'
    BY <1>2
  <1>12. ASSUME NEW f \in New PROVE f.job.node \in Nodes /\ IsDownload(f)'
    <2>1. /\ Keys(Wave(i))' = Keys(First)
          /\ \A k : Source(Wave(i), k, "compute")' = Source(First, k, "compute")
          /\ Copied(i, {"read", "update"})' = r
      <3>1. \A w, k : Keys(w)' = Keys(w) /\ Source(w, k, "compute")' = Source(w, k, "compute")
        BY <1>2, SameBarriers
      <3> QED BY <1>2, <1>4, <1>9, <3>1, SameWork
    <2>2. f.job.node = i /\ f.job = Download(i) /\ Download(i)' = Download(i)
      BY <1>6 DEF Download, Job
    <2> HIDE DEF r
    <2>3. \A k \in Keys(Wave(i))' \cap r :
            Barrier("compute", Base(First), Source(First, k, "compute"), {"transfer"}) \in barriers'
      BY <1>11, <2>1
    <2>4. (\A k \in Keys(Wave(i)) \cap Copied(i, {"read", "update"}) :
            Barrier("compute", Base(Wave(i)), Source(Wave(i), k, "compute"), {"transfer"}) \in barriers)'
      BY <1>9, <2>1, <2>3 DEF Barrier
    <2>5. (Kind(i) = "cpu" /\ f.job = Download(i) /\ f.queue = "compute" /\ f.at = Base(Wave(i)) + 1
           /\ host = i)'
      BY <1>2, <1>4, <1>6, <1>9, <2>2
    <2> QED BY <1>4, <2>2, <2>4, <2>5 DEF IsDownload
  <1>13. Formed'
    BY <1>2, <1>12, FormsKept
  <1>14. Covered'
    <2>1. ASSUME NEW job \in JobsOf(i) \ {Upload(i)} PROVE \E e \in issued' : e.job = job
      <3>1. r # {} /\ job = Download(i)
        BY <1>4, <2>1 DEF JobsOf
      <3>2. Issue(Download(i), "compute", Base(First) + 1, Base(First)) \in issued'
        BY <1>2, <1>5, <3>1
      <3> QED BY <3>1, <3>2 DEF Issue
    <2> QED BY <1>2, <2>1, CoverKept
  <1>15. Once' /\ HostWaited' /\ QueuesWait'
    <2>1. \A f \in New : /\ f.job.node \in Nodes /\ First <= WaveAt(f)
                         /\ f.queue = "compute" /\ f.start = Base(First)
      <3>1. First \in Nat
        BY <1>4, WaveNumbers
      <3> QED BY <1>4, <1>6, <3>1 DEF WaveAt
    <2>2. \A d, f \in New : d = f
      BY <1>5
    <2> QED BY <1>2, <1>4, <2>1, <2>2, IssueKeepsOrder
  <1> QED BY <1>8, <1>10, <1>13, <1>14, <1>15

LEMMA RunHostKeepsSubmission ==
  ASSUME SubmissionOrder, TypeOK', RunHost
  PROVE  SubmissionOrder'
  <1> USE DEF SubmissionOrder
  <1> DEFINE w == Copied(host, {"write", "update"})
             New == {Issue(j, "compute", Base(First) + 3, Base(First)) :
                       j \in IF w = {} THEN {} ELSE {Upload(host)}}
  <1>1. /\ phase = "submitting" /\ host # 0 /\ host' = 0 /\ issued = ran
        /\ UNCHANGED <<graph, depth, slotOf, cuts, ran>>
        /\ submitted' = submitted \cup {First} /\ phase' \in {phase, "submitted"}
        /\ submitted' = Waves => phase' = "submitted"
        /\ issued' = issued \cup New
        /\ barriers \subseteq barriers'
    BY DEF RunHost, Advance, planVars
  <1>2. host \in Nodes /\ Wave(host) = First /\ Kind(host) = "cpu"
    BY <1>1 DEF TypeOK, Advanced
  <1>3. /\ First \in Waves /\ First \notin submitted /\ First \in Nat
        /\ \A v \in Waves : v < First => v \in submitted
    BY <1>1, <1>2, FirstWave
  <1>4. /\ \A f \in New : f = Issue(Upload(host), "compute", Base(First) + 3, Base(First))
        /\ w # {} => Issue(Upload(host), "compute", Base(First) + 3, Base(First)) \in New
    OBVIOUS
  <1> HIDE DEF New, w
  <1>5. ASSUME NEW f \in New
        PROVE  /\ f.job = Upload(host) /\ f.job.node = host /\ f.queue = "compute"
               /\ f.at = Base(First) + 3 /\ f.start = Base(First)
    BY <1>4, HostJobs DEF Issue
  <1>6. Nodes' = Nodes /\ Waves' = Waves
    BY <1>1, SameNodes
  <1>7. Accepted'
    BY <1>1, AcceptedKept DEF Going
  <1>8. Advanced'
    <2>1. submitted' \subseteq Waves
      BY <1>1, <1>3 DEF Advanced
    <2>2. ASSUME NEW v \in Waves, NEW x \in submitted', v < x PROVE v \in submitted'
      BY <1>1, <1>3, <2>2 DEF Advanced
    <2> QED BY <1>1, <1>6, <2>1, <2>2 DEF Advanced
  <1>9. ASSUME NEW f \in New PROVE f.job.node \in Nodes /\ IsUpload(f)'
    <2>0. PICK i : i = f.job.node /\ i = host
      BY <1>5
    <2>1. /\ Kind(i)' = "cpu" /\ Wave(i)' = First
      BY <1>1, <1>2, <2>0, SameNodes
    <2>2. Base(Wave(i))' = Base(First)
      <3>1. \A v : Base(v)' = Base(v)
        BY <1>1, SameNodes
      <3> QED BY <2>1, <3>1
    <2>3. Upload(i)' = Upload(i)
      BY DEF Upload, Job
    <2>4. (Kind(i) = "cpu" /\ f.job = Upload(i) /\ f.queue = "compute" /\ f.at = Base(Wave(i)) + 3
           /\ Wave(i) \in submitted)'
      BY <1>1, <1>5, <2>0, <2>1, <2>2, <2>3
    <2> QED BY <1>2, <1>5, <2>0, <2>4 DEF IsUpload
  <1>10. Formed'
    <2>1. Wave(host) \in submitted' /\ submitted \subseteq submitted'
      BY <1>1, <1>2
    <2> QED BY <1>1, <1>9, <2>1, FormsKept
  <1>11. \A i \in Nodes : Wave(i) \in submitted' /\ Wave(i) \notin submitted => i = host
    BY <1>1, <1>2, HostAlone
  <1>12. Covered'
    <2>1. ASSUME NEW job \in JobsOf(host) PROVE \E e \in issued' : e.job = job
      <3>1. CASE job = Upload(host)
        <4>1. Kind(host) = "cpu" /\ Download(host) # Upload(host)
          BY <1>2, HostJobs
        <4>2. w # {}
          BY <2>1, <3>1, <4>1 DEF JobsOf, w
        <4>3. Issue(Upload(host), "compute", Base(First) + 3, Base(First)) \in issued'
          BY <1>1, <1>4, <4>2
        <4> QED BY <3>1, <4>3 DEF Issue
      <3>2. CASE job # Upload(host)
        BY <1>1, <2>1, <3>2 DEF Covered
      <3> QED BY <3>1, <3>2
    <2> QED BY <1>1, <1>11, <2>1, CoverKept
  <1>13. Once' /\ HostWaited' /\ QueuesWait'
    <2>1. \A f \in New : /\ f.job.node \in Nodes /\ First <= WaveAt(f)
                         /\ f.queue = "compute" /\ f.start = Base(First)
      BY <1>2, <1>3, <1>5 DEF WaveAt
    <2>2. \A d, f \in New : d = f
      BY <1>4
    <2>3. \A i \in Nodes : Kind(i) = "cpu" /\ Wave(i) \in submitted' /\ Wave(i) \notin submitted =>
            issued = ran /\ Wave(i) = First /\ \A f \in New : f.job # Download(i)
      BY <1>1, <1>2, <1>5, <1>11, HostJobs
    <2> QED BY <1>1, <1>2, <1>5, <2>1, <2>2, <2>3, IssueKeepsOrder
  <1> QED BY <1>7, <1>8, <1>10, <1>12, <1>13

(* Execution adds to what has run; giving up and stuttering change no work.*)
LEMMA ExecutionKeepsSubmission ==
  ASSUME SubmissionOrder, TypeOK', Bail \/ (\E e \in issued : Run(e)) \/ UNCHANGED vars
  PROVE  SubmissionOrder'
  <1> USE DEF SubmissionOrder
  <1>1. /\ UNCHANGED <<graph, depth, slotOf, cuts, submitted, host, issued, barriers>>
        /\ ran \subseteq ran'
        /\ phase' = phase \/ (phase = "submitting" /\ host = 0 /\ phase' = "bailed")
    BY DEF Bail, Run, vars, planVars, gpuVars
  <1>2. Nodes' = Nodes /\ Waves' = Waves /\ First' = First
    BY <1>1, SameNodes DEF First
  <1>3. Accepted'
    <2>1. CASE Going
      <3>1. Going'
        BY <1>1, <2>1 DEF Going
      <3> QED BY <1>1, <2>1, <3>1, AcceptedKept
    <2>2. CASE ~Going
      <3>1. phase' = phase
        BY <1>1, <2>2 DEF Going
      <3>2. \A t \in Temporaries : Binding(t)' = Binding(t)
        BY <1>1 DEF Binding, Nodes
      <3> QED BY <1>1, <2>2, <3>1, <3>2 DEF Accepted, Going, Temporaries
    <2> QED BY <2>1, <2>2
  <1>4. /\ \A i : Kind(i)' = Kind(i) /\ Wave(i)' = Wave(i)
        /\ Kind(host)' = Kind(host) /\ Wave(host)' = Wave(host)
    BY <1>1, SameNodes
  <1>5. Advanced'
    BY <1>1, <1>2, <1>4 DEF Advanced
  <1>6. Formed'
    <2>1. \A e \in issued : e.job.node \in Nodes /\ (IsCommand(e)' \/ IsDownload(e)' \/ IsUpload(e)')
      BY <1>1, FormKept DEF Formed
    <2> QED BY <1>1, <1>2, <2>1 DEF Formed
  <1>7. Covered'
    BY <1>1, CoverKept DEF Covered
  <1>8. Once' /\ QueuesWait'
    <2>1. \A e : WaveAt(e)' = WaveAt(e)
      BY <1>4 DEF WaveAt
    <2> QED BY <1>1, <2>1 DEF Once, QueuesWait
  <1>9. HostWaited'
    <2>1. \A i : Download(i)' = Download(i)
      BY DEF Download, Job
    <2> QED BY <1>1, <1>2, <1>4, <2>1 DEF HostWaited, WaveAt
  <1> QED BY <1>3, <1>5, <1>6, <1>7, <1>8, <1>9

LEMMA SubmissionNext ==
  ASSUME SubmissionOrder, ScheduleOrder, [Next]_vars
  PROVE  SubmissionOrder'
  <1>1. TypeOK'
    BY TypesNext DEF ScheduleOrder
  <1> QED BY <1>1, PlanningKeepsSubmission, AcceptKeepsSubmission, SubmitKeepsSubmission,
             SubmitDownloadKeepsSubmission, RunHostKeepsSubmission, ExecutionKeepsSubmission
          DEF Next

-----------------------------------------------------------------------------
(* Conflicting work executes in record order, but for what only a drawable *)
(* orders.                                                                 *)
BracketedInOrder ==
  \A f \in RanJobs : \A i \in Nodes : i < f.node =>
    \A u \in Uses(i), v \in Uses(f.node) :
      Conflict(u, v) /\ Bracketed(i, f.node, u) /\ Touches(f, v) =>
        \A e \in JobsOf(i) : Touches(e, u) => e \in RanJobs

ExecutionOrder == ScheduleOrder /\ SubmissionOrder /\ BracketedInOrder

LEMMA NothingRanBefore ==
  ASSUME SubmissionOrder, ~Going
  PROVE  ran = {} /\ RanJobs = {}
  BY DEF SubmissionOrder, Accepted, TypeOK, RanJobs

(* Only the GPU adds to what has run; the rest leaves what ran in order.   *)
LEMMA InOrderKept ==
  ASSUME SubmissionOrder, BracketedInOrder,
         UNCHANGED ran, ~Going \/ UNCHANGED <<graph, depth, slotOf>>
  PROVE  BracketedInOrder'
  <1>1. RanJobs' = RanJobs
    BY DEF RanJobs
  <1>2. CASE ~Going
    BY <1>1, <1>2, NothingRanBefore DEF BracketedInOrder
  <1>3. CASE UNCHANGED <<graph, depth, slotOf>>
    <2>1. /\ Nodes' = Nodes /\ \A i : Kind(i)' = Kind(i) /\ Uses(i)' = Uses(i) /\ JobsOf(i)' = JobsOf(i)
      BY <1>3, SameNodes, SameWork
    <2>2. \A i, j, u : Bracketed(i, j, u)' <=> Bracketed(i, j, u)
      BY <2>1 DEF Bracketed
    <2>3. \A e, u : Touches(e, u)' <=> Touches(e, u)
      BY <2>1 DEF Touches
    <2> QED BY <1>1, <2>1, <2>2, <2>3 DEF BracketedInOrder
  <1> QED BY <1>2, <1>3

LEMMA RunKeepsInOrder ==
  ASSUME SubmissionOrder, BracketedInOrder, NEW g \in issued, Run(g)
  PROVE  BracketedInOrder'
  <1>1. /\ g \in issued /\ MayRun(g) /\ ran' = ran \cup {g} /\ UNCHANGED <<graph, depth, slotOf>>
    BY DEF Run, planVars
  <1>2. /\ RanJobs \subseteq RanJobs' /\ \A f \in RanJobs' : f \in RanJobs \/ f = g.job
    BY <1>1 DEF RanJobs
  <1>3. ASSUME NEW f \in RanJobs', NEW i \in Nodes, i < f.node, NEW u \in Uses(i), NEW v \in Uses(f.node),
               Conflict(u, v), Bracketed(i, f.node, u), Touches(f, v),
               NEW e \in JobsOf(i), Touches(e, u)
        PROVE  e \in RanJobs'
    <2>1. CASE f \in RanJobs
      BY <1>2, <1>3, <2>1 DEF BracketedInOrder
    <2>2. CASE f = g.job
      <3>1. \E d \in ran : d.job = e
        BY <1>1, <1>3, <2>2, EarlierJobsHaveRun
      <3> QED BY <1>2, <3>1 DEF RanJobs
    <2> QED BY <1>2, <2>1, <2>2
  <1>4. /\ Nodes' = Nodes /\ \A i : Kind(i)' = Kind(i) /\ Uses(i)' = Uses(i) /\ JobsOf(i)' = JobsOf(i)
    BY <1>1, SameNodes, SameWork
  <1>5. \A i, j, u : Bracketed(i, j, u)' <=> Bracketed(i, j, u)
    BY <1>4 DEF Bracketed
  <1>6. \A e, u : Touches(e, u)' <=> Touches(e, u)
    BY <1>4 DEF Touches
  <1> QED BY <1>3, <1>4, <1>5, <1>6 DEF BracketedInOrder

LEMMA ExecutionInit ==
  ASSUME Init
  PROVE  ExecutionOrder
  <1>1. RanJobs = {}
    BY DEF Init, RanJobs
  <1> QED BY <1>1, OrderInit, SubmissionInit DEF ExecutionOrder, BracketedInOrder

LEMMA ExecutionNext ==
  ASSUME ExecutionOrder, [Next]_vars
  PROVE  ExecutionOrder'
  <1>1. ScheduleOrder' /\ SubmissionOrder'
    BY OrderNext, SubmissionNext DEF ExecutionOrder
  <1>2. CASE \E e \in issued : Run(e)
    BY <1>1, <1>2, RunKeepsInOrder DEF ExecutionOrder
  <1>3. CASE (\E i \in Nodes : Visit(i)) \/ Plan \/ (\E t \in Temporaries : Place(t)) \/ Lowered
             \/ Accept \/ Refuse
    <2>1. ~Going /\ UNCHANGED ran
      BY <1>3 DEF Visit, Plan, Place, Lowered, Accept, Refuse, Going, gpuVars
    <2> QED BY <1>1, <2>1, InOrderKept DEF ExecutionOrder
  <1>4. CASE Submit \/ Bail \/ SubmitDownload \/ RunHost \/ UNCHANGED vars
    <2>1. UNCHANGED <<graph, depth, slotOf>> /\ UNCHANGED ran
      BY <1>4 DEF Submit, Bail, SubmitDownload, RunHost, vars, planVars, gpuVars
    <2> QED BY <1>1, <2>1, InOrderKept DEF ExecutionOrder
  <1> QED BY <1>2, <1>3, <1>4 DEF Next

(* Of two conflicting accesses to a drawable one copies a target to it,    *)
(* and nothing else than copies comes before that.                         *)
DrawablesAreCopied ==
  \A i, j \in Nodes : i < j =>
    \A u \in graph.nodes[i].uses, v \in graph.nodes[j].uses :
      u.resource.class = "lease" /\ Conflict(u, v) =>
        Kind(i) = "resolve" \/ (Kind(j) = "resolve" /\ Kind(i) \in Blits)

(* The GPU touches conflicting bytes in record order (schedule_waves,      *)
(* compute_barriers and the waits between partitions), whatever the graph: *)
(* only bindings of a drawable, for which compute_barriers names nothing,  *)
(* have to be ordered by the barriers around a copy of a target.           *)
THEOREM ConflictsRunInOrder == Spec => [](DrawablesAreCopied => ConflictsInOrder)
  <1>1. Spec => []ExecutionOrder
    BY ExecutionInit, ExecutionNext, PTL DEF Spec
  <1>2. ASSUME ExecutionOrder, DrawablesAreCopied PROVE ConflictsInOrder
    <2>1. SUFFICES ASSUME NEW f \in RanJobs, NEW i \in Nodes, i < f.node,
                          NEW u \in Uses(i), NEW v \in Uses(f.node), Conflict(u, v)
                   PROVE  Bracketed(i, f.node, u)
      BY <1>2 DEF ExecutionOrder, BracketedInOrder, ConflictsInOrder
    <2>2. SubmissionOrder /\ TypeOK /\ Accepted /\ Formed
      BY <1>2 DEF ExecutionOrder, SubmissionOrder
    <2>3. Going
      BY <2>1, <2>2, NothingRanBefore
    <2>4. f.node \in Nodes
      BY <2>1, <2>2 DEF RanJobs, TypeOK, Formed
    <2>5. SUFFICES ASSUME u.resource.class = "lease"
                   PROVE  Kind(i) = "resolve" \/ (Kind(f.node) = "resolve" /\ Kind(i) \in Blits)
      BY DEF Bracketed
    <2>6. v.resource.class = "lease"
      BY <2>1, <2>5 DEF Conflict, Aliases
    <2>7. u \in graph.nodes[i].uses /\ v \in graph.nodes[f.node].uses
      BY <2>2, <2>3, <2>4, <2>5, <2>6, LoweredUses
    <2> QED BY <1>2, <2>1, <2>4, <2>5, <2>7 DEF DrawablesAreCopied
  <1>3. ExecutionOrder => (DrawablesAreCopied => ConflictsInOrder)
    BY <1>2
  <1> QED BY <1>1, <1>3, PTL

-----------------------------------------------------------------------------
(* Shared buffers.                                                         *)
WritesTo(i, t) == \E u \in graph.nodes[i].uses :
                    u.resource.class = "temporary" /\ u.resource.id = t /\ Writes(u)
ReadsFrom(i, t) == \E u \in graph.nodes[i].uses :
                     u.resource.class = "temporary" /\ u.resource.id = t /\ Reads(u)

WritersBefore(t, i) == {n \in Binding(t) : n < i /\ WritesTo(n, t)}

(* The nodes that have written buffer k; it holds what the last one wrote. *)
WrittenBy(k) == {d.job.node : d \in {x \in ran : \E t \in Temporaries : WritesTo(x.job.node, t) /\ slotOf[t] = k}}

Contents ==
  /\ DOMAIN content = Temporaries
  /\ \A k \in Temporaries : WrittenBy(k) # {} =>
       content[k] \in WrittenBy(k) /\ \A n \in WrittenBy(k) : n <= content[k]

LEMMA TemporaryAccess ==
  \A i, t : /\ t \in Temporary(i, Writes) <=> WritesTo(i, t)
            /\ t \in Temporary(i, Reads) <=> ReadsFrom(i, t)
  BY DEF Temporary, WritesTo, ReadsFrom

(* There are no more buffers than temporaries.                             *)
LEMMA BufferNumbers ==
  ASSUME TypeOK, PackOrder, NEW t \in Temporaries
  PROVE  slotOf[t] = 0 \/ slotOf[t] \in Temporaries
  <1> DEFINE n == Len(slots)
  <1>1. n \in Nat /\ slots \in [1..n -> Temporaries]
    BY DEF TypeOK
  <1>2. slots \in Injection(1..n, Temporaries)
    <2>1. \A x, y \in 1..n : slots[x] = slots[y] => x = y
      BY DEF PackOrder
    <2> HIDE DEF n
    <2> QED BY <1>1, <2>1 DEF Injection, IsInjective
  <1>3. IsFiniteSet(Temporaries) /\ Temporaries = 1..Cardinality(Temporaries)
    BY TaskGraphAssumption DEF Numbered
  <1>4. Cardinality(1..n) <= Cardinality(Temporaries)
    BY <1>2, <1>3, FS_Injection
  <1>5. Cardinality(1..n) = n
    BY <1>1, FS_Interval
  <1>6. Cardinality(Temporaries) \in Nat
    BY <1>3, FS_CardinalityType
  <1>7. slotOf[t] \in 0..n
    BY DEF TypeOK
  <1> HIDE DEF n
  <1>8. slotOf[t] = 0 \/ slotOf[t] \in 1..Cardinality(Temporaries)
    BY <1>1, <1>4, <1>5, <1>6, <1>7
  <1> QED BY <1>3, <1>8

(* A dispatch that binds a temporary binds its buffer, and has one job.    *)
LEMMA BufferUses ==
  ASSUME TypeOK, NEW i \in Nodes, NEW u \in graph.nodes[i].uses, u.resource.class = "temporary",
         slotOf[u.resource.id] # 0
  PROVE  /\ Kind(i) = "dispatch" /\ u.resource.id \in Temporaries /\ i \in Binding(u.resource.id)
         /\ \E v \in Uses(i) : /\ v.resource = [class |-> "slot", id |-> slotOf[u.resource.id], part |-> 0]
                               /\ v.access = u.access /\ v.access \in Accesses
  <1>1. Kind(i) = "dispatch"
    BY TaskGraphAssumption DEF TypeOK, Nodes, Kind
  <1>2. u.resource.id \in Temporaries /\ i \in Binding(u.resource.id)
    BY TemporaryUses
  <1>3. u.access \in Accesses
    BY Recordings DEF Bindings
  <1>4. Lower(u.resource) = [class |-> "slot", id |-> slotOf[u.resource.id], part |-> 0]
    BY DEF Lower
  <1>5. [resource |-> Lower(u.resource), access |-> u.access] \in Uses(i)
    BY DEF Uses
  <1> QED BY <1>1, <1>2, <1>3, <1>4, <1>5

LEMMA DispatchJob ==
  ASSUME TypeOK, NEW i \in Nodes, Kind(i) = "dispatch"
  PROVE  /\ JobsOf(i) = {Job(i, "compute", Accesses)} /\ Jobs(i) = {Job(i, "compute", Accesses)}
         /\ \A u : u.access \in Accesses => Touches(Job(i, "compute", Accesses), u)
  <1>1. Jobs(i) = {Job(i, "compute", Accesses)}
    BY DEF Jobs
  <1>2. JobsOf(i) = Jobs(i)
    BY DEF JobsOf
  <1>3. \A u : u.access \in Accesses => Touches(Job(i, "compute", Accesses), u)
    BY DEF Touches, Job
  <1> QED BY <1>1, <1>2, <1>3

LEMMA DispatchIssued ==
  ASSUME SubmissionOrder, NEW d \in issued, Kind(d.job.node) = "dispatch"
  PROVE  d.job.node \in Nodes /\ d.job = Job(d.job.node, "compute", Accesses)
  <1>1. d.job.node \in Nodes /\ IsCommand(d)
    BY DEF SubmissionOrder, Formed, IsDownload, IsUpload
  <1> QED BY <1>1, DispatchJob DEF IsCommand, SubmissionOrder

(* When a dispatch runs, of the others that conflict with it in a buffer   *)
(* those recorded before it have run, and no other.                        *)
LEMMA BufferOrder ==
  ASSUME SubmissionOrder, BracketedInOrder, NEW e \in issued, e \notin ran, MayRun(e),
         NEW i \in Nodes, i = e.job.node, NEW n \in Nodes,
         Kind(i) = "dispatch", Kind(n) = "dispatch",
         NEW u \in Uses(n), NEW v \in Uses(i), NEW k,
         u.resource = [class |-> "slot", id |-> k, part |-> 0], v.resource = u.resource,
         u.access \in Accesses, v.access \in Accesses, Writes(u) \/ Writes(v)
  PROVE  n < i <=> \E d \in ran : d.job.node = n
  <1> USE DEF SubmissionOrder
  <1>1. Conflict(u, v) /\ Conflict(v, u)
    BY DEF Conflict, Aliases
  <1>2. Bracketed(n, i, u) /\ Bracketed(i, n, v)
    BY DEF Bracketed
  <1>3. /\ e.job = Job(i, "compute", Accesses) /\ Touches(e.job, v)
        /\ JobsOf(i) = {e.job}
    BY DispatchIssued, DispatchJob
  <1>4. ASSUME n < i PROVE \E d \in ran : d.job.node = n
    <2>1. Job(n, "compute", Accesses) \in JobsOf(n) /\ Touches(Job(n, "compute", Accesses), u)
      BY DispatchJob
    <2>2. \E d \in ran : d.job = Job(n, "compute", Accesses)
      BY <1>1, <1>2, <1>3, <1>4, <2>1, EarlierJobsHaveRun
    <2> QED BY <2>2 DEF Job
  <1>5. ASSUME NEW d \in ran, d.job.node = n PROVE n < i
    <2>1. d \in issued
      BY DEF TypeOK
    <2>2. d.job = Job(n, "compute", Accesses) /\ Touches(d.job, u)
      BY <1>5, <2>1, DispatchIssued, DispatchJob
    <2>3. e.job \notin RanJobs
      BY DEF RanJobs, Once, TypeOK
    <2>4. i # n
      BY <1>3, <2>2, <2>3 DEF RanJobs
    <2>5. ~(i < n)
      <3>1. d.job \in RanJobs /\ e.job \in JobsOf(i)
        BY <1>3, <1>5 DEF RanJobs
      <3> QED BY <1>1, <1>2, <1>3, <1>5, <2>2, <2>3, <3>1 DEF BracketedInOrder
    <2>6. i \in Nat /\ n \in Nat
      BY NodeNumbers
    <2> QED BY <2>4, <2>5, <2>6
  <1> QED BY <1>4, <1>5

SharedContents == ExecutionOrder /\ Contents /\ TemporariesIntact

LEMMA IntactAccess ==
  TemporariesIntact <=>
    \A s \in seen : WritersBefore(s[2], s[1]) # {} => s[3] = Max(WritersBefore(s[2], s[1]))
  <1>1. \A s : {i \in Binding(s[2]) : i < s[1] /\ s[2] \in Temporary(i, Writes)}
                 = WritersBefore(s[2], s[1])
    BY TemporaryAccess DEF WritersBefore
  <1> QED BY <1>1 DEF TemporariesIntact

LEMMA IntactAccessNext ==
  TemporariesIntact' <=>
    \A s \in seen' : (WritersBefore(s[2], s[1]) # {} => s[3] = Max(WritersBefore(s[2], s[1])))'
  <1>1. \A i, t : (t \in Temporary(i, Writes))' <=> WritesTo(i, t)'
    BY DEF Temporary, WritesTo
  <1>2. \A s : ({i \in Binding(s[2]) : i < s[1] /\ s[2] \in Temporary(i, Writes)})'
                 = WritersBefore(s[2], s[1])'
    BY <1>1 DEF WritersBefore
  <1> QED BY <1>2 DEF TemporariesIntact

LEMMA ContentsKept ==
  ASSUME Contents, TemporariesIntact, ran = {} \/ UNCHANGED slotOf, UNCHANGED <<graph, ran, content, seen>>
  PROVE  Contents' /\ TemporariesIntact'
  <1>1. \A i, t : WritesTo(i, t)' <=> WritesTo(i, t)
    BY DEF WritesTo
  <1>2. ASSUME NEW k PROVE WrittenBy(k)' = WrittenBy(k)
    BY <1>1 DEF WrittenBy, Temporaries
  <1>3. Contents'
    <2>1. \A k \in Temporaries : WrittenBy(k)' = WrittenBy(k)
      BY <1>2
    <2> QED BY <2>1 DEF Contents, Temporaries
  <1>4. ASSUME NEW t, NEW i PROVE WritersBefore(t, i)' = WritersBefore(t, i)
    <2>1. Binding(t)' = Binding(t)
      BY DEF Binding, Nodes
    <2> QED BY <1>1, <2>1 DEF WritersBefore
  <1>5. TemporariesIntact'
    <2>1. \A s \in seen' : (WritersBefore(s[2], s[1]) # {} => s[3] = Max(WritersBefore(s[2], s[1])))'
      BY <1>4, IntactAccess DEF Max
    <2> QED BY <2>1, IntactAccessNext
  <1> QED BY <1>3, <1>5

(* When a node runs, of the nodes that write the buffer of a temporary it  *)
(* binds those recorded before it have run, and no other.                  *)
LEMMA WriterOrder ==
  ASSUME SharedContents, NEW e \in issued, e \notin ran, MayRun(e),
         NEW i \in Nodes, i = e.job.node, NEW n \in Nodes,
         NEW s \in Temporaries, NEW t \in Temporaries, WritesTo(n, s),
         WritesTo(i, t) \/ ReadsFrom(i, t), slotOf[s] = slotOf[t], slotOf[t] # 0
  PROVE  n < i <=> \E d \in ran : d.job.node = n
  <1>1. SubmissionOrder /\ BracketedInOrder /\ TypeOK
    BY DEF SharedContents, ExecutionOrder, SubmissionOrder
  <1>2. PICK x \in graph.nodes[n].uses : x.resource.class = "temporary" /\ x.resource.id = s /\ Writes(x)
    BY DEF WritesTo
  <1>3. PICK y \in graph.nodes[i].uses : y.resource.class = "temporary" /\ y.resource.id = t
    BY DEF WritesTo, ReadsFrom
  <1>4. PICK u \in Uses(n) : /\ u.resource = [class |-> "slot", id |-> slotOf[s], part |-> 0]
                             /\ u.access = x.access /\ u.access \in Accesses
    BY <1>1, <1>2, BufferUses
  <1>5. PICK v \in Uses(i) : /\ v.resource = [class |-> "slot", id |-> slotOf[t], part |-> 0]
                             /\ v.access = y.access /\ v.access \in Accesses
    BY <1>1, <1>3, BufferUses
  <1>6. Kind(n) = "dispatch" /\ Kind(i) = "dispatch"
    BY <1>1, <1>2, <1>3, BufferUses
  <1>7. Writes(u)
    BY <1>2, <1>4 DEF Writes
  <1>8. v.resource = u.resource
    BY <1>4, <1>5
  <1> QED BY <1>1, <1>4, <1>5, <1>6, <1>7, <1>8, BufferOrder

(* What is bound has a buffer.                                             *)
LEMMA BoundHasBuffer ==
  ASSUME SharedContents, NEW e \in issued, NEW i \in Nodes, NEW t, WritesTo(i, t) \/ ReadsFrom(i, t)
  PROVE  t \in Temporaries /\ i \in Binding(t) /\ slotOf[t] \in Temporaries /\ slotOf[t] # 0
  <1>1. SubmissionOrder /\ TypeOK /\ Accepted /\ PackOrder
    BY DEF SharedContents, ExecutionOrder, SubmissionOrder, ScheduleOrder
  <1>2. Going
    BY <1>1 DEF Accepted
  <1>3. t \in Temporaries /\ i \in Binding(t)
    BY <1>1, TemporaryUses DEF WritesTo, ReadsFrom
  <1>4. slotOf[t] # 0
    BY <1>1, <1>2, <1>3 DEF Accepted
  <1> QED BY <1>1, <1>3, <1>4, BufferNumbers

LEMMA RunKeepsContents ==
  ASSUME SharedContents, NEW e \in issued, Run(e)
  PROVE  Contents'
  <1>1. /\ e \notin ran /\ MayRun(e) /\ ran' = ran \cup {e} /\ UNCHANGED <<graph, slotOf>>
        /\ content' = [k \in DOMAIN content |->
             IF \E t \in Temporary(e.job.node, Writes) : slotOf[t] = k THEN e.job.node ELSE content[k]]
    BY DEF Run, planVars
  <1>2. PICK i : i = e.job.node
    OBVIOUS
  <1>3. i \in Nodes /\ i \in Nat
    <2>1. SubmissionOrder /\ TypeOK /\ Formed
      BY DEF SharedContents, ExecutionOrder, SubmissionOrder
    <2> QED BY <1>2, <2>1, NodeNumbers DEF Formed
  <1>4. ASSUME NEW k \in Temporaries
        PROVE  WrittenBy(k)' = WrittenBy(k) \cup
                 (IF \E t \in Temporaries : WritesTo(i, t) /\ slotOf[t] = k THEN {i} ELSE {})
    <2>1. \A n, t : WritesTo(n, t)' <=> WritesTo(n, t)
      BY <1>1 DEF WritesTo
    <2> QED BY <1>1, <1>2, <2>1 DEF WrittenBy, Temporaries
  <1>5. ASSUME NEW k \in Temporaries
        PROVE  content'[k] = IF \E t \in Temporaries : WritesTo(i, t) /\ slotOf[t] = k THEN i ELSE content[k]
    <2>1. \A t : t \in Temporary(i, Writes) <=> WritesTo(i, t)
      BY TemporaryAccess
    <2>2. \A t : WritesTo(i, t) => t \in Temporaries
      BY <1>3, BoundHasBuffer
    <2>3. k \in DOMAIN content
      BY DEF SharedContents, Contents
    <2> QED BY <1>1, <1>2, <2>1, <2>2, <2>3
  <1>6. ASSUME NEW k \in Temporaries, NEW t \in Temporaries, WritesTo(i, t), slotOf[t] = k,
               NEW n \in WrittenBy(k)
        PROVE  n < i
    <2>1. PICK d \in ran : d.job.node = n /\ \E s \in Temporaries : WritesTo(n, s) /\ slotOf[s] = k
      BY DEF WrittenBy
    <2>2. PICK s \in Temporaries : WritesTo(n, s) /\ slotOf[s] = k
      BY <2>1
    <2>3. n \in Nodes
      BY <2>1 DEF SharedContents, ExecutionOrder, SubmissionOrder, TypeOK, Formed
    <2>4. slotOf[t] # 0
      BY <1>3, <1>6, BoundHasBuffer
    <2> QED BY <1>1, <1>2, <1>3, <1>6, <2>1, <2>2, <2>3, <2>4, WriterOrder
  <1>7. ASSUME NEW k \in Temporaries, WrittenBy(k)' # {}
        PROVE  content'[k] \in WrittenBy(k)' /\ \A n \in WrittenBy(k)' : n <= content'[k]
    <2>1. CASE \E t \in Temporaries : WritesTo(i, t) /\ slotOf[t] = k
      <3>1. WrittenBy(k)' = WrittenBy(k) \cup {i} /\ content'[k] = i
        BY <1>4, <1>5, <2>1
      <3>2. \A n \in WrittenBy(k) : n < i
        BY <1>6, <2>1
      <3>3. \A n \in WrittenBy(k) : n \in Nat
        <4>1. \A d \in ran : d.job.node \in Nat
          BY NodeNumbers DEF SharedContents, ExecutionOrder, SubmissionOrder, TypeOK, Formed
        <4> QED BY <4>1 DEF WrittenBy
      <3> QED BY <1>3, <3>1, <3>2, <3>3
    <2>2. CASE ~ \E t \in Temporaries : WritesTo(i, t) /\ slotOf[t] = k
      <3>1. WrittenBy(k)' = WrittenBy(k) /\ content'[k] = content[k]
        BY <1>4, <1>5, <2>2
      <3> QED BY <1>7, <3>1 DEF SharedContents, Contents
    <2> QED BY <2>1, <2>2
  <1>8. DOMAIN content' = Temporaries
    BY <1>1 DEF SharedContents, Contents
  <1> QED BY <1>7, <1>8 DEF Contents, Temporaries

(* What a node finds in a buffer.                                          *)
LEMMA FindsLastWriter ==
  ASSUME SharedContents, NEW e \in issued, e \notin ran, MayRun(e),
         NEW i \in Nodes, i = e.job.node, NEW t, ReadsFrom(i, t), WritersBefore(t, i) # {}
  PROVE  content[slotOf[t]] = Max(WritersBefore(t, i))
  <1> DEFINE W == WritersBefore(t, i)
  <1>1. t \in Temporaries /\ i \in Binding(t) /\ slotOf[t] \in Temporaries /\ slotOf[t] # 0
    BY BoundHasBuffer
  <1>2. PICK k \in Temporaries : k = slotOf[t]
    BY <1>1
  <1>3. SubmissionOrder /\ TypeOK /\ Formed /\ PackOrder
    BY DEF SharedContents, ExecutionOrder, SubmissionOrder, ScheduleOrder
  <1>4. \A n \in W : n \in Nodes /\ n \in Nat /\ n < i /\ WritesTo(n, t) /\ n \in Binding(t)
    BY <1>3, NodeNumbers DEF WritersBefore, Binding
  <1>5. ASSUME NEW n \in W PROVE n \in WrittenBy(k)
    <2>1. \E d \in ran : d.job.node = n
      BY <1>1, <1>4, WriterOrder
    <2> QED BY <1>1, <1>2, <1>4, <2>1 DEF WrittenBy
  <1>6. PICK c : c = content[k] /\ c \in WrittenBy(k) /\ \A n \in WrittenBy(k) : n <= c
    <2>1. WrittenBy(k) # {}
      BY <1>5
    <2> QED BY <2>1 DEF SharedContents, Contents
  <1>7. PICK d \in ran : d.job.node = c /\ \E s \in Temporaries : WritesTo(c, s) /\ slotOf[s] = k
    BY <1>6 DEF WrittenBy
  <1>8. PICK s \in Temporaries : WritesTo(c, s) /\ slotOf[s] = k
    BY <1>7
  <1>9. c \in Nodes /\ c \in Nat /\ i \in Nat
    BY <1>3, <1>7, NodeNumbers DEF TypeOK, Formed
  <1>10. c < i
    BY <1>1, <1>2, <1>7, <1>8, <1>9, WriterOrder
  <1>11. s = t
    <2>1. SUFFICES ASSUME s # t PROVE FALSE
      OBVIOUS
    <2>2. Precedes(s, t) \/ Precedes(t, s)
      BY <1>1, <1>2, <1>8, <2>1, <1>3 DEF PackOrder
    <2>3. c \in Binding(s)
      BY <1>8, <1>9, BoundHasBuffer
    <2>4. PICK n \in W : TRUE
      OBVIOUS
    <2>5. n \in Nat /\ n \in Binding(t) /\ n <= c
      BY <1>4, <1>5, <1>6
    <2>6. CASE Precedes(s, t)
      <3>1. c < n
        BY <2>3, <2>5, <2>6 DEF Precedes
      <3> QED BY <1>9, <2>5, <3>1
    <2>7. CASE Precedes(t, s)
      <3>1. i < c
        BY <1>1, <2>3, <2>7 DEF Precedes
      <3> QED BY <1>9, <1>10, <3>1
    <2> QED BY <2>2, <2>6, <2>7
  <1>12. c \in W /\ \A n \in W : n <= c
    <2>1. c \in Binding(t)
      BY <1>8, <1>9, <1>11, BoundHasBuffer
    <2> QED BY <1>5, <1>6, <1>8, <1>10, <1>11, <2>1 DEF WritersBefore
  <1> HIDE DEF W
  <1>13. Max(W) \in W /\ \A n \in W : n <= Max(W)
    <2>1. \E x \in W : \A y \in W : x >= y
      BY <1>4, <1>9, <1>12
    <2>2. Max(W) \in W /\ \A y \in W : Max(W) >= y
      BY <2>1 DEF Max
    <2> QED BY <1>4, <2>2
  <1>14. c = Max(W)
    <2>1. c <= Max(W) /\ Max(W) <= c /\ Max(W) \in Nat
      BY <1>4, <1>12, <1>13
    <2> QED BY <1>9, <2>1
  <1> QED BY <1>2, <1>6, <1>14 DEF W

LEMMA RunKeepsIntact ==
  ASSUME SharedContents, NEW e \in issued, Run(e)
  PROVE  TemporariesIntact'
  <1>1. PICK i : i = e.job.node
    OBVIOUS
  <1>2. /\ e \notin ran /\ MayRun(e) /\ UNCHANGED graph
        /\ seen' = seen \cup {<<i, t, content[slotOf[t]]>> : t \in Temporary(i, Reads)}
    BY <1>1 DEF Run
  <1>3. i \in Nodes
    BY <1>1 DEF SharedContents, ExecutionOrder, SubmissionOrder, Formed
  <1>4. ASSUME NEW t, NEW j PROVE WritersBefore(t, j)' = WritersBefore(t, j)
    <2>1. \A n : WritesTo(n, t)' <=> WritesTo(n, t)
      BY <1>2 DEF WritesTo
    <2>2. Binding(t)' = Binding(t)
      BY <1>2 DEF Binding, Nodes
    <2> QED BY <2>1, <2>2 DEF WritersBefore
  <1>5. ASSUME NEW s \in seen', WritersBefore(s[2], s[1]) # {}
        PROVE  s[3] = Max(WritersBefore(s[2], s[1]))
    <2>1. CASE s \in seen
      BY <1>5, <2>1, IntactAccess DEF SharedContents
    <2>2. CASE s \notin seen
      <3>1. PICK t \in Temporary(i, Reads) : s = <<i, t, content[slotOf[t]]>>
        BY <1>2, <2>2
      <3>2. ReadsFrom(i, t)
        BY <3>1, TemporaryAccess
      <3>3. s[1] = i /\ s[2] = t /\ s[3] = content[slotOf[t]]
        BY <3>1
      <3> QED BY <1>1, <1>2, <1>3, <1>5, <3>2, <3>3, FindsLastWriter
    <2> QED BY <2>1, <2>2
  <1>6. \A s \in seen' : (WritersBefore(s[2], s[1]) # {} => s[3] = Max(WritersBefore(s[2], s[1])))'
    BY <1>4, <1>5 DEF Max
  <1> QED BY <1>6, IntactAccessNext

LEMMA SharedInit ==
  ASSUME Init
  PROVE  SharedContents
  <1>1. ran = {} /\ seen = {} /\ DOMAIN content = Temporaries
    BY DEF Init
  <1>2. \A k : WrittenBy(k) = {}
    BY <1>1 DEF WrittenBy
  <1> QED BY <1>1, <1>2, ExecutionInit DEF SharedContents, Contents, TemporariesIntact

LEMMA SharedNext ==
  ASSUME SharedContents, [Next]_vars
  PROVE  SharedContents'
  <1>1. ExecutionOrder'
    BY ExecutionNext DEF SharedContents
  <1>2. CASE \E e \in issued : Run(e)
    BY <1>1, <1>2, RunKeepsContents, RunKeepsIntact DEF SharedContents
  <1>3. CASE (\E i \in Nodes : Visit(i)) \/ Plan \/ (\E t \in Temporaries : Place(t)) \/ Lowered
             \/ Accept \/ Refuse
    <2>1. ~Going /\ UNCHANGED <<graph, ran, content, seen>>
      BY <1>3 DEF Visit, Plan, Place, Lowered, Accept, Refuse, Going, gpuVars
    <2>2. ran = {}
      BY <2>1, NothingRanBefore DEF SharedContents, ExecutionOrder
    <2> QED BY <1>1, <2>1, <2>2, ContentsKept DEF SharedContents
  <1>4. CASE Submit \/ Bail \/ SubmitDownload \/ RunHost \/ UNCHANGED vars
    <2>1. UNCHANGED slotOf /\ UNCHANGED <<graph, ran, content, seen>>
      BY <1>4 DEF Submit, Bail, SubmitDownload, RunHost, vars, planVars, gpuVars
    <2> QED BY <1>1, <2>1, ContentsKept DEF SharedContents
  <1> QED BY <1>2, <1>3, <1>4 DEF Next

(* Whatever the graph and the shapes, sharing buffers loses no content: a  *)
(* node finds what the last node before it wrote in the temporary.         *)
THEOREM SharedBuffersKeepContent == Spec => []TemporariesIntact
  <1>1. Spec => []SharedContents
    BY SharedInit, SharedNext, PTL DEF Spec
  <1>2. SharedContents => TemporariesIntact
    BY DEF SharedContents
  <1> QED BY <1>1, <1>2, PTL

=============================================================================
