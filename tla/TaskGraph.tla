------------------------------ MODULE TaskGraph ------------------------------
(***************************************************************************)
(* One recorded graph on its way to the GPU.  A submit orders the nodes    *)
(* into waves, packs temporaries whose lifetimes are disjoint onto shared  *)
(* buffers, orders the graph that results again and refuses it when it has *)
(* a cycle.  It then cuts the waves into partitions and submits these one  *)
(* by one: compute work to the context's queue, a partition with a render  *)
(* pass to the graphics queue.  What keeps two nodes in order on the GPU   *)
(* is a barrier (or a chain of barriers) between them on one queue, a      *)
(* semaphore between the queues, or the host that waits for a CPU dispatch.*)
(*                                                                         *)
(* The GPU is Vulkan's: commands of a queue start in any order that the    *)
(* stages named by barriers allow.  Left out: memory visibility (only the  *)
(* order of execution is modelled), image layouts, the barriers at the two *)
(* ends of a command buffer (they only add order), acceleration structures,*)
(* fusion, and the optional splits of compute partitions by cost.          *)
(***************************************************************************)
EXTENDS Integers, Sequences, FiniteSets, FiniteSetsExt

CONSTANTS
  Graphs,   (* the recorded graphs: [nodes, precedes]                       *)
  Shape     (* size and stride of each temporary, 1..n                      *)

Temporaries == DOMAIN Shape

BufferUploads  == {"clear", "write"}              (* CopyBuffer is a clear  *)
TextureUploads == {"upload", "pitched"}
Blits          == BufferUploads \cup TextureUploads \cup {"resolve"}
Kinds          == Blits \cup {"dispatch", "render", "cpu"}
Retainable     == {"dispatch", "render", "clear", "pitched", "resolve"}
Accesses       == {"read", "write", "update"}
Classes        == {"buffer", "texture", "target", "lease", "temporary"}

(* resource: part 0 is a whole buffer, other parts are disjoint ranges.    *)
Bindings == [resource : [class : Classes, id : Nat, part : Nat], access : Accesses]

Numbered(S) == IsFiniteSet(S) /\ S = 1..Cardinality(S)

(* Temporaries are bound by dispatches, render targets are written by      *)
(* render passes and read by resolves.                                     *)
ASSUME TaskGraphAssumption ==
  /\ Numbered(Temporaries)
  /\ \A g \in Graphs :
       LET nodes == DOMAIN g.nodes IN
       /\ Numbered(nodes)
       /\ \A i \in nodes : g.nodes[i].kind \in Kinds /\ g.nodes[i].uses \subseteq Bindings
       /\ \A i \in nodes : \A u \in g.nodes[i].uses :
            /\ u.resource.class = "temporary" =>
                 u.resource.id \in Temporaries /\ u.resource.part = 0 /\ g.nodes[i].kind = "dispatch"
            /\ u.resource.class = "target" =>
                 g.nodes[i].kind = IF u.access = "read" THEN "resolve" ELSE "render"
       /\ \A p \in g.precedes : p[1] \in nodes /\ p[2] \in nodes /\ p[1] < p[2]

VARIABLES
  graph,     (* the graph recorded                                          *)
  retained,  (* are command buffers retained for replay?                    *)
  phase,     (* how far the submit is                                       *)
  visited,   (* nodes the traversal under way has processed                 *)
  depth,     (* its depth[i]                                                *)
  planned,   (* the depths before temporaries were lowered                  *)
  slots,     (* the shared buffers: the last temporary placed in each       *)
  slotOf,    (* slotOf[t]: the shared buffer of temporary t, or 0           *)
  cuts,      (* the first wave of each partition                            *)
  submitted, (* waves submitted                                             *)
  host,      (* the CPU dispatch whose download was submitted, or 0         *)
  barriers,  (* barriers submitted                                          *)
  issued,    (* work submitted                                              *)
  ran,       (* work the GPU has executed                                   *)
  content,   (* content[k]: the last node that wrote shared buffer k        *)
  seen       (* <<i, t, w>>: node i found what node w wrote in t            *)

planVars == <<visited, depth, planned, slots, slotOf, cuts>>
gpuVars  == <<barriers, issued, ran, content, seen>>
vars     == <<graph, retained, phase, planVars, submitted, host, gpuVars>>

Phases == {"ordering", "packing", "checking", "submitting", "submitted", "refused", "bailed"}

Nodes   == DOMAIN graph.nodes
Kind(i) == graph.nodes[i].kind

Init ==
  /\ graph \in Graphs
  /\ retained \in BOOLEAN
  /\ phase     = "ordering"
  /\ visited   = {}
  /\ depth     = [i \in Nodes |-> 0]
  /\ planned   = [i \in Nodes |-> 0]
  /\ slots     = << >>
  /\ slotOf    = [t \in Temporaries |-> 0]
  /\ cuts      = {}
  /\ submitted = {}
  /\ host      = 0
  /\ barriers  = {}
  /\ issued    = {}
  /\ ran       = {}
  /\ content   = [t \in Temporaries |-> 0]
  /\ seen      = {}

-----------------------------------------------------------------------------
(* Dependencies.                                                           *)
Writes(u) == u.access # "read"
Reads(u)  == u.access # "write"

Aliases(r, s) ==
  /\ r.class = s.class
  /\ r.id = s.id
  /\ r.part = s.part \/ 0 \in {r.part, s.part}

Conflict(u, v) == (Writes(u) \/ Writes(v)) /\ Aliases(u.resource, v.resource)

Lower(r) ==
  IF r.class = "temporary" /\ slotOf[r.id] # 0
  THEN [class |-> "slot", id |-> slotOf[r.id], part |-> 0]
  ELSE r

Uses(i) == {[resource |-> Lower(u.resource), access |-> u.access] : u \in graph.nodes[i].uses}

Depends(i, j) ==
  \/ i < j /\ \E u \in Uses(i), v \in Uses(j) : Conflict(u, v)
  \/ Kind(i) \in BufferUploads /\ Kind(j) \in TextureUploads
  \/ <<i, j>> \in graph.precedes

(* The traversal of schedule_waves and validate_acyclic takes a node once  *)
(* all it depends on were taken.                                           *)
Ready(i) == i \in Nodes \ visited /\ \A j \in Nodes : Depends(j, i) => j \in visited

Visit(i) ==
  /\ phase \in {"ordering", "checking"}
  /\ Ready(i)
  /\ visited' = visited \cup {i}
  /\ depth' = [j \in Nodes |-> IF Depends(i, j) /\ depth[j] <= depth[i]
                               THEN depth[i] + 1 ELSE depth[j]]
  /\ UNCHANGED <<graph, retained, phase, planned, slots, slotOf, cuts, submitted, host, gpuVars>>

Stalled == \A i \in Nodes : ~Ready(i)

(* Waves in their order: the depth, and a wave of its own for each CPU     *)
(* dispatch behind the other nodes of its depth.                           *)
Rank(i)     == IF Kind(i) = "cpu" THEN i ELSE 0
WaveOf(d, i) == d[i] * (Cardinality(Nodes) + 1) + Rank(i)

(* Mutant of EarlierWave: one wave may bind both.                          *)
SameWave(d, i, j) == d[i] <= d[j]

EarlierWave(d, i, j) == d[i] < d[j] \/ (d[i] = d[j] /\ Rank(i) < Rank(j))

-----------------------------------------------------------------------------
(* Temporaries.                                                            *)
Binding(t) == {i \in Nodes : \E u \in graph.nodes[i].uses :
                 u.resource.class = "temporary" /\ u.resource.id = t}

(* Mutant of Precedes: only the order of nodes counts.                     *)
PrecedesByNode(s, t) == \A i \in Binding(s), j \in Binding(t) : i < j

(* Mutant of Precedes: s may be bound again after t.                       *)
StartsBefore(s, t) ==
  \E i \in Binding(s) : \A j \in Binding(t) : i < j /\ EarlierWave(planned, i, j)

(* Every node and wave that binds s comes before all that bind t.          *)
Precedes(s, t) ==
  \A i \in Binding(s), j \in Binding(t) : i < j /\ EarlierWave(planned, i, j)

Unplaced == {t \in Temporaries : slotOf[t] = 0 /\ Binding(t) # {}}

Plan ==
  /\ phase = "ordering"
  /\ Stalled
  /\ phase'   = "packing"
  /\ planned' = depth
  /\ UNCHANGED <<graph, retained, visited, depth, slots, slotOf, cuts, submitted, host, gpuVars>>

(* pack takes the intervals by first node, and the first slot that fits.   *)
NextInterval(t) ==
  /\ t \in Unplaced
  /\ \A s \in Unplaced \ {t} :
       \/ Min(Binding(t)) < Min(Binding(s))
       \/ Min(Binding(t)) = Min(Binding(s)) /\ t < s

FreeSlots(t) ==
  {k \in 1..Len(slots) : Shape[slots[k]] = Shape[t] /\ Precedes(slots[k], t)}

Place(t) ==
  /\ phase = "packing"
  /\ NextInterval(t)
  /\ \/ \E k \in FreeSlots(t) :
          /\ \A l \in FreeSlots(t) : k <= l
          /\ slots'  = [slots EXCEPT ![k] = t]
          /\ slotOf' = [slotOf EXCEPT ![t] = k]
     \/ /\ FreeSlots(t) = {}
        /\ slots'  = Append(slots, t)
        /\ slotOf' = [slotOf EXCEPT ![t] = Len(slots) + 1]
  /\ UNCHANGED <<graph, retained, phase, visited, depth, planned, cuts, submitted, host, gpuVars>>

Lowered ==
  /\ phase = "packing"
  /\ Unplaced = {}
  /\ phase'   = "checking"
  /\ visited' = {}
  /\ depth'   = [i \in Nodes |-> 0]
  /\ UNCHANGED <<graph, retained, planned, slots, slotOf, cuts, submitted, host, gpuVars>>

-----------------------------------------------------------------------------
(* Partitions, named by their first wave.                                  *)
Wave(i)    == WaveOf(depth, i)
Waves      == {Wave(i) : i \in Nodes}
Members(w) == {i \in Nodes : Wave(i) = w}
Before(w)  == Max({v \in Waves : v < w})

Has(w, kind) == \E i \in Members(w) : Kind(i) = kind
Leases(w)    == {u.resource.id : u \in {x \in UNION {Uses(i) : i \in Members(w)} :
                                          x.resource.class = "lease"}}
CanRetain(w) == \A i \in Members(w) : Kind(i) \in Retainable

OpensLogical(w) ==
  \/ w = Min(Waves)
  \/ Has(w, "cpu") \/ Has(Before(w), "cpu")
  \/ \E l \in Leases(w) : \A v \in Waves : v < w => l \notin Leases(v)
  \/ Has(w, "render") # Has(Before(w), "render")

(* The first waves of all partitions: those of the logical ones, and within*)
(* one that only computes the wave with which it stops to be retainable.   *)
Cuts ==
  LET openers == {w \in Waves : OpensLogical(w)}
      Logical(w) == Max({v \in openers : v <= w})
      PureCompute(w) == \A v \in Waves : Logical(v) = Logical(w) =>
                          ~Has(v, "render") /\ ~Has(v, "cpu") /\ Leases(v) = {}
  IN openers \cup {w \in Waves \ openers :
                     PureCompute(w) /\ CanRetain(Before(w)) /\ ~CanRetain(w)}

Accept ==
  /\ phase = "checking"
  /\ visited = Nodes
  /\ phase' = "submitting"
  /\ cuts'  = Cuts
  /\ UNCHANGED <<graph, retained, visited, depth, planned, slots, slotOf, submitted, host, gpuVars>>

Refuse ==
  /\ phase = "checking"
  /\ Stalled
  /\ visited # Nodes
  /\ phase' = "refused"
  /\ UNCHANGED <<graph, retained, planVars, submitted, host, gpuVars>>

Partition(w) == {v \in Waves : v >= w /\ \A o \in cuts : w < o => v < o}

Renders(p) == \E w \in p : Has(w, "render")
Queue(p)   == IF Renders(p) THEN "graphics" ELSE "compute"

-----------------------------------------------------------------------------
(* Stages.  A source includes the stages before it in the pipeline, a      *)
(* destination those after it.                                             *)
Graphics  == {"input", "shade", "output"}
AllStages == Graphics \cup {"compute", "transfer"}

Earlier(S) == S \cup (IF "output" \in S THEN Graphics ELSE {})
                \cup (IF "shade" \in S THEN {"input"} ELSE {})
Later(S)   == S \cup (IF "input" \in S THEN Graphics ELSE {})
                \cup (IF "shade" \in S THEN {"output"} ELSE {})

(* barrier_usage_kind_for_binding, then slot_usage_to_vk_stage: indirect   *)
(* arguments are read at the first stage of the graphics pipeline.         *)
StagesOf(i, u, q) ==
  CASE Kind(i) \in Blits \cup {"cpu"} -> {"transfer"}
    [] Kind(i) = "dispatch" -> {"compute", "input"}
    [] Kind(i) = "render" /\ ~Writes(u) /\ u.resource.class # "target" -> {"compute", "input"}
    [] OTHER -> IF q = "graphics" THEN Graphics ELSE {"compute"}

(* Mutant of Crossing: a node that writes does not wait for readers.       *)
AfterWrites(w) ==
  {c \in UNION {{<<i, u, j, v>> : u \in Uses(i), v \in Uses(j)} : i \in Nodes, j \in Members(w)} :
     /\ depth[c[1]] < depth[c[3]]
     /\ Writes(c[2]) /\ Conflict(c[2], c[4])
     /\ c[2].resource.class \in {"buffer", "slot", "texture"}}

(* compute_barriers: the conflicting bindings whose order wave w relies on.*)
Crossing(w) ==
  {c \in UNION {{<<i, u, j, v>> : u \in Uses(i), v \in Uses(j)} : i \in Nodes, j \in Members(w)} :
     /\ depth[c[1]] < depth[c[3]]
     /\ Conflict(c[2], c[4])
     /\ c[2].resource.class \in {"buffer", "slot", "texture"}}

KeyOf(r) == [class |-> r.class, id |-> r.id]
Keys(w)  == {KeyOf(c[2].resource) : c \in Crossing(w)}

Behind(w, r)    == {c \in Crossing(w) : KeyOf(c[2].resource) = r}
Source(w, r, q) == UNION {StagesOf(c[1], c[2], q) : c \in Behind(w, r)}
Target(w, r, q) == UNION {StagesOf(c[3], c[4], q) : c \in Behind(w, r)}

-----------------------------------------------------------------------------
(* Commands.  Their place in the order of submission: the wave, then its   *)
(* barriers, its blits by node, then the rest by node.                     *)
Base(w)  == w * (6 * Cardinality(Nodes) + 9)
PlaceOf(i) == Base(Wave(i)) + 3 * (IF Kind(i) \in Blits THEN i ELSE Cardinality(Nodes) + i)

Barrier(q, at, src, dst) == [queue |-> q, at |-> at, src |-> src, dst |-> dst]

WaveBarriers(w, q) ==
  {Barrier(q, Base(w), Source(w, r, q), Target(w, r, q)) : r \in Keys(w)}

(* What a node records around itself.                                      *)
OwnBarriers(i, q) ==
  CASE Kind(i) = "render"  ->
         {Barrier(q, PlaceOf(i) - 1, {"compute", "transfer"}, {"shade", "output"}),
          Barrier(q, PlaceOf(i) + 1, {"output"}, {"compute", "transfer"})}
    [] Kind(i) = "resolve" ->
         {Barrier(q, PlaceOf(i) - 1, {"transfer"}, {"transfer"}),
          Barrier(q, PlaceOf(i) + 1, {"transfer"}, AllStages)}
    [] OTHER -> {}

(* The work of a node, by stage; a CPU dispatch copies what it reads down  *)
(* and what it writes up.                                                  *)
Job(i, stage, accesses) == [node |-> i, stage |-> stage, accesses |-> accesses]

Jobs(i) ==
  CASE Kind(i) = "render"   -> {Job(i, s, Accesses) : s \in Graphics}
    [] Kind(i) = "dispatch" -> {Job(i, "compute", Accesses)}
    [] OTHER                -> {Job(i, "transfer", Accesses)}

Download(i) == Job(i, "transfer", {"read", "update"})
Upload(i)   == Job(i, "transfer", {"write", "update"})

Issue(job, q, at, start) == [job |-> job, queue |-> q, at |-> at, start |-> start]

First == Min(Waves \ submitted)

(* A partition of GPU work.  When it starts it waits for the partitions    *)
(* that went to the other queue before it.                                 *)
Advance(p) ==
  /\ submitted' = submitted \cup p
  /\ phase' = IF submitted \cup p = Waves THEN "submitted" ELSE phase

Standalone(p) == \E w \in p : ~CanRetain(w)
Presents(p)   == \E w \in p : Leases(w) # {}
Misfit(p)     == Renders(p) /\ IF retained THEN Standalone(p) ELSE Presents(p)

Submit ==
  /\ phase = "submitting" /\ host = 0
  /\ ~Has(First, "cpu")
  /\ LET p == Partition(First)
         q == Queue(p)
         N == UNION {Members(w) : w \in p}
     IN
     /\ ~Misfit(p)
     /\ barriers' = barriers \cup (UNION {WaveBarriers(w, q) : w \in p})
                             \cup (UNION {OwnBarriers(i, q) : i \in N})
     /\ issued' = issued \cup
          UNION {{Issue(j, q, PlaceOf(i), Base(First)) : j \in Jobs(i)} : i \in N}
     /\ Advance(p)
  /\ UNCHANGED <<graph, retained, planVars, host, ran, content, seen>>

(* With retained command buffers partition_standalone_commands refuses a   *)
(* render pass; without, a partition that renders must not present.        *)
Bail ==
  /\ phase = "submitting" /\ host = 0
  /\ LET p == Partition(First) IN Misfit(p)
  /\ phase' = "bailed"
  /\ UNCHANGED <<graph, retained, planVars, submitted, host, gpuVars>>

-----------------------------------------------------------------------------
(* A CPU dispatch: download, wait for all that was submitted, run, upload. *)
Copied(i, accesses) == {KeyOf(u.resource) : u \in {x \in Uses(i) : x.access \in accesses}}

SubmitDownload ==
  /\ phase = "submitting" /\ host = 0
  /\ Has(First, "cpu")
  /\ LET i == CHOOSE n \in Members(First) : TRUE
         r == Copied(i, {"read", "update"})
     IN
     /\ host' = i
     /\ barriers' = barriers \cup
          {Barrier("compute", Base(First), Source(First, k, "compute"), {"transfer"}) :
             k \in Keys(First) \cap r}
     /\ issued' = issued \cup
          {Issue(j, "compute", Base(First) + 1, Base(First)) :
             j \in IF r = {} THEN {} ELSE {Download(i)}}
  /\ UNCHANGED <<graph, retained, phase, planVars, submitted, ran, content, seen>>

(* An upload barrier without a source waits for everything.                *)
UploadSource(i, k) ==
  LET src == (IF k \in Keys(First) THEN Source(First, k, "compute") ELSE {})
             \cup (IF k \in Copied(i, {"read", "update"}) THEN {"transfer"} ELSE {})
  IN IF src = {} THEN AllStages ELSE src

RunHost ==
  /\ phase = "submitting" /\ host # 0
  /\ issued = ran
  /\ host' = 0
  /\ LET w == Copied(host, {"write", "update"}) IN
     /\ barriers' = barriers \cup
          {Barrier("compute", Base(First) + 2, UploadSource(host, k), {"transfer"}) : k \in w}
     /\ issued' = issued \cup
          {Issue(j, "compute", Base(First) + 3, Base(First)) :
             j \in IF w = {} THEN {} ELSE {Upload(host)}}
  /\ Advance({First})
  /\ UNCHANGED <<graph, retained, planVars, ran, content, seen>>

-----------------------------------------------------------------------------
(* The GPU.                                                                *)
Done[b \in barriers] ==
  /\ \A e \in issued : e.queue = b.queue /\ e.at < b.at /\ e.job.stage \in Earlier(b.src) => e \in ran
  /\ \A a \in barriers : a.queue = b.queue /\ a.at < b.at /\ Later(a.dst) \cap Earlier(b.src) # {}
                          => Done[a]

MayRun(e) ==
  /\ \A d \in issued : d.queue # e.queue /\ d.at < e.start => d \in ran
  /\ \A b \in barriers : b.queue = e.queue /\ b.at < e.at /\ e.job.stage \in Later(b.dst) => Done[b]

Temporary(i, access(_)) ==
  {u.resource.id : u \in {x \in graph.nodes[i].uses : x.resource.class = "temporary" /\ access(x)}}

Run(e) ==
  /\ e \in issued \ ran
  /\ MayRun(e)
  /\ ran' = ran \cup {e}
  /\ LET i == e.job.node IN
     /\ seen' = seen \cup {<<i, t, content[slotOf[t]]>> : t \in Temporary(i, Reads)}
     /\ content' = [k \in DOMAIN content |->
                      IF \E t \in Temporary(i, Writes) : slotOf[t] = k THEN i ELSE content[k]]
  /\ UNCHANGED <<graph, retained, phase, planVars, submitted, host, barriers, issued>>

-----------------------------------------------------------------------------
Next ==
  \/ \E i \in Nodes : Visit(i)
  \/ Plan
  \/ \E t \in Temporaries : Place(t)
  \/ Lowered \/ Accept \/ Refuse
  \/ Submit \/ Bail \/ SubmitDownload \/ RunHost
  \/ \E e \in issued : Run(e)

Spec == Init /\ [][Next]_vars

(* The submitting thread goes on, and the GPU executes what it may.        *)
FairSpec == Spec /\ WF_vars(Next)

-----------------------------------------------------------------------------
(* Types: depths are natural numbers, each temporary has at most one shared*)
(* buffer, and the GPU runs only what was submitted.                       *)
TypeOK ==
  /\ graph \in Graphs
  /\ retained \in BOOLEAN
  /\ phase \in Phases
  /\ visited \subseteq Nodes
  /\ depth \in [Nodes -> Nat] /\ planned \in [Nodes -> Nat]
  /\ slots \in Seq(Temporaries)
  /\ slotOf \in [Temporaries -> 0..Len(slots)]
  /\ host \in Nodes \cup {0}
  /\ ran \subseteq issued

(* The accesses of a job: attachments are written at the end of a render   *)
(* pass, other bindings are read by vertex input and shaders and written by*)
(* shaders.                                                                *)
Touches(job, u) ==
  /\ u.access \in job.accesses
  /\ Kind(job.node) = "render" =>
       job.stage \in IF u.resource.class = "target" THEN {"output"}
                     ELSE IF Writes(u) THEN {"shade"} ELSE {"input", "shade"}

JobsOf(i) == IF Kind(i) = "cpu"
             THEN (IF Copied(i, {"read", "update"}) = {} THEN {} ELSE {Download(i)})
                  \cup (IF Copied(i, {"write", "update"}) = {} THEN {} ELSE {Upload(i)})
             ELSE Jobs(i)

RanJobs == {e.job : e \in ran}

(* Of two nodes that touch the same bytes, one of them writing, the GPU    *)
(* touches them in record order: the waves, the barriers with their stages,*)
(* the semaphores between the queues and the host's waits together leave no*)
(* pair out, shared buffers included.  Only for two dispatches that bind   *)
(* the same drawable there is no barrier (configuration DrawableBarriers). *)
ConflictsInOrder ==
  \A f \in RanJobs : \A i \in Nodes : i < f.node =>
    \A u \in Uses(i), v \in Uses(f.node) : Conflict(u, v) /\ Touches(f, v) =>
      \A e \in JobsOf(i) : Touches(e, u) => e \in RanJobs

(* A node finds in a temporary what the last node before it wrote there,   *)
(* however temporaries share buffers and queues overlap.                   *)
TemporariesIntact ==
  \A s \in seen :
    LET writers == {i \in Binding(s[2]) : i < s[1] /\ s[2] \in Temporary(i, Writes)}
    IN writers # {} => s[3] = Max(writers)

(* Temporaries share a buffer only where the schedule kept them apart      *)
(* anyway (temporary.rs, module doc): a graph that is accepted has the same*)
(* waves as before its temporaries were lowered.                           *)
SharingAddsNoDelay ==
  phase \in {"submitting", "submitted", "bailed"} => depth = planned

(* A graph whose recorded dependencies have no cycle is executed: lowering *)
(* adds no cycle, and no queue, barrier or host wait blocks for ever.      *)
Acyclic ==
  \A S \in SUBSET Nodes : S # {} => \E j \in S : \A i \in S : ~Depends(i, j)

Executed == phase = "submitted" /\ issued = ran

AcyclicGraphsAreExecuted ==
  (phase = "ordering" /\ visited = {} /\ Acyclic) ~> (Executed \/ phase = "bailed")

(* The error message of partition_standalone_commands: partitions with     *)
(* render passes contain no uploads, and so never have to be recorded alone*)
(* (graph.rs:1080).                                                        *)
RenderPartitionsAreRetainable == ~(phase = "bailed" /\ retained)

(* The assertion of the path without retained command buffers: a partition *)
(* that presents contains no render pass (graph.rs:1739).                  *)
PresentsDoNotRender == ~(phase = "bailed" /\ ~retained)

(* The doc of explicit precedences: node i completes before node j         *)
(* (ir.rs:340).                                                            *)
PrecedencesHold ==
  \A p \in graph.precedes : (\E f \in RanJobs : f.node = p[2]) => JobsOf(p[1]) \subseteq RanJobs

=============================================================================
