# A TLA+ verification of goldy's submission core

goldy is a GPU runtime: a client records *schemes* (graphs of dispatches over
*parcels*, its buffers and textures), submits them on *contexts*, and the
runtime derives every wait, barrier and reuse decision from a ledger of
per-parcel epochs and one counter of submission tickets per device. This
directory holds TLA+ models of that core, the TLC runs that check them and the
theorems proved about them with TLAPS. Paths below are relative to the
repository.

    tlc -workers 2 -config Timeline.cfg MCTimeline     # one run
    tlapm DeviceTimelineProofs.tla                     # one proof module

## 1. Inventory

| Component | State | Operations | What is hard | What makes it correct |
|---|---|---|---|---|
| Device timeline, Vulkan (`src/backend/vulkan/{context,compute,pending_submit,types}.rs`) | `timeline_next`, wait targets per ticket, one semaphore per context and one for the device owner, `timeline_retired`, `retired_floor` | reserve and register a ticket, enqueue, submit, complete, scan the horizon, create and destroy contexts | independent queues, a worker thread, two semaphores signaled by one submit, errors delivered to whoever asks | a semaphore or horizon value proves completion; what a scan starts from never goes back; destruction ends and drains |
| Submission worker (`src/backend/submission_worker.rs`) | FIFO channel, `submitted_epoch`, latched error | enqueue, run the job, flush, wait for a ticket | asynchronous errors; the worker blocks on host waits | FIFO; every ticket it takes passes |
| Deferred-release ring (`src/vram_allocator.rs`, `src/context.rs`, `src/surface.rs`) | ring of (ticket, payload) | `defer_release`, `boundary_crossed`, `flush_deferred_deletions` | shared by all contexts; the horizon is read before the lock; the drain stops at the front | nothing in use is dropped; everything is dropped in the end |
| Ledger (`src/task_graph/cross_submit.rs`, `src/parcel.rs`, `src/timeline.rs`) | per parcel the last write and last reads of every context | snapshot, derive waits and barriers, stamp | no lock from snapshot to stamp; writes wait on the GPU, readers on the host | conflicting claims never overlap; no wedge; a settled parcel is idle |
| Promises, submit gate, settlement (`src/timeline.rs` 270-380, `src/parcel.rs` 100-270) | promises attached to stamps | resolve, break, block, fold into the ledger | lost wake-ups, a gate that blocks the thread that should open it | a gate opens when its promises are settled |
| Host claims and views (`src/host_claim.rs`, `src/host_access.rs`, `src/host_read_pool.rs`) | claim counters on stamps | acquire, read, write, release | the claim is taken after the wait | no GPU write under a host view |
| Frame table (`src/backend/vulkan/frame_table.rs`) | 8 rows, tokens, pins, a staging area, a device table and selector | reserve, write, copy prologue, pin, commit, evict | rows reused round robin; one selector cell for all command buffers of a context | a dispatch sees the row its submit wrote |
| Retained command buffers (`src/task_graph/cb_replay.rs`, `compute.rs` 3015-3180) | command buffers by key | retain, resubmit, evict | replay drops prologue barriers; rows stay pinned | a replay reads what a fresh record would |
| Task-graph analysis (`src/task_graph/{analysis,ir,graph,validate}.rs`, `src/temporary.rs`, `src/cpu_dispatch.rs`) | one graph's nodes, waves, temporaries and partitions | dependencies, waves, lowering of temporaries, barriers, partitions, queue boundaries, CPU dispatches | a queue overlaps whatever no barrier separates, with stages that must match; two queues and the host in one submission; temporaries share buffers | conflicting nodes run in record order; sharing changes no result and no schedule; what was recorded without a cycle is executed |
| Schemes, exchanges, petitions, swapchains (`src/{scheme,exchange,petition,surface,swapchain_pool}.rs`) | claims on drawables, pending resize | acquire, submit, present, discard, resize | errors half way through a present | every claim is consumed or discarded once |
| Frame orchestrator (`src/frame_orchestrator.rs`) | ring of frame slots | begin, end, drain | a full ring with a slot that has no ticket | at most `max_depth` frames in flight |
| Pools (`src/{transient,retained,deposit}_pool.rs`) | bins of pending and ready entries | take, park, promote, trim | reuse gated by the ledger | no entry is handed out in use |
| Allocation policy (`src/allocation_policy.rs`) | live bytes | before, after, freed | check apart from update | the budget holds |
| Specialisation, fusion, shader caches; shader IR and kernel macros | caches, IR | code generation | — | about generated code |
| Other backends (DX12, Metal, CUDA, WebGPU, CPU, mock); bindings; profiling | — | the same contract | — | — |

### How they interact

`Scheme::submit` resolves the scheme to partitions. For each partition the task
graph code snapshots the stamps of the parcels bound (`CrossSubmitScratch::plan`),
derives waits and a prologue barrier, and calls the backend. The backend
reserves a ticket, registers the *wait target* that will prove it, and enqueues
a job on the submission worker, which runs host waits and submits to the native
queue. Back in the client thread the parcels are stamped with the ticket. The
GPU signals the context's semaphore, and for render partitions the owner's as
well. Reclamation (boundary polls, pools, slot recycling) only ever compares
tickets with semaphores or with the *retired horizon*, which is a scan over
wait targets. Destroying a context drains it, lifts the horizon and drops its
wait targets.

## 2. Modules

| Module | Models | Runs | By hand |
|---|---|---|---|
| `DeviceTimeline` | tickets, wait targets, worker, native queues, semaphores, horizon, destruction | `timeline`, `horizon_destroy` | `ContextProgress`, `DestroyDrains` |
| `VramRing` | EXTENDS `DeviceTimeline` with the deferred-release ring | `ring` | `RingFlush`, `RingScans` |
| `Claims` | abstract: the claims the specification of the machine promises | as a property of `ledger` | |
| `Ledger` | snapshot, waits, submit, stamp, worker, queues, drops of contexts | `ledger`, `dropped_producer` | `LedgerThreads`, `DeadSemaphore` |
| `Settlement` | promises, submit gate, settle, host views, pool reuse of one resource | `settlement`, `settle_spins` | `ViewReissued`, `ViewWriter` |
| `FrameTable` | rows, pins, retained command buffers, prologue and selector of one context | `frame_table` | `ReplayEvicted`, `SelectorShared` |
| `Replay` | which schemes may replay their command buffers (`cb_replay`) | `replay` | `BakedStale`, `ReplayThreads`, `ReplayFails`, `ReplayLoop` |
| `TaskGraph` | one graph: waves, temporaries, barriers, partitions, two queues, CPU dispatches | `task_graph`, `standalone_render` | `DrawableBarriers`, `PresentRender`, `Precedence` |
| `Drawables` | frames of a swapchain: acquire, submit, claim, consume, discard, resize | `drawables` | `ResizeClaims`, `DiscardWedges`, `SpareImages` |
| `DeviceTimelineProofs`, `VramRingProofs`, `LedgerProofs`, `SettlementProofs`, `FrameTableProofs`, `ReplayProofs`, `TaskGraphProofs`, `DrawablesProofs` | the proofs (section 4) | | |
| `MCTimeline`, `MCVramRing`, `MCLedger`, `MCSettlement`, `MCFrameTable`, `MCReplay`, `MCTaskGraph` | constants of the runs; `Drawables` needs none | | |

The last column names configurations that are not among the listed runs: a
counterexample that is worth keeping, or (`RingScans`, `SpareImages`) a larger
instance that passes. Section 3 says what each shows.

The name after `Mutant of` in a comment marks a deliberately wrong variant of
the definition that follows it; it is used by no specification and only serves
to show that the property paired with it in `PROJECT.json` can fail.

### DeviceTimeline

State: `next` is `timeline_next`, `target` is `timeline_wait_targets`, `last` is
`last_submitted_seq`, `sem` holds the timeline semaphores, `epoch` and `latched`
are the worker's `submitted_epoch` and `latched_error`, `channel` its message
queue, `retired`/`floor` the cached horizon and the post-destroy floor. `stage`,
`by` and `route` follow a ticket from the reservation to the native queue
(`gpu`), and `life` is where a context is in its destruction.

A submit is four steps, because the queue lock covers only the first two:
`Allocate`, `Register` (with `record_last_submitted`, which follows at once on
the same thread), `Enqueue` or `EnqueueRefused`. A render ticket is reserved and
registered under the graphics queue lock, hence the second guard of
`AllocateRender`. `submit_with_scope` allocates compute tickets under no lock at
all, so `AllocateCompute` has no such guard. Submits of one context do not
overlap (`Submitting`): they record into the context's one command pool, which
Vulkan lets one thread use at a time, and `src/runtime.rs` asks clients to
submit from one thread. Different contexts interleave freely.

`WorkerSubmit` and `WorkerFail` both advance the epoch, as `worker_loop` does
before it looks at the result. `Complete` signals one or two semaphores; a
signal that does not increase the value is outside Vulkan's contract and may
leave the old value or store the lower one (`SignalOutcomes`).

A scan of the horizon is as many steps as it has looks at shared state. All
callers of `advance_timeline_retired` hold the backend's lock, so there is one
scan at a time (`scan`) and no context is created or detached during it; submits,
the worker, the GPU and teardowns go on. `BeginScan` loads cached horizon and
floor, `PassTicket`/`StopAtTicket` look up one ticket each, `CompareHorizon` loads
the cached horizon a second time and `StoreHorizon` overwrites it with what was
compared. A teardown may raise it between those two, and the store takes it back:
`retired` alone does decrease (TLC shows it in a few steps), the greater of
`retired` and `floor` (`ScanStart`) does not. `ScanEnds` is what a scan yields
that nothing disturbs.

Destruction follows `ContextDestroyHandle::wait` call by call, since each call
may take the latched error of another context's submit: `DestroyFlush`,
`DestroyAwaitSubmitted`, then either `DestroyTakeError`, which skips the
semaphore wait, or `DestroyAwaitSemaphore`. In both cases the teardown follows,
without the backend's lock: `ReadCompleted`, `RaiseFloor`, then `Teardown`, which
drops the wait targets and raises the cached horizon.

### VramRing

`DeferRelease` pushes at the end of the ring (`apply_frame_bookkeeping`, after
the submit). A poll reads its value before the ring is locked. A boundary poll
waits for the backend's lock (`AskHorizon`), scans (`BeginPoll`, the steps of the
timeline, `ReadHorizon` at the end) and drains (`Drain`); a flush reads its
context's progress (`ReadProgress`) and drains. `BesidePolls` says what goes on
meanwhile: a context is not dropped during a call on it, and a poll's scan ends
with that poll. Scans that no poll asked for are made by other threads, if
`OtherScans`. `payload` is a history variable that says whether a payload was
dropped by a boundary or a flush.

### Claims and Ledger

`Claims` states section 5 of `docs/src/fondaco/specification.md`: executions
hold private or public claims on parcels, never conflicting ones at the same
time, and later ones serialise behind earlier ones. `Ledger` models how the code
gets there. `SyncOf` is `apply_cross_submit_hazards_for_resource`: which epochs
become GPU waits, which become host waits on the worker, and when the partition
starts with a barrier. A plan keeps the set of epochs to wait for where the code
keeps one maximum per context; a semaphore counts up, so waiting for all of them
and waiting for the largest are the same.

A submit is five steps, since no lock spans them: `Snapshot` (read the stamps,
derive the waits), `Submit` (reserve and register the ticket, record
`last_submitted_seq`), `Resolve` or `Refuse` (turn contexts into raw semaphores;
fails when one has been dropped), `Enqueue`, `Stamp`. `WorkerSubmit` runs host
waits and submits natively, `Start` and `Finish` are the queues: a queue may
overlap partitions unless a barrier forbids it. `Drop` takes a context out of
the map and puts a flush marker into the worker's channel, `WorkerFlush` answers
it, `Teardown` waits for the context's semaphore and destroys it.

Refinement: `Machine` maps the model to `Claims` by `Phase` (a ticket is
requested once it is submitted, holds its claims while it is `running`, ended
when it is done or refused), `Private` and `Public` (its writes and reads).

### Settlement

One resource and the stamps (*deeds*) it is held under one after the other. A
stamp is `ParcelStamp`: per context the last write, the last reads and the
foreign reads of presents, the pending promises and the live host claims. A
promise is `PromiseCell`: an atomic `state`, the `park` mutex and the `wake`
condition variable, with the thread that holds the one and the threads that
sleep in the other, since the question is whether a wake-up can be lost.

* submit: `GateSnapshot` copies the pending promises, `BlockNext` .. `BlockWake`
  is `PromiseCell::block` step by step, `FoldIn` moves a resolved promise into
  the stamp, `GateClaims` fails when a host view is live, `Submit`, `Stamp`;
  a submit that presents continues with `Push`, `Resolve`, `Unpark`, `Notify`.
* settle and drop: `SettleCollect`, `SettleMeasure`, `SettleAwait`, `SettleReturn`
  are the loop of `wait_until_settled`, which a drop of the parcel runs as well.
* pool: `Release`, `DrainReady`, `Acquire` are the bin of a transient pool for
  one entry, reissued under a fresh stamp.
* view: `ViewWait` waits for the submission, `ViewEpochs` for the writes that the
  stamp knew of by then, `ViewClaim` counts the view; a write submitted before the
  claim is counted does not see it.

Which contexts are `live` matters because a stamp outlives them:
`gpu_progress` answers 0 for a context that is gone.

### Drawables

A frame goes through `Begin`, `apply_pending_resize`, `ReadGeneration`,
`LockBackend`, `WaitSlot` (the copy that last read this slot, the rendering into
the next), `NextImage` (`vkAcquireNextImageKHR`, which blocks while no image is
free) and `Submit`; then `Claim` and `Consume`, the latter in four steps,
`Prepare`, `Enqueue`, `QueuePresent`, `Finish`. An acquire holds the backend lock
from `LockBackend` to the end of `NextImage`; `Prepare` and `Finish` take it for
one step each, and the copy is enqueued and the image queued without it.
`Resize` bumps the generation and is applied by a later acquire: `Apply` replaces
the swapchain (`Recreate`: new images, slots from zero), `ApplySame` finds the
clamped extent unchanged and replaces nothing, `ApplyFails` fails the submit and
puts the resize back, with the swapchain as it was or with slots and images gone
(`image` is "retired"). An acquire also fails when the surface is out of date or
lost (`NextImageFails`), and when the scratch texture cannot be made after the
image was acquired (`ScratchFails`): the image stays taken. `Cancel` is a frame
that is given up: nothing returns its image either (`LostImages`). `Render`, `Copy`
and `Show` are the context's queue, the copy into the
swapchain image and the display. One thread submits; consumes may run on others.
`Depth` is how far the client runs ahead, `Slots` is `MAX_FRAMES_IN_FLIGHT`, and
`resize` asks for one image more than slots or more (`surface.rs:1052`).

An acquire waits for an image without a timeout and under the backend lock, which
`Prepare` and `Finish` of an earlier frame need. `EnoughImages` is the condition
under which that ends: of the images not lost, one is shown and at most
`Depth - 1` are held by claims, hence `Depth < Images - LostImages`. Acquire and
consume are shown to end unless the images become fewer; that they do not end
then is `DiscardWedges`.

### Replay

`cb_replay` decides whether a scheme's partition may be submitted from its
retained command buffer. It can, unless the key changed, the buffer was evicted,
or `topology_dirty` was raised because the other schemes on one of its parcels
(its *interaction set*) changed. `edges[p]` is the interaction set of parcel `p`,
`registered` is `prev_topology_parcels`, `dirty` the flag. A submit is `Prepare`
(load the flag, look at the key), `Resubmit` or `Record`, `Stamp`, `Finish`
(re-register edges, raise peers' flags, clear its own); `Fail` leaves it half
way. `Restructure`, `SetParams`, `Evict` and `Drop` come in between. `baked` is
what a record bakes: the parcels behind a barrier, with the barrier's source kind.

### FrameTable

Dispatches find their resources through a row of a device-local table, whose
number they read from the selector cell; the submit writes the row into staging
memory and the command buffer's prologue copies it when it executes. The model
keeps, instead of the indices, the recording that wrote them (`staging`,
`table`), so that "reads its row" is an equation. `last_token_for_row` and
`pinned_rows` are the code's; `retained` is `retained_compute_cbs`, `retiring`
and `reusable` are `timeline_cmd_buffers` and `free_cmd_buffers`.

`client` is the submit that the client thread is inside of: after `Reserve`
(counter, row, evictions) it waits in `Claim` for the row's ticket, records, and
ends in `Commit` or, when recording fails, in `Abort` (the drop of
`RowReservation`). A replay is `FindRetained`, which copies the entry under the
context's lock, and `Resubmit`, which updates it under the same lock taken
again. There is one client thread per context: it records into the context's one
command pool and `Scheme::submit` takes `&mut self`. Other threads drop schemes
and resources, which takes the entry out of the map (`EvictBegin`) before its
row is unpinned and its command buffer retired (`EvictEnd`); a fresh submit that
comes around to the row in between finds it pinned with nothing to evict and
fails (`RowStillPinned`, the "retained command buffer lifecycle bug" error,
`frame_table.rs:519`). A scheme is not dropped while it is being submitted, but a
resource it binds may be: `BindingsDropped`.

`Prologue` and `Finish` are the queue: the prologue's barrier waits for earlier
dispatches *on the queue*, hence `dispatching` per queue. `Fail` drops a submit
that the worker refused or could not submit natively.

### TaskGraph

Where `Ledger` takes a partition as one claim on the parcels it binds, `TaskGraph`
opens one submission and asks whether what is inside stays in order. A graph is a
function from nodes to a kind and a set of bindings; a resource has a class, an
identity and a part (0 the whole buffer, other parts disjoint ranges).

* `Visit` is one turn of the loop of `schedule_waves`, which `validate_acyclic`
  repeats: take a node whose dependencies were taken, push those that depend on it
  one level down. It runs twice, in phase `ordering` on the graph as recorded and
  in phase `checking` on the graph with temporaries lowered. The code's queue is
  some order of `Ready` nodes; the model allows all of them.
* `Plan`, `Place`, `Lowered` are `TemporaryStorage::lower`: intervals from the first
  schedule, one temporary placed after the other, bindings patched (`Lower`).
* `Accept`/`Refuse` is the answer of `validate_acyclic`; `Cuts` are the first waves
  of the partitions.
* `Submit` sends a partition: to the graphics queue when it renders, else to the
  compute queue. `Bail` is a partition that cannot be recorded (`Misfit`).
  `SubmitDownload` and `RunHost` are `run_cpu_partition`.
* `Run` is the GPU. A command has a place (`at`) in its queue's order and a stage; a
  barrier holds back later commands in its destination stages until earlier
  commands in its source stages are over, directly or through a chain of barriers
  (`Done`); a partition waits for everything that went to the other queue before
  it (`start`). Anything else overlaps. A render pass is three pieces of work,
  vertex input, shaders and attachment output.

`content` is the last writer of each shared buffer and `seen` what readers of
temporaries found there.

## 3. Runs

| Run | Instance | Shows |
|---|---|---|
| `timeline` | 2 compute contexts (symmetric), 1 rendering, 3 tickets, 1 failure | semaphores and horizon never run ahead of the GPU (above the floor); at rest the horizon reaches the last ticket; the inductive invariant `TicketOrder`; what scans start from never moves back |
| `ring` | a compute and a render context, 2 tickets, 1 failure, fair polls, no scans but theirs | boundary drops are safe although the value is stale and the ring is shared; payloads out of order delay each other only for a while; dropping a context ends unless a native submit failed or one of its submits was refused |
| `ledger` | 2 compute queues and the graphics queue, one parcel, all kinds of access, 3 partitions, one thread, one context dropped | exclusive claims, settled means idle, queued waits are on live semaphores, no wedge, a drop returns unless a submit was refused, `Ledger` implements `Claims`; the inductive invariant `LedgerOrder` |
| `settlement` | one resource, 2 threads on 2 contexts, one dropped; 3 tickets, 1 present, 2 deeds | settled means idle, the pool reissues an idle resource, no GPU write under a host view, the gate opens (no lost wake-up), a settle returns when what it waits for can be reached |
| `frame_table` | 2 rows, 2 keys, 4 recordings, 5 tickets, 1 failure, one queue, fair | dispatches read their rows, staging rows and command buffers are not reused too early, pins have one owner, the wait for a row ends |
| `replay` | 3 schemes, 2 on one context, one parcel, 2 pipeline kinds, 1 edit, 1 failure, one thread | a replayed buffer has a barrier wherever its scheme depends on another one; interaction sets hold only edges that will be taken out; re-records forced by the flag end; the inductive invariant `ReplayOrder` |
| `drawables` | 2 slots, 3 images, 2 frames in flight, 4 frames, 1 resize, 1 discard, any number of failures | a present shows its own frame in its own image, no slot is reused too early, acquire and consume end while there are `EnoughImages` |
| `task_graph` | all graphs of 3 nodes out of 10, and 4 of up to 7 nodes; with and without retained command buffers; 4 temporaries of 2 shapes; fair | conflicting accesses run in record order on both queues and around the host; temporaries in one buffer find their own contents; sharing changes no depth; an acyclic graph is executed |
| `horizon_destroy` | two compute contexts | **violation** of `HorizonSound` |
| `settle_spins` | one thread, two contexts, one present | **violation** of `SettleReturns` |
| `dropped_producer` | one thread, two compute contexts, both dropped | **violation** of `DropReturns` |
| `standalone_render` | 4 graphs of up to 7 nodes | **violation** of `RenderPartitionsAreRetainable` |

Bounds. Every counter is capped by a constant of its name: `MaxTicket`,
`MaxFailures`, `MaxReservations`, `MaxPromises`, `MaxDeeds`, `MaxFrames`,
`MaxResizes`, `MaxDiscards`, `MaxEdits`.

* Timeline, ring, ledger: the hazards listed need at most three tickets, one that
  is early, one that overtakes it, one that observes. Two compute contexts give
  independent queues, the rendering one the submits that signal two semaphores.
  Three partitions on one parcel give each pair of accesses and a third that
  depends on both; each parcel adds its waits on its own.
* Settlement: two threads are the one that waits and the one that resolves; a
  second promise would be one more pass of the loop in `BlockNext`. Two deeds are
  a resource before and after the pool.
* Frame table: two rows make the fourth recording wrap around twice; two keys let
  a pinned row be evicted for a fresh submit and for its own key, with replays in
  between.
* Replay: two schemes that interact and a third whose record, edit or drop comes
  in between; the second context keeps cross-queue waits apart from barriers.
* Task graph: three nodes are one that is early, one that must stay behind it and one
  that tempts the schedule; the ten node templates cover every kind and every pair of
  stages that can conflict. Longer chains are for what needs them: four temporaries
  on two shapes (`Chain`), record order against wave order (`Crossed`), two windows
  (`Windows`), two CPU dispatches between GPU work (`Host`).
* Drawables: four frames go around the two slots twice; a resize falls before,
  between or after them. The client keeps to the ring's depth, and takes no resize
  with a claim in hand (`ClaimsOutliveResize`; see below for when it does). Images are
  one more than slots, as in the code, so that the third acquire in a row may take
  the last free one and the fourth waits for an image with the lock in its hand,
  while the consume of the frame before is under way: one image is shown, one
  queued or held, and one held. A discard in this run leaves no more than `Depth`
  images and so ends what is promised; `SpareImages.cfg` (3 slots and 4 images, the
  code's numbers, 2 frames in flight, 5 frames) has an image to lose and still
  makes acquires wait. It passes, in some minutes.
* Ring: scans of threads that do not poll are left out of the run for their cost
  (`OtherScans`); `RingScans.cfg` has them and passes, in some minutes, and the
  theorems do not ask about them.

Runs with `CHECK_DEADLOCK FALSE` really stop: tickets are used up, contexts are
gone, frames are shown, a graph is executed. The type invariants of modules with
proofs are theorems (section 4); the runs do not repeat them. `Ledger` instead has a `Done` step, so that TLC's deadlock
check means "nobody can move although a partition is unfinished".

### What the violating runs say

Each checks one sentence of the repository that the code does not live up to.

* `horizon_destroy`: the floor is the completed value of *one* context, yet is
  used as a horizon for all.
* `settle_spins`: the value of a resolved promise is folded into the epochs of
  every context that uses the parcel (`parcel.rs:239`). It is a ticket of one of
  them; another's own progress may never reach it, while the wait for it returns
  at once because the device has passed it. `wait_until_settled` loops for ever.
* `dropped_producer`: a stamp keeps the epochs of a context that is gone, and a
  submit that waits for one fails (`pending_submit.rs:20`, `:45`) after its ticket
  was reserved, registered and recorded. Stamps are not pruned, so every later
  submit on that parcel fails as well, and dropping the submitting context waits
  for a ticket nobody signals. One thread and no failure of the driver are enough.
* `standalone_render`: the waves of a graph hold whatever has the same depth, and a
  partition is cut where waves start or stop to render, so that a render pass may
  share its partition with an independent node that cannot be retained, such as the
  copy of a texture into another window's image (graph `Windows`). With retained
  command buffers, the default, `partition_standalone_commands` (`graph.rs:1078`)
  refuses it with a message that says this cannot be, in the middle of the submit.

### Further counterexamples

Kept as configurations to run by hand; each ends in the violation named.

| Configuration, module | Property | What happens |
|---|---|---|
| `ContextProgress`, `MCTimeline` | `ProgressSound` | a context that submits compute and render partitions: the render submit signals the context's semaphore from the graphics queue, ahead of the compute queue |
| `DestroyDrains`, `MCTimeline` | `DestroyDrains` | an error latched by any submit lets a context be torn down without the wait for its work |
| `RingFlush`, `MCVramRing` | `FlushDropsRetired` | tickets of all contexts are compared with one context's progress |
| `ReplayEvicted`, `MCFrameTable` | `ReusableIsIdle` | a buffer dropped on another thread between lookup and update of a replay (`compute.rs:3047`, `:3095`) retires the command buffer under its old ticket, so that it may be recorded again while the replay executes; submits do not take the backend lock that `runtime.rs:18` speaks of |
| `ViewReissued`, `MCSettlement` | `ViewExcludesWrites` | a buffer released to the pool under a live host view (`retained_pool.rs:222`) comes back under a fresh stamp, which knows of no view |
| `ViewWriter`, `MCSettlement` | `ViewExcludesWrites` | the claim of a host view is taken after the wait for the GPU (`host_claim.rs:348`): a submit of another thread that has passed the gate in between writes under the view |
| `DrawableBarriers`, `MCTaskGraph` | `ConflictsInOrder` | two dispatches on one drawable (`with_present_access`, `scheme.rs:4120`) conflict and come into different waves, but `compute_barriers` names buffers, textures, temporaries and deposits only and a lease falls through its last arm (`analysis.rs:729`), although "any edge crossing into this wave means the conflicting resource needs a barrier" (`analysis.rs:685`): the second may run first. Copies into a drawable bring their own barriers |
| `PresentRender`, `MCTaskGraph` | `PresentsDoNotRender` | without retained command buffers a partition that presents may contain an independent render pass: the assertion at `graph.rs:1730` fails, and a release build panics for want of a resolver |
| `Precedence`, `MCTaskGraph` | `PrecedencesHold` | an explicit precedence (`GroupBuilder::after`, `scheme.rs:704`; "node i must complete before node j", `ir.rs:340`) between nodes without a common resource orders their waves, but no barrier is emitted for it and the nodes overlap on the queue |
| `SelectorShared`, `MCFrameTable` | `DispatchReadsItsRow` | the frame table is shared by a context's compute partitions and its render partitions, on another queue; the prologue of one overwrites the selector under the other's dispatches |
| `LedgerThreads`, `MCLedger` | `ClaimsExclusive` | two submitting threads read the same stamps (the runtime's notes recommend one submitting thread; the machine's specification does not have that condition) |
| `DeadSemaphore`, `MCLedger` | `QueuedWaitsAreLive` | one thread has resolved raw semaphores, another drops their context before the job is enqueued |
| `ResizeClaims`, `Drawables` | `PresentsOwnFrame` | a resize between a claim and its consume, with an acquire in between: the frame is copied into the new swapchain, or panics (`present_split.rs:49`). With two threads a resize between `apply_pending_resize` and `generation()` (`swapchain_pool.rs:267`) does the same |
| `DiscardWedges`, `Drawables` | `ConsumeAlwaysReturns` | 3 slots, 4 images, 3 frames in flight, 1 discard: the discarded frame keeps its image, an acquire waits for one without a timeout under the backend lock (`surface.rs:823`), and the consume that would free one waits for the lock |
| `BakedStale`, `MCReplay` | `BakedBarrierStaysCurrent` | the source kind of a baked barrier gets stale without a change of the interaction set, because the ledger keeps only the newest write's kinds (`timeline.rs:234`); other barriers of the command buffer happen to cover compute sources |
| `ReplayThreads`, `MCReplay` | `ReplayCoversForeign` | a flag raised between its load (`scheme.rs:2559`) and its reset (`scheme.rs:2745`) by a submit on another thread is lost |
| `ReplayFails`, `MCReplay` | `ReplayCoversForeign` | a partition is stamped, a later one fails, and nothing is registered (`scheme.rs:2965`) |
| `ReplayLoop`, `MCReplay` | `LoopCarriedStaysCurrent` | a scheme's own second submit replays without the barrier behind its first |

One more disagreement needs two *rendering* contexts: the lock that should keep
the owner's signals in ticket order (`compute.rs:2928`, doc at `context.rs:22`)
is released before the enqueue, so `ProgressSound` fails for the owner. It is the
second conjunct of `SeparateQueues` (section 4).

### Fairness

Weak fairness, except where noted. Nobody is forced to begin a call.

* Everywhere: the worker thread runs for the device's life, native queues finish
  what they are given, a thread inside a submit or a drop continues.
* `ring`: a scan and a poll under way go on. A live context keeps polling
  (`poll_signals_and_service` is called every frame): strong fairness of `AskHorizon`,
  because a flush may be under way whenever the scheduler looks, and of `BeginPoll`,
  because others hold the backend's lock now and then; a mutex that starved one
  thread for ever would be needed to break it.
* `ledger`: the worker also answers flush markers.
* `frame_table`: a client that may claim its row does.
* `settlement`: a call runs until it returns or sleeps on the condition variable;
  a sleeper that was notified wakes up.
* `drawables`: an acquire and a consume under way continue when the lock, the slot
  or an image lets them; rendering, copies and the display go on. The client need
  not claim, consume or resize, and nothing need fail: no acquire is helped out of a
  wait by an error (`SubmitFails`) or by a resize that turns out to be none
  (`ApplySame`).
* `task_graph`: the submitting thread goes on and the GPU executes what no barrier or
  semaphore holds back; one condition on the whole next-state relation is enough,
  since each step is taken at most once.
* `RerecordsEnd` of `replay` needs none: it bounds how often a flag is raised.

## 4. Proofs

`DeviceTimelineProofs` proves, for any sets of contexts and any bounds:

* `TimelineTypes`: `Spec => []TypeOK`.
* `RetiredHorizonIsMonotone`: `Spec => HorizonMonotone`: what scans start from never
  decreases. `StoreHorizon` may store less than the cached horizon is by then, hence
  the invariant `FloorHolds`: when a scan is about to store, the cached horizon is
  at most what it stores, or at most the floor, because a teardown has raised the
  floor, which nothing lowers, before it raises the cached horizon.
* `TicketsCompleteInOrder`, `SemaphoresProveCompletion`,
  `RetiredHorizonIsSound`: `SeparateQueues => (Spec => []...)` for `TicketOrder`,
  `ProgressSound`, `HorizonSoundAboveFloor`.
* `HorizonReachesTheLastTicket`: `SeparateQueues => (Spec => []QuiescentHorizonComplete)`,
  the converse: at rest, with no submit failed or refused, a scan reaches the last
  ticket handed out, whatever contexts were destroyed. The invariant `HorizonOrder`:
  a ticket above the horizon keeps the wait target that will prove it, until the
  destruction of its context, which lifts the floor above every ticket it drained.

`SeparateQueues` says that no context both computes and renders and that one
context renders. Without the first conjunct `ContextProgress.cfg` breaks
`ProgressSound`, without the second two rendering contexts do (section 3). Under it every semaphore is signaled
by the submits of one context only, up to the owner and its one user, and those
come one at a time. `ProgressSound` alone is not inductive: a `Complete` may
signal a ticket while a lower one of the same context is behind. `TicketOrder`
adds why that cannot be: of one context only the newest ticket is inside a
submit (`IssueOrder`), the channel holds its queued tickets in ascending order
(`ChannelOrder`), and so do the native queues (`GpuOrder`). The horizon then
follows from `ProgressSound`, since the scan only passes tickets whose target
semaphore has reached them.

`VramRingProofs` proves `RingImplementsTimeline` (the ring leaves the timeline's
behaviour alone, so all of the above carries over) and `BoundaryDropsAreSafe`:
what a poll read is still covered by the horizon when it drains, because the
horizon is monotone; the strengthening is `DrainCovered`. Both hold whatever scans
other threads make (`OtherScans`). `RingHoldsEachPayloadOnce`
(`RingSpec => []RingTypeOK`): no payload is in the ring twice, or in it and dropped.

`FrameTableProofs` proves, for any number of rows, queues, keys and any bounds,
and whether or not resources are dropped during replays:

* `FrameTableTypes`: `Spec => []TypeOK`.
* `PinsAreOwned`: `Spec => []PinsHaveOneOwner`. The strengthening `PinOrder` adds
  that neither row nor key of a fresh submit under way is retained and that a row
  being recorded is unpinned, so that `Commit` adds a pin nobody has.
* `StagingStaysIntact`, `DispatchesReadTheirRows`: `OneQueue => (Spec => []...)`
  for `StagingIntact` and `DispatchReadsItsRow`. `OneQueue` is the condition the
  code's comment assumes and `SelectorShared.cfg` breaks. The inductive invariant
  `RowOrder` says why a claimed row has no work left: every submit under way has
  a ticket above the semaphore (`WorkOrder`, which needs the queue's order: with
  two queues a signal may pass a lower ticket) and at most the row's token, while
  `Claim` waits until the semaphore has reached the token; the rows of retained
  command buffers are never claimed because they are pinned. The prologue then
  copies what the submit recorded, and only the next submit of the same queue
  touches the selector.
* `ReusedBuffersAreIdle`: `OneQueue /\ ~BindingsDropped => (Spec => []ReusableIsIdle)`;
  `ReplayEvicted.cfg` shows why the second condition is needed. The invariant
  `ReuseOrder`: every submit under way has its command buffer held (retained, being
  evicted or retiring) up to a ticket that covers it, each command buffer has one
  holder, and a replay keeps its entry.

`LedgerProofs` proves, for any sets of contexts, parcels and accesses and any
bound:

* `LedgerTypes`: `Spec => []TypeOK`.
* Under `OneSubmitter` (one thread submits): `WaitsCoverConflicts` (`LedgerOrder`),
  `ClaimsAreExclusive`, `SettledParcelsAreIdle`, `QueuedWaitsStayLive` for the
  invariants of the run, and `LedgerImplementsClaims`: `Spec => ImplementsClaims`.

None of these invariants is inductive: that two conflicting partitions do not
run at the same time rests on waits derived long before, from stamps written
before that. `LedgerOrder` is the chain. `StampsCover`: when the one thread takes
its next snapshot, the stamps cover every conflicting ticket that is not over, so
the plan it derives is `Behind` each of them (`WaitsCover`): either it is on the
same queue with a barrier, or it waits for that queue's semaphore to reach the
ticket. `QueuesOK` and `NoOvertaking`: a barrier starts only when what its queue
holds in front of it is done. `SemaphoresOK`:
a semaphore is signaled from one queue only, in ticket order, so a value reached
proves all tickets up to it done; this also gives that a settled parcel is idle.
`DropsFollow`: the flush marker of a dropped context comes behind every queued
job that waits on its semaphore, hence none finds it destroyed. With two threads
the first link breaks (`LedgerThreads.cfg`), and so does the last
(`DeadSemaphore.cfg`).

`ReplayProofs` proves, for any schemes, contexts, parcels, footprints and bounds:

* `ReplayTypes`: `Spec => []TypeOK`; `EdgesStayTracked`: `Spec => []EdgesAreTracked`,
  with any number of threads and failures.
* `ReplaysAreCovered`: `OneSubmitter => (Spec => []ReplayCoversForeign)`, where
  `OneSubmitter` is `OneThread` and no late failures; `ReplayThreads.cfg` and
  `ReplayFails.cfg` show that it needs both. The inductive invariant `ReplayOrder`
  says that a graph that did not change has its edges in place
  (`GraphsAreRegistered`), that an edge stands for work in the ledger
  (`EdgesFollowWork`), and that a buffer which may be replayed covers all other
  schemes' work but that of the submit under way, whose registration changes the
  interaction set and thereby raises the flag (`BuffersCoverWork`).
* `TopologyFollowsWork`: under the same conditions `ReplayOrder` itself, which the run
  checks as an invariant, holds in every state.

`TaskGraphProofs` proves, for any graphs, any number of nodes and temporaries and
any shapes:

* `TaskGraphTypes`: `Spec => []TypeOK`.
* `SharingKeepsTheSchedule`: `Spec => []SharingAddsNoDelay`, the claim of the module
  comment of `temporary.rs`. It takes two schedules of two graphs to state, and the
  invariant `ScheduleOrder` follows the four phases between them. `PlanOrder`: the
  first traversal either puts every node below its dependencies (`Layered`) or
  leaves nodes that wait for each other (`Stuck`); its depths are tight. `PackOrder`:
  of two temporaries in one buffer all binders of one come before all binders of
  the other, by node and by depth. Hence an edge that sharing adds leads to a
  greater planned depth (`DependenciesAreLayered`), so the second traversal never
  pushes a node below its plan, tightness keeps it from staying above it, and a
  graph with nodes that wait for each other is never accepted (`CheckOrder`).
* `ConflictsRunInOrder`: `Spec => [](DrawablesAreCopied => ConflictsInOrder)`: the GPU
  touches conflicting bytes in record order. `DrawablesAreCopied` says that of two
  conflicting accesses to a drawable the first is a `resolve` (`CopyRenderTarget`), or
  the second is one and the first a copy too; `DrawableBarriers.cfg` is two dispatches
  on one drawable, where it fails. The invariant `ExecutionOrder` adds two things to
  `ScheduleOrder`. `SubmissionOrder` is what the submits so far left behind: the plan
  puts conflicting nodes into different waves (`Accepted`), waves are submitted in
  their order (`Advanced`), each piece of work issued is one of a node, in the place
  of its wave and behind the barriers of its wave (`Formed`), every submitted wave
  has all of its work issued (`Covered`) and none twice (`Once`), a CPU dispatch went
  out after all before it had run (`HostWaited`), and what is on one queue starts
  behind what went to the other before (`QueuesWait`). `BracketedInOrder` is the claim
  itself for every pair but those that only a drawable orders. A piece of work that
  starts is then behind its partner on the same queue because the barrier in front
  of its wave names the partner's stage, directly or through the wave that a chain of
  barriers passes; on the other queue because of the semaphore; and around a CPU
  dispatch because of the host's wait.
* `SharedBuffersKeepContent`: `Spec => []TemporariesIntact`, for every graph. The
  invariant `SharedContents` adds to `ExecutionOrder` that a shared buffer holds what
  the latest recorded of the nodes that ran and wrote it left there (`Contents`).
  By `PackOrder` all binders of a temporary come before those of the next one in the
  same buffer, and by `BracketedInOrder` they run so: the last writer before a reader
  has run when the reader does, and no later one has.

`SettlementProofs` proves, for any contexts, threads, kinds of submit, and bounds:

* `SettlementTypes`: `Spec => []TypeOK`.
* `SettleSeesTheEnd`: `Spec => []SettledMeansIdle`, with any number of threads.
* `PoolReissuesIdle`: `Spec => []ReissuedIsIdle`, with any number of threads and
  whether or not views outlive their parcel.
* `ViewsKeepWritesAway`: `OneWriter => (Spec => []ViewExcludesWrites)`.

The first three rest on `SettlementOrder`. What a submit leaves behind is on no
stamp until `Stamp`: between `Submit` and `Stamp` only the call knows of it. `Recording`
says that every submit in flight is covered by its stamp's table on its own context
or belongs to such a call. A settle is answered from what it was *owed* when it
began, which excludes those calls, and tables only grow, so `Awaiting` holds: what is
owed and in flight is on the stamp, and the semaphore, which moves in ticket order
(`Queues`), has not passed it. For the pool, `Leased` gives that nobody is inside a
call when the resource is parked, hence `ready_after` covers everything in flight
(`Binned`), and a bin whose contexts have passed `ready_after` has nothing left.
`Counted` ties the number of claims to the views and the bounds to the calls under
way. `OneWriter` has two halves and TLC has a counterexample without either: views
must go before the last clone of the parcel does (`ViewReissued.cfg`), and the thread
that views must be the only one that writes, for a submit that has passed the gate
on one thread does not see a claim made on another before it reaches the queue
(`ViewWriter.cfg`). Under it `ViewOrder` is inductive: the epochs that a view waits
for cover every write in flight, and a write past the gate has seen no claim.

The proof corrected the model twice. A frame that waits at the gate for an older
promise was no longer counted among those that will make one (`Owing`), so that with
`MaxPromises = 2` the run could have left the bound; and `SettlementAssumption` now
says that there are finitely many threads, without which a count of views is no
number.

`DrawablesProofs` proves, for any number of slots, images, frames in flight and
resizes:

* `DrawableTypes`: `Spec => []TypeOK`.
* `ClaimsPresentTheirFrame`, `SlotsAreIdle`: `KeepsPace => (Spec => []...)` for
  `PresentsOwnFrame` and `SlotIsIdle`. `KeepsPace` says that no claim outlives a
  resize (`ResizeClaims.cfg` shows why) and that the client settles a frame before it
  begins the one `Slots` frames later; with `Depth = 3` and two slots TLC breaks both
  invariants. The invariant `FrameOrder` follows a frame from the slot it was rendered
  into, through the claim, to the copy that reads it: two frames that are not settled
  are in different slots, and a slot is acquired only when its `sync` has passed the
  last copy out of it. Failures are among the steps: after a resize that broke off
  nothing is queued for the screen, and the resize stays pending until one has
  succeeded (`BrokenWaits`).

The proof corrected an assumption here as well: that render targets are written by
render passes and read by copies only, which is all the API offers (`render_pass`,
`scheme.rs:3550`; `copy_to_present` and `copy_to_texture`, `scheme.rs:3240`, `:3513`),
was used by `Barriers` without being said.

Assumptions: `SettlementAssumption` (the sets are what their names say, threads are
finite in number), `TaskGraphAssumption` (nodes and temporaries are numbered from 1 and
finite in number, temporaries are bound by dispatches only, render targets as above,
precedences go forward), `TimelineAssumption`, `LedgerAssumption`, `FrameTableAssumption`,
`ReplayAssumption` (the sets are what their names say, the owner is not a context,
bounds are naturals), `RingAssumption`, `DrawablesAssumption` (numbers are naturals).

Model-checked only: all liveness, since TLAPS does not handle fairness and
ENABLED. Every safety property of the passing runs is stated by a theorem.
`RowWaitEnds` of `FrameTable`
excuses a wait after a failed submit: the wait has no timeout
(`frame_table.rs:537`), and if the row's last ticket is the one that failed and
nothing later signals, it never ends.

## 5. Not modelled

Besides the components marked `not_modelled` in `PROJECT.json`:

* Everywhere: device loss, devices with a single queue, the content of payloads,
  submissions of several partitions outside `TaskGraph`.
* `DeviceTimeline`: cross-submit waits, which only delay a ticket or refuse it
  (`ProducerGone`); `Ledger` has them. The pruning of wait targets by `wait_until`.
  The copies of presents, which reserve tickets of the owner and enqueue them after
  the lock is released (`present_split.rs:321`, `:338`): they are to the owner what a
  second rendering context is, so that the theorems under `SeparateQueues` do not
  speak of a device that presents while it renders.
* `Ledger`: parcels are buffers and textures. Render targets and acceleration
  structures have the same waits but no prologue barrier (`cross_submit.rs:303`), and
  rest on other barriers for their order within one queue. Failing native submits, the foreign reads of presents (in
  `Settlement`), key aliasing. `QueuedWaitsAreLive` is about jobs in the channel; a
  partition already on a native queue may still refer to a semaphore that is
  destroyed once its value was reached.
* `Settlement`: failed submits, views through a staging copy, host sinks, several
  resources under one gate, `wait_until_settled` with a deadline.
* `FrameTable`: the prologues and rows of single render passes (`compute.rs:2795`):
  a command buffer has one prologue here. With a prologue of the graph in front, each
  pass writes and copies its indices into the row of that prologue without touching
  the selector; without one, each pass reserves a row, of which the guard keeps the
  last. Also the legacy path of standalone rendering, the slots of descriptors
  that retained command buffers pin along with their row, several threads
  submitting on one context, and a pin leaked by a lookup error between `pin_row`
  and the submit (`compute.rs:2921`; these lookups do not fail on a live context).
* `TaskGraph`: memory visibility (access masks, queue family ownership) and image
  layouts, so only the order of execution is shown; the barriers that open and close
  a command buffer, those around copies other than `CopyRenderTarget` and those of
  the frame table's prologue, all of which only add order; acceleration
  structures, deposits, fusion, fused uploads, splits of compute partitions by cost,
  the reuse of a temporary's buffer across lowerings, devices whose compute and
  render work share a queue (there a render partition merges with the compute
  partition in front of it).
* `Replay`: present slots, merged partitions, the wait before a buffer is recorded
  over, replay being switched off.
* `Drawables`: render passes that draw into the image, drawables acquired before
  the submit, present modes, the binary semaphores, errors of the native present.
  A resize that broke off after the old swapchain was given up is retried with
  handles that are gone; the model lets the retry succeed or fail.

## 6. Plan

Done: `DeviceTimeline`, `VramRing`, `Ledger` with drops, `FrameTable`,
`Settlement`, `Drawables`, `Replay`, `TaskGraph`, and the proofs of section 4. Next, most
important first:

1. Failing native submits inside `Ledger`, then several partitions per submission.
2. `KeyAlias`: `find_ledger_entry` and `mark_reference` against a reference
   definition of aliasing, as pure operators.
3. The frame orchestrator on top of `Drawables`.
4. `TaskGraph` on one queue, with merged partitions, and fusion as a refinement.
