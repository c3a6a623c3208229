--------------------------- MODULE DeviceTimeline ---------------------------
(***************************************************************************)
(* The device timeline of the Vulkan backend: one counter of submission    *)
(* tickets per device, one timeline semaphore per context and one for the  *)
(* synthetic device owner (the graphics queue), the FIFO submission worker *)
(* that hands recorded work to the native queues, and the "retired"        *)
(* horizon that every reclamation decision of the device reads.            *)
(*                                                                         *)
(* A partition submitted by context c takes a ticket t.  A compute         *)
(* partition runs on c's own queue and signals c's semaphore with t; a     *)
(* render partition runs on the graphics queue and signals both c's and    *)
(* the owner's semaphore.  The wait target registered for t names the      *)
(* semaphore whose value proves t complete.                                *)
(*                                                                         *)
(* Not modelled: cross-submit semaphore waits (here they may only delay    *)
(* completion or, after a context is gone, make a submit be refused;       *)
(* Ledger has them), device loss, one-queue devices, where all contexts    *)
(* share one queue, and the copies of presents, which reserve tickets of   *)
(* the owner as well and are enqueued after the queue's lock is released:  *)
(* they come in as submits of one more rendering context would, and        *)
(* SeparateQueues does not hold with them.  In a scan the two loads it     *)
(* starts with are one step, and so are its store and the pruning of the   *)
(* targets, and a teardown's pruning and its raise of the cached horizon:  *)
(* the floor, raised before, covers what they could show in between.       *)
(***************************************************************************)
EXTENDS Integers, Sequences, FiniteSets

CONSTANTS
  Contexts,     (* submission contexts that may ever exist on the device     *)
  Computing,    (* contexts that submit compute partitions                   *)
  Rendering,    (* contexts that submit render partitions                    *)
  Owner,        (* the device-owner pseudo-context (graphics queue)          *)
  NoTarget,     (* absent entry of timeline_wait_targets                     *)
  MaxTicket,    (* bound on the tickets taken                                *)
  MaxFailures   (* bound on native submits that fail on the worker           *)

ASSUME TimelineAssumption ==
  /\ Computing \subseteq Contexts
  /\ Rendering \subseteq Contexts
  /\ Owner \notin Contexts
  /\ NoTarget \notin Contexts \cup {Owner}
  /\ MaxTicket \in Nat
  /\ MaxFailures \in Nat

Tickets == 1..MaxTicket
Queues  == Contexts \cup {Owner}

(* Where a ticket is on its way to the GPU.  "refused": the submit returned*)
(* an error after the ticket was registered; "failed": the native submit   *)
(* did.                                                                    *)
Stages  == {"free", "allocated", "registered", "queued", "issued", "done", "refused", "failed"}

(* A context's life: live, then the steps of its destruction.              *)
Lives   == {"unborn", "live", "detached", "flushed", "submitted", "finishing", "counted",
            "floored", "gone"}

(* Where the scan of advance_timeline_retired is: looking tickets up, about*)
(* to compare what it reached with the cached horizon, or to store it.     *)
ScanSteps == {"idle", "walk", "compare", "store"}
NoScan    == [step |-> "idle", at |-> 0]

VARIABLES
  next,      (* timeline_next: the next ticket to hand out                  *)
  stage,     (* stage[t]                                                    *)
  by,        (* by[t]: the context whose submit took t                      *)
  route,     (* route[t]: the queue t runs on                               *)
  target,    (* timeline_wait_targets                                       *)
  last,      (* last_submitted_seq of each context                          *)
  channel,   (* the worker's FIFO of tickets                                *)
  gpu,       (* gpu[q]: tickets handed to native queue q and not complete   *)
  sem,       (* timeline semaphore values                                   *)
  epoch,     (* the worker's submitted_epoch                                *)
  latched,   (* the worker holds an error nobody has taken                  *)
  failures,  (* native submits that failed so far                           *)
  life,      (* life of each context                                        *)
  retired,   (* timeline_retired: cached horizon                            *)
  floor,     (* retired_floor: raised when a context is destroyed           *)
  scan,      (* the scan under way, if any, and the ticket it has reached   *)
  lifted     (* lifted[c]: the completed value c's teardown has read        *)

tickets == <<next, stage, by, route, target, last>>
worker  == <<channel, epoch, latched, failures>>
device  == <<gpu, sem>>
horizon == <<retired, floor, scan, lifted>>
timelineVars == <<next, stage, by, route, target, last, channel, epoch, latched, failures,
                  gpu, sem, life, retired, floor, scan, lifted>>

-----------------------------------------------------------------------------
(* Semaphores a ticket signals on completion (build_submit_signal_infos).  *)
Signals(t) == {by[t], route[t]}

(* A ticket that will still reach the GPU or is on it.                     *)
Pending(t) == stage[t] \in {"allocated", "registered", "queued", "issued"}

(* c's thread is inside a submit.  Submits of one context do not overlap:  *)
(* they record into the context's only command pool, which Vulkan lets one *)
(* thread use at a time, and the runtime asks for one submitting thread.   *)
Submitting(c) == \E t \in Tickets : by[t] = c /\ stage[t] \in {"allocated", "registered"}

(* Completed value of a wait target: a context that has left the context   *)
(* map counts as 0.                                                        *)
CompletedValue(x) == IF x = Owner \/ life[x] = "live" THEN sem[x] ELSE 0

(* Mutant of Attributed: a ticket without a wait target is passed over.    *)
AttributedOrMissing(t) ==
  t < next /\ (target[t] # NoTarget => CompletedValue(target[t]) >= t)

(* Ticket t counts as retired for the prefix scan.                         *)
Attributed(t) == target[t] # NoTarget /\ CompletedValue(target[t]) >= t

ScanStart == IF retired > floor THEN retired ELSE floor

(* A scan that nothing disturbs ends at n: everything after its start and  *)
(* up to n is attributed, and n + 1 stops it.                              *)
ScanEnds(n) ==
  /\ n >= ScanStart
  /\ \A t \in (ScanStart + 1)..n : Attributed(t)
  /\ n < MaxTicket => ~Attributed(n + 1)

(* The values a semaphore at v may hold after a signal of t.  Signalling a *)
(* value that is not greater than the current one is outside the Vulkan    *)
(* contract: drivers keep the old value or take the new one.               *)
SignalOutcomes(v, t) == IF t > v THEN {t} ELSE {v, t}

-----------------------------------------------------------------------------
Init ==
  /\ next = 1
  /\ stage    = [t \in Tickets |-> "free"]
  /\ by       = [t \in Tickets |-> NoTarget]
  /\ route    = [t \in Tickets |-> NoTarget]
  /\ target   = [t \in Tickets |-> NoTarget]
  /\ last     = [q \in Queues |-> 0]
  /\ channel  = << >>
  /\ gpu      = [q \in Queues |-> << >>]
  /\ sem      = [q \in Queues |-> 0]
  /\ epoch    = 0
  /\ latched  = FALSE
  /\ failures = 0
  /\ life     = [c \in Contexts |-> "unborn"]
  /\ retired  = 0
  /\ floor    = 0
  /\ scan     = NoScan
  /\ lifted   = [c \in Contexts |-> 0]

(* Create a context: a fresh semaphore at 0, nothing submitted.  Creating  *)
(* and detaching hold the backend's lock, as a scan does throughout.       *)
CreateContext(c) ==
  /\ life[c] = "unborn"
  /\ scan = NoScan
  /\ life' = [life EXCEPT ![c] = "live"]
  /\ UNCHANGED <<tickets, worker, device, horizon>>

(* Take the next ticket for a partition that will run on queue q.  Compute *)
(* partitions take it under c's own queue lock or under none.              *)
Allocate(c, q) ==
  /\ life[c] = "live"
  /\ ~Submitting(c)
  /\ next \in Tickets
  /\ next'  = next + 1
  /\ stage' = [stage EXCEPT ![next] = "allocated"]
  /\ by'    = [by EXCEPT ![next] = c]
  /\ route' = [route EXCEPT ![next] = q]
  /\ UNCHANGED <<target, last, worker, device, life, horizon>>

AllocateCompute(c) == c \in Computing /\ Allocate(c, c)

(* A render ticket is taken and registered under the graphics queue lock:  *)
(* no other context is between those two steps.                            *)
AllocateRender(c) ==
  /\ c \in Rendering
  /\ \A t \in Tickets : route[t] = Owner => stage[t] # "allocated"
  /\ Allocate(c, Owner)

(* Mutant of Register: no wait target for render tickets.                  *)
RegisterComputeOnly(c, t) ==
  /\ by[t] = c
  /\ stage[t] = "allocated"
  /\ stage'  = [stage EXCEPT ![t] = "registered"]
  /\ target' = [target EXCEPT ![t] = IF route[t] = Owner THEN NoTarget ELSE route[t]]
  /\ last'   = [q \in Queues |-> IF q \in Signals(t) THEN t ELSE last[q]]
  /\ UNCHANGED <<next, by, route, worker, device, life, horizon>>

(* Register the ticket's wait target and record it as the last submitted   *)
(* value of the context (and of the owner, for a render partition).        *)
Register(c, t) ==
  /\ by[t] = c
  /\ stage[t] = "allocated"
  /\ stage'  = [stage EXCEPT ![t] = "registered"]
  /\ target' = [target EXCEPT ![t] = route[t]]
  /\ last'   = [q \in Queues |-> IF q \in Signals(t) THEN t ELSE last[q]]
  /\ UNCHANGED <<next, by, route, worker, device, life, horizon>>

(* Mutant of Enqueue: the job overtakes those already queued.              *)
EnqueueFirst(c, t) ==
  /\ by[t] = c
  /\ stage[t] = "registered"
  /\ ~latched
  /\ stage'   = [stage EXCEPT ![t] = "queued"]
  /\ channel' = <<t>> \o channel
  /\ UNCHANGED <<next, by, route, target, last, epoch, latched, failures, device, life, horizon>>

(* Hand the recorded work to the worker; the queue lock is not held.       *)
Enqueue(c, t) ==
  /\ by[t] = c
  /\ stage[t] = "registered"
  /\ ~latched
  /\ stage'   = [stage EXCEPT ![t] = "queued"]
  /\ channel' = Append(channel, t)
  /\ UNCHANGED <<next, by, route, target, last, epoch, latched, failures, device, life, horizon>>

(* A context other than c, with submits of its own, has left the context   *)
(* map: a wait on it cannot be resolved.                                   *)
ProducerGone(c) ==
  \E d \in Contexts \ {c} : life[d] \notin {"unborn", "live"} /\ last[d] > 0

(* A latched error of an earlier submit is taken and returned instead, or  *)
(* the work waits for a context that is gone: the ticket stays registered  *)
(* and recorded, and is never issued.                                      *)
EnqueueRefused(c, t) ==
  /\ by[t] = c
  /\ stage[t] = "registered"
  /\ latched \/ ProducerGone(c)
  /\ latched' = FALSE
  /\ stage'   = [stage EXCEPT ![t] = "refused"]
  /\ UNCHANGED <<next, by, route, target, last, channel, epoch, failures, device, life, horizon>>

-----------------------------------------------------------------------------
AdvanceEpoch(t) == epoch' = IF t > epoch THEN t ELSE epoch

(* Mutant of WorkerSubmit: the newest job first.                           *)
WorkerSubmitNewest ==
  /\ channel # << >>
  /\ LET t == channel[Len(channel)] IN
       /\ stage' = [stage EXCEPT ![t] = "issued"]
       /\ gpu'   = [gpu EXCEPT ![route[t]] = Append(@, t)]
       /\ AdvanceEpoch(t)
  /\ channel' = SubSeq(channel, 1, Len(channel) - 1)
  /\ UNCHANGED <<next, by, route, target, last, latched, failures, sem, life, horizon>>

(* The worker submits the oldest job to its native queue.                  *)
WorkerSubmit ==
  /\ channel # << >>
  /\ LET t == Head(channel) IN
       /\ stage' = [stage EXCEPT ![t] = "issued"]
       /\ gpu'   = [gpu EXCEPT ![route[t]] = Append(@, t)]
       /\ AdvanceEpoch(t)
  /\ channel' = Tail(channel)
  /\ UNCHANGED <<next, by, route, target, last, latched, failures, sem, life, horizon>>

(* ... or the native submit fails: the epoch advances all the same, and    *)
(* the error is latched for whoever asks next.                             *)
WorkerFail ==
  /\ channel # << >>
  /\ failures < MaxFailures
  /\ failures' = failures + 1
  /\ stage'    = [stage EXCEPT ![Head(channel)] = "failed"]
  /\ AdvanceEpoch(Head(channel))
  /\ latched'  = TRUE
  /\ channel'  = Tail(channel)
  /\ UNCHANGED <<next, by, route, target, last, device, life, horizon>>

(* A native queue completes its oldest batch and signals.                  *)
Complete(q) ==
  /\ gpu[q] # << >>
  /\ LET t == Head(gpu[q]) IN
       /\ stage' = [stage EXCEPT ![t] = "done"]
       /\ \E v \in SignalOutcomes(sem[by[t]], t), w \in SignalOutcomes(sem[route[t]], t) :
            sem' = [x \in Queues |-> IF x = route[t] THEN w
                                     ELSE IF x = by[t] THEN v ELSE sem[x]]
  /\ gpu' = [gpu EXCEPT ![q] = Tail(@)]
  /\ UNCHANGED <<next, by, route, target, last, worker, life, horizon>>

-----------------------------------------------------------------------------
(* Anyone asks for the retired horizon.  Every caller of                   *)
(* advance_timeline_retired holds the backend's lock, so there is one scan *)
(* at a time, and no context comes or goes during it.  Submits, the worker *)
(* and teardowns do not take that lock: they run between its steps.        *)
BeginScan ==
  /\ scan = NoScan
  /\ scan' = [step |-> "walk", at |-> ScanStart]
  /\ UNCHANGED <<tickets, worker, device, life, retired, floor, lifted>>

(* The next ticket is looked up, and is retired ...                        *)
PassTicket ==
  /\ scan.step = "walk"
  /\ scan.at + 1 \in Tickets
  /\ Attributed(scan.at + 1)
  /\ scan' = [scan EXCEPT !.at = @ + 1]
  /\ UNCHANGED <<tickets, worker, device, life, retired, floor, lifted>>

(* ... or ends the walk.                                                   *)
StopAtTicket ==
  /\ scan.step = "walk"
  /\ scan.at + 1 \in Tickets => ~Attributed(scan.at + 1)
  /\ scan' = [scan EXCEPT !.step = "compare"]
  /\ UNCHANGED <<tickets, worker, device, life, retired, floor, lifted>>

(* What the walk reached is compared with the cached horizon of now ...    *)
CompareHorizon ==
  /\ scan.step = "compare"
  /\ scan' = IF scan.at > retired THEN [scan EXCEPT !.step = "store"] ELSE NoScan
  /\ UNCHANGED <<tickets, worker, device, life, retired, floor, lifted>>

(* ... and stored if it was above it, with no second look: a teardown in   *)
(* between may have raised the cached horizon further, and the store takes *)
(* it back.  The targets the store covers are forgotten.                   *)
StoreHorizon ==
  /\ scan.step = "store"
  /\ retired' = scan.at
  /\ target'  = [t \in Tickets |-> IF t <= scan.at THEN NoTarget ELSE target[t]]
  /\ scan' = NoScan
  /\ UNCHANGED <<next, stage, by, route, last, worker, device, life, floor, lifted>>

AdvanceRetired == PassTicket \/ StopAtTicket \/ CompareHorizon \/ StoreHorizon

-----------------------------------------------------------------------------
(* The last handle of c is dropped: c leaves the context map.              *)
Detach(c) ==
  /\ life[c] = "live"
  /\ scan = NoScan
  /\ ~Submitting(c)
  /\ life' = [life EXCEPT ![c] = "detached"]
  /\ UNCHANGED <<tickets, worker, device, horizon>>

(* ContextDestroyHandle::wait, step by step: flush the worker, wait for    *)
(* c's last ticket to be handed over -- both forget the error they take -- *)
(* (the flush also waits for the other contexts' jobs that it finds in the *)
(* channel: it may only end later than here)                               *)
DestroyFlush(c) ==
  /\ life[c] = "detached"
  /\ latched \/ \A i \in 1..Len(channel) : by[channel[i]] # c
  /\ latched' = FALSE
  /\ life' = [life EXCEPT ![c] = "flushed"]
  /\ UNCHANGED <<tickets, channel, epoch, failures, device, horizon>>

DestroyAwaitSubmitted(c) ==
  /\ life[c] = "flushed"
  /\ latched \/ epoch >= last[c]
  /\ latched' = FALSE
  /\ life' = [life EXCEPT ![c] = "submitted"]
  /\ UNCHANGED <<tickets, channel, epoch, failures, device, horizon>>

(* then leave early with a latched error ...                               *)
DestroyTakeError(c) ==
  /\ life[c] = "submitted"
  /\ latched
  /\ latched' = FALSE
  /\ life' = [life EXCEPT ![c] = "finishing"]
  /\ UNCHANGED <<tickets, channel, epoch, failures, device, horizon>>

(* Mutant of DestroyAwaitSemaphore: c's own semaphore is asked for the last*)
(* ticket of the whole device.                                             *)
DestroyAwaitDevice(c) ==
  /\ life[c] = "submitted"
  /\ sem[c] >= next - 1
  /\ life' = [life EXCEPT ![c] = "finishing"]
  /\ UNCHANGED <<tickets, worker, device, horizon>>

(* ... or block on c's own semaphore.                                      *)
DestroyAwaitSemaphore(c) ==
  /\ life[c] = "submitted"
  /\ sem[c] >= last[c]
  /\ life' = [life EXCEPT ![c] = "finishing"]
  /\ UNCHANGED <<tickets, worker, device, horizon>>

(* finish(), run whether or not wait() failed and without the backend's    *)
(* lock: c's completed value is read, ...                                  *)
ReadCompleted(c) ==
  /\ life[c] = "finishing"
  /\ life'   = [life EXCEPT ![c] = "counted"]
  /\ lifted' = [lifted EXCEPT ![c] = sem[c]]
  /\ UNCHANGED <<tickets, worker, device, retired, floor, scan>>

(* Mutant of RaiseFloor: leaves it to Teardown to raise the cached horizon.*)
RaiseNoFloor(c) ==
  /\ life[c] = "counted"
  /\ life' = [life EXCEPT ![c] = "floored"]
  /\ UNCHANGED <<tickets, worker, device, horizon>>

(* the floor is raised to it, ...                                          *)
RaiseFloor(c) ==
  /\ life[c] = "counted"
  /\ life'  = [life EXCEPT ![c] = "floored"]
  /\ floor' = IF lifted[c] > floor THEN lifted[c] ELSE floor
  /\ UNCHANGED <<tickets, worker, device, retired, scan, lifted>>

(* and then, with c's wait targets dropped, the cached horizon; everything *)
(* c owns is freed.                                                        *)
Teardown(c) ==
  /\ life[c] = "floored"
  /\ life'    = [life EXCEPT ![c] = "gone"]
  /\ target'  = [t \in Tickets |-> IF target[t] = c THEN NoTarget ELSE target[t]]
  /\ retired' = IF lifted[c] > retired THEN lifted[c] ELSE retired
  /\ UNCHANGED <<next, stage, by, route, last, worker, device, floor, scan, lifted>>

-----------------------------------------------------------------------------
Submit(c) ==
  \/ AllocateCompute(c)
  \/ AllocateRender(c)
  \/ \E t \in Tickets : Register(c, t) \/ Enqueue(c, t) \/ EnqueueRefused(c, t)

Destroy(c) ==
  \/ DestroyFlush(c)
  \/ DestroyAwaitSubmitted(c)
  \/ DestroyTakeError(c)
  \/ DestroyAwaitSemaphore(c)
  \/ ReadCompleted(c)
  \/ RaiseFloor(c)
  \/ Teardown(c)

TimelineNext ==
  \/ \E c \in Contexts : CreateContext(c) \/ Submit(c) \/ Detach(c) \/ Destroy(c)
  \/ WorkerSubmit
  \/ WorkerFail
  \/ \E q \in Queues : Complete(q)
  \/ BeginScan
  \/ AdvanceRetired

Spec == Init /\ [][TimelineNext]_timelineVars

(* The worker thread runs while the device lives, the GPU finishes what it *)
(* is given, and a thread inside a submit, a scan or a destroy keeps       *)
(* running.                                                                *)
TimelineFairness ==
  /\ WF_timelineVars(WorkerSubmit)
  /\ \A q \in Queues : WF_timelineVars(Complete(q))
  /\ WF_timelineVars(AdvanceRetired)
  /\ \A c \in Contexts : WF_timelineVars(Destroy(c))
  /\ \A c \in Contexts :
       WF_timelineVars(\E t \in Tickets : Register(c, t) \/ Enqueue(c, t) \/ EnqueueRefused(c, t))

FairSpec == Spec /\ TimelineFairness

-----------------------------------------------------------------------------
(* Types of the timeline's state.                                          *)
TypeOK ==
  /\ next     \in 1..(MaxTicket + 1)
  /\ stage    \in [Tickets -> Stages]
  /\ by       \in [Tickets -> Contexts \cup {NoTarget}]
  /\ route    \in [Tickets -> Queues \cup {NoTarget}]
  /\ target   \in [Tickets -> Queues \cup {NoTarget}]
  /\ last     \in [Queues -> 0..MaxTicket]
  /\ channel  \in Seq(Tickets)
  /\ gpu      \in [Queues -> Seq(Tickets)]
  /\ sem      \in [Queues -> 0..MaxTicket]
  /\ epoch    \in 0..MaxTicket
  /\ latched  \in BOOLEAN
  /\ failures \in 0..MaxFailures
  /\ life     \in [Contexts -> Lives]
  /\ retired  \in 0..MaxTicket
  /\ floor    \in 0..MaxTicket
  /\ scan     \in [step : ScanSteps, at : 0..MaxTicket]
  /\ lifted   \in [Contexts -> 0..MaxTicket]

(* gpu_progress(c) >= t promises that c's ticket t is done, and the same   *)
(* for the owner's semaphore: no semaphore ever covers a ticket that is    *)
(* still on its way through the worker or the GPU.                         *)
ProgressSound ==
  \A t \in Tickets : Pending(t) => \A s \in Signals(t) : sem[s] < t

(* What backend/mod.rs says of device_timeline_retired: a value at or      *)
(* below the horizon is done on the GPU (or will never run).               *)
HorizonSound ==
  \A t \in Tickets : t <= ScanStart => ~Pending(t) /\ t < next

(* The part of HorizonSound that survives context destruction: above the   *)
(* floor left by destroyed contexts the horizon is a contiguous prefix of  *)
(* finished tickets.                                                       *)
HorizonSoundAboveFloor ==
  \A t \in Tickets : floor < t /\ t <= ScanStart => ~Pending(t) /\ t < next

(* No lost horizon: once nothing is pending or being destroyed and no      *)
(* submit was refused or failed, a scan reaches the last ticket handed out *)
(* -- no ticket is left without a wait target that can prove it.           *)
Quiescent ==
  /\ \A t \in Tickets : stage[t] \in {"free", "done"}
  /\ \A c \in Contexts : life[c] \in {"unborn", "live", "gone"}

QuiescentHorizonComplete == Quiescent => ScanEnds(next - 1)

(* The horizon seen by reclamation never moves backwards, although the     *)
(* cached value alone does: a scan stores what it compared before a        *)
(* teardown raised it.  The floor, raised first, holds it up.              *)
HorizonMonotone == [][ScanStart' >= ScanStart]_timelineVars

(* "Drain GPU work then release resources for a detached context": nothing *)
(* of c is on the GPU when c's command pool and semaphore are freed.       *)
DestroyDrains ==
  \A c \in Contexts : life[c] = "gone" => \A t \in Tickets : by[t] = c => ~Pending(t)

(* Dropping a context comes to an end, as long as the worker never met a   *)
(* failing submit and none of the context was refused: the signal of such  *)
(* a ticket never comes, and wait() has no timeout.                        *)
DestroyCompletesWithoutFailure ==
  \A c \in Contexts : life[c] = "detached" ~>
    \/ life[c] = "gone"
    \/ failures > 0
    \/ \E t \in Tickets : by[t] = c /\ stage[t] = "refused"

-----------------------------------------------------------------------------
(* Why ProgressSound holds, and when: the contexts that submit compute and *)
(* the one that renders are distinct, so a semaphore is only ever signaled *)
(* by the submits of one context, which come one at a time.                *)
SeparateQueues ==
  /\ Computing \cap Rendering = {}
  /\ \A c, d \in Rendering : c = d

(* What a ticket's stage says of its other attributes.                     *)
TicketsOK ==
  \A t \in Tickets :
    /\ t >= next => stage[t] = "free"
    /\ stage[t] = "free" => by[t] = NoTarget /\ target[t] = NoTarget
    /\ stage[t] # "free" => \/ by[t] \in Computing /\ route[t] = by[t]
                            \/ by[t] \in Rendering /\ route[t] = Owner
    /\ target[t] # NoTarget => target[t] = route[t] /\ stage[t] \notin {"free", "allocated"}

(* Only a context's newest ticket is still inside a submit, and an older   *)
(* ticket of the same context is never behind in the worker's channel.     *)
IssueOrder ==
  \A t, u \in Tickets : t < u /\ by[t] = by[u] /\ by[t] # NoTarget =>
    /\ stage[t] \notin {"allocated", "registered"}
    /\ stage[t] = "queued" => stage[u] # "issued"

(* The channel holds exactly the queued tickets, those of one context in   *)
(* ascending order.                                                        *)
ChannelOrder ==
  /\ \A i \in 1..Len(channel) : stage[channel[i]] = "queued"
  /\ \A i, j \in 1..Len(channel) :
       i < j /\ by[channel[i]] = by[channel[j]] => channel[i] < channel[j]
  /\ \A t \in Tickets : stage[t] = "queued" => \E i \in 1..Len(channel) : channel[i] = t

(* A native queue holds exactly the issued tickets routed to it, in        *)
(* ascending order.                                                        *)
GpuOrder ==
  /\ \A q \in Queues : \A i \in 1..Len(gpu[q]) :
       stage[gpu[q][i]] = "issued" /\ route[gpu[q][i]] = q
  /\ \A q \in Queues : \A i, j \in 1..Len(gpu[q]) : i < j => gpu[q][i] < gpu[q][j]
  /\ \A t \in Tickets : stage[t] = "issued" =>
       \E i \in 1..Len(gpu[route[t]]) : gpu[route[t]][i] = t

(* The inductive invariant behind ProgressSound and HorizonSoundAboveFloor:*)
(* every context's tickets reach its semaphore in the order they were      *)
(* taken.                                                                  *)
TicketOrder ==
  /\ SeparateQueues
  /\ TicketsOK
  /\ IssueOrder
  /\ ChannelOrder
  /\ GpuOrder
  /\ \A q \in Queues : sem[q] < next
  /\ ProgressSound
=============================================================================
