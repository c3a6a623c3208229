------------------------------- MODULE Ledger -------------------------------
(***************************************************************************)
(* Cross-submission synchronisation: how the per-parcel epochs recorded at *)
(* submit (the ledger) become the waits of the next submission.            *)
(*                                                                         *)
(* A client thread submits one partition at a time.  It snapshots the      *)
(* stamps of the parcels involved, derives the waits, hands the partition  *)
(* to the submission worker with a fresh ticket, and only then stamps the  *)
(* parcels with that ticket.  No lock is held from the snapshot to the     *)
(* stamp.  A compute partition runs on its context's queue and is stamped  *)
(* on that context; a render partition runs on the graphics queue and is   *)
(* stamped on the device owner.                                            *)
(*                                                                         *)
(* The worker retires the CPU waits of a partition before it submits it;   *)
(* a native queue starts its partitions in order, each once the timeline   *)
(* semaphores it waits for have been reached, and lets them overlap unless *)
(* a prologue barrier says otherwise.                                      *)
(*                                                                         *)
(* A context may be dropped; the waits on it that the ledger still asks    *)
(* for can then not be resolved, and the submit is refused.                *)
(*                                                                         *)
(* Not modelled: failing native submits (DeviceTimeline), promises and     *)
(* host views (Settlement), retained replay (Replay), several partitions   *)
(* per submission.  Parcels are buffers and textures: for render targets   *)
(* and acceleration structures the waits are the same but there is no      *)
(* prologue barrier, so that their order on one queue rests on other       *)
(* barriers than those derived here.                                       *)
(***************************************************************************)
EXTENDS Integers, Sequences, FiniteSets

CONSTANTS
  Contexts,     (* submission contexts                                      *)
  Rendering,    (* the contexts whose partitions are render partitions      *)
  Owner,        (* the device owner                                         *)
  Threads,      (* client threads                                           *)
  Driver,       (* Driver[c]: the thread that submits on c and drops it     *)
  Doomed,       (* the contexts that may be dropped                         *)
  Parcels,      (* parcels shared by the schemes                            *)
  Accesses,     (* the accesses a partition may make                        *)
  NoPlan,       (* a thread outside a submit                                *)
  MaxTicket     (* bound on the partitions submitted                        *)

Tickets == 1..MaxTicket
Queues  == Contexts \cup {Owner}
Clocks  == [Queues -> 0..MaxTicket]
Epochs  == Queues \X Tickets

(* What is submitted, and what a submit holds on the way: its ticket, 0    *)
(* before it has one, and its job.                                         *)
Jobs  == [by : Queues, access : [reads : SUBSET Parcels, writes : SUBSET Parcels],
          sync : [waits : SUBSET Epochs, cpuWaits : SUBSET Epochs, barrier : BOOLEAN]]
Plans == [ticket : 0..MaxTicket, job : Jobs]

ASSUME LedgerAssumption ==
  /\ Rendering \subseteq Contexts
  /\ Owner \notin Contexts
  /\ Contexts \cap Nat = {}
  /\ Driver \in [Contexts -> Threads]
  /\ Doomed \subseteq Contexts
  /\ Accesses \subseteq [reads : SUBSET Parcels, writes : SUBSET Parcels]
  /\ MaxTicket \in Nat
  /\ NoPlan \notin Plans

VARIABLES
  next,        (* timeline_next                                             *)
  lastWrite,   (* lastWrite[p]: ResourceSync::last_write of parcel p        *)
  lastRead,    (* lastRead[p]: ResourceSync::last_reads                     *)
  plan,        (* plan[th]: the submit thread th is inside of               *)
  job,         (* job[t]: what was submitted with ticket t                  *)
  stage,       (* stage[t]: where t is                                      *)
  channel,     (* the submission worker's FIFO: tickets, and the contexts   *)
               (* whose drop waits for a flush                              *)
  gpu,         (* gpu[q]: partitions submitted to queue q, not yet started  *)
  running,     (* running[q]: partitions executing on q, oldest first       *)
  sem,         (* timeline semaphores                                       *)
  life         (* life of each context                                      *)

ledger     == <<lastWrite, lastRead>>
ledgerVars == <<next, lastWrite, lastRead, plan, job, stage, channel, gpu, running, sem, life>>

Zero == [q \in Queues |-> 0]

(* The queue a partition of context c runs on, which is also the context   *)
(* its accesses are stamped on (partition_stamp_context).                  *)
QueueOf(c) == IF c \in Rendering THEN Owner ELSE c

Later(x, y)    == IF x >= y THEN x ELSE y
MergeMax(f, g) == [q \in Queues |-> Later(f[q], g[q])]

(* The epochs -- a queue and a ticket -- that table holds of the parcels in*)
(* P.  The code keeps one epoch per queue, the latest; waiting for all of  *)
(* them is the same.                                                       *)
EpochsOf(table, P) == {e \in Epochs : \E p \in P : table[p][e[1]] = e[2]}
On(E, q)           == {e \in E : e[1] = q}
Elsewhere(E, q)    == {e \in E : e[1] # q}

-----------------------------------------------------------------------------
(* The hazards of an access on queue q (apply_cross_submit_hazards): reads *)
(* depend on last writes, writes on last writes and last reads.  Epochs of *)
(* other queues become waits -- on the GPU for writes, on the CPU for      *)
(* reads -- and epochs of q itself a barrier.  A read also puts a barrier  *)
(* behind a foreign write, and a render read waits on the owner itself.    *)
Writers(a)   == EpochsOf(lastWrite, a.reads \cup a.writes)
Producers(a) == EpochsOf(lastWrite, a.reads)
Readers(a)   == EpochsOf(lastRead, a.writes)

Waits(a, q) ==
  Elsewhere(Writers(a), q) \cup (IF q = Owner THEN On(Producers(a), q) ELSE {})

Barrier(a, q) == On(Writers(a) \cup Readers(a), q) # {} \/ Producers(a) # {}

(* Mutant of SyncOf: overwriting does not wait for earlier readers.        *)
SyncWithoutReaders(a, q) ==
  [waits |-> Waits(a, q), cpuWaits |-> {}, barrier |-> Barrier(a, q)]

(* Mutant of SyncOf: no barrier for a write after a read on the same queue.*)
SyncWithoutReadBarrier(a, q) ==
  [ waits    |-> Waits(a, q),
    cpuWaits |-> Elsewhere(Readers(a), q),
    barrier  |-> On(Writers(a), q) # {} \/ Producers(a) # {} ]

SyncOf(a, q) ==
  [waits |-> Waits(a, q), cpuWaits |-> Elsewhere(Readers(a), q), barrier |-> Barrier(a, q)]

NoJob == [by |-> Owner, access |-> [reads |-> {}, writes |-> {}],
          sync |-> [waits |-> {}, cpuWaits |-> {}, barrier |-> FALSE]]

Init ==
  /\ next      = 1
  /\ lastWrite = [p \in Parcels |-> Zero]
  /\ lastRead  = [p \in Parcels |-> Zero]
  /\ plan      = [th \in Threads |-> NoPlan]
  /\ job       = [t \in Tickets |-> NoJob]
  /\ stage     = [t \in Tickets |-> "free"]
  /\ channel   = << >>
  /\ gpu       = [q \in Queues |-> << >>]
  /\ running   = [q \in Queues |-> << >>]
  /\ sem       = Zero
  /\ life      = [c \in Contexts |-> "live"]

(* The thread is inside the drop of a context, which blocks it.            *)
Dropping(th) == \E c \in Contexts : Driver[c] = th /\ life[c] \in {"detached", "flushed"}

(* Snapshot the ledger and derive the partition's synchronisation.         *)
Snapshot(c, a) ==
  /\ life[c] = "live"
  /\ plan[Driver[c]] = NoPlan
  /\ ~Dropping(Driver[c])
  /\ next \in Tickets
  /\ plan' = [plan EXCEPT ![Driver[c]] =
                [ticket |-> 0, job |-> [by |-> c, access |-> a, sync |-> SyncOf(a, QueueOf(c))]]]
  /\ UNCHANGED <<next, ledger, job, stage, channel, gpu, running, sem, life>>

(* Take a ticket and register it.                                          *)
Submit(th) ==
  /\ plan[th] # NoPlan
  /\ plan[th].ticket = 0
  /\ next \in Tickets
  /\ next'  = next + 1
  /\ job'   = [job EXCEPT ![next] = plan[th].job]
  /\ stage' = [stage EXCEPT ![next] = "registered"]
  /\ plan'  = [plan EXCEPT ![th].ticket = next]
  /\ UNCHANGED <<ledger, channel, gpu, running, sem, life>>

(* The semaphores the waits of a partition name: those of contexts are     *)
(* looked up by handle, the owner's always exists.                         *)
Named(sync)      == {c \in Contexts : On(sync.waits \cup sync.cpuWaits, c) # {}}
Resolvable(sync) == \A c \in Named(sync) : life[c] = "live"

InSubmit(th, s) == plan[th] # NoPlan /\ plan[th].ticket # 0 /\ stage[plan[th].ticket] = s

(* Replace the handles of the contexts waited for by their raw semaphores. *)
Resolve(th) ==
  /\ InSubmit(th, "registered")
  /\ Resolvable(plan[th].job.sync)
  /\ stage' = [stage EXCEPT ![plan[th].ticket] = "resolved"]
  /\ UNCHANGED <<next, ledger, plan, job, channel, gpu, running, sem, life>>

(* ... or one of them has been dropped: the submit returns an error, and   *)
(* its ticket stays registered as the context's last.                      *)
Refuse(th) ==
  /\ InSubmit(th, "registered")
  /\ ~Resolvable(plan[th].job.sync)
  /\ stage' = [stage EXCEPT ![plan[th].ticket] = "refused"]
  /\ plan'  = [plan EXCEPT ![th] = NoPlan]
  /\ UNCHANGED <<next, ledger, job, channel, gpu, running, sem, life>>

(* Enqueue the partition on the worker.                                    *)
Enqueue(th) ==
  /\ InSubmit(th, "resolved")
  /\ stage'   = [stage EXCEPT ![plan[th].ticket] = "queued"]
  /\ channel' = Append(channel, plan[th].ticket)
  /\ UNCHANGED <<next, ledger, plan, job, gpu, running, sem, life>>

(* Mutant of Stamp: only writes are recorded.                              *)
StampWrites(th) ==
  /\ plan[th] # NoPlan
  /\ plan[th].ticket # 0
  /\ stage[plan[th].ticket] \notin {"registered", "resolved"}
  /\ LET t == plan[th].ticket
         a == plan[th].job.access
         q == QueueOf(plan[th].job.by)
     IN lastWrite' = [p \in Parcels |->
             IF p \in a.writes THEN [lastWrite[p] EXCEPT ![q] = Later(@, t)] ELSE lastWrite[p]]
  /\ plan' = [plan EXCEPT ![th] = NoPlan]
  /\ UNCHANGED <<next, lastRead, job, stage, channel, gpu, running, sem, life>>

(* Stamp the parcels with the ticket (apply_resource_sync_updates).        *)
Stamp(th) ==
  /\ plan[th] # NoPlan
  /\ plan[th].ticket # 0
  /\ stage[plan[th].ticket] \notin {"registered", "resolved"}
  /\ LET t == plan[th].ticket
         a == plan[th].job.access
         q == QueueOf(plan[th].job.by)
     IN /\ lastWrite' = [p \in Parcels |->
             IF p \in a.writes THEN [lastWrite[p] EXCEPT ![q] = Later(@, t)] ELSE lastWrite[p]]
        /\ lastRead'  = [p \in Parcels |->
             IF p \in a.reads THEN [lastRead[p] EXCEPT ![q] = Later(@, t)] ELSE lastRead[p]]
  /\ plan' = [plan EXCEPT ![th] = NoPlan]
  /\ UNCHANGED <<next, job, stage, channel, gpu, running, sem, life>>

-----------------------------------------------------------------------------
Reached(E) == \A e \in E : sem[e[1]] >= e[2]

(* The worker waits on the host for the oldest partition's CPU waits, then *)
(* submits it to its queue.                                                *)
WorkerSubmit ==
  /\ channel # << >>
  /\ Head(channel) \in Tickets
  /\ LET t == Head(channel) IN
       /\ Reached(job[t].sync.cpuWaits)
       /\ stage' = [stage EXCEPT ![t] = "issued"]
       /\ gpu'   = [gpu EXCEPT ![QueueOf(job[t].by)] = Append(@, t)]
  /\ channel' = Tail(channel)
  /\ UNCHANGED <<next, ledger, plan, job, running, sem, life>>

(* A queue starts its next partition.                                      *)
Start(q) ==
  /\ gpu[q] # << >>
  /\ LET t == Head(gpu[q]) IN
       /\ Reached(job[t].sync.waits)
       /\ job[t].sync.barrier => running[q] = << >>
       /\ stage'   = [stage EXCEPT ![t] = "running"]
       /\ running' = [running EXCEPT ![q] = Append(@, t)]
  /\ gpu' = [gpu EXCEPT ![q] = Tail(@)]
  /\ UNCHANGED <<next, ledger, plan, job, channel, sem, life>>

(* Mutant of Finish: the owner's semaphore is not signaled.                *)
FinishContextOnly(q) ==
  /\ running[q] # << >>
  /\ LET t == Head(running[q]) IN
       /\ stage' = [stage EXCEPT ![t] = "done"]
       /\ sem'   = [sem EXCEPT ![job[t].by] = t]
  /\ running' = [running EXCEPT ![q] = Tail(@)]
  /\ UNCHANGED <<next, ledger, plan, job, channel, gpu, life>>

(* The oldest partition running on q ends and signals its context's        *)
(* semaphore and the queue's.                                              *)
Finish(q) ==
  /\ running[q] # << >>
  /\ LET t == Head(running[q]) IN
       /\ stage' = [stage EXCEPT ![t] = "done"]
       /\ sem'   = [x \in Queues |-> IF x \in {job[t].by, q} THEN t ELSE sem[x]]
  /\ running' = [running EXCEPT ![q] = Tail(@)]
  /\ UNCHANGED <<next, ledger, plan, job, channel, gpu, life>>

-----------------------------------------------------------------------------
LastOf(c) ==
  CHOOSE v \in 0..MaxTicket :
    /\ \A t \in Tickets : job[t].by = c => t <= v
    /\ v = 0 \/ job[v].by = c

(* Mutant of Drop: a job in the channel is not waited for.                 *)
DropUnflushed(c) ==
  /\ c \in Doomed
  /\ life[c] = "live"
  /\ plan[Driver[c]] = NoPlan
  /\ ~Dropping(Driver[c])
  /\ life' = [life EXCEPT ![c] = "flushed"]
  /\ UNCHANGED <<next, ledger, plan, job, stage, channel, gpu, running, sem>>

(* The last handle of c is dropped: c leaves the context map, and its drop *)
(* waits, behind everything enqueued so far, for a flush of the worker.    *)
Drop(c) ==
  /\ c \in Doomed
  /\ life[c] = "live"
  /\ plan[Driver[c]] = NoPlan
  /\ ~Dropping(Driver[c])
  /\ life'    = [life EXCEPT ![c] = "detached"]
  /\ channel' = Append(channel, c)
  /\ UNCHANGED <<next, ledger, plan, job, stage, gpu, running, sem>>

WorkerFlush ==
  /\ channel # << >>
  /\ Head(channel) \in Contexts
  /\ life'    = [life EXCEPT ![Head(channel)] = "flushed"]
  /\ channel' = Tail(channel)
  /\ UNCHANGED <<next, ledger, plan, job, stage, gpu, running, sem>>

(* Mutant of Teardown: waits for the last ticket of the whole device.      *)
TeardownAfterDevice(c) ==
  /\ life[c] = "flushed"
  /\ sem[c] >= next - 1
  /\ life' = [life EXCEPT ![c] = "gone"]
  /\ UNCHANGED <<next, ledger, plan, job, stage, channel, gpu, running, sem>>

(* c's semaphore has reached c's last ticket: it is destroyed.             *)
Teardown(c) ==
  /\ life[c] = "flushed"
  /\ sem[c] >= LastOf(c)
  /\ life' = [life EXCEPT ![c] = "gone"]
  /\ UNCHANGED <<next, ledger, plan, job, stage, channel, gpu, running, sem>>

-----------------------------------------------------------------------------
(* Nothing is left to do: every partition submitted has ended, and no more *)
(* can be submitted.                                                       *)
Closed(c) == next > MaxTicket \/ life[c] # "live" \/ Dropping(Driver[c])

Done ==
  /\ \A c \in Contexts : Closed(c)
  /\ \A t \in Tickets : stage[t] \in {"free", "done", "refused"}

Next ==
  \/ \E c \in Contexts, a \in Accesses : Snapshot(c, a)
  \/ \E th \in Threads : Submit(th) \/ Resolve(th) \/ Refuse(th) \/ Enqueue(th) \/ Stamp(th)
  \/ WorkerSubmit
  \/ WorkerFlush
  \/ \E q \in Queues : Start(q) \/ Finish(q)
  \/ \E c \in Contexts : Drop(c) \/ Teardown(c)
  \/ Done /\ UNCHANGED ledgerVars

Spec == Init /\ [][Next]_ledgerVars

(* The worker thread and the native queues make progress; a thread inside a*)
(* submit or a drop keeps running.  Nobody has to submit or drop.          *)
FairSpec ==
  /\ Spec
  /\ WF_ledgerVars(WorkerSubmit \/ WorkerFlush)
  /\ \A q \in Queues : WF_ledgerVars(Start(q)) /\ WF_ledgerVars(Finish(q))
  /\ \A th \in Threads :
       WF_ledgerVars(Submit(th) \/ Resolve(th) \/ Refuse(th) \/ Enqueue(th) \/ Stamp(th))
  /\ \A c \in Contexts : WF_ledgerVars(Teardown(c))

-----------------------------------------------------------------------------
(* Types of the ledger's state.                                            *)
TypeOK ==
  /\ next      \in 1..(MaxTicket + 1)
  /\ lastWrite \in [Parcels -> Clocks]
  /\ lastRead  \in [Parcels -> Clocks]
  /\ plan      \in [Threads -> Plans \cup {NoPlan}]
  /\ job       \in [Tickets -> Jobs]
  /\ stage     \in [Tickets -> {"free", "registered", "resolved", "queued", "issued",
                                "running", "done", "refused"}]
  /\ channel   \in Seq(Tickets \cup Contexts)
  /\ gpu       \in [Queues -> Seq(Tickets)]
  /\ running   \in [Queues -> Seq(Tickets)]
  /\ sem       \in Clocks
  /\ life      \in [Contexts -> {"live", "detached", "flushed", "gone"}]

(* The machine's ledger: at every instant at most one private claim, or    *)
(* any number of public claims, stands over a parcel.  The claims that     *)
(* stand are those of the partitions executing on the GPU.                 *)
ClaimsExclusive ==
  \A t, u \in Tickets :
    t # u /\ stage[t] = "running" /\ stage[u] = "running" =>
      job[t].access.writes \cap (job[u].access.reads \cup job[u].access.writes) = {}

(* A parcel whose stamped epochs have all been reached (Parcel::is_settled,*)
(* the reuse gate of the pools) is used by no partition, once the submits  *)
(* that were under way have stamped it.                                    *)
Merged(p)  == MergeMax(lastWrite[p], lastRead[p])
Stamped(t) == \A th \in Threads : plan[th] # NoPlan => plan[th].ticket # t

SettledMeansIdle ==
  \A p \in Parcels : (\A q \in Queues : sem[q] >= Merged(p)[q]) =>
    \A t \in Tickets :
      /\ stage[t] \in {"queued", "issued", "running"}
      /\ Stamped(t)
      => p \notin job[t].access.reads \cup job[t].access.writes

(* No wedge: the waits between queues and on the worker never form a cycle,*)
(* so every partition submitted is executed.                               *)
EveryPartitionCompletes == \A t \in Tickets : stage[t] = "queued" ~> stage[t] = "done"

(* What the comment on the teardown promises, "drain GPU work then release *)
(* resources for a detached context", comes to an end ...                  *)
DropReturns == \A c \in Contexts : life[c] = "detached" ~> life[c] = "gone"

(* ... if no submit of c was refused: the ticket of a refused submit is    *)
(* never signaled, although other contexts' work may be waited for on the  *)
(* way, on the worker and on the GPU.                                      *)
DropReturnsUnlessRefused ==
  \A c \in Contexts :
    life[c] = "detached" ~> \/ life[c] = "gone"
                            \/ \E t \in Tickets : job[t].by = c /\ stage[t] = "refused"

(* A queued partition holds raw semaphores of the contexts it waits for:   *)
(* none of them has been destroyed when the worker comes to use them.      *)
QueuedWaitsAreLive ==
  \A t \in Tickets : stage[t] = "queued" =>
    \A c \in Named(job[t].sync) : life[c] # "gone"

(* Executions in the order of their tickets, each holding its claims while *)
(* it runs.                                                                *)
Phase(s) ==
  CASE s = "free" -> "idle"
    [] s \in {"registered", "resolved", "queued", "issued"} -> "admitted"
    [] s = "running" -> "holding"
    [] OTHER -> s

Public  == [t \in Tickets |-> job[t].access.reads]
Private == [t \in Tickets |-> job[t].access.writes]
State   == [t \in Tickets |-> Phase(stage[t])]

Machine == INSTANCE Claims WITH
  Executions <- Tickets, public <- Public, private <- Private, state <- State

(* The synchronisation derived from the ledger implements the machine's    *)
(* claims: conflicting partitions execute one after the other, in the      *)
(* order they were submitted.                                              *)
ImplementsClaims == Machine!ClaimsSpec

-----------------------------------------------------------------------------
(* Why all this holds, and when: with one submitting thread, every submit  *)
(* has stamped its parcels before the next one reads them.                 *)
OneSubmitter == \A th, u \in Threads : th = u

RunsOn(t) == QueueOf(job[t].by)

(* The tickets among the elements of s are those of T, in ascending order. *)
Lists(s, T) ==
  /\ \A i \in 1..Len(s) : s[i] \in Tickets => s[i] \in T
  /\ \A i, j \in 1..Len(s) : i < j /\ s[i] \in Tickets /\ s[j] \in Tickets => s[i] < s[j]
  /\ \A t \in T : \E i \in 1..Len(s) : s[i] = t

(* A thread inside a submit holds the newest ticket, or none yet.          *)
PlansOK ==
  \A th \in Threads : plan[th] # NoPlan =>
    /\ plan[th].job.by \in Contexts
    /\ plan[th].ticket # 0 =>
         /\ plan[th].ticket = next - 1
         /\ stage[plan[th].ticket] \notin {"free", "refused"}
         /\ job[plan[th].ticket] = plan[th].job

TicketsOK ==
  \A t \in Tickets :
    /\ stage[t] = "free" <=> t >= next
    /\ stage[t] # "free" => job[t].by \in Contexts
    /\ stage[t] \in {"registered", "resolved"} =>
         \E th \in Threads : plan[th] # NoPlan /\ plan[th].ticket = t

(* The worker's channel and the native queues hold what they should, in the*)
(* order of the tickets, and nothing overtakes.                            *)
QueuesOK ==
  /\ Lists(channel, {t \in Tickets : stage[t] = "queued"})
  /\ \A q \in Queues : Lists(gpu[q], {t \in Tickets : stage[t] = "issued" /\ RunsOn(t) = q})
  /\ \A q \in Queues : Lists(running[q], {t \in Tickets : stage[t] = "running" /\ RunsOn(t) = q})

NoOvertaking ==
  \A t, u \in Tickets : t < u =>
    /\ stage[t] = "queued" => stage[u] \notin {"issued", "running", "done"}
    /\ RunsOn(t) = RunsOn(u) =>
         /\ stage[t] = "issued" => stage[u] \notin {"running", "done"}
         /\ stage[t] = "running" => stage[u] # "done"

(* A semaphore proves what it covers.                                      *)
SemaphoresOK ==
  /\ \A q \in Queues : sem[q] < next
  /\ \A t \in Tickets : t < next =>
       \A q \in {job[t].by, RunsOn(t)} : sem[q] >= t => stage[t] \in {"done", "refused"}

(* What a submitted partition does is on its parcels' stamps.              *)
StampsCover ==
  \A t \in Tickets : stage[t] \in {"queued", "issued", "running", "done"} /\ Stamped(t) =>
    /\ \A p \in job[t].access.reads : lastRead[p][RunsOn(t)] >= t
    /\ \A p \in job[t].access.writes : lastWrite[p][RunsOn(t)] >= t

Conflict(j, k) ==
  \/ j.access.writes \cap (k.access.reads \cup k.access.writes) # {}
  \/ k.access.writes \cap (j.access.reads \cup j.access.writes) # {}

(* The synchronisation of j orders it behind t.                            *)
Behind(j, t) ==
  \/ RunsOn(t) = QueueOf(j.by) /\ j.sync.barrier
  \/ \E e \in j.sync.waits \cup j.sync.cpuWaits : e[1] = RunsOn(t) /\ e[2] >= t

Alive(t) == stage[t] \notin {"free", "refused"}

WaitsCover ==
  /\ \A th \in Threads : plan[th] # NoPlan /\ plan[th].ticket = 0 =>
       \A t \in Tickets : Alive(t) /\ Conflict(job[t], plan[th].job) => Behind(plan[th].job, t)
  /\ \A t, u \in Tickets : t < u /\ Alive(t) /\ Alive(u) /\ Conflict(job[t], job[u]) =>
       Behind(job[u], t)

(* CPU waits are over once a partition is issued, conflicting partitions   *)
(* before it once it runs.                                                 *)
WaitsOver ==
  /\ \A t \in Tickets : stage[t] \in {"issued", "running", "done"} => Reached(job[t].sync.cpuWaits)
  /\ \A t, u \in Tickets :
       t < u /\ stage[u] \in {"running", "done"} /\ Conflict(job[t], job[u]) =>
         stage[t] \in {"done", "refused"}

(* A context that a partition in the channel waits for leaves the channel  *)
(* behind it.                                                              *)
DropsFollow ==
  /\ \A c \in Contexts : life[c] = "live" => \A i \in 1..Len(channel) : channel[i] # c
  /\ \A t \in Tickets : stage[t] = "resolved" => Resolvable(job[t].sync)
  /\ \A t \in Tickets : stage[t] = "queued" => \A c \in Named(job[t].sync) :
       /\ life[c] \in {"live", "detached"}
       /\ \A i \in 1..Len(channel) : channel[i] = c =>
            \E j \in 1..Len(channel) : j < i /\ channel[j] = t

(* The inductive invariant behind the properties above.                    *)
LedgerOrder ==
  /\ PlansOK
  /\ TicketsOK
  /\ QueuesOK
  /\ NoOvertaking
  /\ SemaphoresOK
  /\ StampsCover
  /\ WaitsCover
  /\ WaitsOver
  /\ DropsFollow
=============================================================================
