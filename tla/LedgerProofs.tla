---------------------------- MODULE LedgerProofs ----------------------------
(***************************************************************************)
(* Proofs about Ledger, for any contexts, parcels, accesses and number of  *)
(* partitions.                                                             *)
(***************************************************************************)
EXTENDS Ledger, TLAPS

(***************************************************************************)
(* Sequences: what Append and Tail do, element by element, and to the      *)
(* tickets a sequence lists.                                               *)
(***************************************************************************)
LEMMA AppendElements ==
  ASSUME NEW S, NEW s \in Seq(S), NEW e \in S
  PROVE  /\ Append(s, e) \in Seq(S)
         /\ Len(Append(s, e)) = Len(s) + 1
         /\ \A i \in 1..Len(s) : Append(s, e)[i] = s[i]
         /\ Append(s, e)[Len(s) + 1] = e
  OBVIOUS

LEMMA HeadTailElements ==
  ASSUME NEW S, NEW s \in Seq(S), s # << >>
  PROVE  /\ Head(s) \in S
         /\ Head(s) = s[1]
         /\ Len(s) >= 1
         /\ Tail(s) \in Seq(S)
         /\ Len(Tail(s)) = Len(s) - 1
         /\ \A i \in 1..Len(Tail(s)) : Tail(s)[i] = s[i + 1]
  OBVIOUS

(* A ticket above all those listed is appended.                            *)
LEMMA ListsAppend ==
  ASSUME NEW S, NEW s \in Seq(S), NEW T \in SUBSET Tickets, Lists(s, T),
         NEW t \in Tickets, t \in S, \A u \in T : u < t
  PROVE  Lists(Append(s, t), T \cup {t})
<1> DEFINE r == Append(s, t)
<1>1. /\ Len(s) \in Nat
      /\ Len(r) = Len(s) + 1
      /\ \A i \in 1..Len(s) : r[i] = s[i]
      /\ r[Len(s) + 1] = t
  BY AppendElements
<1> HIDE DEF r
<1>2. \A i \in 1..Len(r) : r[i] \in Tickets => r[i] \in T \cup {t}
  BY <1>1 DEF Lists
<1>3. ASSUME NEW i \in 1..Len(r), NEW j \in 1..Len(r), i < j, r[i] \in Tickets, r[j] \in Tickets
      PROVE  r[i] < r[j]
  <2>1. i \in 1..Len(s) /\ r[i] = s[i] /\ s[i] \in T
    BY <1>1, <1>3 DEF Lists
  <2>2. CASE j \in 1..Len(s)
    BY <1>1, <1>3, <2>1, <2>2 DEF Lists
  <2>3. CASE j = Len(s) + 1
    BY <1>1, <2>1, <2>3
  <2> QED
    BY <1>1, <2>2, <2>3
<1>4. ASSUME NEW u \in T \cup {t} PROVE \E i \in 1..Len(r) : r[i] = u
  <2>1. CASE u = t
    BY <1>1, <2>1
  <2>2. CASE u \in T
    <3> PICK i \in 1..Len(s) : s[i] = u
      BY <2>2 DEF Lists
    <3> QED
      BY <1>1
  <2> QED
    BY <2>1, <2>2
<1> QED
  BY <1>2, <1>3, <1>4 DEF Lists, r

(* What is not a ticket makes no difference.                               *)
LEMMA ListsAppendOther ==
  ASSUME NEW S, NEW s \in Seq(S), NEW T \in SUBSET Tickets, Lists(s, T),
         NEW x \in S, x \notin Tickets
  PROVE  Lists(Append(s, x), T)
<1> DEFINE r == Append(s, x)
<1>1. /\ Len(s) \in Nat
      /\ Len(r) = Len(s) + 1
      /\ \A i \in 1..Len(s) : r[i] = s[i]
      /\ r[Len(s) + 1] = x
  BY AppendElements
<1> HIDE DEF r
<1>2. \A i \in 1..Len(r) : r[i] \in Tickets => i \in 1..Len(s)
  BY <1>1
<1>3. \A i \in 1..Len(r) : r[i] \in Tickets => r[i] \in T
  BY <1>1, <1>2 DEF Lists
<1>4. \A i, j \in 1..Len(r) : i < j /\ r[i] \in Tickets /\ r[j] \in Tickets => r[i] < r[j]
  BY <1>1, <1>2 DEF Lists
<1>5. ASSUME NEW u \in T PROVE \E i \in 1..Len(r) : r[i] = u
  <2> PICK i \in 1..Len(s) : s[i] = u
    BY DEF Lists
  <2> QED
    BY <1>1
<1> QED
  BY <1>3, <1>4, <1>5 DEF Lists, r

(* The head is the least ticket, and the tail lists the others.            *)
LEMMA ListsTail ==
  ASSUME NEW S, NEW s \in Seq(S), s # << >>, NEW T \in SUBSET Tickets, Lists(s, T)
  PROVE  /\ Head(s) \in Tickets =>
              Head(s) \in T /\ \A u \in T : u # Head(s) => Head(s) < u
         /\ Lists(Tail(s), T \ {Head(s)})
<1> DEFINE r == Tail(s)
<1>1. /\ Len(s) \in Nat
      /\ Len(s) >= 1
      /\ Head(s) = s[1]
      /\ Len(r) = Len(s) - 1
      /\ \A i \in 1..Len(r) : r[i] = s[i + 1]
  BY HeadTailElements
<1> HIDE DEF r
<1>2. \A i \in 1..Len(r) : i + 1 \in 1..Len(s) /\ 1 < i + 1
  BY <1>1
<1>3. Head(s) \in Tickets => Head(s) \in T
  BY <1>1 DEF Lists
<1>4. ASSUME NEW u \in T, u # Head(s)
      PROVE  /\ Head(s) \in Tickets => Head(s) < u
             /\ \E i \in 1..Len(r) : r[i] = u
  <2> PICK i \in 1..Len(s) : s[i] = u
    BY DEF Lists
  <2>1. 1 < i
    BY <1>1, <1>4
  <2>2. Head(s) \in Tickets => Head(s) < u
    BY <1>1, <2>1 DEF Lists
  <2>3. i - 1 \in 1..Len(r) /\ r[i - 1] = u
    BY <1>1, <2>1
  <2> QED
    BY <2>2, <2>3
<1>5. \A i \in 1..Len(r) : r[i] \in Tickets => r[i] \in T /\ r[i] # Head(s)
  <2> SUFFICES ASSUME NEW i \in 1..Len(r), r[i] \in Tickets PROVE r[i] \in T /\ r[i] # Head(s)
    OBVIOUS
  <2>1. r[i] = s[i + 1] /\ i + 1 \in 1..Len(s) /\ 1 < i + 1 /\ 1 \in 1..Len(s)
    BY <1>1, <1>2
  <2>2. r[i] \in T
    BY <2>1 DEF Lists
  <2>3. s[1] \in Tickets => s[1] < s[i + 1]
    BY <2>1 DEF Lists
  <2> QED
    BY <1>1, <2>1, <2>2, <2>3 DEF Tickets
<1>6. \A i, j \in 1..Len(r) : i < j /\ r[i] \in Tickets /\ r[j] \in Tickets => r[i] < r[j]
  <2> SUFFICES ASSUME NEW i \in 1..Len(r), NEW j \in 1..Len(r), i < j, r[i] \in Tickets, r[j] \in Tickets
               PROVE  r[i] < r[j]
    OBVIOUS
  <2>1. r[i] = s[i + 1] /\ r[j] = s[j + 1] /\ i + 1 < j + 1 /\ i + 1 \in 1..Len(s) /\ j + 1 \in 1..Len(s)
    BY <1>1, <1>2
  <2> QED
    BY <2>1 DEF Lists
<1>7. Lists(r, T \ {Head(s)})
  BY <1>4, <1>5, <1>6 DEF Lists
<1> QED
  BY <1>3, <1>4, <1>7 DEF r

(* Nothing is listed by an empty sequence.                                 *)
LEMMA ListsEmpty ==
  ASSUME NEW T, Lists(<< >>, T)
  PROVE  T = {}
BY DEF Lists

(***************************************************************************)
(* Types.                                                                  *)
(***************************************************************************)
LEMMA SyncType ==
  ASSUME TypeOK, NEW a \in Accesses, NEW q \in Queues
  PROVE  SyncOf(a, q) \in [waits : SUBSET Epochs, cpuWaits : SUBSET Epochs, barrier : BOOLEAN]
BY DEF SyncOf, Waits, Barrier, Writers, Producers, Readers, EpochsOf, On, Elsewhere

LEMMA LaterType ==
  ASSUME NEW x \in 0..MaxTicket, NEW y \in 0..MaxTicket
  PROVE  Later(x, y) \in 0..MaxTicket /\ Later(x, y) >= x /\ Later(x, y) >= y
BY LedgerAssumption DEF Later

LEMMA TypesInit == Init => TypeOK
BY LedgerAssumption DEF Init, TypeOK, NoJob, Zero, Clocks, Queues, Jobs, Tickets

LEMMA RaisedClock ==
  ASSUME NEW f \in Clocks, NEW q \in Queues, NEW t \in 0..MaxTicket
  PROVE  /\ [f EXCEPT ![q] = Later(@, t)] \in Clocks
         /\ [f EXCEPT ![q] = Later(@, t)][q] >= t
         /\ \A x \in Queues : [f EXCEPT ![q] = Later(@, t)][x] >= f[x]
<1>1. f \in [Queues -> 0..MaxTicket]
  BY DEF Clocks
<1>2. \A x \in Queues : f[x] \in 0..MaxTicket
  BY <1>1
<1>3. Later(f[q], t) \in 0..MaxTicket /\ Later(f[q], t) >= t /\ Later(f[q], t) >= f[q]
  BY <1>2, LaterType
<1> HIDE DEF Later
<1> QED
  BY <1>1, <1>2, <1>3 DEF Clocks

LEMMA QueueOfType ==
  ASSUME NEW c \in Queues PROVE QueueOf(c) \in Queues
BY LedgerAssumption DEF QueueOf, Queues

LEMMA TypesStep == TypeOK /\ [Next]_ledgerVars => TypeOK'
<1> SUFFICES ASSUME TypeOK, [Next]_ledgerVars PROVE TypeOK'
  OBVIOUS
<1> USE DEF ledger
<1>1. ASSUME NEW c \in Contexts, NEW a \in Accesses, Snapshot(c, a) PROVE TypeOK'
  <2>1. a \in [reads : SUBSET Parcels, writes : SUBSET Parcels] /\ c \in Queues /\ Driver[c] \in Threads
    BY LedgerAssumption DEF Queues
  <2>2. SyncOf(a, QueueOf(c)) \in [waits : SUBSET Epochs, cpuWaits : SUBSET Epochs, barrier : BOOLEAN]
    BY <2>1, SyncType, QueueOfType
  <2>3. [ticket |-> 0, job |-> [by |-> c, access |-> a, sync |-> SyncOf(a, QueueOf(c))]] \in Plans
    BY <2>1, <2>2, LedgerAssumption DEF Plans, Jobs
  <2> QED
    BY <1>1, <2>1, <2>3 DEF TypeOK, Snapshot
<1>2. ASSUME NEW th \in Threads, Submit(th) PROVE TypeOK'
  <2>1. plan[th] \in Plans /\ plan[th].job \in Jobs /\ next \in Tickets
    BY <1>2 DEF TypeOK, Submit, Plans
  <2>2. [plan[th] EXCEPT !.ticket = next] \in Plans
    BY <2>1 DEF Plans, Tickets
  <2>3. plan' \in [Threads -> Plans \cup {NoPlan}] /\ job' \in [Tickets -> Jobs]
    BY <1>2, <2>1, <2>2 DEF TypeOK, Submit
  <2>4. next' \in 1..(MaxTicket + 1)
    BY <1>2, <2>1, LedgerAssumption DEF TypeOK, Submit, Tickets
  <2> QED
    BY <1>2, <2>3, <2>4 DEF TypeOK, Submit
<1>3. ASSUME NEW th \in Threads, Resolve(th) \/ Refuse(th) PROVE TypeOK'
  BY <1>3 DEF TypeOK, Resolve, Refuse
<1>4. ASSUME NEW th \in Threads, Enqueue(th) PROVE TypeOK'
  <2>1. plan[th].ticket \in Tickets
    BY <1>4, LedgerAssumption DEF TypeOK, Enqueue, InSubmit, Plans, Tickets
  <2> QED
    BY <1>4, <2>1 DEF TypeOK, Enqueue
<1>5. ASSUME NEW th \in Threads, Stamp(th) PROVE TypeOK'
  <2> DEFINE t == plan[th].ticket
             a == plan[th].job.access
             q == QueueOf(plan[th].job.by)
  <2>1. t \in 0..MaxTicket /\ q \in Queues
    BY <1>5, QueueOfType DEF TypeOK, Stamp, Plans, Jobs
  <2>2. \A p \in Parcels : /\ [lastWrite[p] EXCEPT ![q] = Later(@, t)] \in Clocks
                         /\ [lastRead[p] EXCEPT ![q] = Later(@, t)] \in Clocks
    BY <2>1, RaisedClock DEF TypeOK
  <2>3. /\ lastWrite' = [p \in Parcels |-> IF p \in a.writes THEN [lastWrite[p] EXCEPT ![q] = Later(@, t)] ELSE lastWrite[p]]
        /\ lastRead' = [p \in Parcels |-> IF p \in a.reads THEN [lastRead[p] EXCEPT ![q] = Later(@, t)] ELSE lastRead[p]]
    BY <1>5 DEF Stamp
  <2>4. lastWrite' \in [Parcels -> Clocks] /\ lastRead' \in [Parcels -> Clocks]
    BY <2>2, <2>3 DEF TypeOK
  <2> QED
    BY <1>5, <2>4 DEF TypeOK, Stamp
<1>6. CASE WorkerSubmit
  <2>1. Head(channel) \in Tickets /\ Tail(channel) \in Seq(Tickets \cup Contexts)
    BY <1>6, HeadTailElements DEF TypeOK, WorkerSubmit
  <2>2. QueueOf(job[Head(channel)].by) \in Queues
    BY <2>1, QueueOfType DEF TypeOK, Jobs
  <2>3. gpu' \in [Queues -> Seq(Tickets)]
    BY <1>6, <2>1, <2>2 DEF TypeOK, WorkerSubmit
  <2> QED
    BY <1>6, <2>1, <2>3 DEF TypeOK, WorkerSubmit
<1>7. CASE WorkerFlush
  BY <1>7, HeadTailElements DEF TypeOK, WorkerFlush
<1>8. ASSUME NEW q \in Queues, Start(q) PROVE TypeOK'
  <2>1. Head(gpu[q]) \in Tickets /\ Tail(gpu[q]) \in Seq(Tickets)
    BY <1>8, HeadTailElements DEF TypeOK, Start
  <2> QED
    BY <1>8, <2>1 DEF TypeOK, Start
<1>9. ASSUME NEW q \in Queues, Finish(q) PROVE TypeOK'
  <2>1. Head(running[q]) \in Tickets /\ Tail(running[q]) \in Seq(Tickets)
    BY <1>9, HeadTailElements DEF TypeOK, Finish
  <2>2. sem' \in Clocks
    BY <1>9, <2>1 DEF TypeOK, Finish, Clocks, Tickets
  <2> QED
    BY <1>9, <2>1, <2>2 DEF TypeOK, Finish
<1>10. ASSUME NEW c \in Contexts, Drop(c) PROVE TypeOK'
  <2>1. channel' \in Seq(Tickets \cup Contexts)
    BY <1>10, AppendElements DEF TypeOK, Drop
  <2> QED
    BY <1>10, <2>1 DEF TypeOK, Drop
<1>11. ASSUME NEW c \in Contexts, Teardown(c) PROVE TypeOK'
  BY <1>11 DEF TypeOK, Teardown
<1>12. CASE UNCHANGED ledgerVars
  BY <1>12 DEF TypeOK, ledgerVars
<1> QED
  BY <1>1, <1>2, <1>3, <1>4, <1>5, <1>6, <1>7, <1>8, <1>9, <1>10, <1>11, <1>12 DEF Next

(* The types hold for any number of submitting threads.                    *)
THEOREM LedgerTypes == Spec => []TypeOK
BY TypesInit, TypesStep, PTL DEF Spec

(***************************************************************************)
(* The order of submits.                                                   *)
(***************************************************************************)
LEMMA TicketNumbers ==
  TypeOK => /\ \A t \in Tickets : t \in Nat /\ t >= 1 /\ t <= MaxTicket
            /\ next \in Nat /\ next >= 1
            /\ \A q \in Queues : sem[q] \in Nat
            /\ \A p \in Parcels, q \in Queues : lastWrite[p][q] \in 0..MaxTicket /\ lastRead[p][q] \in 0..MaxTicket
BY LedgerAssumption DEF TypeOK, Tickets, Clocks

LEMMA JobTypes ==
  ASSUME TypeOK, NEW t \in Tickets
  PROVE  /\ job[t] \in Jobs
         /\ job[t].by \in Queues
         /\ RunsOn(t) \in Queues
         /\ job[t].access.reads \in SUBSET Parcels
         /\ job[t].access.writes \in SUBSET Parcels
BY QueueOfType DEF TypeOK, Jobs, RunsOn

LEMMA OrderInit == Init => LedgerOrder
<1> SUFFICES ASSUME Init PROVE LedgerOrder
  OBVIOUS
<1>1. \A t \in Tickets : stage[t] = "free" /\ t >= next
  BY LedgerAssumption DEF Init, Tickets
<1>2. PlansOK /\ TicketsOK
  BY <1>1 DEF Init, PlansOK, TicketsOK
<1>3. QueuesOK
  BY <1>1 DEF Init, QueuesOK, Lists
<1>4. NoOvertaking
  BY <1>1 DEF NoOvertaking
<1>5. SemaphoresOK
  BY <1>1 DEF Init, SemaphoresOK, Zero, Tickets
<1>6. StampsCover /\ WaitsCover /\ WaitsOver
  BY <1>1 DEF Init, StampsCover, WaitsCover, WaitsOver, Alive
<1>7. DropsFollow
  BY <1>1 DEF Init, DropsFollow
<1> QED
  BY <1>2, <1>3, <1>4, <1>5, <1>6, <1>7 DEF LedgerOrder

(* What a step keeps that changes none of the jobs.                        *)
Ended(t)     == stage[t] \in {"done", "refused"}
Submitted(t) == stage[t] \in {"queued", "issued", "running", "done"}

LEMMA KeepWaits ==
  ASSUME WaitsCover, job' = job, \A t \in Tickets : Alive(t)' => Alive(t),
         \A th \in Threads : plan'[th] # NoPlan => plan'[th] = plan[th]
  PROVE  WaitsCover'
<1>1. \A t \in Tickets : RunsOn(t)' = RunsOn(t)
  BY DEF RunsOn
<1>2. ASSUME NEW th \in Threads, plan'[th] # NoPlan, plan'[th].ticket = 0,
             NEW t \in Tickets, Alive(t)', Conflict(job'[t], plan'[th].job)
      PROVE  Behind(plan[th].job, t)'
  <2>1. Behind(plan[th].job, t)
    BY <1>2 DEF WaitsCover
  <2> QED
    BY <1>1, <1>2, <2>1 DEF Behind
<1>3. ASSUME NEW t \in Tickets, NEW u \in Tickets, t < u, Alive(t)', Alive(u)', Conflict(job'[t], job'[u])
      PROVE  Behind(job[u], t)'
  <2>1. Behind(job[u], t)
    BY <1>3 DEF WaitsCover
  <2> QED
    BY <1>1, <2>1 DEF Behind
<1> QED
  BY <1>2, <1>3 DEF WaitsCover

LEMMA KeepSemaphores ==
  ASSUME SemaphoresOK, job' = job, next' = next, sem' = sem,
         \A t \in Tickets : Ended(t) => Ended(t)'
  PROVE  SemaphoresOK'
BY DEF SemaphoresOK, RunsOn, Ended

LEMMA KeepStamps ==
  ASSUME StampsCover, job' = job, lastWrite' = lastWrite, lastRead' = lastRead,
         \A t \in Tickets : Submitted(t)' /\ Stamped(t)' => Submitted(t) /\ Stamped(t)
  PROVE  StampsCover'
BY DEF StampsCover, RunsOn, Submitted

LEMMA KeepWaitsOver ==
  ASSUME WaitsOver, job' = job, sem' = sem,
         \A t \in Tickets : Ended(t) => Ended(t)',
         \A t \in Tickets : stage'[t] \in {"issued", "running", "done"} => stage'[t] = stage[t]
  PROVE  WaitsOver'
<1>1. \A t \in Tickets : stage'[t] \in {"issued", "running", "done"} => Reached(job[t].sync.cpuWaits)'
  BY DEF WaitsOver, Reached
<1>2. \A t, u \in Tickets : t < u /\ stage'[u] \in {"running", "done"} /\ Conflict(job'[t], job'[u]) =>
        stage'[t] \in {"done", "refused"}
  BY DEF WaitsOver, Ended
<1> QED
  BY <1>1, <1>2 DEF WaitsOver

LEMMA KeepDrops ==
  ASSUME DropsFollow, job' = job, life' = life, channel' = channel,
         \A t \in Tickets : stage'[t] \in {"resolved", "queued"} => stage'[t] = stage[t]
  PROVE  DropsFollow'
<1>1. \A c \in Contexts : life'[c] = "live" => \A i \in 1..Len(channel') : channel'[i] # c
  BY DEF DropsFollow
<1>2. \A t \in Tickets : stage'[t] = "resolved" => Resolvable(job[t].sync)'
  BY DEF DropsFollow, Resolvable
<1>3. ASSUME NEW t \in Tickets, stage'[t] = "queued", NEW c \in Named(job[t].sync)'
      PROVE  /\ life'[c] \in {"live", "detached"}
             /\ \A i \in 1..Len(channel') : channel'[i] = c =>
                  \E k \in 1..Len(channel') : k < i /\ channel'[k] = t
  <2>1. stage[t] = "queued" /\ c \in Named(job[t].sync)
    BY <1>3 DEF Named
  <2> QED
    BY <2>1 DEF DropsFollow
<1> QED
  BY <1>1, <1>2, <1>3 DEF DropsFollow

LEMMA KeepQueues ==
  ASSUME QueuesOK, job' = job, channel' = channel, gpu' = gpu, running' = running,
         \A t \in Tickets : stage'[t] # stage[t] =>
           /\ stage[t] \notin {"queued", "issued", "running"}
           /\ stage'[t] \notin {"queued", "issued", "running"}
  PROVE  QueuesOK'
<1>1. {t \in Tickets : stage'[t] = "queued"} = {t \in Tickets : stage[t] = "queued"}
  OBVIOUS
<1>2. \A q \in Queues : {t \in Tickets : stage'[t] = "issued" /\ RunsOn(t)' = q}
                      = {t \in Tickets : stage[t] = "issued" /\ RunsOn(t) = q}
  BY DEF RunsOn
<1>3. \A q \in Queues : {t \in Tickets : stage'[t] = "running" /\ RunsOn(t)' = q}
                      = {t \in Tickets : stage[t] = "running" /\ RunsOn(t) = q}
  BY DEF RunsOn
<1> QED
  BY <1>1, <1>2, <1>3 DEF QueuesOK

LEMMA NamedByQueued ==
  ASSUME DropsFollow, NEW t \in Tickets, stage[t] = "queued", NEW c \in Named(job[t].sync)
  PROVE  /\ life[c] \in {"live", "detached"}
         /\ \A i \in 1..Len(channel) : channel[i] = c =>
              \E k \in 1..Len(channel) : k < i /\ channel[k] = t
<1>1. \A d \in Named(job[t].sync) :
        /\ life[d] \in {"live", "detached"}
        /\ \A i \in 1..Len(channel) : channel[i] = d =>
             \E k \in 1..Len(channel) : k < i /\ channel[k] = t
  BY Zenon DEF DropsFollow
<1> QED
  BY <1>1

(* A partition's synchronisation orders it behind every partition whose    *)
(* conflicting accesses are stamped.                                       *)
LEMMA StampedIsBehind ==
  ASSUME TypeOK, NEW c \in Contexts, NEW a \in Accesses, NEW t \in Tickets,
         \A p \in job[t].access.reads : lastRead[p][RunsOn(t)] >= t,
         \A p \in job[t].access.writes : lastWrite[p][RunsOn(t)] >= t,
         NEW j, j = [by |-> c, access |-> a, sync |-> SyncOf(a, QueueOf(c))],
         Conflict(job[t], j)
  PROVE  Behind(j, t)
<1> DEFINE r == RunsOn(t)
           q == QueueOf(c)
<1>1. r \in Queues /\ job[t].access.reads \in SUBSET Parcels /\ job[t].access.writes \in SUBSET Parcels
  BY JobTypes
<1>2. a.reads \in SUBSET Parcels /\ a.writes \in SUBSET Parcels
  BY LedgerAssumption
<1>3. j.by = c /\ j.access = a /\ j.sync = SyncOf(a, q)
  OBVIOUS
<1> HIDE DEF r, q
<1>4. \A p \in Parcels, v \in Nat : (v = lastWrite[p][r] \/ v = lastRead[p][r]) /\ v >= t => <<r, v>> \in Epochs
  BY <1>1, TicketNumbers DEF Epochs, Tickets
<1>5. ASSUME NEW p \in job[t].access.writes, p \in a.reads
      PROVE  Behind(j, t)
  <2> DEFINE e == <<r, lastWrite[p][r]>>
  <2>1. p \in Parcels /\ lastWrite[p][r] >= t /\ lastWrite[p][r] \in Nat
    BY <1>1, <1>5, TicketNumbers DEF r
  <2>2. e \in Producers(a) /\ e \in Writers(a)
    BY <1>4, <1>5, <2>1 DEF Producers, Writers, EpochsOf
  <2>3. CASE r = q
    BY <1>3, <2>2, <2>3 DEF Behind, SyncOf, Barrier, r, q
  <2>4. CASE r # q
    <3>1. e \in j.sync.waits
      BY <1>3, <2>2, <2>4 DEF SyncOf, Waits, Elsewhere
    <3> QED
      BY <2>1, <3>1 DEF Behind, r
  <2> QED
    BY <2>3, <2>4
<1>6. ASSUME NEW p \in job[t].access.writes, p \in a.writes
      PROVE  Behind(j, t)
  <2> DEFINE e == <<r, lastWrite[p][r]>>
  <2>1. p \in Parcels /\ lastWrite[p][r] >= t /\ lastWrite[p][r] \in Nat
    BY <1>1, <1>6, TicketNumbers DEF r
  <2>2. e \in Writers(a)
    BY <1>4, <1>6, <2>1 DEF Writers, EpochsOf
  <2>3. CASE r = q
    <3>1. e \in On(Writers(a) \cup Readers(a), q)
      BY <2>2, <2>3 DEF On
    <3> QED
      BY <1>3, <2>3, <3>1 DEF Behind, SyncOf, Barrier, r, q
  <2>4. CASE r # q
    <3>1. e \in j.sync.waits
      BY <1>3, <2>2, <2>4 DEF SyncOf, Waits, Elsewhere
    <3> QED
      BY <2>1, <3>1 DEF Behind, r
  <2> QED
    BY <2>3, <2>4
<1>7. ASSUME NEW p \in job[t].access.reads, p \in a.writes
      PROVE  Behind(j, t)
  <2> DEFINE e == <<r, lastRead[p][r]>>
  <2>1. p \in Parcels /\ lastRead[p][r] >= t /\ lastRead[p][r] \in Nat
    BY <1>1, <1>7, TicketNumbers DEF r
  <2>2. e \in Readers(a)
    BY <1>4, <1>7, <2>1 DEF Readers, EpochsOf
  <2>3. CASE r = q
    <3>1. e \in On(Writers(a) \cup Readers(a), q)
      BY <2>2, <2>3 DEF On
    <3> QED
      BY <1>3, <2>3, <3>1 DEF Behind, SyncOf, Barrier, r, q
  <2>4. CASE r # q
    <3>1. e \in j.sync.cpuWaits
      BY <1>3, <2>2, <2>4 DEF SyncOf, Elsewhere
    <3> QED
      BY <2>1, <3>1 DEF Behind, r
  <2> QED
    BY <2>3, <2>4
<1> QED
  BY <1>3, <1>5, <1>6, <1>7 DEF Conflict

(* The partition is planned from stamps that all the others have left.     *)
LEMMA OrderSnapshot ==
  ASSUME OneSubmitter, TypeOK, LedgerOrder, NEW c \in Contexts, NEW a \in Accesses, Snapshot(c, a)
  PROVE  LedgerOrder'
<1> DEFINE j == [by |-> c, access |-> a, sync |-> SyncOf(a, QueueOf(c))]
<1>1. /\ \A th \in Threads : plan[th] = NoPlan
      /\ \A th \in Threads : plan'[th] = [ticket |-> 0, job |-> j]
      /\ UNCHANGED <<next, lastWrite, lastRead, job, stage, channel, gpu, running, sem, life>>
  BY LedgerAssumption DEF Snapshot, OneSubmitter, ledger, TypeOK
<1>2. \A t \in Tickets : stage[t] \notin {"registered", "resolved"} /\ Stamped(t)
  BY <1>1 DEF LedgerOrder, TicketsOK, Stamped
<1>3. PlansOK' /\ TicketsOK'
  BY <1>1, <1>2 DEF LedgerOrder, PlansOK, TicketsOK
<1>4. QueuesOK' /\ NoOvertaking' /\ SemaphoresOK' /\ WaitsOver' /\ DropsFollow'
  <2>1. QueuesOK' /\ DropsFollow'
    BY <1>1, KeepQueues, KeepDrops DEF LedgerOrder
  <2>2. NoOvertaking'
    BY <1>1 DEF LedgerOrder, NoOvertaking, RunsOn
  <2>3. SemaphoresOK' /\ WaitsOver'
    BY <1>1, KeepSemaphores, KeepWaitsOver DEF LedgerOrder, Ended
  <2> QED
    BY <2>1, <2>2, <2>3
<1>5. StampsCover'
  BY <1>1, <1>2 DEF LedgerOrder, StampsCover, RunsOn
<1>6. ASSUME NEW t \in Tickets, Alive(t), Conflict(job[t], j)
      PROVE  Behind(j, t)
  <2>1. stage[t] \in {"queued", "issued", "running", "done"}
    BY <1>2, <1>6 DEF Alive, TypeOK
  <2>2. /\ \A p \in job[t].access.reads : lastRead[p][RunsOn(t)] >= t
        /\ \A p \in job[t].access.writes : lastWrite[p][RunsOn(t)] >= t
    BY <1>2, <2>1 DEF LedgerOrder, StampsCover
  <2> QED
    BY <1>6, <2>2, StampedIsBehind
<1>7. WaitsCover'
  <2>1. \A t, u \in Tickets : t < u /\ Alive(t) /\ Alive(u) /\ Conflict(job[t], job[u]) => Behind(job[u], t)
    BY DEF LedgerOrder, WaitsCover
  <2>2. \A t \in Tickets, k \in {j} \cup {job[u] : u \in Tickets} :
          (Alive(t)' <=> Alive(t)) /\ (Behind(k, t)' <=> Behind(k, t)) /\ (Conflict(job'[t], k) <=> Conflict(job[t], k))
    BY <1>1 DEF Alive, Behind, RunsOn, Conflict
  <2>3. \A th \in Threads : plan'[th].job = j
    BY <1>1
  <2> HIDE DEF j
  <2> QED
    BY <1>1, <1>6, <2>1, <2>2, <2>3 DEF WaitsCover
<1> QED
  BY <1>3, <1>4, <1>5, <1>7 DEF LedgerOrder

(* The newest ticket is ordered behind all the others by its plan.         *)
LEMMA OrderSubmit ==
  ASSUME OneSubmitter, TypeOK, LedgerOrder, NEW th \in Threads, Submit(th)
  PROVE  LedgerOrder'
<1> DEFINE n == next
           j == plan[th].job
<1>1. /\ plan[th] \in Plans /\ plan[th] # NoPlan /\ plan[th].ticket = 0
      /\ n \in Tickets /\ next' = n + 1
      /\ stage' = [stage EXCEPT ![n] = "registered"]
      /\ job' = [job EXCEPT ![n] = j]
      /\ plan' = [plan EXCEPT ![th] = [plan[th] EXCEPT !.ticket = n]]
      /\ UNCHANGED <<lastWrite, lastRead, channel, gpu, running, sem, life>>
  BY DEF Submit, ledger, TypeOK
<1>2. /\ stage'[n] = "registered" /\ job'[n] = j
      /\ \A t \in Tickets : t # n => stage'[t] = stage[t] /\ job'[t] = job[t]
      /\ stage[n] = "free"
  BY <1>1, TicketNumbers DEF TypeOK, LedgerOrder, TicketsOK
<1>3. /\ \A x \in Threads : x = th
      /\ plan'[th] \in Plans /\ plan'[th] # NoPlan /\ plan'[th].ticket = n /\ plan'[th].job = j
  <2>1. plan'[th] = [plan[th] EXCEPT !.ticket = n]
    BY <1>1 DEF TypeOK
  <2>2. plan'[th] \in Plans /\ plan'[th].ticket = n /\ plan'[th].job = j
    BY <1>1, <2>1 DEF Plans, Tickets
  <2> QED
    BY <2>2, LedgerAssumption DEF OneSubmitter
<1>4. j.by \in Contexts
  BY <1>1 DEF LedgerOrder, PlansOK
<1>5. \A t \in Tickets : t > n => stage[t] = "free"
  BY <1>1, TicketNumbers DEF LedgerOrder, TicketsOK
<1> HIDE DEF n, j
<1> USE TicketNumbers
<1>6. PlansOK'
  BY <1>1, <1>2, <1>3, <1>4 DEF PlansOK, n
<1>7. TicketsOK'
  <2> SUFFICES ASSUME NEW t \in Tickets
               PROVE  /\ stage'[t] = "free" <=> t >= next'
                      /\ stage'[t] # "free" => job'[t].by \in Contexts
                      /\ stage'[t] \in {"registered", "resolved"} =>
                           \E x \in Threads : plan'[x] # NoPlan /\ plan'[x].ticket = t
    BY DEF TicketsOK
  <2>1. CASE t = n
    BY <1>1, <1>2, <1>3, <1>4, <2>1
  <2>2. CASE t # n
    <3>1. stage'[t] \notin {"registered", "resolved"}
      BY <1>1, <1>2, <1>3, <2>2 DEF LedgerOrder, TicketsOK
    <3>2. stage[t] = "free" <=> t >= n + 1
      BY <1>1, <2>2 DEF LedgerOrder, TicketsOK, n
    <3> QED
      BY <1>1, <1>2, <2>2, <3>1, <3>2 DEF LedgerOrder, TicketsOK
  <2> QED
    BY <2>1, <2>2
<1>8. QueuesOK'
  <2>1. {t \in Tickets : stage'[t] = "queued"} = {t \in Tickets : stage[t] = "queued"}
    BY <1>2
  <2>2. \A q \in Queues : {t \in Tickets : stage'[t] = "issued" /\ RunsOn(t)' = q}
                        = {t \in Tickets : stage[t] = "issued" /\ RunsOn(t) = q}
    BY <1>2 DEF RunsOn
  <2>3. \A q \in Queues : {t \in Tickets : stage'[t] = "running" /\ RunsOn(t)' = q}
                        = {t \in Tickets : stage[t] = "running" /\ RunsOn(t) = q}
    BY <1>2 DEF RunsOn
  <2> QED
    BY <1>1, <2>1, <2>2, <2>3 DEF LedgerOrder, QueuesOK
<1>9. NoOvertaking'
  BY <1>2, <1>5 DEF LedgerOrder, NoOvertaking, RunsOn
<1>10. SemaphoresOK'
  <2>1. \A q \in Queues : sem'[q] < next'
    BY <1>1 DEF LedgerOrder, SemaphoresOK, n
  <2>2. ASSUME NEW t \in Tickets, t < next', NEW q \in {job'[t].by, RunsOn(t)'}, sem'[q] >= t
        PROVE  stage'[t] \in {"done", "refused"}
    <3>1. CASE t = n
      <4>1. q \in Queues
        BY <1>2, <1>4, <2>2, <3>1, QueueOfType DEF RunsOn, Queues
      <4> QED
        BY <1>1, <2>2, <3>1, <4>1 DEF LedgerOrder, SemaphoresOK, n
    <3>2. CASE t # n
      BY <1>1, <1>2, <2>2, <3>2 DEF LedgerOrder, SemaphoresOK, RunsOn, n
    <3> QED
      BY <3>1, <3>2
  <2> QED
    BY <2>1, <2>2 DEF SemaphoresOK
<1>11. StampsCover'
  <2> SUFFICES ASSUME NEW t \in Tickets, stage'[t] \in {"queued", "issued", "running", "done"}, Stamped(t)'
               PROVE  /\ \A p \in job'[t].access.reads : lastRead'[p][RunsOn(t)'] >= t
                      /\ \A p \in job'[t].access.writes : lastWrite'[p][RunsOn(t)'] >= t
    BY DEF StampsCover
  <2>1. t # n
    BY <1>2
  <2>2. Stamped(t)
    BY <1>1, <1>3 DEF Stamped
  <2> QED
    BY <1>1, <1>2, <2>1, <2>2 DEF LedgerOrder, StampsCover, RunsOn
<1>12. WaitsCover'
  <2>1. \A x \in Threads : plan'[x].ticket # 0
    BY <1>1, <1>3
  <2>2. ASSUME NEW t \in Tickets, NEW u \in Tickets, t < u, Alive(t)', Alive(u)', Conflict(job'[t], job'[u])
        PROVE  Behind(job[u], t)'
    <3>1. t # n
      BY <1>2, <1>5, <2>2 DEF Alive
    <3>2. Alive(t) /\ job'[t] = job[t] /\ RunsOn(t)' = RunsOn(t)
      BY <1>2, <2>2, <3>1 DEF Alive, RunsOn
    <3>3. CASE u = n
      <4>1. Behind(j, t)
        BY <1>1, <1>2, <2>2, <3>2, <3>3 DEF LedgerOrder, WaitsCover, j
      <4>2. job'[u] = j
        BY <1>2, <3>3
      <4> QED
        BY <3>2, <4>1, <4>2 DEF Behind
    <3>4. CASE u # n
      <4>1. Alive(u) /\ job'[u] = job[u]
        BY <1>2, <2>2, <3>4 DEF Alive
      <4>2. Behind(job[u], t)
        BY <2>2, <3>2, <4>1 DEF LedgerOrder, WaitsCover
      <4> QED
        BY <3>2, <4>1, <4>2 DEF Behind
    <3> QED
      BY <3>3, <3>4
  <2> QED
    BY <2>1, <2>2 DEF WaitsCover
<1>13. WaitsOver'
  <2>1. \A t \in Tickets : stage'[t] \in {"issued", "running", "done"} => Reached(job[t].sync.cpuWaits)'
    BY <1>1, <1>2 DEF LedgerOrder, WaitsOver, Reached
  <2>2. ASSUME NEW t \in Tickets, NEW u \in Tickets, t < u, stage'[u] \in {"running", "done"},
               Conflict(job'[t], job'[u])
        PROVE  stage'[t] \in {"done", "refused"}
    BY <1>2, <1>5, <2>2 DEF LedgerOrder, WaitsOver
  <2> QED
    BY <1>2, <2>1, <2>2 DEF WaitsOver, Reached
<1>14. DropsFollow'
  <2>1. \A t \in Tickets : stage'[t] \in {"resolved", "queued"} =>
          stage'[t] = stage[t] /\ Named(job[t].sync)' = Named(job[t].sync)
    BY <1>2 DEF Named
  <2>2. \A c \in Contexts : life'[c] = "live" => \A i \in 1..Len(channel') : channel'[i] # c
    BY <1>1 DEF LedgerOrder, DropsFollow
  <2>3. \A t \in Tickets : stage'[t] = "resolved" => Resolvable(job[t].sync)'
    BY <1>1, <2>1 DEF LedgerOrder, DropsFollow, Resolvable
  <2>4. ASSUME NEW t \in Tickets, stage'[t] = "queued", NEW c \in Named(job[t].sync)'
        PROVE  /\ life'[c] \in {"live", "detached"}
               /\ \A i \in 1..Len(channel') : channel'[i] = c =>
                    \E k \in 1..Len(channel') : k < i /\ channel'[k] = t
    <3>1. stage[t] = "queued" /\ c \in Named(job[t].sync)
      BY <2>1, <2>4
    <3> QED
      BY <1>1, <3>1, NamedByQueued DEF LedgerOrder
  <2> QED
    BY <2>2, <2>3, <2>4 DEF DropsFollow
<1> QED
  BY <1>6, <1>7, <1>8, <1>9, <1>10, <1>11, <1>12, <1>13, <1>14 DEF LedgerOrder

(* The waits of the newest ticket are looked up.                           *)
LEMMA OrderResolve ==
  ASSUME OneSubmitter, TypeOK, LedgerOrder, NEW th \in Threads, Resolve(th)
  PROVE  LedgerOrder'
<1> DEFINE n == plan[th].ticket
<1>1. /\ plan[th] # NoPlan /\ n \in Tickets /\ stage[n] = "registered" /\ n = next - 1
      /\ job[n] = plan[th].job /\ Resolvable(job[n].sync)
      /\ stage' = [stage EXCEPT ![n] = "resolved"]
      /\ UNCHANGED <<next, lastWrite, lastRead, plan, job, channel, gpu, running, sem, life>>
  BY DEF Resolve, InSubmit, ledger, TypeOK, Plans, LedgerOrder, PlansOK, Tickets
<1>2. /\ stage'[n] = "resolved"
      /\ \A t \in Tickets : t # n => stage'[t] = stage[t]
  BY <1>1 DEF TypeOK
<1> HIDE DEF n
<1> USE TicketNumbers
<1>3. PlansOK'
  BY <1>1, <1>2 DEF LedgerOrder, PlansOK, n
<1>4. TicketsOK'
  <2>1. \E x \in Threads : plan[x] # NoPlan /\ plan[x].ticket = n
    BY <1>1 DEF n
  <2> QED
    BY <1>1, <1>2, <2>1 DEF LedgerOrder, TicketsOK
<1>5. QueuesOK'
  BY <1>1, <1>2, KeepQueues DEF LedgerOrder
<1>6. NoOvertaking'
  BY <1>1, <1>2 DEF LedgerOrder, NoOvertaking, RunsOn
<1>7. SemaphoresOK' /\ WaitsOver'
  BY <1>1, <1>2, KeepSemaphores, KeepWaitsOver DEF LedgerOrder, Ended
<1>8. StampsCover'
  BY <1>1, <1>2, KeepStamps DEF LedgerOrder, Submitted, Stamped
<1>9. WaitsCover'
  BY <1>1, <1>2, KeepWaits DEF LedgerOrder, Alive
<1>10. DropsFollow'
  <2>1. \A c \in Contexts : life'[c] = "live" => \A i \in 1..Len(channel') : channel'[i] # c
    BY <1>1 DEF LedgerOrder, DropsFollow
  <2>2. \A t \in Tickets : stage'[t] = "resolved" => Resolvable(job[t].sync)
    BY <1>1, <1>2 DEF LedgerOrder, DropsFollow
  <2>3. \A t \in Tickets : Resolvable(job[t].sync)' <=> Resolvable(job[t].sync)
    BY <1>1 DEF Resolvable, Named
  <2>4. ASSUME NEW t \in Tickets, stage'[t] = "queued", NEW c \in Named(job[t].sync)'
        PROVE  /\ life'[c] \in {"live", "detached"}
               /\ \A i \in 1..Len(channel') : channel'[i] = c =>
                    \E k \in 1..Len(channel') : k < i /\ channel'[k] = t
    BY <1>1, <1>2, <2>4 DEF LedgerOrder, DropsFollow, Named
  <2> QED
    BY <2>1, <2>2, <2>3, <2>4 DEF DropsFollow
<1> QED
  BY <1>3, <1>4, <1>5, <1>6, <1>7, <1>8, <1>9, <1>10 DEF LedgerOrder

(* ... or cannot be: the newest ticket is given up.                        *)
LEMMA OrderRefuse ==
  ASSUME OneSubmitter, TypeOK, LedgerOrder, NEW th \in Threads, Refuse(th)
  PROVE  LedgerOrder'
<1> DEFINE n == plan[th].ticket
<1>1. /\ plan[th] # NoPlan /\ n \in Tickets /\ stage[n] = "registered" /\ n = next - 1
      /\ stage' = [stage EXCEPT ![n] = "refused"]
      /\ plan' = [plan EXCEPT ![th] = NoPlan]
      /\ UNCHANGED <<next, lastWrite, lastRead, job, channel, gpu, running, sem, life>>
  BY DEF Refuse, InSubmit, ledger, TypeOK, Plans, LedgerOrder, PlansOK, Tickets
<1>2. /\ stage'[n] = "refused"
      /\ \A t \in Tickets : t # n => stage'[t] = stage[t]
      /\ \A x \in Threads : plan'[x] = NoPlan
      /\ \A x \in Threads : plan[x].ticket = n
  BY <1>1 DEF TypeOK, OneSubmitter
<1> HIDE DEF n
<1> USE TicketNumbers
<1>3. PlansOK'
  BY <1>2 DEF PlansOK
<1>4. TicketsOK'
  BY <1>1, <1>2 DEF LedgerOrder, TicketsOK
<1>5. QueuesOK'
  BY <1>1, <1>2, KeepQueues DEF LedgerOrder
<1>6. NoOvertaking'
  BY <1>1, <1>2 DEF LedgerOrder, NoOvertaking, RunsOn
<1>7. SemaphoresOK' /\ WaitsOver'
  BY <1>1, <1>2, KeepSemaphores, KeepWaitsOver DEF LedgerOrder, Ended
<1>8. StampsCover'
  BY <1>1, <1>2, KeepStamps DEF LedgerOrder, Submitted, Stamped
<1>9. WaitsCover'
  BY <1>1, <1>2, KeepWaits DEF LedgerOrder, Alive
<1>10. DropsFollow'
  BY <1>1, <1>2, KeepDrops DEF LedgerOrder
<1> QED
  BY <1>3, <1>4, <1>5, <1>6, <1>7, <1>8, <1>9, <1>10 DEF LedgerOrder

(* The newest ticket joins the worker's channel.                           *)
LEMMA OrderEnqueue ==
  ASSUME OneSubmitter, TypeOK, LedgerOrder, NEW th \in Threads, Enqueue(th)
  PROVE  LedgerOrder'
<1> DEFINE n == plan[th].ticket
<1>1. /\ plan[th] # NoPlan /\ n \in Tickets /\ stage[n] = "resolved" /\ n = next - 1
      /\ stage' = [stage EXCEPT ![n] = "queued"]
      /\ channel' = Append(channel, n)
      /\ UNCHANGED <<next, lastWrite, lastRead, plan, job, gpu, running, sem, life>>
  BY DEF Enqueue, InSubmit, ledger, TypeOK, Plans, LedgerOrder, PlansOK, Tickets
<1>2. /\ stage'[n] = "queued"
      /\ \A t \in Tickets : t # n => stage'[t] = stage[t]
      /\ \A x \in Threads : plan[x] # NoPlan /\ plan[x].ticket = n
  BY <1>1 DEF TypeOK, OneSubmitter
<1>3. /\ channel \in Seq(Tickets \cup Contexts)
      /\ n \in Tickets \cup Contexts
      /\ Len(channel) \in Nat
      /\ Len(channel') = Len(channel) + 1
      /\ \A i \in 1..Len(channel) : channel'[i] = channel[i]
      /\ channel'[Len(channel) + 1] = n
  BY <1>1, AppendElements DEF TypeOK
<1>4. n \notin Contexts
  BY <1>1, LedgerAssumption, TicketNumbers
<1> HIDE DEF n
<1> USE TicketNumbers
<1>5. \A t \in Tickets : t # n /\ stage[t] # "free" => t < n
  BY <1>1 DEF LedgerOrder, TicketsOK
<1>6. PlansOK'
  BY <1>1, <1>2 DEF LedgerOrder, PlansOK, n
<1>7. TicketsOK'
  BY <1>1, <1>2 DEF LedgerOrder, TicketsOK
<1>8. QueuesOK'
  <2>1. Lists(channel', {t \in Tickets : stage[t] = "queued"} \cup {n})
    BY <1>1, <1>3, <1>5, ListsAppend DEF LedgerOrder, QueuesOK
  <2>2. {t \in Tickets : stage'[t] = "queued"} = {t \in Tickets : stage[t] = "queued"} \cup {n}
    BY <1>1, <1>2
  <2>3. \A q \in Queues : {t \in Tickets : stage'[t] = "issued" /\ RunsOn(t)' = q}
                        = {t \in Tickets : stage[t] = "issued" /\ RunsOn(t) = q}
    BY <1>1, <1>2 DEF RunsOn
  <2>4. \A q \in Queues : {t \in Tickets : stage'[t] = "running" /\ RunsOn(t)' = q}
                        = {t \in Tickets : stage[t] = "running" /\ RunsOn(t) = q}
    BY <1>1, <1>2 DEF RunsOn
  <2> QED
    BY <1>1, <2>1, <2>2, <2>3, <2>4 DEF LedgerOrder, QueuesOK
<1>9. NoOvertaking'
  BY <1>1, <1>2, <1>5 DEF LedgerOrder, NoOvertaking, RunsOn
<1>10. SemaphoresOK' /\ WaitsOver'
  BY <1>1, <1>2, KeepSemaphores, KeepWaitsOver DEF LedgerOrder, Ended
<1>11. StampsCover'
  <2>1. \A t \in Tickets : Stamped(t)' => t # n
    BY <1>1, <1>2 DEF Stamped
  <2> QED
    BY <1>1, <1>2, <2>1, KeepStamps DEF LedgerOrder, Submitted, Stamped
<1>12. WaitsCover'
  BY <1>1, <1>2, KeepWaits DEF LedgerOrder, Alive
<1>13. DropsFollow'
  <2>1. \A c \in Contexts : life[c] = "live" => \A i \in 1..Len(channel') : channel'[i] # c
    BY <1>1, <1>3, <1>4 DEF LedgerOrder, DropsFollow
  <2>2. \A t \in Tickets : Named(job[t].sync)' = Named(job[t].sync)
                           /\ (Resolvable(job[t].sync)' <=> Resolvable(job[t].sync))
    BY <1>1 DEF Resolvable, Named
  <2>3. \A t \in Tickets : stage'[t] = "resolved" => Resolvable(job[t].sync)
    BY <1>1, <1>2 DEF LedgerOrder, DropsFollow
  <2>4. ASSUME NEW t \in Tickets, stage'[t] = "queued", NEW c \in Named(job[t].sync)
        PROVE  /\ life[c] \in {"live", "detached"}
               /\ \A i \in 1..Len(channel') : channel'[i] = c =>
                    \E k \in 1..Len(channel') : k < i /\ channel'[k] = t
    <3>1. c \in Contexts
      BY DEF Named
    <3>2. CASE t = n
      <4>1. life[c] = "live"
        BY <1>1, <3>2 DEF LedgerOrder, DropsFollow, Resolvable
      <4> QED
        BY <2>1, <3>1, <4>1
    <3>3. CASE t # n
      <4>1. /\ life[c] \in {"live", "detached"}
            /\ \A i \in 1..Len(channel) : channel[i] = c =>
                 \E k \in 1..Len(channel) : k < i /\ channel[k] = t
        <5>1. stage[t] = "queued"
          BY <1>2, <2>4, <3>3
        <5> QED
          BY <2>4, <5>1 DEF LedgerOrder, DropsFollow
      <4>2. ASSUME NEW i \in 1..Len(channel'), channel'[i] = c
            PROVE  \E k \in 1..Len(channel') : k < i /\ channel'[k] = t
        <5>1. i \in 1..Len(channel) /\ channel[i] = c
          BY <1>3, <1>4, <3>1, <4>2
        <5>2. PICK k \in 1..Len(channel) : k < i /\ channel[k] = t
          BY <4>1, <5>1
        <5> QED
          BY <1>3, <5>2
      <4> QED
        BY <4>1, <4>2
    <3> QED
      BY <3>2, <3>3
  <2>5. life' = life
    BY <1>1
  <2> QED
    BY <2>1, <2>2, <2>3, <2>4, <2>5 DEF DropsFollow
<1> QED
  BY <1>6, <1>7, <1>8, <1>9, <1>10, <1>11, <1>12, <1>13 DEF LedgerOrder

(* The newest ticket is stamped, and with it every one submitted.          *)
LEMMA OrderStamp ==
  ASSUME OneSubmitter, TypeOK, LedgerOrder, NEW th \in Threads, Stamp(th)
  PROVE  LedgerOrder'
<1> DEFINE n == plan[th].ticket
           a == plan[th].job.access
           q == QueueOf(plan[th].job.by)
<1>1. /\ plan[th] # NoPlan /\ n \in Tickets /\ stage[n] \notin {"registered", "resolved", "free", "refused"}
      /\ n = next - 1 /\ job[n] = plan[th].job
      /\ plan' = [plan EXCEPT ![th] = NoPlan]
      /\ lastWrite' = [p \in Parcels |->
           IF p \in a.writes THEN [lastWrite[p] EXCEPT ![q] = Later(@, n)] ELSE lastWrite[p]]
      /\ lastRead' = [p \in Parcels |->
           IF p \in a.reads THEN [lastRead[p] EXCEPT ![q] = Later(@, n)] ELSE lastRead[p]]
      /\ UNCHANGED <<next, job, stage, channel, gpu, running, sem, life>>
  BY DEF Stamp, TypeOK, Plans, LedgerOrder, PlansOK, Tickets
<1>2. /\ \A x \in Threads : plan'[x] = NoPlan
      /\ \A x \in Threads : plan[x].ticket = n
  BY <1>1 DEF TypeOK, OneSubmitter
<1>3. q = RunsOn(n) /\ a = job[n].access /\ q \in Queues
  BY <1>1, JobTypes DEF RunsOn
<1>4. ASSUME NEW p \in Parcels
      PROVE  /\ p \in a.writes => lastWrite'[p][q] >= n
             /\ p \in a.reads => lastRead'[p][q] >= n
             /\ \A x \in Queues : lastWrite'[p][x] >= lastWrite[p][x] /\ lastRead'[p][x] >= lastRead[p][x]
  <2>1. lastWrite[p] \in Clocks /\ lastRead[p] \in Clocks /\ n \in 0..MaxTicket
    BY <1>1 DEF TypeOK, Tickets
  <2>2. \A x \in Queues : lastWrite[p][x] \in Nat /\ lastRead[p][x] \in Nat
    BY <2>1, LedgerAssumption DEF Clocks
  <2> DEFINE w == [lastWrite[p] EXCEPT ![q] = Later(@, n)]
             r == [lastRead[p] EXCEPT ![q] = Later(@, n)]
  <2>3. w[q] >= n /\ \A x \in Queues : w[x] >= lastWrite[p][x]
    BY <1>3, <2>1, RaisedClock
  <2>4. r[q] >= n /\ \A x \in Queues : r[x] >= lastRead[p][x]
    BY <1>3, <2>1, RaisedClock
  <2>5. lastWrite'[p] = (IF p \in a.writes THEN w ELSE lastWrite[p])
    BY <1>1
  <2>6. lastRead'[p] = (IF p \in a.reads THEN r ELSE lastRead[p])
    BY <1>1
  <2> HIDE DEF w, r, a, q, n
  <2> QED
    BY <2>2, <2>3, <2>4, <2>5, <2>6
<1> HIDE DEF n, a, q
<1> USE TicketNumbers
<1>5. PlansOK'
  BY <1>2 DEF PlansOK
<1>6. TicketsOK'
  BY <1>1, <1>2 DEF LedgerOrder, TicketsOK
<1>7. QueuesOK'
  BY <1>1, KeepQueues DEF LedgerOrder
<1>8. NoOvertaking'
  BY <1>1 DEF LedgerOrder, NoOvertaking, RunsOn
<1>9. SemaphoresOK' /\ WaitsOver'
  BY <1>1, KeepSemaphores, KeepWaitsOver DEF LedgerOrder, Ended
<1>10. StampsCover'
  <2> SUFFICES ASSUME NEW t \in Tickets, stage[t] \in {"queued", "issued", "running", "done"}
               PROVE  /\ \A p \in job[t].access.reads : lastRead'[p][RunsOn(t)] >= t
                      /\ \A p \in job[t].access.writes : lastWrite'[p][RunsOn(t)] >= t
    <3>1. \A t \in Tickets : RunsOn(t)' = RunsOn(t)
      BY <1>1 DEF RunsOn
    <3> QED
      BY <1>1, <3>1 DEF StampsCover
  <2>1. RunsOn(t) \in Queues /\ job[t].access.reads \in SUBSET Parcels /\ job[t].access.writes \in SUBSET Parcels
    BY JobTypes
  <2>2. CASE t = n
    BY <1>3, <1>4, <2>1, <2>2
  <2>3. CASE t # n
    <3>1. /\ \A p \in job[t].access.reads : lastRead[p][RunsOn(t)] >= t
          /\ \A p \in job[t].access.writes : lastWrite[p][RunsOn(t)] >= t
      BY <1>2, <2>3 DEF LedgerOrder, StampsCover, Stamped
    <3>2. \A p \in Parcels : lastRead[p][RunsOn(t)] \in Nat /\ lastWrite[p][RunsOn(t)] \in Nat
      BY <2>1, LedgerAssumption
    <3>3. \A p \in Parcels : lastRead'[p][RunsOn(t)] \in Nat /\ lastWrite'[p][RunsOn(t)] \in Nat
      <4>1. TypeOK'
        BY TypesStep DEF Next
      <4> QED
        BY <2>1, <4>1, LedgerAssumption DEF TypeOK, Clocks
    <3> QED
      BY <1>4, <2>1, <3>1, <3>2, <3>3
  <2> QED
    BY <2>2, <2>3
<1>11. WaitsCover'
  BY <1>1, <1>2, KeepWaits DEF LedgerOrder, Alive
<1>12. DropsFollow'
  BY <1>1, KeepDrops DEF LedgerOrder
<1> QED
  BY <1>5, <1>6, <1>7, <1>8, <1>9, <1>10, <1>11, <1>12 DEF LedgerOrder

(* The head of the channel is the oldest ticket queued, and goes to the end*)
(* of its queue.                                                           *)
LEMMA OrderWorkerSubmit ==
  ASSUME OneSubmitter, TypeOK, LedgerOrder, WorkerSubmit
  PROVE  LedgerOrder'
<1> DEFINE n == Head(channel)
           q == RunsOn(n)
<1>1. /\ channel # << >> /\ n \in Tickets
      /\ Reached(job[n].sync.cpuWaits)
      /\ stage' = [stage EXCEPT ![n] = "issued"]
      /\ gpu' = [gpu EXCEPT ![q] = Append(@, n)]
      /\ channel' = Tail(channel)
      /\ UNCHANGED <<next, lastWrite, lastRead, plan, job, running, sem, life>>
  BY DEF WorkerSubmit, ledger, RunsOn
<1>2. /\ stage[n] = "queued"
      /\ \A t \in Tickets : stage[t] = "queued" /\ t # n => n < t
      /\ Lists(Tail(channel), {t \in Tickets : stage[t] = "queued"} \ {n})
  <2> DEFINE T == {t \in Tickets : stage[t] = "queued"}
  <2>1. channel \in Seq(Tickets \cup Contexts) /\ T \in SUBSET Tickets /\ Lists(channel, T)
    BY DEF TypeOK, LedgerOrder, QueuesOK
  <2>2. /\ n \in T /\ \A u \in T : u # n => n < u
        /\ Lists(Tail(channel), T \ {n})
    <3> HIDE DEF T
    <3> QED
      BY <1>1, <2>1, ListsTail
  <2> QED
    BY <2>2
<1>3. /\ stage'[n] = "issued"
      /\ \A t \in Tickets : t # n => stage'[t] = stage[t]
  BY <1>1 DEF TypeOK
<1>4. /\ Len(channel) \in Nat /\ channel[1] = n
      /\ Len(channel') = Len(channel) - 1
      /\ \A i \in 1..Len(channel') : channel'[i] = channel[i + 1]
  BY <1>1, HeadTailElements DEF TypeOK
<1>5. q \in Queues
  BY <1>1, JobTypes
<1> HIDE DEF n, q
<1> USE TicketNumbers
<1>6. \A t \in Tickets : RunsOn(t)' = RunsOn(t)
  BY <1>1 DEF RunsOn
<1>7. PlansOK'
  BY <1>1, <1>2, <1>3 DEF LedgerOrder, PlansOK
<1>8. TicketsOK'
  BY <1>1, <1>2, <1>3 DEF LedgerOrder, TicketsOK
<1>9. QueuesOK'
  <2>1. {t \in Tickets : stage'[t] = "queued"} = {t \in Tickets : stage[t] = "queued"} \ {n}
    BY <1>2, <1>3
  <2>2. \A x \in Queues : {t \in Tickets : stage'[t] = "running" /\ RunsOn(t)' = x}
                        = {t \in Tickets : stage[t] = "running" /\ RunsOn(t) = x}
    BY <1>2, <1>3, <1>6
  <2>3. ASSUME NEW x \in Queues
        PROVE  Lists(gpu'[x], {t \in Tickets : stage'[t] = "issued" /\ RunsOn(t)' = x})
    <3> DEFINE T == {t \in Tickets : stage[t] = "issued" /\ RunsOn(t) = x}
    <3>1. Lists(gpu[x], T) /\ T \in SUBSET Tickets /\ gpu[x] \in Seq(Tickets)
      BY DEF LedgerOrder, QueuesOK, TypeOK
    <3>2. CASE x = q
      <4>1. {t \in Tickets : stage'[t] = "issued" /\ RunsOn(t)' = x} = T \cup {n}
        BY <1>1, <1>2, <1>3, <1>6, <3>2 DEF q
      <4>2. \A u \in T : u < n
        BY <1>1, <1>2 DEF LedgerOrder, NoOvertaking
      <4>3. gpu'[x] = Append(gpu[x], n)
        BY <1>1, <3>2 DEF TypeOK
      <4>4. Lists(Append(gpu[x], n), T \cup {n})
        <5> HIDE DEF T
        <5> QED
          BY <1>1, <3>1, <4>2, ListsAppend
      <4> QED
        BY <4>1, <4>3, <4>4
    <3>3. CASE x # q
      <4>1. {t \in Tickets : stage'[t] = "issued" /\ RunsOn(t)' = x} = T
        BY <1>1, <1>2, <1>3, <1>6, <3>3 DEF q
      <4>2. gpu'[x] = gpu[x]
        BY <1>1, <3>3 DEF TypeOK
      <4> QED
        BY <3>1, <4>1, <4>2
    <3> QED
      BY <3>2, <3>3
  <2> QED
    BY <1>1, <1>2, <2>1, <2>2, <2>3 DEF LedgerOrder, QueuesOK
<1>10. NoOvertaking'
  BY <1>1, <1>2, <1>3, <1>6 DEF LedgerOrder, NoOvertaking
<1>11. SemaphoresOK'
  BY <1>1, <1>2, <1>3, KeepSemaphores DEF LedgerOrder, Ended
<1>12. StampsCover'
  BY <1>1, <1>2, <1>3, KeepStamps DEF LedgerOrder, Submitted, Stamped
<1>13. WaitsCover'
  BY <1>1, <1>2, <1>3, KeepWaits DEF LedgerOrder, Alive
<1>14. WaitsOver'
  <2>1. \A t \in Tickets : Reached(job[t].sync.cpuWaits)' <=> Reached(job[t].sync.cpuWaits)
    BY <1>1 DEF Reached
  <2>2. \A t \in Tickets : stage'[t] \in {"issued", "running", "done"} => Reached(job[t].sync.cpuWaits)
    BY <1>1, <1>3 DEF LedgerOrder, WaitsOver
  <2>3. \A t, u \in Tickets : t < u /\ stage'[u] \in {"running", "done"} /\ Conflict(job'[t], job'[u]) =>
          stage'[t] \in {"done", "refused"}
    BY <1>1, <1>2, <1>3 DEF LedgerOrder, WaitsOver
  <2> QED
    BY <2>1, <2>2, <2>3 DEF WaitsOver
<1>15. DropsFollow'
  <2>1. \A c \in Contexts : life'[c] = "live" => \A i \in 1..Len(channel') : channel'[i] # c
    BY <1>1, <1>4 DEF LedgerOrder, DropsFollow
  <2>2. \A t \in Tickets : Named(job[t].sync)' = Named(job[t].sync)
                           /\ (Resolvable(job[t].sync)' <=> Resolvable(job[t].sync))
    BY <1>1 DEF Resolvable, Named
  <2>3. \A t \in Tickets : stage'[t] = "resolved" => Resolvable(job[t].sync)
    BY <1>3 DEF LedgerOrder, DropsFollow
  <2>4. ASSUME NEW t \in Tickets, stage'[t] = "queued", NEW c \in Named(job[t].sync)
        PROVE  /\ life[c] \in {"live", "detached"}
               /\ \A i \in 1..Len(channel') : channel'[i] = c =>
                    \E k \in 1..Len(channel') : k < i /\ channel'[k] = t
    <3>1. stage[t] = "queued" /\ t # n
      BY <1>3, <2>4
    <3>2. /\ life[c] \in {"live", "detached"}
          /\ \A i \in 1..Len(channel) : channel[i] = c =>
               \E k \in 1..Len(channel) : k < i /\ channel[k] = t
      BY <2>4, <3>1, NamedByQueued DEF LedgerOrder
    <3>3. ASSUME NEW i \in 1..Len(channel'), channel'[i] = c
          PROVE  \E k \in 1..Len(channel') : k < i /\ channel'[k] = t
      <4>1. i + 1 \in 1..Len(channel) /\ channel[i + 1] = c
        BY <1>4, <3>3
      <4>2. PICK k \in 1..Len(channel) : k < i + 1 /\ channel[k] = t
        BY <3>2, <4>1
      <4>3. k # 1
        BY <1>4, <3>1, <4>2
      <4>4. k - 1 \in 1..Len(channel') /\ k - 1 < i /\ channel'[k - 1] = t
        BY <1>4, <4>2, <4>3
      <4> QED
        BY <4>4
    <3> QED
      BY <3>2, <3>3
  <2>5. life' = life
    BY <1>1
  <2>6. \A t \in Tickets : stage'[t] = "resolved" => Resolvable(job[t].sync)'
    BY <2>2, <2>3
  <2>7. ASSUME NEW t \in Tickets, stage'[t] = "queued", NEW c \in Named(job[t].sync)'
        PROVE  /\ life'[c] \in {"live", "detached"}
               /\ \A i \in 1..Len(channel') : channel'[i] = c =>
                    \E k \in 1..Len(channel') : k < i /\ channel'[k] = t
    BY <2>2, <2>4, <2>5, <2>7
  <2> QED
    BY <2>1, <2>6, <2>7 DEF DropsFollow
<1> QED
  BY <1>7, <1>8, <1>9, <1>10, <1>11, <1>12, <1>13, <1>14, <1>15 DEF LedgerOrder

(* A context reaches the head of the channel behind all that wait for it.  *)
LEMMA OrderWorkerFlush ==
  ASSUME OneSubmitter, TypeOK, LedgerOrder, WorkerFlush
  PROVE  LedgerOrder'
<1> DEFINE d == Head(channel)
<1>1. /\ channel # << >> /\ d \in Contexts
      /\ life' = [life EXCEPT ![d] = "flushed"]
      /\ channel' = Tail(channel)
      /\ UNCHANGED <<next, lastWrite, lastRead, plan, job, stage, gpu, running, sem>>
  BY DEF WorkerFlush, ledger
<1>2. /\ Len(channel) \in Nat /\ Len(channel) >= 1 /\ channel[1] = d
      /\ Len(channel') = Len(channel) - 1
      /\ \A i \in 1..Len(channel') : channel'[i] = channel[i + 1]
  BY <1>1, HeadTailElements DEF TypeOK
<1>3. d \notin Tickets
  BY <1>1, LedgerAssumption, TicketNumbers
<1>4. Lists(Tail(channel), {t \in Tickets : stage[t] = "queued"})
  <2>1. Lists(Tail(channel), {t \in Tickets : stage[t] = "queued"} \ {d})
    BY <1>1, ListsTail DEF TypeOK, LedgerOrder, QueuesOK
  <2>2. {t \in Tickets : stage[t] = "queued"} \ {d} = {t \in Tickets : stage[t] = "queued"}
    BY <1>3
  <2> QED
    BY <2>1, <2>2
<1>5. life'[d] = "flushed" /\ \A c \in Contexts : c # d => life'[c] = life[c]
  BY <1>1 DEF TypeOK
<1> HIDE DEF d
<1>6. \A t \in Tickets : RunsOn(t)' = RunsOn(t)
  BY <1>1 DEF RunsOn
<1>7. PlansOK' /\ TicketsOK'
  BY <1>1 DEF LedgerOrder, PlansOK, TicketsOK
<1>8. QueuesOK'
  BY <1>1, <1>4, <1>6 DEF LedgerOrder, QueuesOK
<1>9. NoOvertaking'
  BY <1>1, <1>6 DEF LedgerOrder, NoOvertaking
<1>10. SemaphoresOK' /\ WaitsOver'
  BY <1>1, KeepSemaphores, KeepWaitsOver DEF LedgerOrder, Ended
<1>11. StampsCover'
  BY <1>1, KeepStamps DEF LedgerOrder, Submitted, Stamped
<1>12. WaitsCover'
  BY <1>1, KeepWaits DEF LedgerOrder, Alive
<1>13. DropsFollow'
  <2>1. \A c \in Contexts : life'[c] = "live" => \A i \in 1..Len(channel') : channel'[i] # c
    BY <1>2, <1>5 DEF LedgerOrder, DropsFollow
  <2>2. \A t \in Tickets : Named(job[t].sync)' = Named(job[t].sync)
    BY <1>1 DEF Named
  <2>3. ASSUME NEW t \in Tickets, stage[t] = "queued", NEW c \in Named(job[t].sync)
        PROVE  /\ c # d
               /\ life[c] \in {"live", "detached"}
               /\ \A i \in 1..Len(channel') : channel'[i] = c =>
                    \E k \in 1..Len(channel') : k < i /\ channel'[k] = t
    <3>1. /\ life[c] \in {"live", "detached"}
          /\ \A i \in 1..Len(channel) : channel[i] = c =>
               \E k \in 1..Len(channel) : k < i /\ channel[k] = t
      BY <2>3, NamedByQueued DEF LedgerOrder
    <3>2. c # d
      BY <1>2, <3>1
    <3>3. ASSUME NEW i \in 1..Len(channel'), channel'[i] = c
          PROVE  \E k \in 1..Len(channel') : k < i /\ channel'[k] = t
      <4>1. i + 1 \in 1..Len(channel) /\ channel[i + 1] = c
        BY <1>2, <3>3
      <4>2. PICK k \in 1..Len(channel) : k < i + 1 /\ channel[k] = t
        BY <3>1, <4>1
      <4>3. k # 1
        BY <1>2, <1>3, <4>2
      <4>4. k - 1 \in 1..Len(channel') /\ k - 1 < i /\ channel'[k - 1] = t
        BY <1>2, <4>2, <4>3
      <4> QED
        BY <4>4
    <3> QED
      BY <3>1, <3>2, <3>3
  <2>4. ASSUME NEW t \in Tickets, stage[t] = "resolved" PROVE Resolvable(job[t].sync)'
    <3>1. Resolvable(job[t].sync)
      BY <2>4 DEF LedgerOrder, DropsFollow
    <3>2. life[d] # "live"
      BY <1>1, <1>2 DEF LedgerOrder, DropsFollow
    <3>3. \A c \in Named(job[t].sync) : life'[c] = "live"
      BY <1>5, <3>1, <3>2 DEF Resolvable, Named
    <3> QED
      BY <2>2, <3>3 DEF Resolvable
  <2>5. stage' = stage
    BY <1>1
  <2>6. \A t \in Tickets : stage[t] = "queued" => \A c \in Named(job[t].sync) : life'[c] \in {"live", "detached"}
    BY <1>5, <2>3 DEF Named
  <2> QED
    BY <2>1, <2>2, <2>3, <2>4, <2>5, <2>6 DEF DropsFollow
<1> QED
  BY <1>7, <1>8, <1>9, <1>10, <1>11, <1>12, <1>13 DEF LedgerOrder

(* What t conflicts with and came before it has ended when t starts.       *)
LEMMA StartsLast ==
  ASSUME TypeOK, LedgerOrder, NEW q \in Queues, Start(q),
         NEW t \in Tickets, t < Head(gpu[q]), Conflict(job[t], job[Head(gpu[q])])
  PROVE  Ended(t)
<1> DEFINE n == Head(gpu[q])
           T == {u \in Tickets : stage[u] = "issued" /\ RunsOn(u) = q}
<1>1. /\ gpu[q] # << >>
      /\ Reached(job[n].sync.waits)
      /\ job[n].sync.barrier => running[q] = << >>
  BY DEF Start
<1>2. n \in T /\ \A u \in T : u # n => n < u
  <2>1. gpu[q] \in Seq(Tickets) /\ T \in SUBSET Tickets /\ Lists(gpu[q], T)
    BY DEF TypeOK, LedgerOrder, QueuesOK
  <2>2. n \in Tickets
    BY <1>1, <2>1, HeadTailElements
  <2> HIDE DEF T
  <2> QED
    BY <1>1, <2>1, <2>2, ListsTail
<1>3. n \in Tickets /\ stage[n] = "issued" /\ RunsOn(n) = q /\ t < n
  BY <1>2
<1> HIDE DEF n
<1> USE TicketNumbers
<1>4. t < next /\ n < next
  BY <1>3 DEF LedgerOrder, TicketsOK
<1>5. SUFFICES ASSUME stage[t] # "refused" PROVE stage[t] = "done"
  BY DEF Ended
<1>6. stage[t] \notin {"free", "registered", "resolved"}
  <2>1. stage[t] # "free"
    BY <1>4 DEF LedgerOrder, TicketsOK
  <2>2. stage[t] \in {"registered", "resolved"} => t = next - 1
    BY DEF LedgerOrder, TicketsOK, PlansOK
  <2> QED
    BY <1>3, <1>4, <2>1, <2>2
<1>7. Behind(job[n], t)
  BY <1>3, <1>5, <1>6 DEF LedgerOrder, WaitsCover, Alive, n
<1>8. CASE RunsOn(t) = q /\ job[n].sync.barrier
  <2>1. {u \in Tickets : stage[u] = "running" /\ RunsOn(u) = q} = {}
    BY <1>1, <1>8, ListsEmpty DEF LedgerOrder, QueuesOK, n
  <2>2. stage[t] # "running"
    BY <1>8, <2>1
  <2>3. stage[t] # "issued"
    BY <1>2, <1>3, <1>8
  <2>4. stage[t] # "queued"
    BY <1>3 DEF LedgerOrder, NoOvertaking
  <2> QED
    BY <1>5, <1>6, <2>2, <2>3, <2>4 DEF TypeOK
<1>9. CASE \E e \in job[n].sync.waits \cup job[n].sync.cpuWaits : e[1] = RunsOn(t) /\ e[2] >= t
  <2> PICK e \in job[n].sync.waits \cup job[n].sync.cpuWaits : e[1] = RunsOn(t) /\ e[2] >= t
    BY <1>9
  <2>1. Reached(job[n].sync.cpuWaits)
    BY <1>3 DEF LedgerOrder, WaitsOver
  <2>2. sem[e[1]] >= e[2]
    BY <1>1, <2>1 DEF Reached, n
  <2>3. e \in Epochs
    BY <1>3 DEF TypeOK, Jobs
  <2>4. e[2] \in Nat /\ RunsOn(t) \in Queues /\ sem[RunsOn(t)] >= t
    BY <2>2, <2>3, JobTypes DEF Epochs, Tickets
  <2>5. stage[t] \in {"done", "refused"}
    BY <1>4, <2>4 DEF LedgerOrder, SemaphoresOK
  <2> QED
    BY <1>5, <2>5
<1> QED
  BY <1>3, <1>7, <1>8, <1>9 DEF Behind, RunsOn

(* The oldest partition issued on q starts.                                *)
LEMMA OrderStart ==
  ASSUME OneSubmitter, TypeOK, LedgerOrder, NEW q \in Queues, Start(q)
  PROVE  LedgerOrder'
<1> DEFINE n == Head(gpu[q])
           I == {u \in Tickets : stage[u] = "issued" /\ RunsOn(u) = q}
           R == {u \in Tickets : stage[u] = "running" /\ RunsOn(u) = q}
<1>1. /\ gpu[q] # << >>
      /\ stage' = [stage EXCEPT ![n] = "running"]
      /\ running' = [running EXCEPT ![q] = Append(@, n)]
      /\ gpu' = [gpu EXCEPT ![q] = Tail(@)]
      /\ UNCHANGED <<next, lastWrite, lastRead, plan, job, channel, sem, life>>
  BY DEF Start, ledger
<1>2. n \in I /\ (\A u \in I : u # n => n < u) /\ Lists(Tail(gpu[q]), I \ {n})
  <2>1. gpu[q] \in Seq(Tickets) /\ I \in SUBSET Tickets /\ Lists(gpu[q], I)
    BY DEF TypeOK, LedgerOrder, QueuesOK
  <2>2. n \in Tickets
    BY <1>1, <2>1, HeadTailElements
  <2> HIDE DEF I
  <2> QED
    BY <1>1, <2>1, <2>2, ListsTail
<1>3. n \in Tickets /\ stage[n] = "issued" /\ RunsOn(n) = q
  BY <1>2
<1>4. /\ stage'[n] = "running"
      /\ \A t \in Tickets : t # n => stage'[t] = stage[t]
  BY <1>1, <1>3 DEF TypeOK
<1>5. \A t \in Tickets : t < n /\ Conflict(job[t], job[n]) => Ended(t)
  BY StartsLast
<1>6. Lists(Append(running[q], n), R \cup {n})
  <2>1. running[q] \in Seq(Tickets) /\ R \in SUBSET Tickets /\ Lists(running[q], R)
    BY DEF TypeOK, LedgerOrder, QueuesOK
  <2>2. \A u \in R : u < n
    BY <1>3, TicketNumbers DEF LedgerOrder, NoOvertaking
  <2> HIDE DEF R, n
  <2> QED
    BY <1>3, <2>1, <2>2, ListsAppend
<1> HIDE DEF n
<1> USE TicketNumbers
<1>7. \A t \in Tickets : RunsOn(t)' = RunsOn(t)
  BY <1>1 DEF RunsOn
<1>8. PlansOK'
  BY <1>1, <1>3, <1>4 DEF LedgerOrder, PlansOK
<1>9. TicketsOK'
  BY <1>1, <1>3, <1>4 DEF LedgerOrder, TicketsOK
<1>10. QueuesOK'
  <2>1. {t \in Tickets : stage'[t] = "queued"} = {t \in Tickets : stage[t] = "queued"}
    BY <1>3, <1>4
  <2>2. ASSUME NEW x \in Queues
        PROVE  /\ Lists(gpu'[x], {t \in Tickets : stage'[t] = "issued" /\ RunsOn(t)' = x})
               /\ Lists(running'[x], {t \in Tickets : stage'[t] = "running" /\ RunsOn(t)' = x})
    <3>1. CASE x = q
      <4>1. /\ {t \in Tickets : stage'[t] = "issued" /\ RunsOn(t)' = x} = I \ {n}
            /\ {t \in Tickets : stage'[t] = "running" /\ RunsOn(t)' = x} = R \cup {n}
        BY <1>3, <1>4, <1>7, <3>1
      <4>2. gpu'[x] = Tail(gpu[q]) /\ running'[x] = Append(running[q], n)
        BY <1>1, <3>1 DEF TypeOK
      <4> HIDE DEF I, R
      <4> QED
        BY <1>2, <1>6, <4>1, <4>2
    <3>2. CASE x # q
      <4>1. /\ {t \in Tickets : stage'[t] = "issued" /\ RunsOn(t)' = x}
               = {t \in Tickets : stage[t] = "issued" /\ RunsOn(t) = x}
            /\ {t \in Tickets : stage'[t] = "running" /\ RunsOn(t)' = x}
               = {t \in Tickets : stage[t] = "running" /\ RunsOn(t) = x}
        BY <1>3, <1>4, <1>7, <3>2
      <4>2. gpu'[x] = gpu[x] /\ running'[x] = running[x]
        BY <1>1, <3>2 DEF TypeOK
      <4> QED
        BY <4>1, <4>2 DEF LedgerOrder, QueuesOK
    <3> QED
      BY <3>1, <3>2
  <2> QED
    BY <1>1, <2>1, <2>2 DEF LedgerOrder, QueuesOK
<1>11. NoOvertaking'
  <2> SUFFICES ASSUME NEW t \in Tickets, NEW u \in Tickets, t < u
               PROVE  /\ stage'[t] = "queued" => stage'[u] \notin {"issued", "running", "done"}
                      /\ RunsOn(t) = RunsOn(u) =>
                           /\ stage'[t] = "issued" => stage'[u] \notin {"running", "done"}
                           /\ stage'[t] = "running" => stage'[u] # "done"
    BY <1>7 DEF NoOvertaking
  <2>1. RunsOn(t) = q /\ stage[t] = "issued" /\ t # n => n < t
    BY <1>2
  <2>2. /\ stage[t] = "queued" => stage[u] \notin {"issued", "running", "done"}
        /\ RunsOn(t) = RunsOn(u) =>
             /\ stage[t] = "issued" => stage[u] \notin {"running", "done"}
             /\ stage[t] = "running" => stage[u] # "done"
    BY DEF LedgerOrder, NoOvertaking
  <2> QED
    BY <1>3, <1>4, <2>1, <2>2
<1>12. SemaphoresOK'
  BY <1>1, <1>3, <1>4, KeepSemaphores DEF LedgerOrder, Ended
<1>13. StampsCover'
  BY <1>1, <1>3, <1>4, KeepStamps DEF LedgerOrder, Submitted, Stamped
<1>14. WaitsCover'
  BY <1>1, <1>3, <1>4, KeepWaits DEF LedgerOrder, Alive
<1>15. WaitsOver'
  <2>1. \A t \in Tickets : Reached(job[t].sync.cpuWaits)' <=> Reached(job[t].sync.cpuWaits)
    BY <1>1 DEF Reached
  <2>2. \A t \in Tickets : stage'[t] \in {"issued", "running", "done"} => Reached(job[t].sync.cpuWaits)
    BY <1>3, <1>4 DEF LedgerOrder, WaitsOver
  <2>3. ASSUME NEW t \in Tickets, NEW u \in Tickets, t < u, stage'[u] \in {"running", "done"},
               Conflict(job[t], job[u])
        PROVE  stage'[t] \in {"done", "refused"}
    <3>1. Ended(t)
      <4>1. CASE u = n
        BY <1>5, <2>3, <4>1
      <4>2. CASE u # n
        BY <1>4, <2>3, <4>2 DEF LedgerOrder, WaitsOver, Ended
      <4> QED
        BY <4>1, <4>2
    <3> QED
      BY <1>3, <1>4, <3>1 DEF Ended
  <2>4. job' = job
    BY <1>1
  <2> QED
    BY <2>1, <2>2, <2>3, <2>4 DEF WaitsOver
<1>16. DropsFollow'
  BY <1>1, <1>3, <1>4, KeepDrops DEF LedgerOrder
<1> QED
  BY <1>8, <1>9, <1>10, <1>11, <1>12, <1>13, <1>14, <1>15, <1>16 DEF LedgerOrder

(* Partitions that signal the same semaphore run on the same queue.        *)
LEMMA OneSignaler ==
  ASSUME TypeOK, LedgerOrder, NEW t \in Tickets, NEW u \in Tickets,
         stage[t] # "free", stage[u] # "free", NEW x \in {job[t].by, RunsOn(t)} \cap {job[u].by, RunsOn(u)}
  PROVE  RunsOn(t) = RunsOn(u)
<1>1. job[t].by \in Contexts /\ job[u].by \in Contexts
  BY DEF LedgerOrder, TicketsOK
<1> QED
  BY <1>1, LedgerAssumption DEF RunsOn, QueueOf

(* The oldest partition running on q ends; the semaphores it signals had   *)
(* not reached its ticket.                                                 *)
LEMMA OrderFinish ==
  ASSUME OneSubmitter, TypeOK, LedgerOrder, NEW q \in Queues, Finish(q)
  PROVE  LedgerOrder'
<1> DEFINE n == Head(running[q])
           R == {u \in Tickets : stage[u] = "running" /\ RunsOn(u) = q}
<1>1. /\ running[q] # << >>
      /\ stage' = [stage EXCEPT ![n] = "done"]
      /\ sem' = [x \in Queues |-> IF x \in {job[n].by, q} THEN n ELSE sem[x]]
      /\ running' = [running EXCEPT ![q] = Tail(@)]
      /\ UNCHANGED <<next, lastWrite, lastRead, plan, job, channel, gpu, life>>
  BY DEF Finish, ledger
<1>2. n \in R /\ (\A u \in R : u # n => n < u) /\ Lists(Tail(running[q]), R \ {n})
  <2>1. running[q] \in Seq(Tickets) /\ R \in SUBSET Tickets /\ Lists(running[q], R)
    BY DEF TypeOK, LedgerOrder, QueuesOK
  <2>2. n \in Tickets
    BY <1>1, <2>1, HeadTailElements
  <2> HIDE DEF R
  <2> QED
    BY <1>1, <2>1, <2>2, ListsTail
<1>3. n \in Tickets /\ stage[n] = "running" /\ RunsOn(n) = q
  BY <1>2
<1>4. /\ stage'[n] = "done"
      /\ \A t \in Tickets : t # n => stage'[t] = stage[t]
  BY <1>1, <1>3 DEF TypeOK
<1> HIDE DEF n
<1> USE TicketNumbers
<1>5. \A t \in Tickets : RunsOn(t)' = RunsOn(t)
  BY <1>1 DEF RunsOn
<1>6. n < next
  BY <1>3 DEF LedgerOrder, TicketsOK
<1>7. \A x \in Queues : sem'[x] \in Nat /\ sem'[x] >= sem[x] /\ sem'[x] < next
  <2>1. \A x \in Queues : x \in {job[n].by, q} => sem[x] < n
    BY <1>3, <1>6 DEF LedgerOrder, SemaphoresOK
  <2> QED
    BY <1>1, <1>3, <1>6, <2>1 DEF LedgerOrder, SemaphoresOK
<1>8. PlansOK'
  BY <1>1, <1>3, <1>4 DEF LedgerOrder, PlansOK
<1>9. TicketsOK'
  BY <1>1, <1>3, <1>4 DEF LedgerOrder, TicketsOK
<1>10. QueuesOK'
  <2>1. {t \in Tickets : stage'[t] = "queued"} = {t \in Tickets : stage[t] = "queued"}
    BY <1>3, <1>4
  <2>2. \A x \in Queues : {t \in Tickets : stage'[t] = "issued" /\ RunsOn(t)' = x}
                        = {t \in Tickets : stage[t] = "issued" /\ RunsOn(t) = x}
    BY <1>3, <1>4, <1>5
  <2>3. ASSUME NEW x \in Queues
        PROVE  Lists(running'[x], {t \in Tickets : stage'[t] = "running" /\ RunsOn(t)' = x})
    <3>1. CASE x = q
      <4>1. {t \in Tickets : stage'[t] = "running" /\ RunsOn(t)' = x} = R \ {n}
        BY <1>3, <1>4, <1>5, <3>1
      <4>2. running'[x] = Tail(running[q])
        BY <1>1, <3>1 DEF TypeOK
      <4> HIDE DEF R
      <4> QED
        BY <1>2, <4>1, <4>2
    <3>2. CASE x # q
      <4>1. {t \in Tickets : stage'[t] = "running" /\ RunsOn(t)' = x}
             = {t \in Tickets : stage[t] = "running" /\ RunsOn(t) = x}
        BY <1>3, <1>4, <1>5, <3>2
      <4>2. running'[x] = running[x]
        BY <1>1, <3>2 DEF TypeOK
      <4> QED
        BY <4>1, <4>2 DEF LedgerOrder, QueuesOK
    <3> QED
      BY <3>1, <3>2
  <2> QED
    BY <1>1, <2>1, <2>2, <2>3 DEF LedgerOrder, QueuesOK
<1>11. \A t \in Tickets : t < n /\ RunsOn(t) = q => Ended(t)
  <2> SUFFICES ASSUME NEW t \in Tickets, t < n, RunsOn(t) = q PROVE Ended(t)
    OBVIOUS
  <2>1. stage[t] \notin {"queued", "issued"}
    BY <1>3 DEF LedgerOrder, NoOvertaking
  <2>2. stage[t] # "running"
    BY <1>2
  <2>3. stage[t] # "free"
    BY <1>3, <1>6 DEF LedgerOrder, TicketsOK
  <2>4. stage[t] \in {"registered", "resolved"} => t = next - 1
    BY DEF LedgerOrder, TicketsOK, PlansOK
  <2> QED
    BY <1>3, <1>6, <2>1, <2>2, <2>3, <2>4 DEF Ended, TypeOK
<1>12. NoOvertaking'
  <2> SUFFICES ASSUME NEW t \in Tickets, NEW u \in Tickets, t < u
               PROVE  /\ stage'[t] = "queued" => stage'[u] \notin {"issued", "running", "done"}
                      /\ RunsOn(t) = RunsOn(u) =>
                           /\ stage'[t] = "issued" => stage'[u] \notin {"running", "done"}
                           /\ stage'[t] = "running" => stage'[u] # "done"
    BY <1>5 DEF NoOvertaking
  <2>1. /\ stage[t] = "queued" => stage[u] \notin {"issued", "running", "done"}
        /\ RunsOn(t) = RunsOn(u) =>
             /\ stage[t] = "issued" => stage[u] \notin {"running", "done"}
             /\ stage[t] = "running" => stage[u] # "done"
    BY DEF LedgerOrder, NoOvertaking
  <2> QED
    BY <1>3, <1>4, <1>11, <2>1 DEF Ended
<1>13. SemaphoresOK'
  <2>1. ASSUME NEW t \in Tickets, t < next, NEW x \in {job[t].by, RunsOn(t)}, sem'[x] >= t
        PROVE  stage'[t] \in {"done", "refused"}
    <3>1. x \in Queues
      BY JobTypes
    <3>2. CASE t = n
      BY <1>4, <3>2
    <3>3. CASE t # n /\ x \in {job[n].by, q}
      <4>1. stage[t] # "free"
        BY <2>1 DEF LedgerOrder, TicketsOK
      <4>2. RunsOn(t) = q
        BY <1>3, <2>1, <3>3, <4>1, OneSignaler
      <4>3. t < n
        BY <1>1, <1>3, <2>1, <3>1, <3>3
      <4> QED
        BY <1>4, <1>11, <3>3, <4>2, <4>3 DEF Ended
    <3>4. CASE x \notin {job[n].by, q}
      <4>1. sem[x] >= t
        BY <1>1, <2>1, <3>1, <3>4
      <4>2. Ended(t)
        BY <2>1, <4>1 DEF LedgerOrder, SemaphoresOK, Ended
      <4> QED
        BY <1>3, <1>4, <4>2 DEF Ended
    <3> QED
      BY <3>2, <3>3, <3>4
  <2>2. job' = job /\ next' = next
    BY <1>1
  <2> QED
    BY <1>5, <1>7, <2>1, <2>2 DEF SemaphoresOK
<1>14. StampsCover'
  BY <1>1, <1>3, <1>4, KeepStamps DEF LedgerOrder, Submitted, Stamped
<1>15. WaitsCover'
  BY <1>1, <1>3, <1>4, KeepWaits DEF LedgerOrder, Alive
<1>16. WaitsOver'
  <2>1. ASSUME NEW t \in Tickets, stage'[t] \in {"issued", "running", "done"}, NEW e \in job[t].sync.cpuWaits
        PROVE  sem'[e[1]] >= e[2]
    <3>1. sem[e[1]] >= e[2]
      BY <1>3, <1>4, <2>1 DEF LedgerOrder, WaitsOver, Reached
    <3>2. e \in Epochs
      BY DEF TypeOK, Jobs
    <3>3. e[1] \in Queues /\ e[2] \in Nat
      BY <3>2 DEF Epochs, Tickets
    <3> QED
      BY <1>7, <3>1, <3>3
  <2>2. \A t, u \in Tickets : t < u /\ stage'[u] \in {"running", "done"} /\ Conflict(job[t], job[u]) =>
          stage'[t] \in {"done", "refused"}
    BY <1>3, <1>4 DEF LedgerOrder, WaitsOver
  <2>3. job' = job
    BY <1>1
  <2> QED
    BY <2>1, <2>2, <2>3 DEF WaitsOver, Reached
<1>17. DropsFollow'
  BY <1>1, <1>3, <1>4, KeepDrops DEF LedgerOrder
<1> QED
  BY <1>8, <1>9, <1>10, <1>12, <1>13, <1>14, <1>15, <1>16, <1>17 DEF LedgerOrder

(* The context takes its place in the channel behind all that is queued.   *)
LEMMA OrderDrop ==
  ASSUME OneSubmitter, TypeOK, LedgerOrder, NEW d \in Contexts, Drop(d)
  PROVE  LedgerOrder'
<1>1. /\ life[d] = "live"
      /\ \A th \in Threads : plan[th] = NoPlan
      /\ life' = [life EXCEPT ![d] = "detached"]
      /\ channel' = Append(channel, d)
      /\ UNCHANGED <<next, lastWrite, lastRead, plan, job, stage, gpu, running, sem>>
  BY LedgerAssumption DEF Drop, OneSubmitter, ledger
<1>2. /\ channel \in Seq(Tickets \cup Contexts)
      /\ Len(channel) \in Nat
      /\ Len(channel') = Len(channel) + 1
      /\ \A i \in 1..Len(channel) : channel'[i] = channel[i]
      /\ channel'[Len(channel) + 1] = d
  BY <1>1, AppendElements DEF TypeOK
<1>3. d \notin Tickets
  BY LedgerAssumption, TicketNumbers
<1>4. Lists(channel', {t \in Tickets : stage[t] = "queued"})
  <2> DEFINE T == {t \in Tickets : stage[t] = "queued"}
  <2>1. T \in SUBSET Tickets /\ Lists(channel, T)
    BY DEF LedgerOrder, QueuesOK
  <2> HIDE DEF T
  <2>2. Lists(Append(channel, d), T)
    BY <1>2, <1>3, <2>1, ListsAppendOther
  <2> QED
    BY <1>1, <2>2 DEF T
<1>5. life'[d] = "detached" /\ \A c \in Contexts : c # d => life'[c] = life[c]
  BY <1>1 DEF TypeOK
<1>6. \A t \in Tickets : RunsOn(t)' = RunsOn(t)
  BY <1>1 DEF RunsOn
<1>7. PlansOK' /\ TicketsOK'
  BY <1>1 DEF LedgerOrder, PlansOK, TicketsOK
<1>8. QueuesOK'
  BY <1>1, <1>4, <1>6 DEF LedgerOrder, QueuesOK
<1>9. NoOvertaking'
  BY <1>1, <1>6 DEF LedgerOrder, NoOvertaking
<1>10. SemaphoresOK' /\ WaitsOver'
  BY <1>1, KeepSemaphores, KeepWaitsOver DEF LedgerOrder, Ended
<1>11. StampsCover'
  BY <1>1, KeepStamps DEF LedgerOrder, Submitted, Stamped
<1>12. WaitsCover'
  BY <1>1, KeepWaits DEF LedgerOrder, Alive
<1>13. DropsFollow'
  <2>1. \A c \in Contexts : life'[c] = "live" => \A i \in 1..Len(channel') : channel'[i] # c
    BY <1>2, <1>5 DEF LedgerOrder, DropsFollow
  <2>2. \A t \in Tickets : stage'[t] # "resolved"
    BY <1>1 DEF LedgerOrder, TicketsOK
  <2>3. ASSUME NEW t \in Tickets, stage[t] = "queued", NEW c \in Named(job[t].sync)
        PROVE  /\ life'[c] \in {"live", "detached"}
               /\ \A i \in 1..Len(channel') : channel'[i] = c =>
                    \E k \in 1..Len(channel') : k < i /\ channel'[k] = t
    <3>1. /\ life[c] \in {"live", "detached"}
          /\ \A i \in 1..Len(channel) : channel[i] = c =>
               \E k \in 1..Len(channel) : k < i /\ channel[k] = t
      BY <2>3, NamedByQueued DEF LedgerOrder
    <3>2. c \in Contexts
      BY DEF Named
    <3>3. ASSUME NEW i \in 1..Len(channel'), channel'[i] = c
          PROVE  \E k \in 1..Len(channel') : k < i /\ channel'[k] = t
      <4>1. PICK j \in 1..Len(channel) : channel[j] = t
        BY <2>3 DEF LedgerOrder, QueuesOK, Lists
      <4>2. CASE i = Len(channel) + 1
        BY <1>2, <4>1, <4>2
      <4>3. CASE i \in 1..Len(channel)
        <5>1. PICK k \in 1..Len(channel) : k < i /\ channel[k] = t
          BY <1>2, <3>1, <3>3, <4>3
        <5> QED
          BY <1>2, <5>1
      <4> QED
        BY <1>2, <4>2, <4>3
    <3> QED
      BY <1>5, <3>1, <3>2, <3>3
  <2>4. \A t \in Tickets : Named(job[t].sync)' = Named(job[t].sync)
    BY <1>1 DEF Named
  <2>5. ASSUME NEW t \in Tickets, stage'[t] = "queued", NEW c \in Named(job[t].sync)'
        PROVE  /\ life'[c] \in {"live", "detached"}
               /\ \A i \in 1..Len(channel') : channel'[i] = c =>
                    \E k \in 1..Len(channel') : k < i /\ channel'[k] = t
    BY <1>1, <2>3, <2>4, <2>5
  <2> QED
    BY <2>1, <2>2, <2>5 DEF DropsFollow
<1> QED
  BY <1>7, <1>8, <1>9, <1>10, <1>11, <1>12, <1>13 DEF LedgerOrder

(* Nothing queued waits for a context whose flush has come.                *)
LEMMA OrderTeardown ==
  ASSUME OneSubmitter, TypeOK, LedgerOrder, NEW d \in Contexts, Teardown(d)
  PROVE  LedgerOrder'
<1>1. /\ life[d] = "flushed"
      /\ life' = [life EXCEPT ![d] = "gone"]
      /\ UNCHANGED <<next, lastWrite, lastRead, plan, job, stage, channel, gpu, running, sem>>
  BY DEF Teardown, ledger
<1>2. life'[d] = "gone" /\ \A c \in Contexts : c # d => life'[c] = life[c]
  BY <1>1 DEF TypeOK
<1>3. PlansOK' /\ TicketsOK'
  BY <1>1 DEF LedgerOrder, PlansOK, TicketsOK
<1>4. QueuesOK'
  BY <1>1, KeepQueues DEF LedgerOrder
<1>5. NoOvertaking'
  BY <1>1 DEF LedgerOrder, NoOvertaking, RunsOn
<1>6. SemaphoresOK' /\ WaitsOver'
  BY <1>1, KeepSemaphores, KeepWaitsOver DEF LedgerOrder, Ended
<1>7. StampsCover'
  BY <1>1, KeepStamps DEF LedgerOrder, Submitted, Stamped
<1>8. WaitsCover'
  BY <1>1, KeepWaits DEF LedgerOrder, Alive
<1>9. DropsFollow'
  <2>1. \A c \in Contexts : life'[c] = "live" => \A i \in 1..Len(channel') : channel'[i] # c
    BY <1>1, <1>2 DEF LedgerOrder, DropsFollow
  <2>2. \A t \in Tickets : Named(job[t].sync)' = Named(job[t].sync)
    BY <1>1 DEF Named
  <2>3. ASSUME NEW t \in Tickets, stage[t] = "resolved" PROVE Resolvable(job[t].sync)'
    <3>1. \A c \in Named(job[t].sync) : life[c] = "live"
      BY <2>3 DEF LedgerOrder, DropsFollow, Resolvable
    <3>2. \A c \in Named(job[t].sync) : life'[c] = "live"
      BY <1>1, <1>2, <3>1 DEF Named
    <3> QED
      BY <2>2, <3>2 DEF Resolvable
  <2>4. ASSUME NEW t \in Tickets, stage'[t] = "queued", NEW c \in Named(job[t].sync)'
        PROVE  /\ life'[c] \in {"live", "detached"}
               /\ \A i \in 1..Len(channel') : channel'[i] = c =>
                    \E k \in 1..Len(channel') : k < i /\ channel'[k] = t
    <3>1. stage[t] = "queued" /\ c \in Named(job[t].sync) /\ c \in Contexts
      BY <1>1, <2>2, <2>4 DEF Named
    <3>2. /\ life[c] \in {"live", "detached"}
          /\ \A i \in 1..Len(channel) : channel[i] = c =>
               \E k \in 1..Len(channel) : k < i /\ channel[k] = t
      BY <3>1, NamedByQueued DEF LedgerOrder
    <3> QED
      BY <1>1, <1>2, <3>1, <3>2
  <2>5. stage' = stage
    BY <1>1
  <2> QED
    BY <2>1, <2>3, <2>4, <2>5 DEF DropsFollow
<1> QED
  BY <1>3, <1>4, <1>5, <1>6, <1>7, <1>8, <1>9 DEF LedgerOrder

LEMMA OrderIdle ==
  ASSUME LedgerOrder, UNCHANGED ledgerVars
  PROVE  LedgerOrder'
<1>1. UNCHANGED <<next, lastWrite, lastRead, plan, job, stage, channel, gpu, running, sem, life>>
  BY DEF ledgerVars
<1>2. PlansOK' /\ TicketsOK'
  BY <1>1 DEF LedgerOrder, PlansOK, TicketsOK
<1>3. QueuesOK'
  BY <1>1, KeepQueues DEF LedgerOrder
<1>4. NoOvertaking'
  BY <1>1 DEF LedgerOrder, NoOvertaking, RunsOn
<1>5. SemaphoresOK' /\ WaitsOver'
  BY <1>1, KeepSemaphores, KeepWaitsOver DEF LedgerOrder, Ended
<1>6. StampsCover'
  BY <1>1, KeepStamps DEF LedgerOrder, Submitted, Stamped
<1>7. WaitsCover'
  BY <1>1, KeepWaits DEF LedgerOrder, Alive
<1>8. DropsFollow'
  BY <1>1, KeepDrops DEF LedgerOrder
<1> QED
  BY <1>2, <1>3, <1>4, <1>5, <1>6, <1>7, <1>8 DEF LedgerOrder

LEMMA OrderStep ==
  OneSubmitter /\ TypeOK /\ LedgerOrder /\ [Next]_ledgerVars => LedgerOrder'
<1> SUFFICES ASSUME OneSubmitter, TypeOK, LedgerOrder, [Next]_ledgerVars
             PROVE  LedgerOrder'
  OBVIOUS
<1>1. ASSUME NEW c \in Contexts, NEW a \in Accesses, Snapshot(c, a) PROVE LedgerOrder'
  BY <1>1, OrderSnapshot
<1>2. ASSUME NEW th \in Threads, Submit(th) PROVE LedgerOrder'
  BY <1>2, OrderSubmit
<1>3. ASSUME NEW th \in Threads, Resolve(th) PROVE LedgerOrder'
  BY <1>3, OrderResolve
<1>4. ASSUME NEW th \in Threads, Refuse(th) PROVE LedgerOrder'
  BY <1>4, OrderRefuse
<1>5. ASSUME NEW th \in Threads, Enqueue(th) PROVE LedgerOrder'
  BY <1>5, OrderEnqueue
<1>6. ASSUME NEW th \in Threads, Stamp(th) PROVE LedgerOrder'
  BY <1>6, OrderStamp
<1>7. CASE WorkerSubmit
  BY <1>7, OrderWorkerSubmit
<1>8. CASE WorkerFlush
  BY <1>8, OrderWorkerFlush
<1>9. ASSUME NEW q \in Queues, Start(q) PROVE LedgerOrder'
  BY <1>9, OrderStart
<1>10. ASSUME NEW q \in Queues, Finish(q) PROVE LedgerOrder'
  BY <1>10, OrderFinish
<1>11. ASSUME NEW c \in Contexts, Drop(c) PROVE LedgerOrder'
  BY <1>11, OrderDrop
<1>12. ASSUME NEW c \in Contexts, Teardown(c) PROVE LedgerOrder'
  BY <1>12, OrderTeardown
<1>13. CASE UNCHANGED ledgerVars
  BY <1>13, OrderIdle
<1> QED
  BY <1>1, <1>2, <1>3, <1>4, <1>5, <1>6, <1>7, <1>8, <1>9, <1>10, <1>11, <1>12, <1>13 DEF Next

-----------------------------------------------------------------------------
(***************************************************************************)
(* What follows for one submitting thread.                                 *)
(***************************************************************************)
LEMMA OrderAlways == OneSubmitter => (Spec => [](TypeOK /\ LedgerOrder))
<1> SUFFICES ASSUME OneSubmitter PROVE Spec => [](TypeOK /\ LedgerOrder)
  OBVIOUS
<1>1. Init => TypeOK /\ LedgerOrder
  BY TypesInit, OrderInit
<1>2. TypeOK /\ LedgerOrder /\ [Next]_ledgerVars => (TypeOK /\ LedgerOrder)'
  BY TypesStep, OrderStep
<1> QED
  BY <1>1, <1>2, PTL DEF Spec

(* OneSubmitter => (Spec => []LedgerOrder): the waits derived from the     *)
(* stamps put every partition behind all those it conflicts with.          *)
THEOREM WaitsCoverConflicts == OneSubmitter => (Spec => []LedgerOrder)
<1> SUFFICES ASSUME OneSubmitter PROVE Spec => []LedgerOrder
  OBVIOUS
<1>1. Spec => [](TypeOK /\ LedgerOrder)
  BY OrderAlways
<1> QED
  BY <1>1, PTL

(* OneSubmitter => (Spec => []ClaimsExclusive): partitions with conflicting*)
(* accesses never execute together, whatever queues they run on.           *)
THEOREM ClaimsAreExclusive == OneSubmitter => (Spec => []ClaimsExclusive)
<1> SUFFICES ASSUME OneSubmitter PROVE Spec => []ClaimsExclusive
  OBVIOUS
<1>1. TypeOK /\ LedgerOrder => ClaimsExclusive
  <2> SUFFICES ASSUME TypeOK, LedgerOrder, NEW t \in Tickets, NEW u \in Tickets,
                      t # u, stage[t] = "running", stage[u] = "running"
               PROVE  job[t].access.writes \cap (job[u].access.reads \cup job[u].access.writes) = {}
    BY DEF ClaimsExclusive
  <2>1. t < u \/ u < t
    BY TicketNumbers
  <2>2. ~Conflict(job[t], job[u]) \/ ~Conflict(job[u], job[t])
    BY <2>1 DEF LedgerOrder, WaitsOver
  <2> QED
    BY <2>2 DEF Conflict
<1>2. Spec => [](TypeOK /\ LedgerOrder)
  BY OrderAlways
<1> QED
  BY <1>1, <1>2, PTL

(* OneSubmitter => (Spec => []SettledMeansIdle): the reuse gate of the     *)
(* pools never passes a parcel that a submitted partition still uses.      *)
THEOREM SettledParcelsAreIdle == OneSubmitter => (Spec => []SettledMeansIdle)
<1> SUFFICES ASSUME OneSubmitter PROVE Spec => []SettledMeansIdle
  OBVIOUS
<1>1. TypeOK /\ LedgerOrder => SettledMeansIdle
  <2> SUFFICES ASSUME TypeOK, LedgerOrder,
                      NEW p \in Parcels, \A q \in Queues : sem[q] >= Merged(p)[q],
                      NEW t \in Tickets, stage[t] \in {"queued", "issued", "running"}, Stamped(t),
                      p \in job[t].access.reads \cup job[t].access.writes
               PROVE  FALSE
    BY DEF SettledMeansIdle
  <2> DEFINE q == RunsOn(t)
  <2>1. q \in Queues
    BY JobTypes
  <2>2. lastRead[p][q] \in 0..MaxTicket /\ lastWrite[p][q] \in 0..MaxTicket
    BY <2>1, TicketNumbers
  <2>3. lastRead[p][q] >= t \/ lastWrite[p][q] >= t
    BY DEF LedgerOrder, StampsCover
  <2>4. Merged(p)[q] = Later(lastWrite[p][q], lastRead[p][q])
    BY <2>1 DEF Merged, MergeMax
  <2>5. sem[q] >= Merged(p)[q] /\ sem[q] \in Nat
    BY <2>1, TicketNumbers
  <2>6. sem[q] >= t
    <3> HIDE DEF q
    <3> QED
      BY <2>2, <2>3, <2>4, <2>5, LedgerAssumption, TicketNumbers DEF Later
  <2>7. t < next
    BY TicketNumbers DEF LedgerOrder, TicketsOK
  <2> QED
    BY <2>6, <2>7 DEF LedgerOrder, SemaphoresOK
<1>2. Spec => [](TypeOK /\ LedgerOrder)
  BY OrderAlways
<1> QED
  BY <1>1, <1>2, PTL

(* OneSubmitter => (Spec => []QueuedWaitsAreLive): the drop of a context   *)
(* destroys its semaphore only behind the queued partitions that wait on it*)
THEOREM QueuedWaitsStayLive == OneSubmitter => (Spec => []QueuedWaitsAreLive)
<1> SUFFICES ASSUME OneSubmitter PROVE Spec => []QueuedWaitsAreLive
  OBVIOUS
<1>1. TypeOK /\ LedgerOrder => QueuedWaitsAreLive
  BY NamedByQueued DEF LedgerOrder, QueuedWaitsAreLive
<1>2. Spec => [](TypeOK /\ LedgerOrder)
  BY OrderAlways
<1> QED
  BY <1>1, <1>2, PTL

(***************************************************************************)
(* Refinement: the claims of the abstract machine.                         *)
(***************************************************************************)
LEMMA MachineInit == Init => Machine!ClaimsInit
BY DEF Init, NoJob, Machine!ClaimsInit, Public, Private, State, Phase

(* The claims and the phase of all tickets but one are left alone.         *)
LEMMA MachineKeeps ==
  ASSUME job' = job, \A t \in Tickets : Phase(stage'[t]) = Phase(stage[t])
  PROVE  UNCHANGED Machine!claimsVars
<1>1. State' = State /\ Public' = Public /\ Private' = Private
  BY DEF State, Public, Private
<1> QED
  BY <1>1 DEF Machine!claimsVars

LEMMA MachineMoves ==
  ASSUME TypeOK, NEW n \in Tickets, NEW s, stage' = [stage EXCEPT ![n] = s], job' = job
  PROVE  /\ State' = [State EXCEPT ![n] = Phase(s)]
         /\ Public' = Public /\ Private' = Private
BY DEF TypeOK, State, Public, Private

LEMMA MachineAdmits ==
  ASSUME TypeOK, LedgerOrder, NEW th \in Threads, Submit(th)
  PROVE  Machine!ClaimsNext
<1>0. next \in Tickets /\ plan[th].job \in Jobs
  BY LedgerAssumption DEF Submit, TypeOK, Plans
<1> PICK n \in Tickets, j \in Jobs : n = next /\ j = plan[th].job
  BY <1>0
<1>1. /\ stage' = [stage EXCEPT ![n] = "registered"]
      /\ job' = [job EXCEPT ![n] = j]
  BY DEF Submit
<1>2. j.access.reads \in SUBSET Parcels /\ j.access.writes \in SUBSET Parcels
  BY DEF Jobs
<1>3. \A f \in Tickets : State[f] = "idle" <=> f >= n
  <2>1. \A f \in Tickets : stage[f] = "free" <=> f >= n
    BY DEF LedgerOrder, TicketsOK
  <2>2. \A f \in Tickets : Phase(stage[f]) = "idle" <=> stage[f] = "free"
    BY DEF TypeOK, Phase
  <2> QED
    BY <2>1, <2>2 DEF State
<1>4. State' = [State EXCEPT ![n] = "admitted"]
  BY <1>1 DEF TypeOK, State, Phase
<1>5. Public' = [Public EXCEPT ![n] = j.access.reads]
  BY <1>1 DEF TypeOK, Public
<1>6. Private' = [Private EXCEPT ![n] = j.access.writes]
  BY <1>1 DEF TypeOK, Private
<1>7. Machine!Admit(n, j.access.reads, j.access.writes)
  BY <1>3, <1>4, <1>5, <1>6 DEF Machine!Admit
<1> QED
  BY <1>2, <1>7 DEF Machine!ClaimsNext

LEMMA MachineRefuses ==
  ASSUME TypeOK, NEW th \in Threads, Refuse(th)
  PROVE  Machine!ClaimsNext
<1>0. plan[th].ticket \in Tickets
  BY DEF Refuse, InSubmit, TypeOK, Plans, Tickets
<1> PICK n \in Tickets : n = plan[th].ticket
  BY <1>0
<1>1. stage[n] = "registered" /\ stage' = [stage EXCEPT ![n] = "refused"] /\ job' = job
  BY DEF Refuse, InSubmit
<1>2. State[n] = "admitted" /\ State' = [State EXCEPT ![n] = "refused"] /\ Public' = Public /\ Private' = Private
  <2>1. Phase("registered") = "admitted" /\ Phase("refused") = "refused"
    BY DEF Phase
  <2>2. State[n] = "admitted"
    BY <1>1, <2>1 DEF State
  <2>3. State' = [State EXCEPT ![n] = Phase("refused")] /\ Public' = Public /\ Private' = Private
    BY <1>1, MachineMoves, Zenon
  <2> QED
    BY <2>1, <2>2, <2>3
<1>3. Machine!Refuse(n)
  BY <1>2 DEF Machine!Refuse
<1> QED
  BY <1>1, <1>3 DEF Machine!ClaimsNext

LEMMA MachineReleases ==
  ASSUME TypeOK, LedgerOrder, NEW q \in Queues, Finish(q)
  PROVE  Machine!ClaimsNext
<1>0. Head(running[q]) \in Tickets
  BY HeadTailElements DEF Finish, TypeOK
<1> PICK n \in Tickets : n = Head(running[q])
  BY <1>0
<1>1. stage' = [stage EXCEPT ![n] = "done"] /\ job' = job
  BY DEF Finish
<1>2. stage[n] = "running"
  BY <1>1, ListsTail, HeadTailElements DEF Finish, TypeOK, LedgerOrder, QueuesOK, Lists
<1>3. State[n] = "holding" /\ State' = [State EXCEPT ![n] = "done"] /\ Public' = Public /\ Private' = Private
  <2>1. Phase("running") = "holding" /\ Phase("done") = "done"
    BY DEF Phase
  <2>2. State[n] = "holding"
    BY <1>1, <1>2, <2>1 DEF State
  <2>3. State' = [State EXCEPT ![n] = Phase("done")] /\ Public' = Public /\ Private' = Private
    BY <1>1, MachineMoves, Zenon
  <2> QED
    BY <2>1, <2>2, <2>3
<1>4. Machine!Release(n)
  BY <1>3 DEF Machine!Release
<1> QED
  BY <1>1, <1>4 DEF Machine!ClaimsNext

LEMMA MachineAcquires ==
  ASSUME TypeOK, LedgerOrder, NEW q \in Queues, Start(q)
  PROVE  Machine!ClaimsNext
<1>0. Head(gpu[q]) \in Tickets
  BY HeadTailElements DEF Start, TypeOK
<1> PICK n \in Tickets : n = Head(gpu[q])
  BY <1>0
<1>1. stage' = [stage EXCEPT ![n] = "running"] /\ job' = job
  BY DEF Start
<1>2. stage[n] = "issued"
  BY <1>1, ListsTail, HeadTailElements DEF Start, TypeOK, LedgerOrder, QueuesOK, Lists
<1>3. \A t \in Tickets : t < n /\ Conflict(job[t], job[n]) => Ended(t)
  BY StartsLast
<1>4. State[n] = "admitted" /\ State' = [State EXCEPT ![n] = "holding"] /\ Public' = Public /\ Private' = Private
  <2>1. Phase("issued") = "admitted" /\ Phase("running") = "holding"
    BY DEF Phase
  <2>2. State[n] = "admitted"
    BY <1>1, <1>2, <2>1 DEF State
  <2>3. State' = [State EXCEPT ![n] = Phase("running")] /\ Public' = Public /\ Private' = Private
    BY <1>1, MachineMoves, Zenon
  <2> QED
    BY <2>1, <2>2, <2>3
<1>5. \A t \in Tickets : t < n /\ Conflict(job[t], job[n]) => State[t] \in {"done", "refused"}
  BY <1>3 DEF State, Phase, Ended
<1>6. Machine!Acquire(n)
  <2>1. \A t \in Tickets : Machine!Disagree(n, t) => Conflict(job[t], job[n])
    BY <1>1 DEF Machine!Disagree, Conflict, Public, Private
  <2>2. \A t \in Tickets : t < n /\ Machine!Disagree(n, t) => Machine!Ended(t)
    BY <1>5, <2>1 DEF Machine!Ended
  <2> QED
    BY <1>4, <2>2 DEF Machine!Acquire
<1> QED
  BY <1>1, <1>6 DEF Machine!ClaimsNext

LEMMA MachineStep ==
  TypeOK /\ LedgerOrder /\ [Next]_ledgerVars => [Machine!ClaimsNext]_(Machine!claimsVars)
<1> SUFFICES ASSUME TypeOK, LedgerOrder, [Next]_ledgerVars
             PROVE  Machine!ClaimsNext \/ UNCHANGED Machine!claimsVars
  OBVIOUS
<1>1. ASSUME NEW c \in Contexts, NEW a \in Accesses, Snapshot(c, a) PROVE UNCHANGED Machine!claimsVars
  BY <1>1, MachineKeeps DEF Snapshot
<1>2. ASSUME NEW th \in Threads, Submit(th) PROVE Machine!ClaimsNext
  BY <1>2, MachineAdmits
<1>3. ASSUME NEW th \in Threads, Resolve(th) PROVE UNCHANGED Machine!claimsVars
  <2>1. plan[th].ticket \in Tickets /\ stage[plan[th].ticket] = "registered"
        /\ stage' = [stage EXCEPT ![plan[th].ticket] = "resolved"] /\ job' = job
    BY <1>3 DEF Resolve, InSubmit, TypeOK, Plans, Tickets
  <2>2. Phase("resolved") = Phase("registered")
    BY DEF Phase
  <2> QED
    BY <2>1, <2>2, MachineKeeps DEF TypeOK
<1>4. ASSUME NEW th \in Threads, Refuse(th) PROVE Machine!ClaimsNext
  BY <1>4, MachineRefuses
<1>5. ASSUME NEW th \in Threads, Enqueue(th) PROVE UNCHANGED Machine!claimsVars
  <2>1. plan[th].ticket \in Tickets /\ stage[plan[th].ticket] = "resolved"
        /\ stage' = [stage EXCEPT ![plan[th].ticket] = "queued"] /\ job' = job
    BY <1>5 DEF Enqueue, InSubmit, TypeOK, Plans, Tickets
  <2>2. Phase("resolved") = Phase("queued")
    BY DEF Phase
  <2> QED
    BY <2>1, <2>2, MachineKeeps DEF TypeOK
<1>6. ASSUME NEW th \in Threads, Stamp(th) PROVE UNCHANGED Machine!claimsVars
  BY <1>6, MachineKeeps DEF Stamp
<1>7. ASSUME WorkerSubmit PROVE UNCHANGED Machine!claimsVars
  <2> DEFINE n == Head(channel)
  <2>1. n \in Tickets /\ stage' = [stage EXCEPT ![n] = "issued"] /\ job' = job
    BY <1>7 DEF WorkerSubmit
  <2>2. stage[n] = "queued"
    <3>1. channel # << >> /\ channel \in Seq(Tickets \cup Contexts)
      BY <1>7 DEF WorkerSubmit, TypeOK
    <3>2. n = channel[1] /\ 1 \in 1..Len(channel)
      BY <3>1, HeadTailElements
    <3> QED
      BY <2>1, <3>2 DEF LedgerOrder, QueuesOK, Lists
  <2>3. Phase("queued") = Phase("issued")
    BY DEF Phase
  <2> HIDE DEF n
  <2> QED
    BY <2>1, <2>2, <2>3, MachineKeeps DEF TypeOK
<1>8. ASSUME WorkerFlush PROVE UNCHANGED Machine!claimsVars
  BY <1>8, MachineKeeps DEF WorkerFlush
<1>9. ASSUME NEW q \in Queues, Start(q) PROVE Machine!ClaimsNext
  BY <1>9, MachineAcquires
<1>10. ASSUME NEW q \in Queues, Finish(q) PROVE Machine!ClaimsNext
  BY <1>10, MachineReleases
<1>11. ASSUME NEW c \in Contexts, Drop(c) PROVE UNCHANGED Machine!claimsVars
  BY <1>11, MachineKeeps DEF Drop
<1>12. ASSUME NEW c \in Contexts, Teardown(c) PROVE UNCHANGED Machine!claimsVars
  BY <1>12, MachineKeeps DEF Teardown
<1>13. ASSUME UNCHANGED ledgerVars PROVE UNCHANGED Machine!claimsVars
  BY <1>13, MachineKeeps DEF ledgerVars
<1> QED
  BY <1>1, <1>2, <1>3, <1>4, <1>5, <1>6, <1>7, <1>8, <1>9, <1>10, <1>11, <1>12, <1>13 DEF Next

(* OneSubmitter => (Spec => ImplementsClaims): partitions execute with the *)
(* claims the abstract machine gives its executions, conflicting ones in   *)
(* the order of their tickets.                                             *)
THEOREM LedgerImplementsClaims == OneSubmitter => (Spec => ImplementsClaims)
<1> SUFFICES ASSUME OneSubmitter PROVE Spec => Machine!ClaimsSpec
  BY DEF ImplementsClaims
<1>1. Spec => [](TypeOK /\ LedgerOrder)
  BY OrderAlways
<1> QED
  BY <1>1, MachineInit, MachineStep, PTL DEF Spec, Machine!ClaimsSpec
=============================================================================
