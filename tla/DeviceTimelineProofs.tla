------------------------ MODULE DeviceTimelineProofs ------------------------
(***************************************************************************)
(* Proofs about DeviceTimeline for any number of contexts, tickets and     *)
(* failures.                                                               *)
(***************************************************************************)
EXTENDS DeviceTimeline, TLAPS

(* What Append, Head and Tail do to a sequence, element by element.        *)
LEMMA AppendElements ==
  ASSUME NEW S, NEW s \in Seq(S), NEW e \in S
  PROVE  /\ Append(s, e) \in Seq(S)
         /\ Len(Append(s, e)) = Len(s) + 1
         /\ \A i \in 1..Len(s) : Append(s, e)[i] = s[i]
         /\ Append(s, e)[Len(s) + 1] = e
  OBVIOUS

LEMMA HeadTailElements ==
  ASSUME NEW S, NEW s \in Seq(S), s # << >>
  PROVE  /\ Head(s) \in S
         /\ Head(s) = s[1]
         /\ Len(s) >= 1
         /\ Tail(s) \in Seq(S)
         /\ Len(Tail(s)) = Len(s) - 1
         /\ \A i \in 1..Len(Tail(s)) : Tail(s)[i] = s[i + 1]
  OBVIOUS

(* Every step keeps the types.                                             *)
LEMMA TypeStep == TypeOK /\ [TimelineNext]_timelineVars => TypeOK'
<1> SUFFICES ASSUME TypeOK, [TimelineNext]_timelineVars PROVE TypeOK'
  OBVIOUS
<1> USE TimelineAssumption DEF TypeOK, Tickets, Queues, Stages, Lives, ScanSteps
<1>1. ASSUME NEW c \in Contexts, CreateContext(c) PROVE TypeOK'
  BY <1>1 DEF CreateContext, tickets, worker, device, horizon
<1>2. ASSUME NEW c \in Contexts, NEW q \in Queues, Allocate(c, q) PROVE TypeOK'
  BY <1>2 DEF Allocate, worker, device, horizon
<1>3. ASSUME NEW c \in Contexts, NEW t \in Tickets, Register(c, t) PROVE TypeOK'
  BY <1>3 DEF Register, worker, device, horizon
<1>4. ASSUME NEW c \in Contexts, NEW t \in Tickets, Enqueue(c, t) PROVE TypeOK'
  BY <1>4 DEF Enqueue, device, horizon
<1>5. ASSUME NEW c \in Contexts, NEW t \in Tickets, EnqueueRefused(c, t) PROVE TypeOK'
  BY <1>5 DEF EnqueueRefused, device, horizon
<1>6. CASE WorkerSubmit
  <2> DEFINE t == Head(channel)
  <2>1. t \in Tickets /\ Tail(channel) \in Seq(Tickets)
    BY <1>6 DEF WorkerSubmit
  <2>2. stage' \in [Tickets -> Stages]
    BY <1>6 DEF WorkerSubmit
  <2>3. gpu' \in [Queues -> Seq(Tickets)]
    <3>1. gpu' = [gpu EXCEPT ![route[t]] = Append(@, t)]
      BY <1>6 DEF WorkerSubmit
    <3>2. \A q \in Queues : Append(gpu[q], t) \in Seq(Tickets)
      BY <2>1
    <3> HIDE DEF t
    <3> QED
      BY <3>1, <3>2
  <2>4. epoch' = IF t > epoch THEN t ELSE epoch
    BY <1>6 DEF WorkerSubmit, AdvanceEpoch
  <2>5. epoch' \in 0..MaxTicket
    BY <2>1, <2>4, SMTT(30)
  <2>6. channel' = Tail(channel)
    BY <1>6 DEF WorkerSubmit
  <2>7. UNCHANGED <<next, by, route, target, last, latched, failures, sem, life, horizon>>
    BY <1>6 DEF WorkerSubmit
  <2> HIDE DEF t
  <2> QED
    BY <2>1, <2>2, <2>3, <2>5, <2>6, <2>7, SMTT(30) DEF horizon
<1>7. CASE WorkerFail
  BY <1>7 DEF WorkerFail, AdvanceEpoch, device, horizon
<1>8. ASSUME NEW q \in Queues, Complete(q) PROVE TypeOK'
  <2> DEFINE t == Head(gpu[q])
  <2>1. t \in Tickets /\ Tail(gpu[q]) \in Seq(Tickets)
    <3>1. gpu[q] \in Seq(Tickets) /\ gpu[q] # << >>
      BY <1>8 DEF Complete
    <3> QED
      BY <3>1, HeadTailElements, Zenon
  <2>2. stage' \in [Tickets -> Stages]
    BY <1>8 DEF Complete
  <2>3. gpu' \in [Queues -> Seq(Tickets)]
    BY <1>8, <2>1 DEF Complete
  <2>4. sem' \in [Queues -> 0..MaxTicket]
    <3>1. PICK v \in SignalOutcomes(sem[by[t]], t) : \E w \in SignalOutcomes(sem[route[t]], t) :
            sem' = [x \in Queues |-> IF x = route[t] THEN w ELSE IF x = by[t] THEN v ELSE sem[x]]
      BY <1>8, Zenon DEF Complete
    <3>1a. PICK w \in SignalOutcomes(sem[route[t]], t) :
            sem' = [x \in Queues |-> IF x = route[t] THEN w ELSE IF x = by[t] THEN v ELSE sem[x]]
      BY <3>1, Zenon
    <3>2. by[t] \in Queues => v \in 0..MaxTicket
      BY <2>1 DEF SignalOutcomes
    <3>3. route[t] \in Queues => w \in 0..MaxTicket
      BY <2>1 DEF SignalOutcomes
    <3> HIDE DEF t
    <3> QED
      BY <3>1a, <3>2, <3>3
  <2> QED
    BY <1>8, <2>2, <2>3, <2>4 DEF Complete, worker, horizon
<1>9. CASE BeginScan \/ AdvanceRetired
  <2>1. CASE BeginScan
    BY <2>1 DEF BeginScan, ScanStart, tickets, worker, device
  <2>2. CASE PassTicket
    <3>1. scan.step \in ScanSteps /\ scan.at + 1 \in 0..MaxTicket /\ scan' = [scan EXCEPT !.at = scan.at + 1]
      BY <2>2 DEF PassTicket
    <3>2. scan' \in [step : ScanSteps, at : 0..MaxTicket]
      BY <3>1
    <3> QED
      BY <2>2, <3>2 DEF PassTicket, tickets, worker, device
  <2>3. CASE StopAtTicket
    BY <2>3 DEF StopAtTicket, tickets, worker, device
  <2>4. CASE CompareHorizon
    <3>1. NoScan \in [step : ScanSteps, at : 0..MaxTicket]
      BY DEF NoScan
    <3>2. [scan EXCEPT !.step = "store"] \in [step : ScanSteps, at : 0..MaxTicket]
      OBVIOUS
    <3>3. scan' \in [step : ScanSteps, at : 0..MaxTicket]
      BY <2>4, <3>1, <3>2 DEF CompareHorizon
    <3> QED
      BY <2>4, <3>3 DEF CompareHorizon, tickets, worker, device
  <2>5. CASE StoreHorizon
    BY <2>5 DEF StoreHorizon, NoScan, worker, device
  <2> QED
    BY <1>9, <2>1, <2>2, <2>3, <2>4, <2>5 DEF AdvanceRetired
<1>10. ASSUME NEW c \in Contexts, Detach(c) PROVE TypeOK'
  BY <1>10 DEF Detach, tickets, worker, device, horizon
<1>11. ASSUME NEW c \in Contexts, DestroyFlush(c) PROVE TypeOK'
  BY <1>11 DEF DestroyFlush, tickets, device, horizon
<1>12. ASSUME NEW c \in Contexts, DestroyAwaitSubmitted(c) PROVE TypeOK'
  BY <1>12 DEF DestroyAwaitSubmitted, tickets, device, horizon
<1>13. ASSUME NEW c \in Contexts, DestroyTakeError(c) PROVE TypeOK'
  BY <1>13 DEF DestroyTakeError, tickets, device, horizon
<1>14. ASSUME NEW c \in Contexts, DestroyAwaitSemaphore(c) PROVE TypeOK'
  BY <1>14 DEF DestroyAwaitSemaphore, tickets, worker, device, horizon
<1>15. ASSUME NEW c \in Contexts, ReadCompleted(c) \/ RaiseFloor(c) \/ Teardown(c) PROVE TypeOK'
  <2>1. CASE ReadCompleted(c)
    BY <2>1 DEF ReadCompleted, tickets, worker, device
  <2>2. CASE RaiseFloor(c)
    BY <2>2 DEF RaiseFloor, tickets, worker, device
  <2>3. CASE Teardown(c)
    BY <2>3 DEF Teardown, worker, device
  <2> QED
    BY <1>15, <2>1, <2>2, <2>3
<1>16. CASE UNCHANGED timelineVars
  BY <1>16 DEF timelineVars
<1> QED
  BY <1>1, <1>2, <1>3, <1>4, <1>5, <1>6, <1>7, <1>8, <1>9, <1>10, <1>11, <1>12, <1>13,
     <1>14, <1>15, <1>16
     DEF TimelineNext, Submit, Destroy, AllocateCompute, AllocateRender

LEMMA TypeInit == Init => TypeOK
<1> SUFFICES ASSUME Init PROVE TypeOK
  OBVIOUS
<1>1. 0 \in 0..MaxTicket /\ 0 \in 0..MaxFailures /\ 1 \in 1..(MaxTicket + 1)
  BY TimelineAssumption
<1>2. << >> \in Seq(Tickets)
  OBVIOUS
<1>3. stage \in [Tickets -> Stages] /\ life \in [Contexts -> Lives]
  BY DEF Init, Stages, Lives
<1>4. /\ by \in [Tickets -> Contexts \cup {NoTarget}]
      /\ route \in [Tickets -> Queues \cup {NoTarget}]
      /\ target \in [Tickets -> Queues \cup {NoTarget}]
  BY DEF Init
<1>5. /\ last \in [Queues -> 0..MaxTicket]
      /\ sem \in [Queues -> 0..MaxTicket]
      /\ gpu \in [Queues -> Seq(Tickets)]
  BY <1>1, <1>2 DEF Init
<1>6. scan \in [step : ScanSteps, at : 0..MaxTicket] /\ lifted \in [Contexts -> 0..MaxTicket]
  BY <1>1 DEF Init, NoScan, ScanSteps
<1> QED
  BY <1>1, <1>2, <1>3, <1>4, <1>5, <1>6 DEF Init, TypeOK

(* The timeline's variables keep their types, whatever the number of       *)
(* contexts, tickets and failures.                                         *)
THEOREM TimelineTypes == Spec => []TypeOK
  BY TypeInit, TypeStep, PTL DEF Spec

-----------------------------------------------------------------------------
(* The worker's channel and the native queues hold tickets.                *)
LEMMA GpuElements ==
  ASSUME TypeOK, NEW q \in Queues
  PROVE  gpu[q] \in Seq(Tickets) /\ \A i \in 1..Len(gpu[q]) : gpu[q][i] \in Tickets
<1>1. gpu[q] \in Seq(Tickets)
  BY DEF TypeOK
<1> QED
  BY <1>1

LEMMA ChannelElements ==
  ASSUME TypeOK
  PROVE  channel \in Seq(Tickets) /\ \A i \in 1..Len(channel) : channel[i] \in Tickets
BY DEF TypeOK

(* TicketOrder is kept by every step.  Steps that move no ticket:          *)
LEMMA OrderQuiet ==
  ASSUME TypeOK, TicketOrder,
         UNCHANGED <<next, stage, by, route, channel, gpu, sem>>,
         \A t \in Tickets : target'[t] \in {target[t], NoTarget}
  PROVE  TicketOrder'
<1>1. TicketsOK'
  BY DEF TicketOrder, TicketsOK
<1>2. IssueOrder' /\ ChannelOrder' /\ GpuOrder'
  BY DEF TicketOrder, IssueOrder, ChannelOrder, GpuOrder
<1>3. ProgressSound' /\ (\A q \in Queues : sem[q] < next)'
  BY DEF TicketOrder, ProgressSound, Pending, Signals
<1> QED
  BY <1>1, <1>2, <1>3 DEF TicketOrder, SeparateQueues

(* A new ticket is above every semaphore and newer than every other ticket *)
(* of its context.                                                         *)
LEMMA OrderAllocate ==
  ASSUME TypeOK, TicketOrder, NEW c \in Contexts, AllocateCompute(c) \/ AllocateRender(c)
  PROVE  TicketOrder'
<1> PICK q \in Queues : /\ Allocate(c, q)
                        /\ \/ c \in Computing /\ q = c
                           \/ c \in Rendering /\ q = Owner
  BY DEF AllocateCompute, AllocateRender, Queues
<1> USE TimelineAssumption DEF Tickets, Queues
<1>1. /\ next \in Tickets /\ next' = next + 1
      /\ stage' = [stage EXCEPT ![next] = "allocated"]
      /\ by'    = [by EXCEPT ![next] = c]
      /\ route' = [route EXCEPT ![next] = q]
      /\ UNCHANGED <<target, channel, gpu, sem>>
      /\ stage[next] = "free" /\ c # NoTarget
  BY DEF Allocate, worker, device, TicketOrder, TicketsOK
<1>2. \A t \in Tickets : t # next => stage'[t] = stage[t] /\ by'[t] = by[t] /\ route'[t] = route[t]
  BY <1>1 DEF TypeOK
<1>3. stage'[next] = "allocated" /\ by'[next] = c /\ route'[next] = q
  BY <1>1 DEF TypeOK
<1>4. TicketsOK'
  BY <1>1, <1>2, <1>3 DEF TicketOrder, TicketsOK
<1>5. IssueOrder'
  <2> SUFFICES ASSUME NEW t \in Tickets, NEW u \in Tickets, t < u, by'[t] = by'[u], by'[t] # NoTarget
               PROVE  /\ stage'[t] \notin {"allocated", "registered"}
                      /\ stage'[t] = "queued" => stage'[u] # "issued"
    BY DEF IssueOrder
  <2>1. CASE u = next
    BY <1>1, <1>2, <1>3, <2>1 DEF Allocate, Submitting
  <2>2. CASE t = next
    <3>1. stage[u] = "free" /\ u # next
      BY <2>2 DEF TicketOrder, TicketsOK, TypeOK
    <3> QED
      BY <1>2, <3>1, <2>2 DEF TicketOrder, TicketsOK
  <2>3. CASE t # next /\ u # next
    BY <1>2, <2>3 DEF TicketOrder, IssueOrder
  <2> QED
    BY <2>1, <2>2, <2>3
<1>6. \A i \in 1..Len(channel) : channel[i] \in Tickets /\ channel[i] # next
  BY <1>1, ChannelElements, SMTT(30) DEF TicketOrder, ChannelOrder
<1>7. ChannelOrder'
  <2>1. \A i \in 1..Len(channel) : /\ stage'[channel[i]] = stage[channel[i]]
                                   /\ by'[channel[i]] = by[channel[i]]
    BY <1>2, <1>6
  <2>2. \A u \in Tickets : stage'[u] = "queued" => stage[u] = "queued"
    BY <1>2, <1>3
  <2>3. channel' = channel /\ ChannelOrder
    BY <1>1 DEF TicketOrder
  <2> QED
    BY <2>1, <2>2, <2>3 DEF ChannelOrder
<1>8. \A x \in Queues : \A i \in 1..Len(gpu[x]) : gpu[x][i] \in Tickets /\ gpu[x][i] # next
  <2> SUFFICES ASSUME NEW x \in Queues, NEW i \in 1..Len(gpu[x])
               PROVE  gpu[x][i] \in Tickets /\ gpu[x][i] # next
    OBVIOUS
  <2>1. gpu[x][i] \in Tickets
    BY GpuElements
  <2> QED
    BY <1>1, <2>1 DEF TicketOrder, GpuOrder
<1>9. GpuOrder'
  <2>1. \A x \in Queues : \A i \in 1..Len(gpu[x]) :
          /\ stage'[gpu[x][i]] = stage[gpu[x][i]]
          /\ route'[gpu[x][i]] = route[gpu[x][i]]
    BY <1>2, <1>8
  <2>2. \A u \in Tickets : stage'[u] = "issued" => stage[u] = "issued" /\ route'[u] = route[u]
    BY <1>2, <1>3
  <2>3. gpu' = gpu /\ GpuOrder
    BY <1>1 DEF TicketOrder
  <2> QED
    BY <2>1, <2>2, <2>3 DEF GpuOrder
<1>10. (\A x \in Queues : sem[x] < next)'
  BY <1>1 DEF TicketOrder, TypeOK
<1>11. ProgressSound'
  <2> SUFFICES ASSUME NEW t \in Tickets, Pending(t)', NEW x \in Signals(t)' PROVE sem[x] < t
    BY <1>1 DEF ProgressSound
  <2>1. CASE t = next
    BY <1>1, <1>3, <2>1 DEF TicketOrder, Signals
  <2>2. CASE t # next
    BY <1>2, <2>2 DEF TicketOrder, ProgressSound, Pending, Signals
  <2> QED
    BY <2>1, <2>2
<1> QED
  BY <1>4, <1>5, <1>7, <1>9, <1>10, <1>11 DEF TicketOrder, SeparateQueues

(* Registering a ticket names the semaphore that it will signal.           *)
LEMMA OrderRegister ==
  ASSUME TypeOK, TicketOrder, NEW c \in Contexts, NEW t \in Tickets, Register(c, t)
  PROVE  TicketOrder'
<1> USE TimelineAssumption
<1>1. /\ stage[t] = "allocated"
      /\ stage' = [stage EXCEPT ![t] = "registered"]
      /\ target' = [target EXCEPT ![t] = route[t]]
      /\ UNCHANGED <<next, by, route, channel, gpu, sem>>
  BY DEF Register, worker, device
<1>2. stage'[t] = "registered" /\ target'[t] = route[t]
  BY <1>1 DEF TypeOK
<1>3. \A u \in Tickets : u # t => stage'[u] = stage[u] /\ target'[u] = target[u]
  BY <1>1 DEF TypeOK
<1>4. TicketsOK'
  BY <1>1, <1>2, <1>3 DEF TicketOrder, TicketsOK
<1>5. IssueOrder'
  BY <1>1, <1>2, <1>3 DEF TicketOrder, IssueOrder
<1>6. ChannelOrder'
  <2>1. \A i \in 1..Len(channel) : channel[i] # t
    BY <1>1 DEF TicketOrder, ChannelOrder
  <2> QED
    BY <1>1, <1>2, <1>3, <2>1, ChannelElements DEF TicketOrder, ChannelOrder
<1>7. GpuOrder'
  <2>1. \A q \in Queues : \A i \in 1..Len(gpu[q]) : gpu[q][i] # t
    BY <1>1 DEF TicketOrder, GpuOrder
  <2> QED
    BY <1>1, <1>2, <1>3, <2>1, GpuElements DEF TicketOrder, GpuOrder
<1>8. ProgressSound' /\ (\A q \in Queues : sem[q] < next)'
  BY <1>1, <1>2, <1>3 DEF TicketOrder, ProgressSound, Pending, Signals
<1> QED
  BY <1>4, <1>5, <1>6, <1>7, <1>8 DEF TicketOrder, SeparateQueues

(* A queued ticket is the newest of its context.                           *)
LEMMA OrderEnqueue ==
  ASSUME TypeOK, TicketOrder, NEW c \in Contexts, NEW t \in Tickets, Enqueue(c, t)
  PROVE  TicketOrder'
<1>1. /\ stage[t] = "registered"
      /\ stage' = [stage EXCEPT ![t] = "queued"]
      /\ channel' = Append(channel, t)
      /\ UNCHANGED <<next, by, route, target, gpu, sem>>
  BY DEF Enqueue, device
<1>2. stage'[t] = "queued"
  BY <1>1 DEF TypeOK
<1>3. \A u \in Tickets : u # t => stage'[u] = stage[u]
  BY <1>1 DEF TypeOK
<1>4. TicketsOK'
  BY <1>1, <1>2, <1>3 DEF TicketOrder, TicketsOK
<1>5. IssueOrder'
  BY <1>1, <1>2, <1>3 DEF TicketOrder, IssueOrder
<1>6. ChannelOrder'
  <2>1. /\ Len(channel') = Len(channel) + 1
        /\ \A i \in 1..Len(channel) : channel'[i] = channel[i]
        /\ channel'[Len(channel) + 1] = t
    BY <1>1, ChannelElements, AppendElements
  <2>2. \A i \in 1..Len(channel) : channel[i] \in Tickets /\ channel[i] # t /\ stage[channel[i]] = "queued"
    BY <1>1, ChannelElements DEF TicketOrder, ChannelOrder
  <2>3. \A i \in 1..Len(channel) : by[channel[i]] = by[t] => channel[i] < t
    <3> SUFFICES ASSUME NEW i \in 1..Len(channel), by[channel[i]] = by[t], ~(channel[i] < t) PROVE FALSE
      OBVIOUS
    <3>1. t < channel[i]
      BY <2>2 DEF Tickets
    <3>2. by[t] # NoTarget
      BY <1>1, TimelineAssumption DEF TicketOrder, TicketsOK
    <3> QED
      BY <1>1, <2>2, <3>1, <3>2 DEF TicketOrder, IssueOrder
  <2>4. Len(channel) \in Nat
    BY ChannelElements
  <2>5. \A i \in 1..Len(channel') : i \in 1..Len(channel) \/ i = Len(channel) + 1
    BY <2>1, <2>4
  <2>6. \A i \in 1..Len(channel') : stage'[channel'[i]] = "queued"
    BY <1>2, <1>3, <2>1, <2>2, <2>5
  <2>7. \A i, j \in 1..Len(channel') :
          i < j /\ by'[channel'[i]] = by'[channel'[j]] => channel'[i] < channel'[j]
    BY <1>1, <2>1, <2>2, <2>3, <2>4, <2>5 DEF TicketOrder, ChannelOrder
  <2>8. \A u \in Tickets : stage'[u] = "queued" => \E i \in 1..Len(channel') : channel'[i] = u
    BY <1>3, <2>1, <2>4 DEF TicketOrder, ChannelOrder
  <2> QED
    BY <2>6, <2>7, <2>8 DEF ChannelOrder
<1>7. GpuOrder'
  <2>1. \A q \in Queues : \A i \in 1..Len(gpu[q]) : gpu[q][i] # t
    BY <1>1 DEF TicketOrder, GpuOrder
  <2> QED
    BY <1>1, <1>2, <1>3, <2>1, GpuElements DEF TicketOrder, GpuOrder
<1>8. ProgressSound' /\ (\A q \in Queues : sem[q] < next)'
  BY <1>1, <1>2, <1>3 DEF TicketOrder, ProgressSound, Pending, Signals
<1> QED
  BY <1>4, <1>5, <1>6, <1>7, <1>8 DEF TicketOrder, SeparateQueues

(* A refused ticket is in no queue and never pending again.                *)
LEMMA OrderRefused ==
  ASSUME TypeOK, TicketOrder, NEW c \in Contexts, NEW t \in Tickets, EnqueueRefused(c, t)
  PROVE  TicketOrder'
<1>1. /\ stage[t] = "registered"
      /\ stage' = [stage EXCEPT ![t] = "refused"]
      /\ UNCHANGED <<next, by, route, target, channel, gpu, sem>>
  BY DEF EnqueueRefused, device
<1>2. stage'[t] = "refused"
  BY <1>1 DEF TypeOK
<1>3. \A u \in Tickets : u # t => stage'[u] = stage[u]
  BY <1>1 DEF TypeOK
<1>4. TicketsOK'
  BY <1>1, <1>2, <1>3 DEF TicketOrder, TicketsOK
<1>5. IssueOrder'
  BY <1>1, <1>2, <1>3 DEF TicketOrder, IssueOrder
<1>6. ChannelOrder'
  <2>1. \A i \in 1..Len(channel) : channel[i] # t
    BY <1>1 DEF TicketOrder, ChannelOrder
  <2> QED
    BY <1>1, <1>2, <1>3, <2>1, ChannelElements DEF TicketOrder, ChannelOrder
<1>7. GpuOrder'
  <2>1. \A q \in Queues : \A i \in 1..Len(gpu[q]) : gpu[q][i] # t
    BY <1>1 DEF TicketOrder, GpuOrder
  <2> QED
    BY <1>1, <1>2, <1>3, <2>1, GpuElements DEF TicketOrder, GpuOrder
<1>8. ProgressSound' /\ (\A q \in Queues : sem[q] < next)'
  BY <1>1, <1>2, <1>3 DEF TicketOrder, ProgressSound, Pending, Signals
<1> QED
  BY <1>4, <1>5, <1>6, <1>7, <1>8 DEF TicketOrder, SeparateQueues

(* The head of the channel is its context's oldest queued ticket, and      *)
(* occurs once; without it the channel is still in order.                  *)
LEMMA ChannelTail ==
  ASSUME TypeOK, TicketOrder, channel # << >>, NEW s \in {"issued", "failed"},
         stage' = [stage EXCEPT ![Head(channel)] = s],
         channel' = Tail(channel), by' = by
  PROVE  /\ Head(channel) \in Tickets
         /\ stage[Head(channel)] = "queued"
         /\ \A t \in Tickets : stage[t] = "queued" /\ by[t] = by[Head(channel)] => Head(channel) <= t
         /\ ChannelOrder'
<1> DEFINE h == Head(channel)
<1>1. /\ h \in Tickets /\ h = channel[1] /\ Len(channel) \in Nat /\ Len(channel) >= 1
      /\ Len(channel') = Len(channel) - 1
      /\ \A i \in 1..Len(channel') : channel'[i] = channel[i + 1]
  BY ChannelElements, HeadTailElements
<1> HIDE DEF h
<1>2. stage[h] = "queued"
  BY <1>1 DEF TicketOrder, ChannelOrder
<1>3. \A i \in 2..Len(channel) : by[channel[i]] = by[h] => h < channel[i]
  BY <1>1 DEF TicketOrder, ChannelOrder
<1>4. \A t \in Tickets : stage[t] = "queued" /\ by[t] = by[h] => h <= t
  <2> SUFFICES ASSUME NEW t \in Tickets, stage[t] = "queued", by[t] = by[h] PROVE h <= t
    OBVIOUS
  <2> PICK i \in 1..Len(channel) : channel[i] = t
    BY DEF TicketOrder, ChannelOrder
  <2> QED
    BY <1>1, <1>3 DEF Tickets
<1>5. \A i \in 1..Len(channel') :
        i + 1 \in 2..Len(channel) /\ channel'[i] = channel[i + 1] /\ channel'[i] \in Tickets
  BY <1>1, ChannelElements
<1>6. \A i \in 1..Len(channel') : channel'[i] # h
  BY <1>1, <1>3, <1>5 DEF Tickets
<1>7. \A u \in Tickets : u # h => stage'[u] = stage[u]
  BY <1>1 DEF TypeOK, h
<1>8. stage'[h] # "queued"
  BY <1>1 DEF TypeOK, h
<1>9. \A i \in 1..Len(channel') : stage'[channel'[i]] = "queued"
  BY <1>1, <1>5, <1>6, <1>7 DEF TicketOrder, ChannelOrder
<1>10. \A i, j \in 1..Len(channel') :
         i < j /\ by'[channel'[i]] = by'[channel'[j]] => channel'[i] < channel'[j]
  BY <1>1, <1>5 DEF TicketOrder, ChannelOrder
<1>11. \A t \in Tickets : stage'[t] = "queued" => \E i \in 1..Len(channel') : channel'[i] = t
  <2> SUFFICES ASSUME NEW t \in Tickets, stage'[t] = "queued"
               PROVE  \E i \in 1..Len(channel') : channel'[i] = t
    OBVIOUS
  <2>1. t # h /\ stage[t] = "queued"
    BY <1>7, <1>8
  <2>2. PICK i \in 1..Len(channel) : channel[i] = t
    BY <2>1 DEF TicketOrder, ChannelOrder
  <2>3. i # 1
    BY <2>1, <2>2, <1>1
  <2>4. i - 1 \in 1..Len(channel') /\ channel'[i - 1] = t
    BY <2>2, <2>3, <1>1
  <2> QED
    BY <2>4
<1> QED
  BY <1>1, <1>2, <1>4, <1>9, <1>10, <1>11 DEF ChannelOrder, h

(* The worker issues a context's tickets in ascending order.               *)
LEMMA OrderWorkerSubmit ==
  ASSUME TypeOK, TicketOrder, WorkerSubmit
  PROVE  TicketOrder'
<1> DEFINE t == Head(channel)
<1>1. /\ channel # << >>
      /\ stage' = [stage EXCEPT ![t] = "issued"]
      /\ gpu' = [gpu EXCEPT ![route[t]] = Append(@, t)]
      /\ channel' = Tail(channel)
      /\ UNCHANGED <<next, by, route, target, sem>>
  BY DEF WorkerSubmit
<1>2. /\ t \in Tickets
      /\ stage[t] = "queued"
      /\ \A u \in Tickets : stage[u] = "queued" /\ by[u] = by[t] => t <= u
      /\ ChannelOrder'
  BY <1>1, ChannelTail
<1> HIDE DEF t
<1>3. stage'[t] = "issued"
  BY <1>1, <1>2 DEF TypeOK
<1>4. \A u \in Tickets : u # t => stage'[u] = stage[u]
  BY <1>1 DEF TypeOK
<1>5. TicketsOK'
  BY <1>1, <1>2, <1>3, <1>4 DEF TicketOrder, TicketsOK
<1>6. IssueOrder'
  <2> SUFFICES ASSUME NEW x \in Tickets, NEW u \in Tickets, x < u, by[x] = by[u], by[x] # NoTarget
               PROVE  /\ stage'[x] \notin {"allocated", "registered"}
                      /\ stage'[x] = "queued" => stage'[u] # "issued"
    BY <1>1 DEF IssueOrder
  <2>1. stage[x] \notin {"allocated", "registered"} /\ (stage[x] = "queued" => stage[u] # "issued")
    BY DEF TicketOrder, IssueOrder
  <2>2. CASE u = t
    <3>1. x # t /\ ~(t <= x)
      BY <2>2 DEF Tickets
    <3> QED
      BY <1>2, <1>4, <2>1, <2>2, <3>1
  <2>3. CASE x = t
    BY <1>3, <2>3
  <2>4. CASE x # t /\ u # t
    BY <1>4, <2>1, <2>4
  <2> QED
    BY <2>2, <2>3, <2>4
<1>7. GpuOrder'
  <2> DEFINE r == route[t]
  <2>1. r \in Queues /\ by[t] # NoTarget
    BY <1>2, TimelineAssumption DEF TicketOrder, TicketsOK, Queues
  <2>2. /\ gpu'[r] = Append(gpu[r], t)
        /\ \A q \in Queues : q # r => gpu'[q] = gpu[q]
    BY <1>1, <2>1 DEF TypeOK
  <2> HIDE DEF r
  <2>3. /\ Len(gpu[r]) \in Nat
        /\ Len(gpu'[r]) = Len(gpu[r]) + 1
        /\ \A i \in 1..Len(gpu[r]) : gpu'[r][i] = gpu[r][i]
        /\ gpu'[r][Len(gpu[r]) + 1] = t
    BY <1>2, <2>1, <2>2, GpuElements, AppendElements
  <2>4. \A i \in 1..Len(gpu'[r]) : i \in 1..Len(gpu[r]) \/ i = Len(gpu[r]) + 1
    BY <2>3
  <2>5. \A q \in Queues : \A i \in 1..Len(gpu[q]) :
          gpu[q][i] \in Tickets /\ gpu[q][i] # t /\ stage[gpu[q][i]] = "issued" /\ route[gpu[q][i]] = q
    <3> SUFFICES ASSUME NEW q \in Queues, NEW i \in 1..Len(gpu[q])
                 PROVE  gpu[q][i] \in Tickets /\ gpu[q][i] # t /\ stage[gpu[q][i]] = "issued" /\ route[gpu[q][i]] = q
      OBVIOUS
    <3>1. gpu[q][i] \in Tickets
      BY GpuElements
    <3> QED
      BY <1>2, <3>1 DEF TicketOrder, GpuOrder
  <2>6. \A i \in 1..Len(gpu[r]) : gpu[r][i] < t
    <3> SUFFICES ASSUME NEW i \in 1..Len(gpu[r]), t < gpu[r][i] PROVE FALSE
      BY <1>2, <2>1, <2>5 DEF Tickets
    <3>1. gpu[r][i] \in Tickets /\ stage[gpu[r][i]] = "issued" /\ route[gpu[r][i]] = route[t]
      BY <2>1, <2>5 DEF r
    <3>2. by[gpu[r][i]] = by[t]
      BY <1>2, <3>1, TimelineAssumption DEF TicketOrder, TicketsOK, SeparateQueues
    <3> QED
      BY <1>2, <2>1, <3>1, <3>2 DEF TicketOrder, IssueOrder
  <2>7. \A q \in Queues : \A i \in 1..Len(gpu'[q]) : stage'[gpu'[q][i]] = "issued" /\ route'[gpu'[q][i]] = q
    <3> SUFFICES ASSUME NEW q \in Queues, NEW i \in 1..Len(gpu'[q])
                 PROVE  stage'[gpu'[q][i]] = "issued" /\ route[gpu'[q][i]] = q
      BY <1>1
    <3>1. CASE q = r
      <4>1. CASE i \in 1..Len(gpu[r])
        BY <1>4, <2>1, <2>3, <2>5, <3>1, <4>1
      <4>2. CASE i = Len(gpu[r]) + 1
        BY <1>3, <2>3, <3>1, <4>2 DEF r
      <4> QED
        BY <2>4, <3>1, <4>1, <4>2
    <3>2. CASE q # r
      BY <1>4, <2>2, <2>5, <3>2
    <3> QED
      BY <3>1, <3>2
  <2>8. \A q \in Queues : \A i, j \in 1..Len(gpu'[q]) : i < j => gpu'[q][i] < gpu'[q][j]
    <3> SUFFICES ASSUME NEW q \in Queues, NEW i \in 1..Len(gpu'[q]), NEW j \in 1..Len(gpu'[q]), i < j
                 PROVE  gpu'[q][i] < gpu'[q][j]
      OBVIOUS
    <3>1. CASE q = r
      <4>1. i \in 1..Len(gpu[r])
        BY <2>3, <3>1
      <4>2. CASE j \in 1..Len(gpu[r])
        BY <2>1, <2>3, <3>1, <4>1, <4>2 DEF TicketOrder, GpuOrder
      <4>3. CASE j = Len(gpu[r]) + 1
        BY <2>3, <2>6, <3>1, <4>1, <4>3
      <4> QED
        BY <2>4, <3>1, <4>2, <4>3
    <3>2. CASE q # r
      BY <2>2, <3>2 DEF TicketOrder, GpuOrder
    <3> QED
      BY <3>1, <3>2
  <2>9. \A u \in Tickets : stage'[u] = "issued" =>
          \E i \in 1..Len(gpu'[route[u]]) : gpu'[route[u]][i] = u
    <3> SUFFICES ASSUME NEW u \in Tickets, stage'[u] = "issued"
                 PROVE  \E i \in 1..Len(gpu'[route[u]]) : gpu'[route[u]][i] = u
      OBVIOUS
    <3>1. CASE u = t
      BY <2>3, <3>1 DEF r
    <3>2. CASE u # t
      <4>1. stage[u] = "issued" /\ route[u] \in Queues
        BY <1>4, <3>2, TimelineAssumption DEF TicketOrder, TicketsOK, Queues
      <4>2. PICK i \in 1..Len(gpu[route[u]]) : gpu[route[u]][i] = u
        BY <4>1 DEF TicketOrder, GpuOrder
      <4> QED
        BY <2>2, <2>3, <4>1, <4>2
    <3> QED
      BY <3>1, <3>2
  <2> QED
    BY <1>1, <2>7, <2>8, <2>9 DEF GpuOrder
<1>8. ProgressSound' /\ (\A q \in Queues : sem[q] < next)'
  BY <1>1, <1>2, <1>3, <1>4 DEF TicketOrder, ProgressSound, Pending, Signals
<1> QED
  BY <1>2, <1>5, <1>6, <1>7, <1>8 DEF TicketOrder, SeparateQueues

(* A failed ticket leaves the channel and is never pending again.          *)
LEMMA OrderWorkerFail ==
  ASSUME TypeOK, TicketOrder, WorkerFail
  PROVE  TicketOrder'
<1> DEFINE t == Head(channel)
<1>1. /\ channel # << >>
      /\ stage' = [stage EXCEPT ![t] = "failed"]
      /\ channel' = Tail(channel)
      /\ UNCHANGED <<next, by, route, target, gpu, sem>>
  BY DEF WorkerFail, device
<1>2. t \in Tickets /\ stage[t] = "queued" /\ ChannelOrder'
  BY <1>1, ChannelTail
<1> HIDE DEF t
<1>3. stage'[t] = "failed"
  BY <1>1, <1>2 DEF TypeOK
<1>4. \A u \in Tickets : u # t => stage'[u] = stage[u]
  BY <1>1 DEF TypeOK
<1>5. TicketsOK'
  BY <1>1, <1>2, <1>3, <1>4 DEF TicketOrder, TicketsOK
<1>6. IssueOrder'
  BY <1>1, <1>3, <1>4 DEF TicketOrder, IssueOrder
<1>7. GpuOrder'
  <2>1. \A q \in Queues : \A i \in 1..Len(gpu[q]) : gpu[q][i] # t
    BY <1>2 DEF TicketOrder, GpuOrder
  <2> QED
    BY <1>1, <1>3, <1>4, <2>1, GpuElements DEF TicketOrder, GpuOrder
<1>8. ProgressSound' /\ (\A q \in Queues : sem[q] < next)'
  BY <1>1, <1>3, <1>4 DEF TicketOrder, ProgressSound, Pending, Signals
<1> QED
  BY <1>2, <1>5, <1>6, <1>7, <1>8 DEF TicketOrder, SeparateQueues

(* A native queue completes its smallest ticket, which is also the         *)
(* smallest pending ticket of its context: no semaphore it signals passes  *)
(* a pending ticket.                                                       *)
LEMMA OrderComplete ==
  ASSUME TypeOK, TicketOrder, NEW q \in Queues, Complete(q)
  PROVE  TicketOrder'
<1> DEFINE t == Head(gpu[q])
<1>1. /\ gpu[q] # << >>
      /\ stage' = [stage EXCEPT ![t] = "done"]
      /\ gpu' = [gpu EXCEPT ![q] = Tail(@)]
      /\ UNCHANGED <<next, by, route, target, channel>>
  BY DEF Complete, worker
<1>2. /\ t \in Tickets /\ t = gpu[q][1]
      /\ Len(gpu[q]) \in Nat /\ Len(gpu[q]) >= 1
      /\ Len(Tail(gpu[q])) = Len(gpu[q]) - 1
      /\ \A i \in 1..Len(Tail(gpu[q])) : Tail(gpu[q])[i] = gpu[q][i + 1]
  BY <1>1, GpuElements, HeadTailElements
<1>3. PICK v \in SignalOutcomes(sem[by[t]], t) : \E w \in SignalOutcomes(sem[route[t]], t) :
        sem' = [x \in Queues |-> IF x = route[t] THEN w ELSE IF x = by[t] THEN v ELSE sem[x]]
  BY Zenon DEF Complete
<1>4. PICK w \in SignalOutcomes(sem[route[t]], t) :
        sem' = [x \in Queues |-> IF x = route[t] THEN w ELSE IF x = by[t] THEN v ELSE sem[x]]
  BY <1>3, Zenon
<1> HIDE DEF t
<1>5. stage[t] = "issued" /\ route[t] = q
  BY <1>2 DEF TicketOrder, GpuOrder
<1>6. by[t] \in Contexts /\ by[t] # NoTarget /\ by[t] \in Queues
  BY <1>2, <1>5, TimelineAssumption DEF TicketOrder, TicketsOK, Queues
<1>7. sem[by[t]] < t /\ sem[route[t]] < t
  BY <1>2, <1>5 DEF TicketOrder, ProgressSound, Pending, Signals
<1>8. /\ \A x \in Signals(t) \cap Queues : sem'[x] = t
      /\ \A x \in Queues \ Signals(t) : sem'[x] = sem[x]
  <2>1. v = t /\ w = t
    BY <1>2, <1>3, <1>4, <1>7 DEF SignalOutcomes
  <2> QED
    BY <1>4, <2>1 DEF Signals
<1>9. stage'[t] = "done"
  BY <1>1, <1>2 DEF TypeOK
<1>10. \A u \in Tickets : u # t => stage'[u] = stage[u]
  BY <1>1 DEF TypeOK
<1>11. TicketsOK'
  BY <1>1, <1>2, <1>5, <1>9, <1>10 DEF TicketOrder, TicketsOK
<1>12. IssueOrder'
  BY <1>1, <1>9, <1>10 DEF TicketOrder, IssueOrder
<1>13. ChannelOrder'
  <2>1. \A i \in 1..Len(channel) : channel[i] # t
    BY <1>5 DEF TicketOrder, ChannelOrder
  <2> QED
    BY <1>1, <1>9, <1>10, <2>1, ChannelElements DEF TicketOrder, ChannelOrder
<1>14. \A i \in 2..Len(gpu[q]) : t < gpu[q][i]
  BY <1>2 DEF TicketOrder, GpuOrder
<1>15. GpuOrder'
  <2>1. gpu'[q] = Tail(gpu[q]) /\ \A x \in Queues : x # q => gpu'[x] = gpu[x]
    BY <1>1 DEF TypeOK
  <2>2. \A i \in 1..Len(gpu'[q]) : i + 1 \in 2..Len(gpu[q]) /\ gpu'[q][i] = gpu[q][i + 1]
    BY <1>2, <2>1
  <2>3. \A x \in Queues : \A i \in 1..Len(gpu'[x]) : stage'[gpu'[x][i]] = "issued" /\ route'[gpu'[x][i]] = x
    <3> SUFFICES ASSUME NEW x \in Queues, NEW i \in 1..Len(gpu'[x])
                 PROVE  stage'[gpu'[x][i]] = "issued" /\ route[gpu'[x][i]] = x
      BY <1>1, ZenonT(30)
    <3>1. CASE x = q
      <4>1. gpu[q][i + 1] \in Tickets /\ t < gpu[q][i + 1] /\ gpu'[q][i] = gpu[q][i + 1]
        BY <1>14, <2>2, <3>1, GpuElements
      <4>2. stage[gpu[q][i + 1]] = "issued" /\ route[gpu[q][i + 1]] = q
        BY <2>2, <3>1 DEF TicketOrder, GpuOrder
      <4>3. gpu[q][i + 1] # t
        BY <1>2, <4>1 DEF Tickets
      <4> QED
        BY <1>10, <3>1, <4>1, <4>2, <4>3
    <3>2. CASE x # q
      <4>1. gpu[x][i] \in Tickets /\ gpu'[x][i] = gpu[x][i] /\ i \in 1..Len(gpu[x])
        BY <2>1, <3>2, GpuElements
      <4>2. stage[gpu[x][i]] = "issued" /\ route[gpu[x][i]] = x
        BY <4>1 DEF TicketOrder, GpuOrder
      <4> QED
        BY <1>5, <1>10, <3>2, <4>1, <4>2
    <3> QED
      BY <3>1, <3>2
  <2>4. \A x \in Queues : \A i, j \in 1..Len(gpu'[x]) : i < j => gpu'[x][i] < gpu'[x][j]
    <3> SUFFICES ASSUME NEW x \in Queues, NEW i \in 1..Len(gpu'[x]), NEW j \in 1..Len(gpu'[x]), i < j
                 PROVE  gpu'[x][i] < gpu'[x][j]
      OBVIOUS
    <3>1. CASE x = q
      <4>1. i + 1 \in 1..Len(gpu[q]) /\ j + 1 \in 1..Len(gpu[q]) /\ i + 1 < j + 1
        BY <1>2, <2>2, <3>1
      <4>2. gpu[q][i + 1] < gpu[q][j + 1]
        BY <4>1 DEF TicketOrder, GpuOrder
      <4> QED
        BY <2>2, <3>1, <4>2
    <3>2. CASE x # q
      BY <2>1, <3>2 DEF TicketOrder, GpuOrder
    <3> QED
      BY <3>1, <3>2
  <2>5. \A u \in Tickets : stage'[u] = "issued" =>
          \E i \in 1..Len(gpu'[route[u]]) : gpu'[route[u]][i] = u
    <3> SUFFICES ASSUME NEW u \in Tickets, stage'[u] = "issued"
                 PROVE  \E i \in 1..Len(gpu'[route[u]]) : gpu'[route[u]][i] = u
      OBVIOUS
    <3>1. u # t /\ stage[u] = "issued"
      BY <1>9, <1>10
    <3>2. route[u] \in Queues
      BY <3>1, TimelineAssumption DEF TicketOrder, TicketsOK, Queues
    <3>3. PICK i \in 1..Len(gpu[route[u]]) : gpu[route[u]][i] = u
      BY <3>1 DEF TicketOrder, GpuOrder
    <3>4. CASE route[u] = q
      <4>1. i # 1
        BY <1>2, <3>1, <3>3, <3>4
      <4>2. i - 1 \in 1..Len(gpu'[q]) /\ gpu'[q][i - 1] = u
        BY <1>2, <2>1, <3>3, <3>4, <4>1
      <4> QED
        BY <3>4, <4>2
    <3>5. CASE route[u] # q
      BY <2>1, <3>2, <3>3, <3>5
    <3> QED
      BY <3>4, <3>5
  <2>6. \A u \in Tickets : stage'[u] = "issued" =>
          \E i \in 1..Len(gpu'[route'[u]]) : gpu'[route'[u]][i] = u
    BY <1>1, <2>5
  <2> QED
    BY <2>3, <2>4, <2>6 DEF GpuOrder
<1>16. (\A x \in Queues : sem[x] < next)'
  <2>1. t < next
    BY <1>2, <1>5 DEF TicketOrder, TicketsOK, TypeOK, Tickets
  <2> QED
    BY <1>1, <1>8, <2>1 DEF TicketOrder
<1>17. ProgressSound'
  <2> SUFFICES ASSUME NEW u \in Tickets, Pending(u)', NEW x \in Signals(u)' PROVE sem'[x] < u
    BY DEF ProgressSound
  <2>1. u # t /\ Pending(u) /\ x \in Signals(u) /\ sem[x] < u
    BY <1>1, <1>9, <1>10 DEF TicketOrder, ProgressSound, Pending, Signals
  <2>2. x \in Queues
    BY <2>1, TimelineAssumption DEF TicketOrder, TicketsOK, Queues, Pending, Signals
  <2>3. CASE x \notin Signals(t)
    BY <1>8, <2>1, <2>2, <2>3
  <2>4. CASE x \in Signals(t)
    <3>1. by[u] = by[t] /\ route[u] = route[t]
      BY <1>2, <1>5, <2>1, <2>4, TimelineAssumption
         DEF TicketOrder, TicketsOK, SeparateQueues, Pending, Signals
    <3>2. CASE stage[u] = "issued"
      <4>1. PICK i \in 1..Len(gpu[q]) : gpu[q][i] = u
        BY <1>5, <3>1, <3>2 DEF TicketOrder, GpuOrder
      <4>2. i \in 2..Len(gpu[q])
        BY <1>2, <2>1, <4>1
      <4> QED
        BY <1>8, <1>14, <2>2, <2>4, <4>1, <4>2
    <3>3. CASE stage[u] # "issued"
      <4>1. ~(u < t)
        BY <1>2, <1>5, <1>6, <2>1, <3>1, <3>3 DEF TicketOrder, IssueOrder, Pending
      <4> QED
        BY <1>2, <1>8, <2>1, <2>2, <2>4, <4>1 DEF Tickets
    <3> QED
      BY <3>2, <3>3
  <2> QED
    BY <2>3, <2>4
<1> QED
  BY <1>11, <1>12, <1>13, <1>15, <1>16, <1>17 DEF TicketOrder, SeparateQueues

LEMMA TicketOrderStep ==
  TypeOK /\ TicketOrder /\ [TimelineNext]_timelineVars => TicketOrder'
<1> SUFFICES ASSUME TypeOK, TicketOrder, [TimelineNext]_timelineVars PROVE TicketOrder'
  OBVIOUS
<1>1. CASE UNCHANGED timelineVars
  BY <1>1, OrderQuiet DEF timelineVars
<1>2. ASSUME NEW c \in Contexts, CreateContext(c) \/ Detach(c) PROVE TicketOrder'
  BY <1>2, OrderQuiet DEF CreateContext, Detach, tickets, worker, device
<1>3. ASSUME NEW c \in Contexts,
             DestroyFlush(c) \/ DestroyAwaitSubmitted(c) \/ DestroyTakeError(c) \/ DestroyAwaitSemaphore(c)
      PROVE  TicketOrder'
  BY <1>3, OrderQuiet
     DEF DestroyFlush, DestroyAwaitSubmitted, DestroyTakeError, DestroyAwaitSemaphore, tickets, worker, device
<1>4. ASSUME NEW c \in Contexts, ReadCompleted(c) \/ RaiseFloor(c) \/ Teardown(c) PROVE TicketOrder'
  <2>1. \A t \in Tickets : target'[t] \in {target[t], NoTarget}
    BY <1>4 DEF ReadCompleted, RaiseFloor, Teardown, tickets
  <2> QED
    BY <1>4, <2>1, OrderQuiet DEF ReadCompleted, RaiseFloor, Teardown, tickets, worker, device
<1>5. CASE BeginScan \/ AdvanceRetired
  <2>1. \A t \in Tickets : target'[t] \in {target[t], NoTarget}
    BY <1>5 DEF BeginScan, AdvanceRetired, PassTicket, StopAtTicket, CompareHorizon, StoreHorizon, tickets
  <2> QED
    BY <1>5, <2>1, OrderQuiet
       DEF BeginScan, AdvanceRetired, PassTicket, StopAtTicket, CompareHorizon, StoreHorizon,
           tickets, worker, device
<1>6. ASSUME NEW c \in Contexts, Submit(c) PROVE TicketOrder'
  BY <1>6, OrderAllocate, OrderRegister, OrderEnqueue, OrderRefused DEF Submit
<1> QED
  BY <1>1, <1>2, <1>3, <1>4, <1>5, <1>6, OrderWorkerSubmit, OrderWorkerFail, OrderComplete
     DEF TimelineNext, Destroy

(* Every context's tickets complete in the order they were taken, as long  *)
(* as contexts that compute and the one that renders are distinct.         *)
THEOREM TicketsCompleteInOrder == SeparateQueues => (Spec => []TicketOrder)
<1>1. SeparateQueues /\ Init => TicketOrder
  BY TimelineAssumption
     DEF Init, TicketOrder, TicketsOK, IssueOrder, ChannelOrder, GpuOrder, ProgressSound, Pending, Tickets
<1> QED
  BY <1>1, TicketOrderStep, TimelineTypes, PTL DEF Spec

(* gpu_progress(c) >= t proves that c's ticket t is done: waiting for a    *)
(* value never returns while its work is on the GPU.                       *)
THEOREM SemaphoresProveCompletion == SeparateQueues => (Spec => []ProgressSound)
<1>1. TicketOrder => ProgressSound
  BY DEF TicketOrder
<1> QED
  BY <1>1, TicketsCompleteInOrder, PTL

-----------------------------------------------------------------------------
(* A ticket that the prefix scan counts as retired has been handed out and *)
(* is no longer pending.                                                   *)
LEMMA AttributedIsDone ==
  ASSUME TypeOK, TicketOrder, NEW t \in Tickets, Attributed(t)
  PROVE  ~Pending(t) /\ t < next
<1>1. target[t] = route[t] /\ stage[t] \notin {"free", "allocated"}
  BY DEF Attributed, TicketOrder, TicketsOK
<1>2. route[t] \in Queues
  BY <1>1, TimelineAssumption DEF TicketOrder, TicketsOK, Queues
<1>3. sem[route[t]] >= t
  BY <1>1, <1>2, TimelineAssumption DEF Attributed, CompletedValue, TypeOK, Tickets
<1>4. ~Pending(t)
  BY <1>1, <1>2, <1>3 DEF TicketOrder, ProgressSound, Signals, TypeOK, Tickets
<1>5. t < next
  BY <1>1 DEF TicketOrder, TicketsOK, TypeOK, Tickets
<1> QED
  BY <1>4, <1>5

(* No step makes a ticket pending again, apart from handing it out.        *)
LEMMA PendingStep ==
  ASSUME TypeOK, TicketOrder, [TimelineNext]_timelineVars, NEW t \in Tickets, Pending(t)'
  PROVE  Pending(t) \/ t = next
<1>1. CASE UNCHANGED timelineVars
  BY <1>1 DEF timelineVars, Pending
<1>2. ASSUME NEW c \in Contexts, CreateContext(c) \/ Detach(c) \/ Destroy(c) PROVE Pending(t)
  BY <1>2 DEF CreateContext, Detach, Destroy, DestroyFlush, DestroyAwaitSubmitted, DestroyTakeError,
              DestroyAwaitSemaphore, ReadCompleted, RaiseFloor, Teardown, tickets, Pending
<1>3. ASSUME NEW c \in Contexts, NEW q \in Queues, Allocate(c, q) PROVE Pending(t) \/ t = next
  BY <1>3 DEF Allocate, Pending, TypeOK
<1>4. ASSUME NEW c \in Contexts, NEW u \in Tickets,
             Register(c, u) \/ Enqueue(c, u) \/ EnqueueRefused(c, u)
      PROVE  Pending(t)
  BY <1>4 DEF Register, Enqueue, EnqueueRefused, Pending, TypeOK
<1>5. CASE WorkerSubmit
  <2>1. channel # << >> /\ stage' = [stage EXCEPT ![Head(channel)] = "issued"]
    BY <1>5 DEF WorkerSubmit
  <2>2. stage[Head(channel)] = "queued"
    BY <2>1, ChannelElements, HeadTailElements DEF TicketOrder, ChannelOrder
  <2> QED
    BY <2>1, <2>2 DEF Pending, TypeOK
<1>6. CASE WorkerFail
  BY <1>6 DEF WorkerFail, Pending, TypeOK
<1>7. ASSUME NEW q \in Queues, Complete(q) PROVE Pending(t)
  <2>1. stage' = [stage EXCEPT ![Head(gpu[q])] = "done"]
    BY <1>7 DEF Complete
  <2> QED
    BY <2>1 DEF Pending, TypeOK
<1>8. CASE BeginScan \/ AdvanceRetired
  BY <1>8 DEF BeginScan, AdvanceRetired, PassTicket, StopAtTicket, CompareHorizon, StoreHorizon, tickets, Pending
<1> QED
  BY <1>1, <1>2, <1>3, <1>4, <1>5, <1>6, <1>7, <1>8
     DEF TimelineNext, Submit, AllocateCompute, AllocateRender, Queues

(* Tickets are never taken back.                                           *)
LEMMA NextStep ==
  ASSUME TypeOK, [TimelineNext]_timelineVars
  PROVE  next' >= next
<1> USE DEF TypeOK, tickets
<1>1. ASSUME NEW c \in Contexts, Submit(c) PROVE next' >= next
  BY <1>1 DEF Submit, AllocateCompute, AllocateRender, Allocate, Register, Enqueue, EnqueueRefused
<1>2. ASSUME NEW c \in Contexts, CreateContext(c) \/ Detach(c) \/ Destroy(c) PROVE next' >= next
  BY <1>2 DEF CreateContext, Detach, Destroy, DestroyFlush, DestroyAwaitSubmitted, DestroyTakeError,
              DestroyAwaitSemaphore, ReadCompleted, RaiseFloor, Teardown
<1>3. CASE WorkerSubmit \/ WorkerFail \/ BeginScan \/ AdvanceRetired \/ \E q \in Queues : Complete(q)
  BY <1>3 DEF WorkerSubmit, WorkerFail, BeginScan, AdvanceRetired, PassTicket, StopAtTicket,
              CompareHorizon, StoreHorizon, Complete
<1>4. CASE UNCHANGED timelineVars
  BY <1>4 DEF timelineVars
<1> QED
  BY <1>1, <1>2, <1>3, <1>4 DEF TimelineNext

(* How a step may move the horizon: not at all, by the store of a scan, or *)
(* by a teardown, which raises the floor before the cached value.          *)
LEMMA HorizonStep ==
  ASSUME TypeOK, [TimelineNext]_timelineVars
  PROVE  \/ UNCHANGED <<retired, floor>>
         \/ scan.step = "store" /\ retired' = scan.at /\ floor' = floor
         \/ \E c \in Contexts :
              /\ life[c] = "counted" /\ retired' = retired
              /\ floor' = IF lifted[c] > floor THEN lifted[c] ELSE floor
         \/ \E c \in Contexts :
              /\ life[c] = "floored" /\ floor' = floor
              /\ retired' = IF lifted[c] > retired THEN lifted[c] ELSE retired
<1> USE DEF horizon
<1>1. ASSUME NEW c \in Contexts, Submit(c) PROVE UNCHANGED <<retired, floor>>
  BY <1>1 DEF Submit, AllocateCompute, AllocateRender, Allocate, Register, Enqueue, EnqueueRefused
<1>2. ASSUME NEW c \in Contexts,
             \/ CreateContext(c) \/ Detach(c) \/ DestroyFlush(c) \/ DestroyAwaitSubmitted(c)
             \/ DestroyTakeError(c) \/ DestroyAwaitSemaphore(c) \/ ReadCompleted(c)
      PROVE UNCHANGED <<retired, floor>>
  BY <1>2 DEF CreateContext, Detach, DestroyFlush, DestroyAwaitSubmitted, DestroyTakeError,
              DestroyAwaitSemaphore, ReadCompleted
<1>3. CASE WorkerSubmit \/ WorkerFail \/ \E q \in Queues : Complete(q)
  BY <1>3 DEF WorkerSubmit, WorkerFail, Complete
<1>4. CASE BeginScan \/ PassTicket \/ StopAtTicket \/ CompareHorizon \/ UNCHANGED timelineVars
  BY <1>4 DEF BeginScan, PassTicket, StopAtTicket, CompareHorizon, timelineVars
<1>5. CASE StoreHorizon
  BY <1>5 DEF StoreHorizon
<1>6. ASSUME NEW c \in Contexts, RaiseFloor(c)
      PROVE  /\ life[c] = "counted" /\ retired' = retired
             /\ floor' = IF lifted[c] > floor THEN lifted[c] ELSE floor
  BY <1>6 DEF RaiseFloor
<1>7. ASSUME NEW c \in Contexts, Teardown(c)
      PROVE  /\ life[c] = "floored" /\ floor' = floor
             /\ retired' = IF lifted[c] > retired THEN lifted[c] ELSE retired
  BY <1>7 DEF Teardown
<1> QED
  BY <1>1, <1>2, <1>3, <1>4, <1>5, <1>6, <1>7 DEF TimelineNext, Destroy, AdvanceRetired

(* How a step may move a scan: begin or end it, or pass a ticket.          *)
LEMMA ScanStep ==
  ASSUME TypeOK, [TimelineNext]_timelineVars
  PROVE  \/ scan' = scan
         \/ scan' = NoScan
         \/ scan = NoScan /\ scan' = [step |-> "walk", at |-> ScanStart] /\ UNCHANGED <<retired, floor>>
         \/ scan.step = "walk" /\ scan'.step = "compare" /\ scan'.at = scan.at
         \/ scan.step = "walk" /\ scan' = [scan EXCEPT !.at = @ + 1] /\ Attributed(scan.at + 1)
              /\ scan.at + 1 \in Tickets
         \/ scan.step = "compare" /\ scan.at > retired /\ scan' = [scan EXCEPT !.step = "store"]
              /\ retired' = retired
<1> USE DEF horizon
<1>1. ASSUME NEW c \in Contexts, Submit(c) PROVE scan' = scan
  BY <1>1 DEF Submit, AllocateCompute, AllocateRender, Allocate, Register, Enqueue, EnqueueRefused
<1>2. ASSUME NEW c \in Contexts, CreateContext(c) \/ Detach(c) \/ Destroy(c) PROVE scan' = scan
  BY <1>2 DEF CreateContext, Detach, Destroy, DestroyFlush, DestroyAwaitSubmitted, DestroyTakeError,
              DestroyAwaitSemaphore, ReadCompleted, RaiseFloor, Teardown
<1>3. CASE WorkerSubmit \/ WorkerFail \/ UNCHANGED timelineVars \/ \E q \in Queues : Complete(q)
  BY <1>3 DEF WorkerSubmit, WorkerFail, Complete, timelineVars
<1>4. CASE BeginScan
  BY <1>4 DEF BeginScan
<1>5. CASE PassTicket
  BY <1>5 DEF PassTicket
<1>6. CASE StopAtTicket
  BY <1>6 DEF StopAtTicket, TypeOK
<1>7. CASE CompareHorizon
  BY <1>7 DEF CompareHorizon
<1>8. CASE StoreHorizon
  BY <1>8 DEF StoreHorizon
<1> QED
  BY <1>1, <1>2, <1>3, <1>4, <1>5, <1>6, <1>7, <1>8 DEF TimelineNext, AdvanceRetired

(* What a teardown does to its context on the way from the value it reads  *)
(* to the horizon.                                                         *)
LEMMA LiftedStep ==
  ASSUME TypeOK, [TimelineNext]_timelineVars, NEW c \in Contexts
  PROVE  \/ lifted'[c] = lifted[c]
              /\ (life'[c] = "counted" => life[c] = "counted")
              /\ (life'[c] = "floored" => life[c] = "floored" \/ (life[c] = "counted" /\ floor' >= lifted[c]))
         \/ life[c] = "finishing" /\ life'[c] = "counted" /\ lifted'[c] = sem[c] /\ UNCHANGED <<stage, route>>
<1> USE DEF horizon
<1>1. ASSUME NEW d \in Contexts, Submit(d) PROVE UNCHANGED <<life, lifted>>
  BY <1>1 DEF Submit, AllocateCompute, AllocateRender, Allocate, Register, Enqueue, EnqueueRefused
<1>2. CASE WorkerSubmit \/ WorkerFail \/ UNCHANGED timelineVars \/ \E q \in Queues : Complete(q)
  BY <1>2 DEF WorkerSubmit, WorkerFail, Complete, timelineVars
<1>3. CASE BeginScan \/ AdvanceRetired
  BY <1>3 DEF BeginScan, AdvanceRetired, PassTicket, StopAtTicket, CompareHorizon, StoreHorizon
<1>4. ASSUME NEW d \in Contexts,
             \/ CreateContext(d) \/ Detach(d) \/ DestroyFlush(d) \/ DestroyAwaitSubmitted(d)
             \/ DestroyTakeError(d) \/ DestroyAwaitSemaphore(d)
      PROVE  /\ lifted' = lifted
             /\ life'[c] \in {"counted", "floored"} => life'[c] = life[c]
  BY <1>4 DEF CreateContext, Detach, DestroyFlush, DestroyAwaitSubmitted, DestroyTakeError,
              DestroyAwaitSemaphore, TypeOK
<1>5. ASSUME NEW d \in Contexts, Teardown(d)
      PROVE  /\ lifted' = lifted
             /\ life'[c] \in {"counted", "floored"} => life'[c] = life[c]
  BY <1>5 DEF Teardown, TypeOK
<1>6. ASSUME NEW d \in Contexts, RaiseFloor(d)
      PROVE  /\ lifted' = lifted
             /\ life'[c] = "counted" => life[c] = "counted"
             /\ life'[c] = "floored" => life[c] = "floored" \/ (life[c] = "counted" /\ floor' >= lifted[c])
  BY <1>6 DEF RaiseFloor, TypeOK
<1>7. ASSUME NEW d \in Contexts, ReadCompleted(d)
      PROVE  \/ life'[c] = life[c] /\ lifted'[c] = lifted[c]
             \/ life[c] = "finishing" /\ life'[c] = "counted" /\ lifted'[c] = sem[c] /\ UNCHANGED <<stage, route>>
  BY <1>7 DEF ReadCompleted, TypeOK, tickets
<1> QED
  BY <1>1, <1>2, <1>3, <1>4, <1>5, <1>6, <1>7 DEF TimelineNext, Destroy

(* Why the horizon does not fall although the cached value does: whatever  *)
(* a teardown adds to it after a scan has compared is below the floor.     *)
FloorHolds ==
  /\ scan.step = "store" => retired <= scan.at \/ retired <= floor
  /\ \A c \in Contexts : life[c] = "floored" => lifted[c] <= floor

LEMMA FloorHoldsStep ==
  TypeOK /\ TypeOK' /\ FloorHolds /\ [TimelineNext]_timelineVars => FloorHolds'
<1> SUFFICES ASSUME TypeOK, TypeOK', FloorHolds, [TimelineNext]_timelineVars PROVE FloorHolds'
  OBVIOUS
<1>1. /\ retired \in Int /\ floor \in Int /\ retired' \in Int /\ floor' \in Int
      /\ scan.at \in Int /\ scan \in [step : ScanSteps, at : 0..MaxTicket]
      /\ \A c \in Contexts : lifted[c] \in Int
  BY DEF TypeOK
<1>2. floor' >= floor
  BY <1>1, HorizonStep
<1>3. ASSUME NEW c \in Contexts, life'[c] = "floored" PROVE lifted'[c] <= floor'
  <2>1. lifted'[c] = lifted[c] /\ (lifted[c] <= floor \/ floor' >= lifted[c])
    BY <1>3, LiftedStep DEF FloorHolds
  <2> QED
    BY <1>1, <1>2, <2>1
<1>4. ASSUME scan'.step = "store" PROVE retired' <= scan'.at \/ retired' <= floor'
  <2>1. CASE scan' = scan
    <3>1. CASE UNCHANGED <<retired, floor>>
      BY <1>4, <2>1, <3>1 DEF FloorHolds
    <3>2. CASE retired' = scan.at
      BY <1>1, <2>1, <3>2
    <3>3. CASE retired' = retired
      BY <1>1, <1>2, <1>4, <2>1, <3>3 DEF FloorHolds
    <3>4. ASSUME NEW c \in Contexts, life[c] = "floored", floor' = floor,
                 retired' = IF lifted[c] > retired THEN lifted[c] ELSE retired
          PROVE  retired' <= scan.at \/ retired' <= floor'
      <4>1. lifted[c] <= floor /\ (retired <= scan.at \/ retired <= floor)
        BY <1>4, <2>1, <3>4 DEF FloorHolds
      <4> QED
        BY <1>1, <3>4, <4>1
    <3> QED
      BY <2>1, <3>1, <3>2, <3>3, <3>4, HorizonStep
  <2>2. CASE scan.step = "compare" /\ scan.at > retired /\ scan' = [scan EXCEPT !.step = "store"]
             /\ retired' = retired
    BY <1>1, <2>2
  <2> QED
    BY <1>1, <1>4, <2>1, <2>2, ScanStep DEF NoScan
<1> QED
  BY <1>3, <1>4 DEF FloorHolds

LEMMA FloorAlwaysHolds == Spec => []FloorHolds
<1>1. Init => FloorHolds
  BY DEF Init, FloorHolds, NoScan
<1> QED
  BY <1>1, FloorHoldsStep, TimelineTypes, PTL DEF Spec

(* The scan's start never moves back.                                      *)
LEMMA ScanStartGrows ==
  ASSUME TypeOK, TypeOK', FloorHolds, [TimelineNext]_timelineVars
  PROVE  ScanStart \in Int /\ ScanStart' \in Int /\ ScanStart' >= ScanStart
<1>1. /\ retired \in Int /\ floor \in Int /\ retired' \in Int /\ floor' \in Int /\ scan.at \in Int
      /\ \A c \in Contexts : lifted[c] \in Int
  BY DEF TypeOK
<1>2. floor' >= floor
  BY <1>1, HorizonStep
<1>3. retired' >= retired \/ retired <= floor
  BY <1>1, HorizonStep DEF FloorHolds
<1> QED
  BY <1>1, <1>2, <1>3 DEF ScanStart

(* The horizon that reclamation reads never moves backwards, however       *)
(* contexts share queues and whatever is torn down in the middle of a scan.*)
THEOREM RetiredHorizonIsMonotone == Spec => HorizonMonotone
<1>1. TypeOK /\ TypeOK' /\ FloorHolds /\ [TimelineNext]_timelineVars => [ScanStart' >= ScanStart]_timelineVars
  BY ScanStartGrows
<1> QED
  BY <1>1, FloorAlwaysHolds, TimelineTypes, PTL DEF Spec, HorizonMonotone

-----------------------------------------------------------------------------
(* What a scan has passed is finished, like what is below the horizon.     *)
ScanSound ==
  scan.step # "idle" => \A t \in Tickets : floor < t /\ t <= scan.at => ~Pending(t) /\ t < next

LEMMA HorizonSoundStep ==
  TypeOK /\ TicketOrder /\ FloorHolds /\ HorizonSoundAboveFloor /\ ScanSound /\ [TimelineNext]_timelineVars
    => HorizonSoundAboveFloor' /\ ScanSound'
<1> SUFFICES ASSUME TypeOK, TicketOrder, FloorHolds, HorizonSoundAboveFloor, ScanSound,
                    [TimelineNext]_timelineVars, NEW t \in Tickets, floor' < t
             PROVE  /\ t <= ScanStart' => ~Pending(t)' /\ t < next'
                    /\ scan'.step # "idle" /\ t <= scan'.at => ~Pending(t)' /\ t < next'
  BY DEF HorizonSoundAboveFloor, ScanSound
<1> USE DEF Tickets
<1>0. /\ TypeOK' /\ floor \in Int /\ floor' \in Int /\ retired \in Int /\ retired' \in Int
      /\ t \in Int /\ scan.at \in Int /\ scan \in [step : ScanSteps, at : 0..MaxTicket]
      /\ \A c \in Contexts : lifted[c] \in Int
  <2>1. TypeOK'
    BY TypeStep
  <2> QED
    BY <2>1, SMTT(30) DEF TypeOK
<1>1. (~Pending(t) /\ t < next) => (~Pending(t)' /\ t < next')
  <2>1. next' >= next
    BY NextStep
  <2>2. next \in Int /\ next' \in Int
    BY <1>0 DEF TypeOK
  <2>3. Pending(t)' => Pending(t) \/ t = next
    BY PendingStep
  <2> QED
    BY <1>0, <2>1, <2>2, <2>3
<1>2. floor < t
  BY <1>0, HorizonStep
<1>3. t <= ScanStart => ~Pending(t) /\ t < next
  BY <1>2 DEF HorizonSoundAboveFloor
<1>4. scan.step # "idle" /\ t <= scan.at => ~Pending(t) /\ t < next
  BY <1>2 DEF ScanSound
<1>5. ASSUME t <= ScanStart' PROVE ~Pending(t)' /\ t < next'
  <2>1. t <= retired'
    BY <1>0, <1>5 DEF ScanStart
  <2>2. t <= retired \/ (scan.step = "store" /\ t <= scan.at)
    BY <1>0, <1>2, <2>1, HorizonStep DEF FloorHolds
  <2> QED
    BY <1>0, <1>1, <1>2, <1>3, <1>4, <2>2 DEF ScanStart
<1>6. ASSUME scan'.step # "idle", t <= scan'.at PROVE ~Pending(t)' /\ t < next'
  <2>1. CASE scan.step # "idle" /\ scan'.at = scan.at
    BY <1>1, <1>4, <1>6, <2>1
  <2>2. CASE scan'.at = ScanStart
    BY <1>1, <1>3, <1>6, <2>2
  <2>3. CASE scan.step = "walk" /\ scan'.at = scan.at + 1 /\ Attributed(scan.at + 1) /\ scan.at + 1 \in Tickets
    <3>1. CASE t = scan.at + 1
      BY <1>1, <2>3, <3>1, AttributedIsDone
    <3>2. CASE t # scan.at + 1
      BY <1>0, <1>1, <1>4, <1>6, <2>3, <3>2
    <3> QED
      BY <3>1, <3>2
  <2> QED
    BY <1>0, <1>6, <2>1, <2>2, <2>3, ScanStep DEF NoScan
<1> QED
  BY <1>5, <1>6

(* Above the floor left by destroyed contexts, every ticket at or below    *)
(* the retired horizon has been handed out and is finished on the GPU or   *)
(* will never reach it.                                                    *)
THEOREM RetiredHorizonIsSound == SeparateQueues => (Spec => []HorizonSoundAboveFloor)
<1>1. Init => HorizonSoundAboveFloor /\ ScanSound
  BY DEF Init, HorizonSoundAboveFloor, ScanSound, NoScan, ScanStart, Tickets
<1> QED
  BY <1>1, FloorAlwaysHolds, HorizonSoundStep, TimelineTypes, TicketsCompleteInOrder, PTL DEF Spec

-----------------------------------------------------------------------------
(* Why the horizon loses nothing: what is still below a ticket's wait      *)
(* target, and who may take the target away.                               *)
Lost == \E t \in Tickets : stage[t] = "failed"

(* Tickets are handed out without gaps by contexts that live, and recorded *)
(* as the last of their context ...                                        *)
TicketsAreRecorded ==
  \A t \in Tickets :
    /\ t < next => stage[t] # "free"
    /\ stage[t] # "free" => life[by[t]] # "unborn"
    /\ stage[t] \in {"allocated", "registered"} => life[by[t]] = "live"
    /\ stage[t] \notin {"free", "allocated"} => t <= last[by[t]]

(* ... a context is torn down once its work is done, unless a submit has   *)
(* failed ...                                                              *)
TeardownDrains ==
  /\ latched => Lost
  /\ \A c \in Contexts : life[c] \in {"finishing", "counted", "floored", "gone"} =>
       Lost \/ \A t \in Tickets : by[t] = c => ~Pending(t)
  /\ \A c \in Contexts : life[c] = "gone" => \A t \in Tickets : target[t] # c

(* ... at a value that covers its work ...                                 *)
LiftedCovers ==
  \A c \in Contexts : life[c] \in {"counted", "floored"} =>
    \A t \in Tickets : stage[t] = "done" /\ route[t] = c => t <= lifted[c] \/ Lost

(* ... and a ticket above the horizon keeps the target that will prove it. *)
TargetsStay ==
  /\ retired < next /\ floor < next /\ scan.at < next
  /\ \A c \in Contexts : lifted[c] < next
  /\ \A t \in Tickets : stage[t] = "done" => sem[route[t]] >= t
  /\ \A t \in Tickets :
       t > ScanStart /\ stage[t] \in {"registered", "queued", "issued", "done"} =>
         target[t] = route[t] \/ Lost

HorizonOrder == TicketsAreRecorded /\ TeardownDrains /\ LiftedCovers /\ TargetsStay

(* Whose a ticket is that has been handed out.                             *)
LEMMA TicketOwner ==
  ASSUME TicketOrder, NEW t \in Tickets, stage[t] # "free"
  PROVE  by[t] \in Contexts /\ route[t] \in Queues /\ (route[t] = by[t] \/ route[t] = Owner)
  BY TimelineAssumption DEF TicketOrder, TicketsOK, Queues

(* A failed submit is not forgotten.                                       *)
LEMMA LostStays ==
  ASSUME TypeOK, TicketOrder, Lost, [TimelineNext]_timelineVars PROVE Lost'
<1> PICK t \in Tickets : stage[t] = "failed"
  BY DEF Lost
<1> SUFFICES stage'[t] = "failed"
  BY DEF Lost
<1> USE DEF TypeOK, tickets
<1>1. ASSUME NEW c \in Contexts, Submit(c) PROVE stage'[t] = "failed"
  <2>1. t # next
    <3>1. next \in Int /\ (t >= next => stage[t] = "free")
      BY DEF TicketOrder, TicketsOK
    <3> QED
      BY <3>1
  <2>2. ASSUME NEW q, Allocate(c, q) PROVE stage'[t] = "failed"
    BY <2>1, <2>2 DEF Allocate
  <2>3. ASSUME NEW u \in Tickets, Register(c, u) \/ Enqueue(c, u) \/ EnqueueRefused(c, u)
        PROVE  stage'[t] = "failed"
    BY <2>3 DEF Register, Enqueue, EnqueueRefused
  <2> QED
    BY <1>1, <2>2, <2>3 DEF Submit, AllocateCompute, AllocateRender
<1>2. ASSUME NEW c \in Contexts, CreateContext(c) \/ Detach(c) \/ Destroy(c)
      PROVE  stage'[t] = "failed"
  BY <1>2 DEF CreateContext, Detach, Destroy, DestroyFlush, DestroyAwaitSubmitted, DestroyTakeError,
              DestroyAwaitSemaphore, ReadCompleted, RaiseFloor, Teardown
<1>3. CASE WorkerSubmit \/ WorkerFail
  <2>1. channel # << >> /\ stage[Head(channel)] = "queued"
    BY <1>3, ChannelElements DEF WorkerSubmit, WorkerFail, TicketOrder, ChannelOrder
  <2>2. Head(channel) # t
    BY <2>1
  <2> QED
    BY <1>3, <2>2 DEF WorkerSubmit, WorkerFail
<1>4. ASSUME NEW q \in Queues, Complete(q) PROVE stage'[t] = "failed"
  <2>1. stage[Head(gpu[q])] = "issued"
    <3>1. gpu[q] # << >> /\ gpu[q] \in Seq(Tickets)
      BY <1>4, GpuElements DEF Complete
    <3>2. Head(gpu[q]) = gpu[q][1] /\ 1 \in 1..Len(gpu[q])
      BY <3>1, HeadTailElements
    <3> QED
      BY <3>2 DEF TicketOrder, GpuOrder
  <2> QED
    BY <1>4, <2>1 DEF Complete
<1>5. CASE BeginScan \/ AdvanceRetired \/ UNCHANGED timelineVars
  BY <1>5 DEF BeginScan, AdvanceRetired, PassTicket, StopAtTicket, CompareHorizon, StoreHorizon, timelineVars
<1> QED
  BY <1>1, <1>2, <1>3, <1>4, <1>5 DEF TimelineNext

LEMMA RecordedStep ==
  ASSUME TypeOK, TicketOrder, TicketsAreRecorded, [TimelineNext]_timelineVars
  PROVE  TicketsAreRecorded'
<1> USE DEF TicketsAreRecorded
<1>0. /\ next \in Int /\ last \in [Queues -> 0..MaxTicket] /\ MaxTicket \in Nat
      /\ stage \in [Tickets -> Stages] /\ life \in [Contexts -> Lives]
      /\ \A t \in Tickets : t >= next => stage[t] = "free"
  BY TimelineAssumption DEF TypeOK, TicketOrder, TicketsOK
<1>1. ASSUME NEW c \in Contexts, NEW q \in Queues, Allocate(c, q) PROVE TicketsAreRecorded'
  BY <1>0, <1>1, TicketOwner DEF Allocate, worker, device, horizon, Tickets, TypeOK
<1>2. ASSUME NEW c \in Contexts, NEW t \in Tickets, Register(c, t) PROVE TicketsAreRecorded'
  <2>1. \A u \in Tickets : stage[u] \notin {"free", "allocated"} => u <= last'[by[u]]
    <3> SUFFICES ASSUME NEW u \in Tickets, stage[u] \notin {"free", "allocated"} PROVE u <= last'[by[u]]
      OBVIOUS
    <3>1. by[u] \in Contexts /\ by[u] \in Queues
      BY TicketOwner DEF Queues
    <3>2. CASE by[u] \in Signals(t)
      <4>1. by[u] = by[t]
        BY <1>2, <3>1, <3>2, TimelineAssumption DEF Signals, Register, TicketOrder, TicketsOK
      <4>2. ~(t < u)
        BY <1>2, <3>1, <4>1, TimelineAssumption DEF TicketOrder, IssueOrder, Register
      <4> QED
        BY <1>2, <3>1, <3>2, <4>2 DEF Register, Tickets
    <3>3. CASE by[u] \notin Signals(t)
      BY <1>2, <3>1, <3>3 DEF Register
    <3> QED
      BY <3>2, <3>3
  <2>2. t <= last'[by[t]]
    BY <1>2, TicketOwner DEF Register, Signals, Queues, Tickets
  <2> QED
    BY <1>0, <1>2, <2>1, <2>2 DEF Register
<1>3. ASSUME NEW c \in Contexts, NEW t \in Tickets, Enqueue(c, t) \/ EnqueueRefused(c, t)
      PROVE  TicketsAreRecorded'
  BY <1>0, <1>3 DEF Enqueue, EnqueueRefused
<1>4. ASSUME NEW c \in Contexts, CreateContext(c) PROVE TicketsAreRecorded'
  BY <1>0, <1>4, TicketOwner DEF CreateContext, tickets
<1>5. ASSUME NEW c \in Contexts, Detach(c) PROVE TicketsAreRecorded'
  BY <1>0, <1>5, TicketOwner DEF Detach, tickets, Submitting
<1>6. ASSUME NEW c \in Contexts, Destroy(c) PROVE TicketsAreRecorded'
  BY <1>0, <1>6, TicketOwner
     DEF Destroy, DestroyFlush, DestroyAwaitSubmitted, DestroyTakeError, DestroyAwaitSemaphore,
         ReadCompleted, RaiseFloor, Teardown, tickets
<1>7. CASE WorkerSubmit \/ WorkerFail
  <2>1. channel # << >> /\ Head(channel) \in Tickets /\ stage[Head(channel)] = "queued"
    BY <1>7, ChannelElements DEF WorkerSubmit, WorkerFail, TicketOrder, ChannelOrder
  <2> QED
    BY <1>0, <1>7, <2>1 DEF WorkerSubmit, WorkerFail
<1>8. ASSUME NEW q \in Queues, Complete(q) PROVE TicketsAreRecorded'
  <2>1. Head(gpu[q]) \in Tickets /\ stage[Head(gpu[q])] = "issued"
    BY <1>8, GpuElements DEF Complete, TicketOrder, GpuOrder
  <2> QED
    BY <1>0, <1>8, <2>1 DEF Complete
<1>9. CASE BeginScan \/ AdvanceRetired \/ UNCHANGED timelineVars
  BY <1>9 DEF BeginScan, AdvanceRetired, PassTicket, StopAtTicket, CompareHorizon, StoreHorizon,
              tickets, timelineVars
<1> QED
  BY <1>1, <1>2, <1>3, <1>4, <1>5, <1>6, <1>7, <1>8, <1>9
     DEF TimelineNext, Submit, AllocateCompute, AllocateRender, Queues

LEMMA DrainsStep ==
  ASSUME TypeOK, TicketOrder, TicketsAreRecorded, TeardownDrains, [TimelineNext]_timelineVars
  PROVE  TeardownDrains'
<1> USE DEF TeardownDrains
<1>0. /\ Lost => Lost'
      /\ \A t \in Tickets : Pending(t)' => Pending(t) \/ t = next
  BY LostStays, PendingStep
<1>1. ASSUME NEW c \in Contexts, NEW q \in Queues, Allocate(c, q) PROVE TeardownDrains'
  <2>1. life[c] = "live" /\ by'[next] = c /\ \A t \in Tickets : t # next => by'[t] = by[t]
    BY <1>1 DEF Allocate, TypeOK
  <2>2. \A d \in Contexts : life[d] \in {"finishing", "counted", "floored", "gone"} =>
          Lost' \/ \A t \in Tickets : by'[t] = d => ~Pending(t)'
    BY <1>0, <2>1
  <2>3. UNCHANGED <<life, latched, target>>
    BY <1>1 DEF Allocate, worker
  <2> QED
    BY <1>0, <2>2, <2>3
<1>2. ASSUME NEW c \in Contexts, NEW t \in Tickets, Register(c, t) PROVE TeardownDrains'
  <2>1. life[by[t]] = "live" /\ (route[t] = by[t] \/ route[t] = Owner)
    BY <1>2, TicketOwner DEF Register, TicketsAreRecorded
  <2>2. \A d \in Contexts : life[d] = "gone" => route[t] # d
    BY <2>1, TimelineAssumption
  <2>3. \A u \in Tickets : Pending(u)' => Pending(u)
    BY <1>2 DEF Register, Pending, TypeOK
  <2> QED
    BY <1>0, <1>2, <2>2, <2>3 DEF Register, worker, TypeOK
<1>3. ASSUME NEW c \in Contexts, NEW t \in Tickets, Enqueue(c, t) \/ EnqueueRefused(c, t)
      PROVE  TeardownDrains'
  <2>1. \A u \in Tickets : Pending(u)' => Pending(u)
    BY <1>3 DEF Enqueue, EnqueueRefused, Pending, TypeOK
  <2> QED
    BY <1>0, <1>3, <2>1 DEF Enqueue, EnqueueRefused
<1>4. ASSUME NEW c \in Contexts,
             \/ CreateContext(c) \/ Detach(c) \/ DestroyFlush(c) \/ DestroyAwaitSubmitted(c)
      PROVE  TeardownDrains'
  <2>1. UNCHANGED <<stage, by, target>> /\ (latched' = FALSE \/ latched' = latched)
    BY <1>4 DEF CreateContext, Detach, DestroyFlush, DestroyAwaitSubmitted, tickets, worker
  <2>2. \A d \in Contexts : life'[d] \in {"finishing", "counted", "floored", "gone"} => life'[d] = life[d]
    BY <1>4 DEF CreateContext, Detach, DestroyFlush, DestroyAwaitSubmitted, TypeOK
  <2>3. \A u \in Tickets : Pending(u)' <=> Pending(u)
    BY <2>1 DEF Pending
  <2> QED
    BY <1>0, <2>1, <2>2, <2>3
<1>5. ASSUME NEW c \in Contexts, DestroyTakeError(c) PROVE TeardownDrains'
  BY <1>0, <1>5 DEF DestroyTakeError, tickets, Pending, TypeOK
<1>6. ASSUME NEW c \in Contexts, DestroyAwaitSemaphore(c) PROVE TeardownDrains'
  <2>1. ASSUME NEW t \in Tickets, by[t] = c, Pending(t) PROVE FALSE
    <3>1. life[c] = "submitted" /\ sem[c] >= last[c]
      BY <1>6 DEF DestroyAwaitSemaphore
    <3>2. stage[t] \notin {"free", "allocated"}
      BY <2>1, <3>1 DEF TicketsAreRecorded, Pending
    <3>3. t <= last[c]
      BY <2>1, <3>2 DEF TicketsAreRecorded
    <3>4. sem[c] < t
      BY <2>1 DEF TicketOrder, ProgressSound, Signals
    <3> QED
      BY <3>1, <3>3, <3>4 DEF TypeOK, Queues, Tickets
  <2> QED
    BY <1>0, <1>6, <2>1 DEF DestroyAwaitSemaphore, tickets, worker, Pending, TypeOK
<1>7. ASSUME NEW c \in Contexts, ReadCompleted(c) \/ RaiseFloor(c) PROVE TeardownDrains'
  <2>1. UNCHANGED <<stage, by, target, latched>>
    BY <1>7 DEF ReadCompleted, RaiseFloor, tickets, worker
  <2>2. \A d \in Contexts :
          /\ life'[d] = "gone" => life[d] = "gone"
          /\ life'[d] \in {"finishing", "counted", "floored", "gone"} =>
               life[d] \in {"finishing", "counted", "floored", "gone"}
    BY <1>7 DEF ReadCompleted, RaiseFloor, TypeOK
  <2>3. \A u \in Tickets : Pending(u)' <=> Pending(u)
    BY <2>1 DEF Pending
  <2> QED
    BY <1>0, <2>1, <2>2, <2>3
<1>13. ASSUME NEW c \in Contexts, Teardown(c) PROVE TeardownDrains'
  <2>1. \A t \in Tickets : target'[t] # c /\ \A d \in Contexts : target'[t] = d => target[t] = d
    BY <1>13, TimelineAssumption DEF Teardown
  <2> QED
    BY <1>0, <1>13, <2>1, ZenonT(30) DEF Teardown, worker, Pending, TypeOK
<1>8. CASE WorkerSubmit
  <2>1. \A u \in Tickets : Pending(u)' => Pending(u)
    <3>1. stage[Head(channel)] = "queued"
      BY <1>8, ChannelElements DEF WorkerSubmit, TicketOrder, ChannelOrder
    <3> QED
      BY <1>8, <3>1 DEF WorkerSubmit, Pending, TypeOK
  <2> QED
    BY <1>0, <1>8, <2>1 DEF WorkerSubmit
<1>9. CASE WorkerFail
  <2>1. Head(channel) \in Tickets /\ stage'[Head(channel)] = "failed"
    BY <1>9, ChannelElements DEF WorkerFail, TypeOK
  <2>2. Lost'
    BY <2>1 DEF Lost
  <2> QED
    BY <1>9, <2>2 DEF WorkerFail
<1>10. ASSUME NEW q \in Queues, Complete(q) PROVE TeardownDrains'
  <2>1. \A u \in Tickets : Pending(u)' => Pending(u)
    BY <1>10, GpuElements DEF Complete, Pending, TypeOK
  <2> QED
    BY <1>0, <1>10, <2>1 DEF Complete, worker
<1>11. CASE BeginScan \/ AdvanceRetired
  <2>1. \A t \in Tickets, d \in Contexts : target'[t] = d => target[t] = d
    BY <1>11, TimelineAssumption
       DEF BeginScan, AdvanceRetired, PassTicket, StopAtTicket, CompareHorizon, StoreHorizon, tickets
  <2>2. UNCHANGED <<stage, by, latched, life>>
    BY <1>11 DEF BeginScan, AdvanceRetired, PassTicket, StopAtTicket, CompareHorizon, StoreHorizon,
                 tickets, worker
  <2> QED
    BY <1>0, <2>1, <2>2 DEF Pending
<1>12. CASE UNCHANGED timelineVars
  BY <1>0, <1>12 DEF timelineVars, Pending, TypeOK
<1> QED
  BY <1>1, <1>2, <1>3, <1>4, <1>5, <1>6, <1>7, <1>8, <1>9, <1>10, <1>11, <1>12, <1>13
     DEF TimelineNext, Submit, Destroy, AllocateCompute, AllocateRender, Queues

(* Semaphores only grow, and cover what the GPU completes.                 *)
LEMMA CompleteSignals ==
  ASSUME TypeOK, TicketOrder, NEW q \in Queues, Complete(q)
  PROVE  /\ Head(gpu[q]) \in Tickets /\ stage[Head(gpu[q])] = "issued"
         /\ sem'[route[Head(gpu[q])]] >= Head(gpu[q])
         /\ \A x \in Queues : sem'[x] >= sem[x]
<1> DEFINE t == Head(gpu[q])
<1>1. t \in Tickets /\ stage[t] = "issued"
  BY GpuElements DEF Complete, TicketOrder, GpuOrder
<1>2. by[t] \in Queues /\ route[t] \in Queues
  BY <1>1, TicketOwner DEF Queues
<1>3. sem[by[t]] < t /\ sem[route[t]] < t
  BY <1>1 DEF TicketOrder, ProgressSound, Pending, Signals
<1> HIDE DEF t
<1>4. sem \in [Queues -> 0..MaxTicket] /\ t \in Int /\ sem[by[t]] \in Int /\ sem[route[t]] \in Int
  BY <1>1, <1>2 DEF TypeOK, Tickets
<1>5. sem' = [x \in Queues |-> IF x = route[t] THEN t ELSE IF x = by[t] THEN t ELSE sem[x]]
  BY <1>3, <1>4 DEF Complete, SignalOutcomes, t
<1>6. sem'[route[t]] = t
  BY <1>2, <1>5
<1>7. \A x \in Queues : sem'[x] >= sem[x]
  BY <1>3, <1>4, <1>5
<1> QED
  BY <1>1, <1>4, <1>6, <1>7 DEF t

(* ... and the horizon, and what is on its way into it, stay below the     *)
(* next ticket.                                                            *)
LEMMA HorizonBelowNext ==
  ASSUME TypeOK, TypeOK', TicketOrder, TargetsStay, [TimelineNext]_timelineVars
  PROVE  /\ retired' < next' /\ floor' < next' /\ scan'.at < next'
         /\ \A c \in Contexts : lifted'[c] < next'
<1>1. /\ retired \in Int /\ floor \in Int /\ next \in Int /\ next' \in Int /\ next >= 1
      /\ scan.at \in Int /\ scan \in [step : ScanSteps, at : 0..MaxTicket]
      /\ next' >= next
  <2>1. next' >= next
    BY NextStep
  <2> QED
    BY <2>1, SMTT(30) DEF TypeOK
<1>2. /\ retired < next /\ floor < next /\ scan.at < next
      /\ \A c \in Contexts : lifted[c] \in Int /\ lifted[c] < next
  BY DEF TypeOK, TargetsStay
<1>3. retired' < next' /\ floor' < next'
  BY <1>1, <1>2, HorizonStep
<1>4. scan'.at < next'
  <2>1. ScanStart \in Int /\ ScanStart < next
    BY <1>1, <1>2 DEF ScanStart
  <2>2. Attributed(scan.at + 1) /\ scan.at + 1 \in Tickets => scan.at + 1 < next
    BY AttributedIsDone
  <2>3. scan'.at \in {scan.at, 0, ScanStart} \/ (scan'.at = scan.at + 1 /\ scan.at + 1 < next)
    BY <1>1, <2>2, ScanStep DEF NoScan
  <2> QED
    BY <1>1, <1>2, <2>1, <2>3
<1>5. ASSUME NEW c \in Contexts PROVE lifted'[c] < next'
  <2>1. sem[c] \in Int /\ sem[c] < next
    BY DEF TypeOK, Queues, TicketOrder
  <2>2. lifted'[c] \in {lifted[c], sem[c]}
    BY LiftedStep
  <2> QED
    BY <1>1, <1>2, <2>1, <2>2
<1> QED
  BY <1>3, <1>4, <1>5

(* A ticket that is done was so before, or on its queue.                   *)
LEMMA DoneStep ==
  ASSUME TypeOK, TicketOrder, [TimelineNext]_timelineVars, NEW t \in Tickets, stage'[t] = "done"
  PROVE  stage[t] \in {"done", "issued"} /\ route'[t] = route[t]
<1> DEFINE Goal == stage[t] \in {"done", "issued"} /\ route'[t] = route[t]
<1> USE DEF TypeOK, tickets
<1>1. ASSUME NEW c \in Contexts, NEW q \in Queues, Allocate(c, q) PROVE Goal
  BY <1>1 DEF Allocate
<1>2. ASSUME NEW c \in Contexts, NEW u \in Tickets,
             Register(c, u) \/ Enqueue(c, u) \/ EnqueueRefused(c, u)
      PROVE  Goal
  BY <1>2 DEF Register, Enqueue, EnqueueRefused
<1>3. ASSUME NEW c \in Contexts, CreateContext(c) \/ Detach(c) \/ Destroy(c) PROVE Goal
  BY <1>3 DEF CreateContext, Detach, Destroy, DestroyFlush, DestroyAwaitSubmitted, DestroyTakeError,
              DestroyAwaitSemaphore, ReadCompleted, RaiseFloor, Teardown
<1>4. CASE WorkerSubmit \/ WorkerFail
  BY <1>4 DEF WorkerSubmit, WorkerFail
<1>5. ASSUME NEW q \in Queues, Complete(q) PROVE Goal
  <2>1. stage[Head(gpu[q])] = "issued" /\ stage' = [stage EXCEPT ![Head(gpu[q])] = "done"] /\ route' = route
    BY <1>5, CompleteSignals DEF Complete
  <2> QED
    BY <2>1
<1>6. CASE BeginScan \/ AdvanceRetired \/ UNCHANGED timelineVars
  BY <1>6 DEF BeginScan, AdvanceRetired, PassTicket, StopAtTicket, CompareHorizon, StoreHorizon, timelineVars
<1> QED
  BY <1>1, <1>2, <1>3, <1>4, <1>5, <1>6
     DEF TimelineNext, Submit, AllocateCompute, AllocateRender, Queues

LEMMA LiftedCoversStep ==
  ASSUME TypeOK, TicketOrder, TeardownDrains, LiftedCovers, TargetsStay, [TimelineNext]_timelineVars
  PROVE  LiftedCovers'
<1> SUFFICES ASSUME NEW c \in Contexts, life'[c] \in {"counted", "floored"},
                    NEW t \in Tickets, stage'[t] = "done", route'[t] = c
             PROVE  t <= lifted'[c] \/ Lost'
  BY DEF LiftedCovers
<1>1. stage[t] \in {"done", "issued"} /\ route[t] = c /\ (Lost => Lost')
  BY DoneStep, LostStays
<1>2. CASE life[c] \in {"counted", "floored"} /\ lifted'[c] = lifted[c]
  <2>1. CASE stage[t] = "done"
    BY <1>1, <1>2, <2>1 DEF LiftedCovers
  <2>2. CASE stage[t] = "issued"
    <3>1. by[t] = c /\ Pending(t)
      BY <1>1, <2>2, TicketOwner, TimelineAssumption DEF Pending
    <3> QED
      BY <1>1, <1>2, <3>1 DEF TeardownDrains
  <2> QED
    BY <1>1, <2>1, <2>2
<1>3. CASE lifted'[c] = sem[c] /\ UNCHANGED <<stage, route>>
  <2>1. sem[route[t]] >= t
    BY <1>3 DEF TargetsStay
  <2> QED
    BY <1>1, <1>3, <2>1 DEF TypeOK, Queues, Tickets
<1> QED
  BY <1>2, <1>3, LiftedStep

LEMMA TargetsStep ==
  ASSUME TypeOK, TicketOrder, FloorHolds, TicketsAreRecorded, TeardownDrains, LiftedCovers, TargetsStay,
         [TimelineNext]_timelineVars
  PROVE  TargetsStay'
<1>0. /\ TypeOK' /\ (Lost => Lost')
      /\ ScanStart \in Int /\ ScanStart' \in Int /\ ScanStart' >= ScanStart
      /\ retired' < next' /\ floor' < next' /\ scan'.at < next'
      /\ \A c \in Contexts : lifted'[c] < next'
  BY LostStays, TypeStep, ScanStartGrows, HorizonBelowNext
<1>1. SUFFICES ASSUME NEW t \in Tickets
               PROVE  /\ stage'[t] = "done" => sem'[route'[t]] >= t
                      /\ t > ScanStart' /\ stage'[t] \in {"registered", "queued", "issued", "done"} =>
                           target'[t] = route'[t] \/ Lost'
  BY <1>0 DEF TargetsStay
<1>2. /\ t \in Int /\ (t > ScanStart' => t > ScanStart)
      /\ stage[t] = "done" => sem[route[t]] >= t
      /\ t > ScanStart /\ stage[t] \in {"registered", "queued", "issued", "done"} =>
           target[t] = route[t] \/ Lost
  BY <1>0 DEF TargetsStay, Tickets
<1> DEFINE Goal == /\ stage'[t] = "done" => sem'[route'[t]] >= t
                   /\ t > ScanStart' /\ stage'[t] \in {"registered", "queued", "issued", "done"} =>
                        target'[t] = route'[t] \/ Lost'
<1>3. ASSUME UNCHANGED <<target, route, sem>>,
             \/ stage'[t] = stage[t]
             \/ stage'[t] # "done" /\ stage[t] \in {"registered", "queued", "issued"}
             \/ stage'[t] \in {"refused", "failed", "allocated"}
      PROVE  Goal
  BY <1>0, <1>2, <1>3
<1>4. ASSUME NEW c \in Contexts, NEW q \in Queues, Allocate(c, q) PROVE Goal
  <2>1. next \in Tickets /\ stage' = [stage EXCEPT ![next] = "allocated"]
        /\ route' = [route EXCEPT ![next] = q] /\ UNCHANGED <<target, sem>>
    BY <1>4 DEF Allocate, device
  <2>2. CASE t = next
    BY <2>1, <2>2 DEF TypeOK
  <2>3. CASE t # next
    <3>1. stage'[t] = stage[t] /\ route'[t] = route[t]
      BY <2>1, <2>3 DEF TypeOK
    <3> QED
      BY <1>0, <1>2, <2>1, <3>1
  <2> QED
    BY <2>2, <2>3
<1>5. ASSUME NEW c \in Contexts, NEW u \in Tickets, Register(c, u) PROVE Goal
  <2>1. /\ stage' = [stage EXCEPT ![u] = "registered"] /\ target' = [target EXCEPT ![u] = route[u]]
        /\ UNCHANGED <<route, sem>>
    BY <1>5 DEF Register, device
  <2>2. CASE t = u
    BY <2>1, <2>2 DEF TypeOK
  <2>3. CASE t # u
    <3>1. stage'[t] = stage[t] /\ target'[t] = target[t]
      BY <2>1, <2>3 DEF TypeOK
    <3> QED
      BY <1>0, <1>2, <2>1, <3>1
  <2> QED
    BY <2>2, <2>3
<1>6. ASSUME NEW c \in Contexts, NEW u \in Tickets, Enqueue(c, u) \/ EnqueueRefused(c, u)
      PROVE  Goal
  <2>1. /\ stage[u] = "registered" /\ UNCHANGED <<target, route, sem>>
        /\ \/ stage' = [stage EXCEPT ![u] = "queued"]
           \/ stage' = [stage EXCEPT ![u] = "refused"]
    BY <1>6 DEF Enqueue, EnqueueRefused, device
  <2> QED
    BY <1>3, <2>1 DEF TypeOK
<1>7. ASSUME NEW c \in Contexts,
             \/ CreateContext(c) \/ Detach(c) \/ DestroyFlush(c) \/ DestroyAwaitSubmitted(c)
             \/ DestroyTakeError(c) \/ DestroyAwaitSemaphore(c) \/ ReadCompleted(c) \/ RaiseFloor(c)
      PROVE  Goal
  <2>1. UNCHANGED <<target, route, sem, stage>>
    BY <1>7 DEF CreateContext, Detach, DestroyFlush, DestroyAwaitSubmitted, DestroyTakeError,
                DestroyAwaitSemaphore, ReadCompleted, RaiseFloor, tickets, device
  <2> QED
    BY <1>3, <2>1
(* A torn down context takes its targets away, but its work is below the   *)
(* horizon by then.                                                        *)
<1>8. ASSUME NEW c \in Contexts, Teardown(c) PROVE Goal
  <2>1. UNCHANGED <<stage, by, route, sem>>
    BY <1>8 DEF Teardown, device
  <2>2. CASE target[t] # c
    <3>1. target'[t] = target[t]
      BY <1>8, <2>2 DEF Teardown
    <3> QED
      BY <1>0, <1>2, <2>1, <3>1
  <2>3. CASE target[t] = c /\ ~Lost
    <3>1. route[t] = c /\ stage[t] \notin {"free", "allocated"}
      BY <2>3, TimelineAssumption DEF TicketOrder, TicketsOK
    <3>2. by[t] = c
      BY <3>1, TicketOwner, TimelineAssumption
    <3>3. ~Pending(t)
      BY <1>8, <2>3, <3>2 DEF TeardownDrains, Teardown
    <3>4. stage[t] = "done" => t <= ScanStart'
      <4>1. lifted[c] \in Int /\ floor \in Int /\ floor' = floor /\ retired' \in Int /\ life[c] = "floored"
        BY <1>0, <1>8 DEF Teardown, TypeOK
      <4>2. lifted[c] <= floor
        BY <4>1 DEF FloorHolds
      <4>3. stage[t] = "done" => t <= lifted[c]
        BY <2>3, <3>1, <4>1 DEF LiftedCovers
      <4> QED
        BY <1>2, <4>1, <4>2, <4>3 DEF ScanStart
    <3> QED
      BY <1>0, <1>2, <2>1, <3>3, <3>4 DEF Pending
  <2>4. CASE Lost
    BY <1>0, <1>2, <2>1, <2>4
  <2> QED
    BY <2>2, <2>3, <2>4
<1>9. CASE WorkerSubmit \/ WorkerFail
  <2>1. channel # << >> /\ Head(channel) \in Tickets /\ stage[Head(channel)] = "queued"
    BY <1>9, ChannelElements DEF WorkerSubmit, WorkerFail, TicketOrder, ChannelOrder
  <2>2. /\ UNCHANGED <<target, route, sem>>
        /\ \/ stage' = [stage EXCEPT ![Head(channel)] = "issued"]
           \/ stage' = [stage EXCEPT ![Head(channel)] = "failed"]
    BY <1>9 DEF WorkerSubmit, WorkerFail, device
  <2> QED
    BY <1>3, <2>1, <2>2 DEF TypeOK
<1>10. ASSUME NEW q \in Queues, Complete(q) PROVE Goal
  <2> DEFINE h == Head(gpu[q])
  <2>1. h \in Tickets /\ stage[h] = "issued" /\ sem'[route[h]] >= h /\ \A x \in Queues : sem'[x] >= sem[x]
    BY <1>10, CompleteSignals
  <2>2. stage' = [stage EXCEPT ![h] = "done"] /\ UNCHANGED <<target, route>>
    BY <1>10 DEF Complete
  <2> HIDE DEF h
  <2>3. CASE t = h
    BY <1>0, <1>2, <2>1, <2>2, <2>3
  <2>4. CASE t # h
    <3>1. stage'[t] = stage[t]
      BY <2>2, <2>4 DEF TypeOK
    <3>2. stage[t] = "done" => route[t] \in Queues
      BY TicketOwner
    <3>3. \A x \in Queues : sem[x] \in Int /\ sem'[x] \in Int
      BY <1>0 DEF TypeOK
    <3> QED
      BY <1>0, <1>2, <2>1, <2>2, <3>1, <3>2, <3>3
  <2> QED
    BY <2>3, <2>4
<1>11. CASE BeginScan \/ PassTicket \/ StopAtTicket \/ CompareHorizon
  BY <1>3, <1>11 DEF BeginScan, PassTicket, StopAtTicket, CompareHorizon, tickets, device
<1>13. CASE StoreHorizon
  <2>1. UNCHANGED <<stage, route, sem>> /\ retired' = scan.at
    BY <1>13 DEF StoreHorizon, device
  <2>2. target'[t] # target[t] => t <= ScanStart'
    <3>1. retired' \in Int /\ floor' \in Int
      BY <1>0 DEF TypeOK
    <3>2. target'[t] # target[t] => t <= scan.at
      BY <1>13 DEF StoreHorizon
    <3> QED
      BY <1>2, <2>1, <3>1, <3>2 DEF ScanStart
  <2> QED
    BY <1>0, <1>2, <2>1, <2>2
<1>12. CASE UNCHANGED timelineVars
  BY <1>3, <1>12 DEF timelineVars
<1> QED
  BY <1>4, <1>5, <1>6, <1>7, <1>8, <1>9, <1>10, <1>11, <1>12, <1>13
     DEF TimelineNext, Submit, Destroy, AllocateCompute, AllocateRender, AdvanceRetired, Queues

(* At rest, with everything done, the scan reaches the last ticket.        *)
LEMMA RestReachesTheLast ==
  ASSUME TypeOK, TicketOrder, HorizonOrder, Quiescent PROVE ScanEnds(next - 1)
<1> USE DEF HorizonOrder
<1>1. next \in 1..(MaxTicket + 1) /\ MaxTicket \in Nat /\ ScanStart \in Nat /\ ScanStart < next
  BY TimelineAssumption DEF TypeOK, ScanStart, TargetsStay
<1>2. ASSUME NEW t \in (ScanStart + 1)..(next - 1) PROVE Attributed(t)
  <2>1. t \in Tickets /\ stage[t] = "done"
    BY <1>1 DEF Tickets, TicketsAreRecorded, Quiescent
  <2>2. ~Lost
    BY DEF Lost, Quiescent
  <2>3. target[t] = route[t] /\ sem[route[t]] >= t
    BY <1>1, <2>1, <2>2 DEF TargetsStay
  <2>4. by[t] \in Contexts /\ (route[t] = by[t] \/ route[t] = Owner)
    BY <2>1, TicketOwner
  <2>5. route[t] = Owner \/ life[route[t]] = "live"
    BY <2>1, <2>3, <2>4 DEF Quiescent, TicketsAreRecorded, TeardownDrains
  <2> QED
    BY <2>3, <2>4, <2>5, TimelineAssumption DEF Attributed, CompletedValue
<1>3. next \in Tickets => ~Attributed(next)
  BY <1>1 DEF TicketOrder, TicketsOK, Attributed
<1> QED
  BY <1>1, <1>2, <1>3 DEF ScanEnds, Tickets

(* No horizon is lost: at rest, with no submit failed or refused, a scan   *)
(* reaches the last ticket handed out, whatever contexts were destroyed.   *)
THEOREM HorizonReachesTheLastTicket == SeparateQueues => (Spec => []QuiescentHorizonComplete)
<1>1. Init => HorizonOrder
  <2> SUFFICES ASSUME Init PROVE HorizonOrder
    OBVIOUS
  <2>1. TicketsAreRecorded
    BY DEF Init, TicketsAreRecorded, Tickets
  <2>2. TeardownDrains
    BY TimelineAssumption DEF Init, TeardownDrains
  <2>3. TargetsStay /\ LiftedCovers
    BY DEF Init, NoScan, TargetsStay, LiftedCovers
  <2> QED
    BY <2>1, <2>2, <2>3 DEF HorizonOrder
<1>2. TypeOK /\ TicketOrder /\ FloorHolds /\ HorizonOrder /\ [TimelineNext]_timelineVars => HorizonOrder'
  BY RecordedStep, DrainsStep, LiftedCoversStep, TargetsStep DEF HorizonOrder
<1>3. TypeOK /\ TicketOrder /\ HorizonOrder => QuiescentHorizonComplete
  BY RestReachesTheLast DEF QuiescentHorizonComplete
<1> QED
  BY <1>1, <1>2, <1>3, FloorAlwaysHolds, TimelineTypes, TicketsCompleteInOrder, PTL DEF Spec
=============================================================================
