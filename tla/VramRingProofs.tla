--------------------------- MODULE VramRingProofs ---------------------------
(***************************************************************************)
(* Proofs about VramRing, on top of those about the device timeline.       *)
(***************************************************************************)
EXTENDS VramRing, DeviceTimelineProofs

(* Every step of the ring is a step of the timeline or leaves it alone.    *)
LEMMA RingStepIsTimelineStep ==
  [RingNext]_vramVars => [TimelineNext]_timelineVars
<1>1. ASSUME NEW c \in Contexts, BeginPoll(c) \/ ReadHorizon(c) PROVE BeginScan \/ AdvanceRetired
  BY <1>1 DEF BeginPoll, ReadHorizon, AdvanceRetired
<1>2. ASSUME NEW c \in Contexts, Defer(c) \/ AskHorizon(c) \/ ReadProgress(c) \/ Drain(c)
      PROVE  UNCHANGED timelineVars
  BY <1>2 DEF Defer, DeferRelease, AskHorizon, ReadProgress, Drain
<1>3. CASE UNCHANGED vramVars
  BY <1>3 DEF vramVars
<1> QED
  BY <1>1, <1>2, <1>3 DEF RingNext, TimelineStep, BoundaryPoll, FlushPoll, TimelineNext

(* The ring changes nothing about the timeline: it implements its          *)
(* specification.                                                          *)
THEOREM RingImplementsTimeline == RingSpec => Spec
<1>1. RingInit => Init
  BY DEF RingInit
<1> QED
  BY <1>1, RingStepIsTimelineStep, PTL DEF RingSpec, Spec

(* What a boundary drain compares with, and what it dropped, is covered by *)
(* the retired horizon of now, not only by the one that was read.          *)
DrainCovered ==
  /\ \A c \in Contexts : drain[c].by = "boundary" =>
       drain[c].value \in Nat /\ drain[c].value <= ScanStart
  /\ \A t \in Tickets : payload[t] = "boundary" => t <= ScanStart
  /\ ring \in Seq(Tickets)
  /\ payload \in [Tickets -> Payloads]
  /\ DOMAIN drain = Contexts

LEMMA ScanStartMonotone ==
  ASSUME TypeOK, FloorHolds, [TimelineNext]_timelineVars
  PROVE  ScanStart \in Nat /\ ScanStart' \in Nat /\ ScanStart' >= ScanStart
<1>1. TypeOK'
  BY TypeStep
<1>2. ScanStart \in Nat /\ ScanStart' \in Nat
  BY <1>1, TimelineAssumption DEF TypeOK, ScanStart
<1> QED
  BY <1>1, <1>2, ScanStartGrows

LEMMA DrainCoveredStep ==
  TypeOK /\ FloorHolds /\ DrainCovered /\ [RingNext]_vramVars => DrainCovered'
<1> SUFFICES ASSUME TypeOK, FloorHolds, DrainCovered, [RingNext]_vramVars PROVE DrainCovered'
  OBVIOUS
<1>0. ScanStart \in Nat /\ ScanStart' \in Nat /\ ScanStart' >= ScanStart
  BY RingStepIsTimelineStep, ScanStartMonotone
<1>1. CASE UNCHANGED <<ring, payload, drain>>
  BY <1>0, <1>1 DEF DrainCovered, Tickets
<1>2. ASSUME NEW c \in Contexts, Defer(c) PROVE DrainCovered'
  <2> PICK t \in Tickets : DeferRelease(c, t)
    BY <1>2 DEF Defer
  <2>1. ring' \in Seq(Tickets)
    BY DEF DeferRelease, DrainCovered
  <2>2. payload' \in [Tickets -> Payloads] /\ \A u \in Tickets : payload'[u] = "boundary" => payload[u] = "boundary"
    BY DEF DeferRelease, DrainCovered, Payloads
  <2> QED
    BY <1>0, <2>1, <2>2 DEF DeferRelease, DrainCovered, Tickets
<1>3. ASSUME NEW c \in Contexts, ReadHorizon(c) PROVE DrainCovered'
  <2>1. UNCHANGED <<ring, payload>>
    BY <1>3 DEF ReadHorizon, ringVars
  <2>2. CASE scan' = NoScan
    <3>1. drain' = [drain EXCEPT ![c] = [by |-> "boundary", value |-> scan.at]]
      BY <1>3, <2>2 DEF ReadHorizon
    <3>2. scan.at <= ScanStart' /\ scan.at \in Nat
      <4>1. scan.at \in Nat /\ scan \in [step : ScanSteps, at : 0..MaxTicket]
        BY DEF TypeOK
      <4>2. retired' \in Int /\ floor' \in Int
        BY RingStepIsTimelineStep, TypeStep DEF TypeOK
      <4>3. scan.at <= retired'
        <5>1. CASE CompareHorizon
          <6>1. [scan EXCEPT !.step = "store"] # NoScan
            BY <4>1 DEF NoScan
          <6> QED
            BY <2>2, <4>1, <4>2, <5>1, <6>1 DEF CompareHorizon, TypeOK
        <5>2. CASE StoreHorizon
          BY <4>1, <5>2 DEF StoreHorizon
        <5> QED
          BY <1>3, <5>1, <5>2 DEF ReadHorizon
      <4> QED
        BY <4>1, <4>2, <4>3 DEF ScanStart
    <3>3. \A d \in Contexts :
            drain'[d] = IF d = c THEN [by |-> "boundary", value |-> scan.at] ELSE drain[d]
      BY <3>1 DEF DrainCovered
    <3>4. DOMAIN drain' = Contexts
      BY <3>1 DEF DrainCovered
    <3> QED
      BY <1>0, <2>1, <3>2, <3>3, <3>4 DEF DrainCovered, Tickets
  <2>3. CASE scan' # NoScan
    <3>1. UNCHANGED <<ring, payload, drain>>
      BY <1>3, <2>1, <2>3 DEF ReadHorizon
    <3> QED
      BY <1>1, <3>1
  <2> QED
    BY <2>2, <2>3
<1>6. ASSUME NEW c \in Contexts, AskHorizon(c) \/ BeginPoll(c) PROVE DrainCovered'
  <2>1. UNCHANGED <<ring, payload>>
    BY <1>6 DEF AskHorizon, BeginPoll, ringVars
  <2>2. PICK d \in {[by |-> "ask", value |-> 0], [by |-> "scan", value |-> 0]} :
          drain' = [drain EXCEPT ![c] = d]
    BY <1>6 DEF AskHorizon, BeginPoll
  <2>3. DOMAIN drain' = Contexts /\ \A e \in Contexts : drain'[e] = IF e = c THEN d ELSE drain[e]
    BY <2>2 DEF DrainCovered
  <2>4. d.by # "boundary"
    OBVIOUS
  <2> QED
    BY <1>0, <2>1, <2>3, <2>4 DEF DrainCovered, Tickets
<1>4. ASSUME NEW c \in Contexts, ReadProgress(c) PROVE DrainCovered'
  BY <1>0, <1>4 DEF ReadProgress, DrainCovered, ringVars, Tickets
<1>5. ASSUME NEW c \in Contexts, Drain(c) PROVE DrainCovered'
  <2> PICK k \in 0..Len(ring) :
        /\ \A i \in 1..k : ring[i] <= drain[c].value
        /\ ring'    = SubSeq(ring, k + 1, Len(ring))
        /\ payload' = [t \in Tickets |->
                         IF \E i \in 1..k : ring[i] = t THEN drain[c].by ELSE payload[t]]
    BY <1>5 DEF Drain
  <2>1. ring' \in Seq(Tickets)
    BY DEF DrainCovered
  <2>2. payload' \in [Tickets -> Payloads]
    BY <1>5 DEF Drain, DrainCovered, Payloads
  <2>3. \A t \in Tickets : payload'[t] = "boundary" => t <= ScanStart
    <3> SUFFICES ASSUME NEW t \in Tickets, payload'[t] = "boundary" PROVE t <= ScanStart
      OBVIOUS
    <3>1. CASE \E i \in 1..k : ring[i] = t
      BY <1>0, <3>1 DEF DrainCovered, Tickets
    <3>2. CASE ~ \E i \in 1..k : ring[i] = t
      BY <3>2 DEF DrainCovered
    <3> QED
      BY <3>1, <3>2
  <2>4. drain' = [drain EXCEPT ![c] = Idle]
    BY <1>5 DEF Drain
  <2> QED
    BY <1>0, <2>1, <2>2, <2>3, <2>4 DEF DrainCovered, Idle, Tickets
<1> QED
  BY <1>1, <1>2, <1>3, <1>4, <1>5, <1>6
     DEF RingNext, TimelineStep, BesidePolls, BoundaryPoll, FlushPoll, vramVars

(* Above the floor left by destroyed contexts, a payload dropped at a      *)
(* boundary is no longer used by the GPU.                                  *)
THEOREM BoundaryDropsAreSafe == SeparateQueues => (RingSpec => []BoundaryDropsRetired)
<1>1. RingInit => DrainCovered
  <2> SUFFICES ASSUME RingInit PROVE DrainCovered
    OBVIOUS
  <2>1. \A c \in Contexts : drain[c].by = "none"
    BY DEF RingInit, Idle
  <2>2. payload \in [Tickets -> Payloads] /\ \A t \in Tickets : payload[t] = "held"
    BY DEF RingInit, Payloads
  <2>3. ring \in Seq(Tickets) /\ DOMAIN drain = Contexts
    BY DEF RingInit
  <2> QED
    BY <2>1, <2>2, <2>3 DEF DrainCovered
<1>2. TypeOK /\ HorizonSoundAboveFloor /\ DrainCovered => BoundaryDropsRetired
  BY DEF HorizonSoundAboveFloor, DrainCovered, BoundaryDropsRetired, Tickets, TypeOK, ScanStart
<1> QED
  BY <1>1, <1>2, DrainCoveredStep, RingImplementsTimeline, TimelineTypes, FloorAlwaysHolds,
     RetiredHorizonIsSound, PTL DEF RingSpec

-----------------------------------------------------------------------------
LEMMA RingTypeStep == RingTypeOK /\ [RingNext]_vramVars => RingTypeOK'
<1> SUFFICES ASSUME RingTypeOK, [RingNext]_vramVars PROVE RingTypeOK'
  OBVIOUS
<1> USE DEF RingTypeOK
<1>0. TypeOK'
  BY RingStepIsTimelineStep, TypeStep
<1>1. CASE UNCHANGED <<ring, payload, drain>>
  BY <1>0, <1>1
<1>2. ASSUME NEW c \in Contexts, NEW t \in Tickets, DeferRelease(c, t) PROVE RingTypeOK'
  <2> USE <1>2 DEF DeferRelease
  <2>1. /\ ring' \in Seq(Tickets) /\ Len(ring') = Len(ring) + 1
        /\ \A i \in 1..Len(ring') : ring'[i] = IF i = Len(ring') THEN t ELSE ring[i]
    OBVIOUS
  <2>2. payload' \in [Tickets -> Payloads] /\ UNCHANGED drain
    BY DEF Payloads
  <2>3. \A u \in Tickets : payload'[u] = "ringed" <=> u = t \/ payload[u] = "ringed"
    OBVIOUS
  <2>4. \A i \in 1..Len(ring) : ring[i] # t
    BY DEF Payloads
  <2>5. \A i, j \in 1..Len(ring') : ring'[i] = ring'[j] => i = j
    BY <2>1, <2>4
  <2>6. \A u \in Tickets : (\E i \in 1..Len(ring') : ring'[i] = u) <=>
           u = t \/ \E i \in 1..Len(ring) : ring[i] = u
    <3>1. ASSUME NEW i \in 1..Len(ring) PROVE i \in 1..Len(ring') /\ ring'[i] = ring[i]
      BY <2>1
    <3>2. Len(ring') \in 1..Len(ring') /\ ring'[Len(ring')] = t
      BY <2>1
    <3>3. ASSUME NEW i \in 1..Len(ring'), i # Len(ring') PROVE i \in 1..Len(ring) /\ ring'[i] = ring[i]
      BY <2>1, <3>3
    <3> QED
      BY <3>1, <3>2, <3>3
  <2>7. {u \in Tickets : payload'[u] = "ringed"} = {ring'[i] : i \in 1..Len(ring')}
    BY <2>1, <2>3, <2>6
  <2> QED
    BY <1>0, <2>1, <2>2, <2>5, <2>7
<1>3. ASSUME NEW c \in Contexts, AskHorizon(c) \/ BeginPoll(c) \/ ReadHorizon(c) PROVE RingTypeOK'
  <2>1. scan.at \in 0..MaxTicket /\ 0 \in 0..MaxTicket
    <3>1. scan \in [step : ScanSteps, at : 0..MaxTicket]
      BY DEF TypeOK
    <3> HIDE DEF RingTypeOK
    <3> QED
      BY <3>1, TimelineAssumption
  <2>2. \/ drain' = drain
        \/ \E d \in [by : Drains, value : 0..MaxTicket] : drain' = [drain EXCEPT ![c] = d]
    <3>1. /\ [by |-> "ask", value |-> 0] \in [by : Drains, value : 0..MaxTicket]
          /\ [by |-> "scan", value |-> 0] \in [by : Drains, value : 0..MaxTicket]
          /\ [by |-> "boundary", value |-> scan.at] \in [by : Drains, value : 0..MaxTicket]
      BY <2>1 DEF Drains
    <3> HIDE DEF RingTypeOK
    <3> QED
      BY <1>3, <3>1 DEF AskHorizon, BeginPoll, ReadHorizon
  <2>3. drain' \in [Contexts -> [by : Drains, value : 0..MaxTicket]]
    BY <2>2
  <2> QED
    BY <1>0, <1>3, <2>3 DEF AskHorizon, BeginPoll, ReadHorizon, ringVars
<1>4. ASSUME NEW c \in Contexts, ReadProgress(c) PROVE RingTypeOK'
  <2>1. sem[c] \in 0..MaxTicket
    <3>1. sem \in [Queues -> 0..MaxTicket]
      BY DEF TypeOK
    <3> HIDE DEF RingTypeOK
    <3> QED
      BY <3>1 DEF Queues
  <2>2. drain' \in [Contexts -> [by : Drains, value : 0..MaxTicket]]
    <3>1. drain' = [drain EXCEPT ![c] = [by |-> "flush", value |-> sem[c]]]
      BY <1>4 DEF ReadProgress
    <3>2. [by |-> "flush", value |-> sem[c]] \in [by : Drains, value : 0..MaxTicket]
      BY <2>1 DEF Drains
    <3> QED
      BY <3>1, <3>2
  <2> QED
    BY <1>0, <1>4, <2>2 DEF ReadProgress, ringVars
<1>5. ASSUME NEW c \in Contexts, Drain(c) PROVE RingTypeOK'
  <2> PICK k \in 0..Len(ring) :
        /\ ring'    = SubSeq(ring, k + 1, Len(ring))
        /\ payload' = [t \in Tickets |->
                         IF \E i \in 1..k : ring[i] = t THEN drain[c].by ELSE payload[t]]
    BY <1>5 DEF Drain
  <2>1. drain' \in [Contexts -> [by : Drains, value : 0..MaxTicket]]
    BY <1>5, TimelineAssumption DEF Drain, Idle, Drains
  <2>2. /\ ring' \in Seq(Tickets) /\ \A i, j \in 1..Len(ring') : ring'[i] = ring'[j] => i = j
        /\ \A u \in Tickets : (\E i \in 1..Len(ring') : ring'[i] = u) <=>
             (\E i \in 1..Len(ring) : ring[i] = u) /\ ~(\E i \in 1..k : ring[i] = u)
    <3>1. /\ ring' \in Seq(Tickets) /\ Len(ring') = Len(ring) - k
          /\ \A i \in 1..Len(ring') : ring'[i] = ring[k + i]
      OBVIOUS
    <3>2. ASSUME NEW u \in Tickets, NEW i \in 1..Len(ring'), ring'[i] = u
          PROVE  (\E j \in 1..Len(ring) : ring[j] = u) /\ ~(\E j \in 1..k : ring[j] = u)
      <4>1. k + i \in 1..Len(ring) /\ ring[k + i] = u /\ k + i \notin 1..k
        BY <3>1, <3>2
      <4> QED
        BY <4>1
    <3>3. ASSUME NEW u \in Tickets, NEW j \in 1..Len(ring), ring[j] = u,
                 ~(\E i \in 1..k : ring[i] = u)
          PROVE  \E i \in 1..Len(ring') : ring'[i] = u
      <4>1. j - k \in 1..Len(ring') /\ ring'[j - k] = u
        BY <3>1, <3>3
      <4> QED
        BY <4>1
    <3>4. \A i, j \in 1..Len(ring') : ring'[i] = ring'[j] => i = j
      BY <3>1
    <3> QED
      BY <3>1, <3>2, <3>3, <3>4, ZenonT(30)
  <2>3. payload' \in [Tickets -> Payloads]
    BY <1>5 DEF Drain, Payloads
  <2>4. \A u \in Tickets : payload'[u] = "ringed" <=>
           payload[u] = "ringed" /\ ~(\E i \in 1..k : ring[i] = u)
    BY <1>5 DEF Drain
  <2>5. \A i \in 1..Len(ring') : ring'[i] \in Tickets
    BY <2>2
  <2>6. {u \in Tickets : payload'[u] = "ringed"} = {ring'[i] : i \in 1..Len(ring')}
    <3>1. ASSUME NEW u \in Tickets
          PROVE  payload[u] = "ringed" <=> \E i \in 1..Len(ring) : ring[i] = u
      OBVIOUS
    <3>2. ASSUME NEW u \in Tickets
          PROVE  payload'[u] = "ringed" <=> \E i \in 1..Len(ring') : ring'[i] = u
      BY <2>2, <2>4, <3>1
    <3> HIDE DEF RingTypeOK
    <3> QED
      <4> DEFINE ringed == {u \in Tickets : payload'[u] = "ringed"}
                 inRing == {ring'[i] : i \in 1..Len(ring')}
      <4>1. ASSUME NEW u \in ringed PROVE u \in inRing
        BY <3>2, SMTT(30)
      <4>2. ASSUME NEW u \in inRing PROVE u \in ringed
        <5>1. PICK i \in 1..Len(ring') : u = ring'[i]
          OBVIOUS
        <5>2. u \in Tickets /\ payload'[u] = "ringed"
          BY <2>5, <3>2, <5>1, ZenonT(30)
        <5> QED
          BY <5>2
      <4> QED
        BY <4>1, <4>2
  <2> QED
    BY <1>0, <2>1, <2>2, <2>3, <2>6
<1> QED
  BY <1>1, <1>2, <1>3, <1>4, <1>5 DEF RingNext, TimelineStep, BesidePolls, Defer, BoundaryPoll, FlushPoll, vramVars

(* RingSpec => []RingTypeOK: the ring holds exactly the payloads that were *)
(* handed over and not yet dropped, each of them once, whoever pushes and  *)
(* whoever drains.                                                         *)
THEOREM RingHoldsEachPayloadOnce == RingSpec => []RingTypeOK
<1>1. Init => TypeOK
  BY TypeInit
<1>2. RingInit => RingTypeOK
  <2> SUFFICES ASSUME RingInit PROVE RingTypeOK
    OBVIOUS
  <2>1. ring = << >> /\ ring \in Seq(Tickets) /\ Len(ring) = 0
    BY DEF RingInit
  <2>2. \A t \in Tickets : payload[t] = "held"
    BY DEF RingInit
  <2>3. payload \in [Tickets -> Payloads]
    BY DEF RingInit, Payloads
  <2>4. drain \in [Contexts -> [by : Drains, value : 0..MaxTicket]]
    BY TimelineAssumption DEF RingInit, Idle, Drains
  <2> QED
    BY <1>1, <2>1, <2>2, <2>3, <2>4 DEF RingInit, RingTypeOK
<1> QED
  BY <1>2, RingTypeStep, PTL DEF RingSpec
=============================================================================
