------------------------------ MODULE VramRing ------------------------------
(***************************************************************************)
(* The deferred-release ring of the device's VRAM allocator, on top of the *)
(* device timeline: payloads (textures, buffers, anything a frame must     *)
(* keep alive) are pushed with the ticket of the submit that uses them and *)
(* dropped once the ring is drained past that ticket.                      *)
(*                                                                         *)
(* The ring belongs to the device and is drained by whichever context      *)
(* polls: after a BoundaryCrossed signal against the device's retired      *)
(* horizon, and by flush_deferred_deletions against the polling context's  *)
(* own progress.  The drain only looks at the front of the ring, and the   *)
(* value it compares with was read before the ring's lock is taken.        *)
(***************************************************************************)
EXTENDS DeviceTimeline

CONSTANT OtherScans  (* whether threads that do not poll, too, ask for the  *)
                     (* device's retired horizon                            *)

ASSUME RingAssumption == OtherScans \in BOOLEAN

VARIABLES
  ring,      (* deferred: tickets of the payloads, in push order            *)
  payload,   (* payload[t]: what became of the payload used by t            *)
  drain      (* drain[c]: the value c has read and not yet drained with     *)

ringVars == <<ring, payload>>
vramVars == <<timelineVars, ring, payload, drain>>

(* "held" by the frame, in the ring, or dropped by a boundary or a flush.  *)
Payloads == {"held", "ringed", "boundary", "flush"}

(* What a context is doing: nothing, waiting for the backend's lock,       *)
(* scanning under it, or about to drain, for a boundary or a flush.        *)
Drains   == {"none", "ask", "scan", "boundary", "flush"}
Idle     == [by |-> "none", value |-> 0]

RingInit ==
  /\ Init
  /\ ring    = << >>
  /\ payload = [t \in Tickets |-> "held"]
  /\ drain   = [c \in Contexts |-> Idle]

-----------------------------------------------------------------------------
(* Mutant of DeferRelease: the frame may hand its payload over twice.      *)
DeferReleaseAgain(c, t) ==
  /\ life[c] = "live"
  /\ by[t] = c
  /\ stage[t] \in {"queued", "issued", "done", "failed"}
  /\ Len(ring) < 2 * MaxTicket
  /\ ring'    = Append(ring, t)
  /\ payload' = [payload EXCEPT ![t] = "ringed"]
  /\ UNCHANGED <<timelineVars, drain>>

(* The frame's submit of t succeeded: its keepalive payload enters the     *)
(* ring, after whatever other contexts pushed in the meantime.             *)
DeferRelease(c, t) ==
  /\ life[c] = "live"
  /\ by[t] = c
  /\ stage[t] \in {"queued", "issued", "done", "failed"}
  /\ payload[t] = "held"
  /\ ring'    = Append(ring, t)
  /\ payload' = [payload EXCEPT ![t] = "ringed"]
  /\ UNCHANGED <<timelineVars, drain>>

(* Context::boundary_crossed asks for the device's retired horizon: it     *)
(* waits for the backend's lock, ...                                       *)
AskHorizon(c) ==
  /\ life[c] = "live"
  /\ drain[c] = Idle
  /\ drain' = [drain EXCEPT ![c] = [by |-> "ask", value |-> 0]]
  /\ UNCHANGED <<timelineVars, ringVars>>

(* scans under it, ...                                                     *)
BeginPoll(c) ==
  /\ drain[c].by = "ask"
  /\ BeginScan
  /\ drain' = [drain EXCEPT ![c] = [by |-> "scan", value |-> 0]]
  /\ UNCHANGED ringVars

(* and gets what the scan has reached when it ends.                        *)
ReadHorizon(c) ==
  /\ drain[c].by = "scan"
  /\ CompareHorizon \/ StoreHorizon
  /\ drain' = IF scan' = NoScan
              THEN [drain EXCEPT ![c] = [by |-> "boundary", value |-> scan.at]]
              ELSE drain
  /\ UNCHANGED ringVars

(* flush_deferred_deletions reads c's own gpu_progress.                    *)
ReadProgress(c) ==
  /\ life[c] = "live"
  /\ drain[c] = Idle
  /\ drain' = [drain EXCEPT ![c] = [by |-> "flush", value |-> sem[c]]]
  /\ UNCHANGED <<timelineVars, ringVars>>

(* Mutant of Drain: looks at the first entry only, and drops them all.     *)
DrainAll(c) ==
  /\ drain[c].by \in {"boundary", "flush"}
  /\ \E k \in {0, Len(ring)} :
       /\ k = 0 <=> (ring = << >> \/ ring[1] > drain[c].value)
       /\ ring'    = SubSeq(ring, k + 1, Len(ring))
       /\ payload' = [t \in Tickets |->
                        IF \E i \in 1..k : ring[i] = t THEN drain[c].by ELSE payload[t]]
  /\ drain' = [drain EXCEPT ![c] = Idle]
  /\ UNCHANGED timelineVars

(* Mutant of Drain: an entry equal to the horizon stays.                   *)
DrainBelow(c) ==
  /\ drain[c].by \in {"boundary", "flush"}
  /\ \E k \in 0..Len(ring) :
       /\ \A i \in 1..k : ring[i] < drain[c].value
       /\ k < Len(ring) => ring[k + 1] >= drain[c].value
       /\ ring'    = SubSeq(ring, k + 1, Len(ring))
       /\ payload' = [t \in Tickets |->
                        IF \E i \in 1..k : ring[i] = t THEN drain[c].by ELSE payload[t]]
  /\ drain' = [drain EXCEPT ![c] = Idle]
  /\ UNCHANGED timelineVars

(* The front of the ring is popped as long as it is not above the value.   *)
Drain(c) ==
  /\ drain[c].by \in {"boundary", "flush"}
  /\ \E k \in 0..Len(ring) :
       /\ \A i \in 1..k : ring[i] <= drain[c].value
       /\ k < Len(ring) => ring[k + 1] > drain[c].value
       /\ ring'    = SubSeq(ring, k + 1, Len(ring))
       /\ payload' = [t \in Tickets |->
                        IF \E i \in 1..k : ring[i] = t THEN drain[c].by ELSE payload[t]]
  /\ drain' = [drain EXCEPT ![c] = Idle]
  /\ UNCHANGED timelineVars

-----------------------------------------------------------------------------
(* What goes on beside the polls: the context a poll runs on is not dropped*)
(* during the poll, and the end of a poll's scan is ReadHorizon's.         *)
BesidePolls ==
  /\ \A c \in Contexts : drain[c] # Idle => life'[c] = life[c]
  /\ scan' = NoScan => \A c \in Contexts : drain[c].by # "scan"
  /\ scan = NoScan /\ scan' # NoScan => OtherScans
  /\ UNCHANGED <<ring, payload, drain>>

TimelineStep == TimelineNext /\ BesidePolls

BoundaryPoll(c) == AskHorizon(c) \/ BeginPoll(c) \/ ReadHorizon(c) \/ (drain[c].by = "boundary" /\ Drain(c))
FlushPoll(c)    == ReadProgress(c) \/ (drain[c].by = "flush" /\ Drain(c))
Defer(c)        == \E t \in Tickets : DeferRelease(c, t)

RingNext == TimelineStep \/ \E c \in Contexts : Defer(c) \/ BoundaryPoll(c) \/ FlushPoll(c)

RingSpec == RingInit /\ [][RingNext]_vramVars

(* The timeline's own fairness, and live contexts keep polling, whatever   *)
(* they flush in between; a poll that waits for the backend's lock gets it *)
(* although others take it again and again.                                *)
RingFairness ==
  /\ WF_vramVars(WorkerSubmit /\ BesidePolls)
  /\ \A q \in Queues : WF_vramVars(Complete(q) /\ BesidePolls)
  /\ WF_vramVars(AdvanceRetired /\ BesidePolls)
  /\ \A c \in Contexts :
       /\ WF_vramVars(Destroy(c) /\ BesidePolls)
       /\ WF_vramVars(/\ \E t \in Tickets : Register(c, t) \/ Enqueue(c, t) \/ EnqueueRefused(c, t)
                      /\ BesidePolls)
       /\ SF_vramVars(AskHorizon(c))
       /\ SF_vramVars(BeginPoll(c))
       /\ WF_vramVars(ReadHorizon(c) \/ Drain(c))

FairRingSpec == RingSpec /\ RingFairness

-----------------------------------------------------------------------------
(* Types, and the ring holds exactly the payloads that are "ringed", once. *)
RingTypeOK ==
  /\ TypeOK
  /\ ring    \in Seq(Tickets)
  /\ payload \in [Tickets -> Payloads]
  /\ drain   \in [Contexts -> [by : Drains, value : 0..MaxTicket]]
  /\ {t \in Tickets : payload[t] = "ringed"} = {ring[i] : i \in 1..Len(ring)}
  /\ \A i, j \in 1..Len(ring) : ring[i] = ring[j] => i = j

(* A payload that a boundary dropped was no longer used by the GPU, except *)
(* at or below the floor left by destroyed contexts -- even though the     *)
(* horizon was read before the drain and the ring is shared.               *)
BoundaryDropsRetired ==
  \A t \in Tickets : payload[t] = "boundary" => t <= floor \/ ~Pending(t)

(* The same of flushes, as promised of the device-installed ring: entries  *)
(* are drained when epoch <= device_retired.                               *)
FlushDropsRetired ==
  \A t \in Tickets : payload[t] = "flush" => t <= floor \/ ~Pending(t)

(* Head-of-line blocking is transient: with no failed or refused submit    *)
(* and a context left to poll, every payload in the ring is dropped in the *)
(* end, in spite of payloads pushed out of ticket order and contexts being *)
(* destroyed.                                                              *)
RingDrains ==
  \A t \in Tickets : payload[t] = "ringed" ~>
    \/ payload[t] # "ringed"
    \/ failures > 0
    \/ \E u \in Tickets : stage[u] = "refused"
    \/ \A c \in Contexts : life[c] # "live"
=============================================================================
