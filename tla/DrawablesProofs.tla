--------------------------- MODULE DrawablesProofs ---------------------------
(***************************************************************************)
(* Proofs about Drawables: a claim presents what its own submit rendered,  *)
(* and a slot is idle when it is used again.                               *)
(***************************************************************************)
EXTENDS Drawables, FiniteSetTheorems, TLAPS

(* The smallest of some natural numbers is one of them: the intervals that *)
(* end at them are well-founded.                                           *)
LEMMA MinIsElement ==
  ASSUME NEW S \in SUBSET Nat, S # {}
  PROVE  Min(S) \in S
<1> DEFINE T == {0..n : n \in S}
<1>1. T \subseteq FiniteSubsetsOf(Nat) /\ T # {}
  <2> SUFFICES ASSUME NEW n \in S PROVE 0..n \in FiniteSubsetsOf(Nat)
    OBVIOUS
  <2>1. n \in Nat
    OBVIOUS
  <2>2. IsFiniteSet(0..n)
    BY <2>1, FS_Interval
  <2> QED
    BY <2>1, <2>2 DEF FiniteSubsetsOf
<1>2. PICK x \in T : \A y \in T : ~(<<y, x>> \in StrictSubsetOrdering(Nat))
  <2> HIDE DEF T
  <2> QED
    BY <1>1, FS_StrictSubsetOrderingWellFounded, WFMin
<1>3. PICK m \in S : x = 0..m
  OBVIOUS
<1>4. \A n \in S : m <= n
  <2> SUFFICES ASSUME NEW n \in S, n < m PROVE FALSE
    OBVIOUS
  <2>1. n \in Nat /\ m \in Nat
    OBVIOUS
  <2>2. 0..n \subseteq 0..m /\ m \notin 0..n /\ m \in 0..m
    BY <2>1
  <2>3. <<0..n, x>> \in StrictSubsetOrdering(Nat)
    BY <1>3, <2>2 DEF StrictSubsetOrdering
  <2> QED
    BY <1>2, <2>3
<1> QED
  BY <1>4 DEF Min

-----------------------------------------------------------------------------
(* A resize that is not applied yet is one the swapchain does not know.    *)
Counted == backing + (IF pending THEN 1 ELSE 0) <= generation

(* A free image that the next acquire may be given.                        *)
LEMMA FreeImage ==
  ASSUME FreeImages # {} PROVE Min(FreeImages) \in 1..Images
  BY MinIsElement, DrawablesAssumption DEF FreeImages

LEMMA NextSlotInRing == current \in Ring => NextSlot \in Ring
  BY DrawablesAssumption, SMTT(30) DEF Ring, NextSlot

(* TypeOK, with the records of the frames apart from the other variables.  *)
Steps == Unsettled \cup Settled

FrameRecords == [step : Steps, slot : Ring, image : 0..Images,
                 generation : 0..MaxResizes, backing : 0..MaxResizes,
                 target : 0..MaxResizes, copied : -1..MaxFrames]

FramesOK == frame \in [Frames -> FrameRecords]

OthersOK ==
  /\ pending \in BOOLEAN
  /\ generation \in 0..MaxResizes
  /\ backing \in 0..MaxResizes
  /\ lock \in 0..MaxFrames
  /\ frames \in 0..MaxFrames
  /\ discards \in 0..MaxDiscards
  /\ current \in Ring
  /\ scratch \in [Ring -> -1..MaxFrames]
  /\ sync \in [Ring -> [copy : 0..MaxFrames, compute : 0..MaxFrames]]
  /\ image \in [1..Images -> {"free", "held", "queued", "shown", "retired"}]
  /\ compute \in Seq(Frames)
  /\ copies \in Seq(Frames)
  /\ screen \in Seq(Frames)

LEMMA TypeParts == TypeOK <=> FramesOK /\ OthersOK
  BY DEF TypeOK, FramesOK, OthersOK, FrameRecords, Steps

LEMMA StepNames ==
  {"none", "apply", "read", "lock", "wait", "image", "acquired", "submitted", "claimed",
   "consuming", "recorded", "enqueued", "presented", "done", "discarded", "failed", "panicked"}
    \subseteq Steps
  BY DEF Steps, Unsettled, Settled, Acquiring, Consuming

LEMMA GotoTypes ==
  ASSUME FramesOK, NEW f \in Frames, NEW s \in Steps, Goto(f, s) PROVE FramesOK'
  BY DEF Goto, FramesOK, FrameRecords

LEMMA SlotOfFrame ==
  ASSUME FramesOK, NEW f \in Frames
  PROVE  /\ frame[f].slot \in Ring /\ frame[f].step \in Steps
         /\ frame[f].generation \in Int /\ frame[f].backing \in Int
  BY DEF FramesOK, FrameRecords

(* The head and the rest of a queue of frames.                             *)
LEMMA QueueParts ==
  ASSUME NEW q \in Seq(Frames), q # << >>
  PROVE  Head(q) \in Frames /\ Tail(q) \in Seq(Frames)
  OBVIOUS

(* Every step keeps the types.                                             *)
LEMMA FramesStep ==
  ASSUME FramesOK, OthersOK, [Next]_drawablesVars PROVE FramesOK'
<1> USE StepNames
<1>1. CASE UNCHANGED frame
  BY <1>1 DEF FramesOK
<1>2. CASE Begin
  <2>1. frames + 1 \in Frames
    BY <1>2, DrawablesAssumption DEF Begin, OthersOK, Frames
  <2> QED
    BY <1>2, <2>1, GotoTypes DEF Begin
<1>3. ASSUME NEW f \in Frames,
             \/ Apply(f) \/ LockBackend(f) \/ WaitSlot(f) \/ Submit(f) \/ Cancel(f) \/ Claim(f)
             \/ Consume(f) \/ Enqueue(f) \/ QueuePresent(f) \/ Finish(f)
             \/ ApplySame(f) \/ ApplyFails(f) \/ NextImageFails(f)
      PROVE  FramesOK'
  BY <1>3, GotoTypes DEF Apply, LockBackend, WaitSlot, Submit, Cancel, Claim, Consume, Enqueue,
                         QueuePresent, Finish, ApplySame, ApplyFails, NextImageFails
<1>4. ASSUME NEW f \in Frames, ReadGeneration(f) PROVE FramesOK'
  BY <1>4, ZenonT(30) DEF ReadGeneration, FramesOK, FrameRecords, OthersOK
<1>5. ASSUME NEW f \in Frames, NextImage(f) PROVE FramesOK'
  <2> DEFINE i == Min(FreeImages)
  <2>1. i \in 1..Images
    BY <1>5, FreeImage DEF NextImage
  <2>2. frame' = [frame EXCEPT ![f].step = "acquired", ![f].slot = current, ![f].image = i,
                               ![f].backing = backing]
    BY <1>5 DEF NextImage
  <2>3. /\ "acquired" \in Steps /\ current \in Ring /\ backing \in 0..MaxResizes /\ i \in 0..Images
        /\ frame \in [Frames -> FrameRecords]
    BY <2>1 DEF OthersOK, FramesOK
  <2> HIDE DEF i
  <2> QED
    BY <2>2, <2>3, ZenonT(30) DEF FramesOK, FrameRecords
<1>8. ASSUME NEW f \in Frames, ScratchFails(f) PROVE FramesOK'
  <2> DEFINE i == Min(FreeImages)
  <2>1. i \in 1..Images
    BY <1>8, FreeImage DEF ScratchFails
  <2>2. frame' = [frame EXCEPT ![f].step = "failed", ![f].image = i, ![f].backing = backing]
    BY <1>8 DEF ScratchFails
  <2>3. /\ "failed" \in Steps /\ backing \in 0..MaxResizes /\ i \in 0..Images
        /\ frame \in [Frames -> FrameRecords]
    BY <2>1 DEF OthersOK, FramesOK
  <2> HIDE DEF i
  <2> QED
    BY <2>2, <2>3, ZenonT(30) DEF FramesOK, FrameRecords
<1>6. ASSUME NEW f \in Frames, Prepare(f) PROVE FramesOK'
  <2>1. (IF scratch[frame[f].slot] = -1 THEN "panicked" ELSE "recorded") \in Steps
    OBVIOUS
  <2>2. backing \in 0..MaxResizes
    BY DEF OthersOK
  <2> QED
    BY <1>6, <2>1, <2>2, ZenonT(30) DEF Prepare, FramesOK, FrameRecords
<1>7. CASE Copy
  <2>1. Head(copies) \in Frames
    BY <1>7, QueueParts DEF Copy, OthersOK
  <2>2. scratch[frame[Head(copies)].slot] \in -1..MaxFrames
    BY <2>1, SlotOfFrame DEF OthersOK
  <2> QED
    BY <1>7, <2>1, <2>2 DEF Copy, FramesOK, FrameRecords
<1> QED
  BY <1>1, <1>2, <1>3, <1>4, <1>5, <1>6, <1>7, <1>8
     DEF Next, Submitting, SubmitFails, Presenting, Resize, Render, Show, drawablesVars

LEMMA OthersStep ==
  ASSUME FramesOK, OthersOK, Counted, [Next]_drawablesVars PROVE OthersOK' /\ Counted'
<1> USE DEF poolVars, swapchainVars, gpuVars, countVars
<1>0. MaxFrames \in Nat /\ MaxResizes \in Nat /\ MaxDiscards \in Nat
  BY DrawablesAssumption
<1>1. CASE Resize
  BY <1>0, <1>1 DEF Resize, OthersOK, Counted
<1>2. CASE Begin
  BY <1>0, <1>2 DEF Begin, OthersOK, Counted
<1>3. ASSUME NEW f \in Frames, Apply(f) PROVE OthersOK' /\ Counted'
  <2>1. CASE UNCHANGED <<pending, swapchainVars, image, screen>>
    BY <1>3, <2>1 DEF Apply, OthersOK, Counted
  <2>2. CASE pending /\ pending' = FALSE /\ Recreate
    <3>0. image' \in [1..Images -> {"free", "held", "queued", "shown", "retired"}]
      BY <2>2 DEF Recreate, AllAre
    <3>1. 0 \in Ring
      BY DrawablesAssumption DEF Ring
    <3>2. backing' \in 0..MaxResizes /\ Counted'
      BY <1>0, <1>3, <2>2 DEF Apply, Recreate, OthersOK, Counted
    <3>3. scratch' \in [Ring -> -1..MaxFrames]
      BY <1>0, <2>2 DEF Recreate, NoSlots
    <3>4. /\ UNCHANGED <<generation, sync, lock, frames, discards, compute, copies>>
          /\ pending' = FALSE /\ current' = 0 /\ screen' = << >>
      BY <1>3, <2>2 DEF Apply, Recreate
    <3>5. screen' \in Seq(Frames)
      BY <3>4
    <3> QED
      BY <3>0, <3>1, <3>2, <3>3, <3>4, <3>5 DEF OthersOK
  <2> QED
    BY <1>3, <2>1, <2>2 DEF Apply
<1>17. ASSUME NEW f \in Frames, ApplySame(f) PROVE OthersOK' /\ Counted'
  <2>1. /\ UNCHANGED <<generation, backing, current, scratch, sync, lock, frames, discards, image,
                       compute, copies, screen>>
        /\ pending /\ pending' = FALSE
    BY <1>17 DEF ApplySame
  <2>2. Counted'
    BY <2>1 DEF Counted, OthersOK
  <2> QED
    BY <2>1, <2>2 DEF OthersOK
<1>18. ASSUME NEW f \in Frames, ApplyFails(f) PROVE OthersOK' /\ Counted'
  <2>1. UNCHANGED <<pending, generation, backing, current, sync, lock, frames, discards, compute, copies>>
    BY <1>18 DEF ApplyFails
  <2>2. /\ scratch' \in [Ring -> -1..MaxFrames] /\ screen' \in Seq(Frames)
        /\ image' \in [1..Images -> {"free", "held", "queued", "shown", "retired"}]
    <3>1. /\ NoSlots \in [Ring -> -1..MaxFrames] /\ << >> \in Seq(Frames)
          /\ AllAre("retired") \in [1..Images -> {"free", "held", "queued", "shown", "retired"}]
      BY <1>0 DEF NoSlots, AllAre
    <3>2. \/ UNCHANGED <<scratch, image, screen>>
          \/ scratch' = NoSlots /\ image' = AllAre("retired") /\ screen' = << >>
      BY <1>18 DEF ApplyFails
    <3> QED
      BY <3>1, <3>2 DEF OthersOK
  <2> QED
    BY <2>1, <2>2 DEF OthersOK, Counted
<1>19. ASSUME NEW f \in Frames, NextImageFails(f) PROVE OthersOK' /\ Counted'
  <2>1. lock' \in 0..MaxFrames
    BY <1>0, <1>19 DEF NextImageFails
  <2> QED
    BY <1>19, <2>1 DEF NextImageFails, OthersOK, Counted
<1>20. ASSUME NEW f \in Frames, ScratchFails(f) PROVE OthersOK' /\ Counted'
  <2> DEFINE i == Min(FreeImages)
  <2>1. i \in 1..Images
    BY <1>20, FreeImage DEF ScratchFails
  <2>2. image' = [image EXCEPT ![i] = "held"]
    BY <1>20 DEF ScratchFails
  <2> HIDE DEF i
  <2>3. image' \in [1..Images -> {"free", "held", "queued", "shown", "retired"}]
    BY <2>1, <2>2 DEF OthersOK
  <2>4. lock' \in 0..MaxFrames
    BY <1>0, <1>20 DEF ScratchFails
  <2>5. UNCHANGED <<pending, generation, backing, current, scratch, sync, frames, discards, compute,
                    copies, screen>>
    BY <1>20 DEF ScratchFails
  <2> QED
    BY <2>3, <2>4, <2>5 DEF OthersOK, Counted
<1>4. ASSUME NEW f \in Frames, ReadGeneration(f) \/ Claim(f) \/ Consume(f) \/ Prepare(f)
      PROVE  OthersOK' /\ Counted'
  <2>1. UNCHANGED <<poolVars, swapchainVars, lock, countVars, image, gpuVars, screen>>
    BY <1>4 DEF ReadGeneration, Claim, Consume, Prepare
  <2> QED
    BY <2>1 DEF OthersOK, Counted
<1>15. ASSUME NEW f \in Frames, Submit(f) PROVE OthersOK' /\ Counted'
  <2>1. compute' \in Seq(Frames)
    BY <1>15 DEF Submit, OthersOK
  <2> QED
    BY <1>15, <2>1 DEF Submit, OthersOK, Counted
<1>16. ASSUME NEW f \in Frames, Enqueue(f) PROVE OthersOK' /\ Counted'
  <2>1. copies' \in Seq(Frames)
    BY <1>16 DEF Enqueue, OthersOK
  <2> QED
    BY <1>16, <2>1 DEF Enqueue, OthersOK, Counted
<1>5. ASSUME NEW f \in Frames, LockBackend(f) PROVE OthersOK' /\ Counted'
  BY <1>0, <1>5 DEF LockBackend, OthersOK, Counted, Frames
<1>6. ASSUME NEW f \in Frames, WaitSlot(f) PROVE OthersOK' /\ Counted'
  <2>1. sync' \in [Ring -> [copy : 0..MaxFrames, compute : 0..MaxFrames]]
    <3>1. 0 \in 0..MaxFrames /\ sync \in [Ring -> [copy : 0..MaxFrames, compute : 0..MaxFrames]]
      BY <1>0 DEF OthersOK
    <3>2. sync' = [sync EXCEPT ![current].compute = 0]
      BY <1>6 DEF WaitSlot
    <3> QED
      BY <3>1, <3>2
  <2> QED
    BY <1>6, <2>1 DEF WaitSlot, OthersOK, Counted
<1>7. ASSUME NEW f \in Frames, NextImage(f) PROVE OthersOK' /\ Counted'
  <2> DEFINE i == Min(FreeImages)
  <2>1. i \in 1..Images
    BY <1>7, FreeImage DEF NextImage
  <2>2. image' = [image EXCEPT ![i] = "held"]
    BY <1>7 DEF NextImage
  <2> HIDE DEF i
  <2>3. image' \in [1..Images -> {"free", "held", "queued", "shown", "retired"}]
    BY <2>1, <2>2 DEF OthersOK
  <2>4. current' \in Ring
    BY <1>7, NextSlotInRing DEF NextImage, OthersOK
  <2>5. scratch' \in [Ring -> -1..MaxFrames]
    <3>1. 0 \in -1..MaxFrames /\ scratch \in [Ring -> -1..MaxFrames]
      BY <1>0 DEF OthersOK
    <3>2. scratch' = [scratch EXCEPT ![current] = IF @ = -1 THEN 0 ELSE @]
      BY <1>7 DEF NextImage
    <3> QED
      BY <3>1, <3>2
  <2>6. lock' \in 0..MaxFrames
    <3>1. lock' = 0
      BY <1>7 DEF NextImage
    <3> QED
      BY <1>0, <3>1
  <2>7. UNCHANGED <<pending, generation, backing, sync, frames, discards, compute, copies, screen>>
    BY <1>7 DEF NextImage
  <2> QED
    BY <2>3, <2>4, <2>5, <2>6, <2>7 DEF OthersOK, Counted
<1>8. ASSUME NEW f \in Frames, Cancel(f) PROVE OthersOK' /\ Counted'
  <2>1. discards' \in 0..MaxDiscards
    BY <1>0, <1>8 DEF Cancel, OthersOK
  <2> QED
    BY <1>8, <2>1 DEF Cancel, OthersOK, Counted
<1>9. ASSUME NEW f \in Frames, QueuePresent(f) PROVE OthersOK' /\ Counted'
  <2>1. screen' \in Seq(Frames)
    BY <1>9 DEF QueuePresent, OthersOK
  <2>2. image' \in [1..Images -> {"free", "held", "queued", "shown", "retired"}]
    BY <1>9 DEF QueuePresent, OthersOK
  <2> QED
    BY <1>9, <2>1, <2>2 DEF QueuePresent, OthersOK, Counted
<1>10. ASSUME NEW f \in Frames, Finish(f) PROVE OthersOK' /\ Counted'
  <2>1. f \in 0..MaxFrames
    BY <1>0 DEF Frames
  <2> QED
    BY <1>10, <2>1 DEF Finish, OthersOK, Counted
<1>11. CASE Render
  <2>1. Head(compute) \in Frames /\ compute' \in Seq(Frames)
    BY <1>11, QueueParts DEF Render, OthersOK
  <2>2. Head(compute) \in -1..MaxFrames
    BY <1>0, <2>1 DEF Frames
  <2>3. scratch' \in [Ring -> -1..MaxFrames]
    BY <1>11, <2>2 DEF Render, OthersOK
  <2> QED
    BY <1>11, <2>1, <2>3 DEF Render, OthersOK, Counted
<1>12. CASE Copy
  <2>1. copies' \in Seq(Frames)
    BY <1>12, QueueParts DEF Copy, OthersOK
  <2> QED
    BY <1>12, <2>1 DEF Copy, OthersOK, Counted
<1>13. CASE Show
  <2>1. screen' \in Seq(Frames)
    BY <1>13, QueueParts DEF Show, OthersOK
  <2>2. image' \in [1..Images -> {"free", "held", "queued", "shown", "retired"}]
    BY <1>13 DEF Show, OthersOK
  <2> QED
    BY <1>13, <2>1, <2>2 DEF Show, OthersOK, Counted
<1>14. CASE UNCHANGED drawablesVars
  BY <1>14 DEF drawablesVars, OthersOK, Counted
<1> QED
  BY <1>1, <1>2, <1>3, <1>4, <1>5, <1>6, <1>7, <1>8, <1>9, <1>10, <1>11, <1>12, <1>13, <1>14,
     <1>15, <1>16, <1>17, <1>18, <1>19, <1>20
     DEF Next, Submitting, SubmitFails, Presenting

LEMMA TypeInit == Init => FramesOK /\ OthersOK /\ Counted
<1> SUFFICES ASSUME Init PROVE FramesOK /\ OthersOK /\ Counted
  OBVIOUS
<1>1. 0 \in Ring /\ MaxFrames \in Nat /\ MaxResizes \in Nat /\ MaxDiscards \in Nat /\ Images \in Nat
  BY DrawablesAssumption DEF Ring
<1>2. NoFrame \in FrameRecords
  BY <1>1, StepNames DEF NoFrame, FrameRecords
<1>3. scratch \in [Ring -> -1..MaxFrames]
  BY <1>1 DEF Init
<1>4. sync \in [Ring -> [copy : 0..MaxFrames, compute : 0..MaxFrames]]
  BY <1>1 DEF Init
<1>5. image \in [1..Images -> {"free", "held", "queued", "shown", "retired"}]
  BY DEF Init
<1>6. FramesOK
  BY <1>2 DEF Init, FramesOK
<1> QED
  BY <1>1, <1>3, <1>4, <1>5, <1>6 DEF Init, OthersOK, Counted

(* Every variable has its type, whatever the clients do: no slot outside   *)
(* the ring, no more swapchains than resizes.                              *)
THEOREM DrawableTypes == Spec => []TypeOK
<1>1. FramesOK /\ OthersOK /\ Counted /\ [Next]_drawablesVars => (FramesOK /\ OthersOK /\ Counted)'
  BY FramesStep, OthersStep
<1> QED
  BY <1>1, TypeInit, TypeParts, PTL DEF Spec

-----------------------------------------------------------------------------
(* What a client is asked to do: no resize while a claim is in hand, and no*)
(* more frames begun than settled than there are slots.                    *)
KeepsPace == ~ClaimsOutliveResize /\ Depth <= Slots

Acquired(f)  == ~In(f, Acquiring \cup {"none", "failed"})
Submitted(f) == ~In(f, Acquiring \cup {"none", "failed", "acquired", "discarded"})
Active       == {"acquired", "submitted", "claimed"} \cup Consuming

(* Frames begin one after the other, and none before those that are Depth  *)
(* behind it are settled.                                                  *)
BeginOrder ==
  /\ \A f \in Frames : f > frames => At(f, "none")
  /\ \A f \in Frames : In(f, Acquiring \cup {"acquired"}) => f = frames
  /\ \A f, g \in Frames : In(f, Acquiring) /\ g + Depth <= f => In(g, Settled)

(* What the acquire under way has seen still holds.                        *)
AcquireOrder ==
  \A f \in Frames :
    /\ In(f, {"read", "lock", "wait", "image"}) => ~pending
    /\ In(f, {"lock", "wait", "image"}) => frame[f].generation = generation
    /\ In(f, {"wait", "image"}) => lock = f
    /\ At(f, "image") => Copied(sync[current].copy)

(* A frame of the pool's generation belongs to the swapchain of now, and so*)
(* does all that the GPU has to do.                                        *)
Generations ==
  \A f \in Frames :
    /\ Acquired(f) => frame[f].backing <= backing /\ frame[f].generation <= generation
    /\ In(f, Active \ {"submitted"}) => frame[f].generation = generation
    /\ In(f, Active) /\ frame[f].generation = generation => ~pending /\ frame[f].backing = backing
    /\ Contains(compute, f) => Submitted(f) \/ At(f, "discarded")
    /\ Contains(copies, f) => In(f, {"enqueued", "presented", "done"})
    /\ Contains(compute, f) \/ Contains(copies, f) => frame[f].backing = backing

(* How many acquires the slot has been left alone for at least, and that as*)
(* many frames have begun since a frame that has it.                       *)
Ahead(c, s) == IF c > s THEN c - s ELSE c - s + Slots

Latest == IF \E f \in Frames : In(f, Acquiring) THEN frames ELSE frames + 1

Spacing ==
  \A g \in Frames : Acquired(g) /\ frame[g].backing = backing =>
    Latest - g >= Ahead(current, frame[g].slot)

(* Of two frames with one slot the older is settled and copied.            *)
Sharing(f, g) ==
  /\ frame[f].backing = backing /\ frame[g].backing = backing
  /\ frame[f].slot = frame[g].slot

Exclusion ==
  \A f, g \in Frames : Acquired(f) /\ Acquired(g) /\ Sharing(f, g) /\ g < f =>
    In(g, Settled) /\ ~Contains(copies, g)

(* The value a slot waits for is that of the copy that still reads it.     *)
SyncSound ==
  /\ \A s \in Ring : sync[s].copy # 0 => At(sync[s].copy, "done")
  /\ \A g \in Frames : Contains(copies, g) /\ At(g, "done") => sync[frame[g].slot].copy = g

(* The pixels of a frame that may still be presented stay in its slot.     *)
Live(f) == \/ In(f, Active \ {"acquired"}) /\ frame[f].generation = generation
           \/ Contains(copies, f)

RenderOrder ==
  /\ \A i, j \in 1..Len(compute) : i < j => compute[i] < compute[j]
  /\ \A f, g \in Frames : Submitted(f) /\ ~Contains(compute, f) /\ Contains(compute, g) => f < g

PixelsKept ==
  /\ \A f \in Frames : Live(f) /\ ~Contains(compute, f) => scratch[frame[f].slot] = f
  /\ \A f \in Frames : Acquired(f) /\ frame[f].backing = backing /\ ~Broken =>
       scratch[frame[f].slot] # -1

(* A swapchain that a resize gave up is not used before another replaces it.*)
BrokenWaits == Broken => pending /\ screen = << >>

FrameOrder ==
  /\ FramesOK /\ OthersOK /\ Counted
  /\ BeginOrder /\ AcquireOrder /\ Generations /\ Spacing /\ Exclusion /\ SyncSound
  /\ RenderOrder /\ PixelsKept /\ BrokenWaits

-----------------------------------------------------------------------------
(* Queues of frames.                                                       *)
LEMMA ContainsAppend ==
  ASSUME NEW q \in Seq(Frames), NEW e \in Frames, NEW x
  PROVE  Contains(Append(q, e), x) <=> Contains(q, x) \/ x = e
<1>1. /\ Len(Append(q, e)) = Len(q) + 1 /\ Len(q) \in Nat
      /\ \A i \in 1..Len(q) : Append(q, e)[i] = q[i]
      /\ Append(q, e)[Len(q) + 1] = e
  OBVIOUS
<1> QED
  BY <1>1 DEF Contains

LEMMA ContainsTail ==
  ASSUME NEW q \in Seq(Frames), q # << >>
  PROVE  /\ Contains(q, Head(q))
         /\ \A x : Contains(q, x) <=> x = Head(q) \/ Contains(Tail(q), x)
<1>1. /\ Len(q) \in Nat /\ Len(q) >= 1 /\ Head(q) = q[1] /\ Len(Tail(q)) = Len(q) - 1
      /\ \A i \in 1..(Len(q) - 1) : Tail(q)[i] = q[i + 1]
  OBVIOUS
<1>2. ASSUME NEW x, Contains(q, x) PROVE x = Head(q) \/ Contains(Tail(q), x)
  <2> PICK i \in 1..Len(q) : q[i] = x
    BY <1>2 DEF Contains
  <2>1. CASE i = 1
    BY <1>1, <2>1
  <2>2. CASE i # 1
    <3>1. i - 1 \in 1..Len(Tail(q)) /\ Tail(q)[i - 1] = x
      BY <1>1, <2>2
    <3> QED
      BY <3>1 DEF Contains
  <2> QED
    BY <2>1, <2>2
<1>3. ASSUME NEW x, Contains(Tail(q), x) PROVE Contains(q, x)
  <2> PICK i \in 1..Len(Tail(q)) : Tail(q)[i] = x
    BY <1>3 DEF Contains
  <2>1. i + 1 \in 1..Len(q) /\ q[i + 1] = x
    BY <1>1
  <2> QED
    BY <2>1 DEF Contains
<1> QED
  BY <1>1, <1>2, <1>3 DEF Contains

LEMMA ContainsEmpty == \A x : ~Contains(<< >>, x)
  BY DEF Contains

(* Where a frame may go next.                                              *)
Moves(a, b) ==
  \/ a = "apply" /\ b \in {"read", "failed"}
  \/ a = "read" /\ b = "lock"
  \/ a = "lock" /\ b = "wait"
  \/ a = "wait" /\ b = "image"
  \/ a = "image" /\ b \in {"acquired", "failed"}
  \/ a = "acquired" /\ b = "submitted"
  \/ a = "submitted" /\ b = "claimed"
  \/ a = "claimed" /\ b = "consuming"
  \/ a \in {"acquired", "submitted", "claimed"} /\ b = "discarded"
  \/ a = "consuming" /\ b \in {"recorded", "panicked"}
  \/ a = "recorded" /\ b = "enqueued"
  \/ a = "enqueued" /\ b = "presented"
  \/ a = "presented" /\ b = "done"

(* The fields of g other than its step.                                    *)
KeepsFields(g) ==
  /\ frame'[g].slot = frame[g].slot /\ frame'[g].backing = frame[g].backing
  /\ frame'[g].generation = frame[g].generation
  /\ frame'[g].target = frame[g].target /\ frame'[g].copied = frame[g].copied

LEMMA GotoEffect ==
  ASSUME FramesOK, NEW f \in Frames, NEW s, Goto(f, s)
  PROVE  /\ frame'[f].step = s
         /\ \A g \in Frames : KeepsFields(g) /\ (g # f => frame'[g].step = frame[g].step)
  BY DEF Goto, FramesOK, FrameRecords, KeepsFields

LEMMA NextImageEffect ==
  ASSUME FramesOK, NEW f \in Frames, NextImage(f)
  PROVE  /\ frame'[f].step = "acquired" /\ frame'[f].slot = current /\ frame'[f].backing = backing
         /\ frame'[f].generation = frame[f].generation
         /\ frame'[f].target = frame[f].target /\ frame'[f].copied = frame[f].copied
         /\ \A g \in Frames : g # f => frame'[g] = frame[g]
  BY DEF NextImage, FramesOK, FrameRecords

LEMMA ReadGenerationEffect ==
  ASSUME FramesOK, NEW f \in Frames, ReadGeneration(f)
  PROVE  /\ frame'[f].step = "lock" /\ frame'[f].generation = generation
         /\ frame'[f].slot = frame[f].slot /\ frame'[f].backing = frame[f].backing
         /\ frame'[f].target = frame[f].target /\ frame'[f].copied = frame[f].copied
         /\ \A g \in Frames : g # f => frame'[g] = frame[g]
  BY DEF ReadGeneration, FramesOK, FrameRecords

LEMMA PrepareEffect ==
  ASSUME FramesOK, NEW f \in Frames, Prepare(f)
  PROVE  /\ frame'[f].step = IF scratch[frame[f].slot] = -1 THEN "panicked" ELSE "recorded"
         /\ frame'[f].target = backing
         /\ frame'[f].slot = frame[f].slot /\ frame'[f].backing = frame[f].backing
         /\ frame'[f].generation = frame[f].generation /\ frame'[f].copied = frame[f].copied
         /\ \A g \in Frames : g # f => frame'[g] = frame[g]
  BY DEF Prepare, FramesOK, FrameRecords

(* An acquire that fails, or finds that there is nothing to resize.        *)
LEMMA ErrorEffect ==
  ASSUME FramesOK, NEW f \in Frames, ApplySame(f) \/ SubmitFails(f)
  PROVE  /\ \/ /\ frame[f].step = "apply" /\ frame'[f].step = "read"
               /\ pending /\ pending' = FALSE
            \/ frame[f].step \in {"apply", "image"} /\ frame'[f].step = "failed" /\ pending' = pending
         /\ frame'[f].backing = frame[f].backing \/ frame'[f].step = "failed"
         /\ frame'[f].slot = frame[f].slot /\ frame'[f].generation = frame[f].generation
         /\ frame'[f].target = frame[f].target /\ frame'[f].copied = frame[f].copied
         /\ \A g \in Frames : g # f => frame'[g] = frame[g]
         /\ UNCHANGED <<generation, backing, current, sync, frames, compute, copies>>
<1> USE DEF poolVars, swapchainVars, gpuVars, countVars, At, Goto, FramesOK, FrameRecords
<1>1. CASE ApplySame(f)
  BY <1>1 DEF ApplySame
<1>2. CASE ApplyFails(f)
  BY <1>2 DEF ApplyFails
<1>3. CASE NextImageFails(f)
  BY <1>3 DEF NextImageFails
<1>4. CASE ScratchFails(f)
  BY <1>4 DEF ScratchFails
<1> QED
  BY <1>1, <1>2, <1>3, <1>4 DEF SubmitFails

LEMMA CopyEffect ==
  ASSUME FramesOK, OthersOK, Copy
  PROVE  /\ Head(copies) \in Frames
         /\ frame'[Head(copies)].copied = scratch[frame[Head(copies)].slot]
         /\ \A g \in Frames : /\ frame'[g].step = frame[g].step /\ frame'[g].slot = frame[g].slot
                              /\ frame'[g].backing = frame[g].backing
                              /\ frame'[g].generation = frame[g].generation
                              /\ frame'[g].target = frame[g].target
                              /\ g # Head(copies) => frame'[g] = frame[g]
<1>1. Head(copies) \in Frames
  BY QueueParts DEF Copy, OthersOK
<1> QED
  BY <1>1 DEF Copy, FramesOK, FrameRecords

(* Every step moves frames along, one at a time.                           *)
LEMMA FrameMoves ==
  ASSUME FramesOK, OthersOK, [Next]_drawablesVars, ~Begin
  PROVE  /\ frames' = frames
         /\ \A g \in Frames : \/ frame'[g].step = frame[g].step
                             \/ Moves(frame[g].step, frame'[g].step)
<1> USE DEF countVars
<1>1. CASE Resize \/ Render \/ Show \/ UNCHANGED drawablesVars
  BY <1>1 DEF Resize, Render, Show, drawablesVars
<1>2. CASE Copy
  BY <1>2, CopyEffect DEF Copy
<1>3. ASSUME NEW f \in Frames, Apply(f)
      PROVE  frames' = frames /\ \A g \in Frames : \/ frame'[g].step = frame[g].step
                                                  \/ Moves(frame[g].step, frame'[g].step)
  BY <1>3, GotoEffect DEF Apply, At, Moves
<1>7. ASSUME NEW f \in Frames, ApplySame(f) \/ SubmitFails(f)
      PROVE  frames' = frames /\ \A g \in Frames : \/ frame'[g].step = frame[g].step
                                                  \/ Moves(frame[g].step, frame'[g].step)
  BY <1>7, ErrorEffect DEF Moves
<1>4. ASSUME NEW f \in Frames, ReadGeneration(f) \/ NextImage(f) \/ Prepare(f)
      PROVE  frames' = frames /\ \A g \in Frames : \/ frame'[g].step = frame[g].step
                                                  \/ Moves(frame[g].step, frame'[g].step)
  <2>1. frames' = frames
    BY <1>4 DEF ReadGeneration, NextImage, Prepare
  <2>2. \A g \in Frames : g # f => frame'[g].step = frame[g].step
    BY <1>4, ReadGenerationEffect, NextImageEffect, PrepareEffect
  <2>3. Moves(frame[f].step, frame'[f].step)
    <3>1. CASE ReadGeneration(f)
      BY <3>1, ReadGenerationEffect DEF ReadGeneration, At, Moves
    <3>2. CASE NextImage(f)
      BY <3>2, NextImageEffect DEF NextImage, At, Moves
    <3>3. CASE Prepare(f)
      BY <3>3, PrepareEffect DEF Prepare, At, Moves
    <3> QED
      BY <1>4, <3>1, <3>2, <3>3
  <2> QED
    BY <2>1, <2>2, <2>3
<1>5. ASSUME NEW f \in Frames, Cancel(f)
      PROVE  frames' = frames /\ \A g \in Frames : \/ frame'[g].step = frame[g].step
                                                  \/ Moves(frame[g].step, frame'[g].step)
  BY <1>5, GotoEffect DEF Cancel, In, Moves
<1>6. ASSUME NEW f \in Frames,
             \/ LockBackend(f) \/ WaitSlot(f) \/ Submit(f) \/ Claim(f) \/ Consume(f)
             \/ Enqueue(f) \/ QueuePresent(f) \/ Finish(f)
      PROVE  frames' = frames /\ \A g \in Frames : \/ frame'[g].step = frame[g].step
                                                  \/ Moves(frame[g].step, frame'[g].step)
  BY <1>6, GotoEffect
     DEF LockBackend, WaitSlot, Submit, Claim, Consume, Enqueue, QueuePresent, Finish, At, Moves
<1> QED
  BY <1>1, <1>2, <1>3, <1>4, <1>5, <1>6, <1>7 DEF Next, Submitting, Presenting

(* ... and of the other fields each is written by one action.              *)
LEMMA FieldsMove ==
  ASSUME FramesOK, OthersOK, BeginOrder, [Next]_drawablesVars, NEW g \in Frames
  PROVE  /\ NextImage(g) \/ frame'[g].slot = frame[g].slot
         /\ NextImage(g) \/ At(g, "failed")' \/ frame'[g].backing = frame[g].backing
         /\ ReadGeneration(g) \/ frame'[g].generation = frame[g].generation
         /\ Prepare(g) \/ frame'[g].target = frame[g].target
         /\ (Copy /\ g = Head(copies)) \/ frame'[g].copied = frame[g].copied
<1>1. CASE Resize \/ Render \/ Show \/ UNCHANGED drawablesVars
  BY <1>1 DEF Resize, Render, Show, drawablesVars
<1>2. CASE Copy
  BY <1>2, CopyEffect
<1>3. CASE Begin
  <2>1. frames + 1 \in Frames
    BY <1>3, DrawablesAssumption DEF Begin, OthersOK, Frames
  <2> QED
    BY <1>3, <2>1, GotoEffect DEF Begin, KeepsFields
<1>4. ASSUME NEW f \in Frames, ReadGeneration(f) \/ NextImage(f) \/ Prepare(f)
      PROVE  /\ NextImage(g) \/ (frame'[g].slot = frame[g].slot /\ frame'[g].backing = frame[g].backing)
             /\ ReadGeneration(g) \/ frame'[g].generation = frame[g].generation
             /\ Prepare(g) \/ frame'[g].target = frame[g].target
             /\ frame'[g].copied = frame[g].copied
  BY <1>4, ReadGenerationEffect, NextImageEffect, PrepareEffect
<1>5. ASSUME NEW f \in Frames,
             \/ Apply(f) \/ LockBackend(f) \/ WaitSlot(f) \/ Submit(f) \/ Cancel(f) \/ Claim(f)
             \/ Consume(f) \/ Enqueue(f) \/ QueuePresent(f) \/ Finish(f)
      PROVE  KeepsFields(g)
  BY <1>5, GotoEffect DEF Apply, LockBackend, WaitSlot, Submit, Cancel, Claim, Consume, Enqueue,
                         QueuePresent, Finish
<1>6. ASSUME NEW f \in Frames, ApplySame(f) \/ SubmitFails(f)
      PROVE  /\ frame'[g].slot = frame[g].slot /\ frame'[g].generation = frame[g].generation
             /\ frame'[g].target = frame[g].target /\ frame'[g].copied = frame[g].copied
             /\ At(g, "failed")' \/ frame'[g].backing = frame[g].backing
  BY <1>6, ErrorEffect DEF At
<1> QED
  BY <1>1, <1>2, <1>3, <1>4, <1>5, <1>6 DEF Next, Submitting, Presenting, KeepsFields

(* A frame that begins is a new one.                                       *)
LEMMA BeginEffect ==
  ASSUME FramesOK, OthersOK, BeginOrder, Begin
  PROVE  /\ frames + 1 \in Frames /\ At(frames + 1, "none") /\ frame'[frames + 1].step = "apply"
         /\ \A g \in Frames : KeepsFields(g) /\ (g # frames + 1 => frame'[g].step = frame[g].step)
<1>1. frames + 1 \in Frames /\ frames + 1 > frames
  BY DrawablesAssumption DEF Begin, OthersOK, Frames
<1> QED
  BY <1>1, GotoEffect DEF Begin, BeginOrder

(* What settled stays so, and who changes a frame's standing.              *)
LEMMA Standing ==
  ASSUME FramesOK, OthersOK, BeginOrder, [Next]_drawablesVars, NEW g \in Frames
  PROVE  /\ In(g, Settled) /\ ~At(g, "none") => frame'[g].step = frame[g].step
         /\ Acquired(g)' => Acquired(g) \/ At(g, "image")
         /\ Acquired(g) => Acquired(g)'
         /\ Submitted(g)' => Submitted(g) \/ At(g, "acquired")
         /\ In(g, Active \ {"acquired"})' => In(g, Active \ {"acquired"}) \/ At(g, "acquired")
         /\ At(g, "done")' => At(g, "done") \/ At(g, "presented")
<1>1. CASE Begin
  BY <1>1, BeginEffect
     DEF Acquired, Submitted, Active, Settled, Acquiring, Consuming, In, At
<1>2. CASE ~Begin
  BY <1>2, FrameMoves
     DEF Moves, Acquired, Submitted, Active, Settled, Acquiring, Consuming, In, At
<1> QED
  BY <1>1, <1>2

(* Only an action on a frame moves it, and only one of them acquires it.   *)
LEMMA WhoMoves ==
  ASSUME FramesOK, OthersOK, BeginOrder, [Next]_drawablesVars, NEW g \in Frames,
         frame'[g].step # frame[g].step
  PROVE  \/ Begin \/ Submitting(g) \/ Presenting(g) \/ Claim(g) \/ Cancel(g) \/ Consume(g)
         \/ /\ ApplySame(g) \/ SubmitFails(g)
            /\ frame[g].step \in {"apply", "image"} /\ frame'[g].step \in {"read", "failed"}
<1>1. ~(Resize \/ Render \/ Show \/ UNCHANGED drawablesVars)
  BY DEF Resize, Render, Show, drawablesVars
<1>2. ~Copy
  BY CopyEffect
<1>3. ASSUME NEW f \in Frames, f # g, Submitting(f) \/ Presenting(f) PROVE FALSE
  BY <1>3, GotoEffect, ReadGenerationEffect, NextImageEffect, PrepareEffect
     DEF Submitting, Presenting, Apply, LockBackend, WaitSlot, Submit, Enqueue, QueuePresent, Finish
<1>4. ASSUME NEW f \in Frames, f # g, Claim(f) \/ Cancel(f) \/ Consume(f) PROVE FALSE
  BY <1>4, GotoEffect DEF Claim, Cancel, Consume
<1>5. ASSUME NEW f \in Frames, ApplySame(f) \/ SubmitFails(f)
      PROVE  f = g /\ frame[g].step \in {"apply", "image"} /\ frame'[g].step \in {"read", "failed"}
  BY <1>5, ErrorEffect
<1> QED
  BY <1>1, <1>2, <1>3, <1>4, <1>5 DEF Next

LEMMA NewlyAcquired ==
  ASSUME FramesOK, OthersOK, BeginOrder, [Next]_drawablesVars, NEW g \in Frames,
         Acquired(g)', ~Acquired(g)
  PROVE  NextImage(g)
<1>1. frame[g].step = "image" /\ frame'[g].step = "acquired"
  <2>1. ~Begin
    BY BeginEffect DEF Acquired, In, Acquiring
  <2> QED
    BY <2>1, FrameMoves DEF Acquired, In, Acquiring, Moves
<1>2. ~Begin
  BY <1>1, BeginEffect
<1> QED
  BY <1>1, <1>2, WhoMoves
     DEF Submitting, Presenting, Apply, ReadGeneration, LockBackend, WaitSlot, Submit, Claim, Cancel,
         Consume, Prepare, Enqueue, QueuePresent, Finish, At, In

LEMMA NewlySubmitted ==
  ASSUME FramesOK, OthersOK, BeginOrder, [Next]_drawablesVars, NEW g \in Frames,
         frame[g].step = "acquired", frame'[g].step \notin {"acquired", "discarded"}
  PROVE  Submit(g)
<1>1. ~Begin
  BY BeginEffect DEF At
<1>2. ~Cancel(g)
  BY GotoEffect DEF Cancel
<1> QED
  BY <1>1, <1>2, WhoMoves
     DEF Submitting, Presenting, Apply, ReadGeneration, LockBackend, WaitSlot, NextImage, Claim,
         Consume, Prepare, Enqueue, QueuePresent, Finish, At

LEMMA NewlyDone ==
  ASSUME FramesOK, OthersOK, BeginOrder, [Next]_drawablesVars, NEW g \in Frames,
         frame[g].step # "done", frame'[g].step = "done"
  PROVE  Finish(g) /\ frame[g].step = "presented"
<1>1. ~Begin
  BY BeginEffect
<1>2. frame[g].step = "presented"
  BY <1>1, FrameMoves DEF Moves
<1> QED
  BY <1>1, <1>2, WhoMoves
     DEF Submitting, Presenting, Apply, ReadGeneration, LockBackend, WaitSlot, NextImage, Submit,
         Claim, Cancel, Consume, Prepare, Enqueue, QueuePresent, At, In

LEMMA Begun ==
  ASSUME OthersOK, BeginOrder, NEW g \in Frames, frame[g].step # "none"
  PROVE  g <= frames
  BY DEF OthersOK, BeginOrder, Frames, At

LEMMA BeginOrderStep ==
  ASSUME FramesOK, OthersOK, BeginOrder, [Next]_drawablesVars
  PROVE  BeginOrder'
<1>1. CASE Begin
  <2>1. frames \in Int /\ frames' = frames + 1 /\ Depth \in Nat
    BY <1>1, DrawablesAssumption DEF Begin, OthersOK
  <2>2. \A g \in Frames : g \in Int
    BY DEF Frames
  <2>3. \A g \in Frames : In(g, Unsettled) => g + Depth > frames + 1
    BY <1>1 DEF Begin
  <2>4. \A g \in Frames : In(g, Unsettled) \/ In(g, Settled)
    BY SlotOfFrame DEF Steps, In
  <2>5. \A g \in Frames : ~In(g, Acquiring \cup {"acquired"})
    BY <1>1 DEF Begin
  <2> QED
    BY <1>1, <2>1, <2>2, <2>3, <2>4, <2>5, BeginEffect, DrawablesAssumption DEF BeginOrder, At, In
<1>2. CASE ~Begin
  <2>1. frames' = frames /\ \A g \in Frames : \/ frame'[g].step = frame[g].step
                                             \/ Moves(frame[g].step, frame'[g].step)
    BY <1>2, FrameMoves
  <2>2. \A f \in Frames : f > frames => At(f, "none")'
    BY <2>1 DEF BeginOrder, At, Moves
  <2>3. \A f \in Frames : In(f, Acquiring \cup {"acquired"})' => In(f, Acquiring \cup {"acquired"})
    BY <2>1 DEF In, Moves, Acquiring
  <2>4. \A f \in Frames : In(f, Acquiring)' => In(f, Acquiring)
    BY <2>1 DEF In, Moves, Acquiring
  <2>5. \A f \in Frames : In(f, Settled) => In(f, Settled)'
    BY <2>1 DEF In, Moves, Settled
  <2> QED
    BY <2>1, <2>2, <2>3, <2>4, <2>5 DEF BeginOrder
<1> QED
  BY <1>1, <1>2

LEMMA AcquireOrderStep ==
  ASSUME KeepsPace, FramesOK, OthersOK, BeginOrder, AcquireOrder, SyncSound, [Next]_drawablesVars
  PROVE  AcquireOrder'
<1> SUFFICES ASSUME NEW f \in Frames, In(f, Acquiring)'
             PROVE  /\ In(f, {"read", "lock", "wait", "image"})' => ~pending'
                    /\ In(f, {"lock", "wait", "image"})' => frame'[f].generation = generation'
                    /\ In(f, {"wait", "image"})' => lock' = f
                    /\ At(f, "image")' => Copied(sync[current].copy)'
  BY DEF AcquireOrder, In, At, Acquiring
<1> DEFINE Goal == /\ In(f, {"read", "lock", "wait", "image"})' => ~pending'
                   /\ In(f, {"lock", "wait", "image"})' => frame'[f].generation = generation'
                   /\ In(f, {"wait", "image"})' => lock' = f
                   /\ At(f, "image")' => Copied(sync[current].copy)'
<1> USE DEF At, In, Acquiring
<1>1. CASE Begin
  BY <1>1, BeginEffect DEF Begin, AcquireOrder, KeepsFields, poolVars, swapchainVars, gpuVars, Copied
<1>2. CASE ~Begin
  <2>0. In(f, Acquiring) /\ f = frames
    BY <1>2, FrameMoves DEF Moves, BeginOrder
  <2>1. CASE Resize
    BY <2>0, <2>1 DEF Resize, KeepsPace, Settled
  <2>2. ASSUME NEW h \in Frames, Submitting(h) PROVE Goal
    <3>1. h = f \/ Submit(h)
      BY <2>0, <2>2 DEF Submitting, Apply, ReadGeneration, LockBackend, WaitSlot, NextImage, BeginOrder
    <3>2. CASE h = f /\ Apply(f)
      <4>1. pending' = FALSE
        BY <3>2 DEF Apply, OthersOK
      <4> QED
        BY <3>2, <4>1, GotoEffect DEF Apply
    <3>3. CASE h = f /\ ReadGeneration(f)
      BY <3>3, ReadGenerationEffect DEF ReadGeneration, AcquireOrder, poolVars
    <3>4. CASE h = f /\ LockBackend(f)
      BY <3>4, GotoEffect DEF LockBackend, AcquireOrder, poolVars, KeepsFields
    <3>5. CASE h = f /\ WaitSlot(f)
      <4>1. sync'[current].copy = sync[current].copy
        BY <3>5 DEF WaitSlot, OthersOK
      <4> QED
        BY <3>5, <4>1, GotoEffect DEF WaitSlot, AcquireOrder, poolVars, KeepsFields, gpuVars, Copied
    <3>6. CASE h = f /\ NextImage(f)
      BY <3>6, NextImageEffect
    <3>7. CASE Submit(h)
      BY <2>0, <3>7, GotoEffect
         DEF Submit, AcquireOrder, poolVars, swapchainVars, KeepsFields, Copied
    <3> QED
      BY <2>2, <3>1, <3>2, <3>3, <3>4, <3>5, <3>6, <3>7 DEF Submitting
  <2>3. ASSUME NEW h \in Frames, Enqueue(h) PROVE Goal
    <3>1. At(f, "image") => sync[current].copy # h
      <4>1. current \in Ring /\ h # 0 /\ frame[h].step = "recorded"
        BY <2>3 DEF Enqueue, OthersOK, Frames
      <4> QED
        BY <4>1 DEF SyncSound
    <3>2. \A x : Contains(copies', x) => Contains(copies, x) \/ x = h
      BY <2>3, ContainsAppend DEF Enqueue, OthersOK
    <3> QED
      BY <2>0, <2>3, <3>1, <3>2, GotoEffect
         DEF Enqueue, AcquireOrder, poolVars, swapchainVars, KeepsFields, Copied
  <2>4. ASSUME NEW h \in Frames, Finish(h) PROVE Goal
    <3>1. lock = 0 /\ f # 0
      BY <2>4 DEF Finish, Frames
    <3> QED
      BY <2>0, <2>4, <3>1, GotoEffect DEF Finish, AcquireOrder, poolVars, KeepsFields
  <2>5. ASSUME NEW h \in Frames,
               Prepare(h) \/ QueuePresent(h) \/ Claim(h) \/ Cancel(h) \/ Consume(h)
        PROVE  Goal
    <3>1. /\ frame'[f].step = frame[f].step /\ frame'[f].generation = frame[f].generation
      BY <2>0, <2>5, GotoEffect, PrepareEffect
         DEF Prepare, QueuePresent, Claim, Cancel, Consume, KeepsFields
    <3>2. UNCHANGED <<pending, generation, lock, sync, current, copies>>
      BY <2>5 DEF Prepare, QueuePresent, Claim, Cancel, Consume, poolVars, swapchainVars, gpuVars
    <3> QED
      BY <3>1, <3>2 DEF AcquireOrder, Copied
  <2>6. CASE Render \/ Show \/ UNCHANGED drawablesVars
    <3>1. UNCHANGED <<frame, pending, generation, lock, sync, current, copies>>
      BY <2>6 DEF Render, Show, drawablesVars, poolVars, swapchainVars, gpuVars
    <3> QED
      BY <3>1 DEF AcquireOrder, Copied
  <2>7. CASE Copy
    <3>1. \A x : Contains(copies', x) => Contains(copies, x)
      BY <2>7, ContainsTail DEF Copy, OthersOK
    <3> QED
      BY <2>7, <3>1, CopyEffect DEF Copy, AcquireOrder, Copied, poolVars, swapchainVars
  <2>8. ASSUME NEW h \in Frames, ApplySame(h) \/ SubmitFails(h) PROVE Goal
    <3>1. h = f
      BY <2>0, <2>8, ErrorEffect DEF BeginOrder
    <3> QED
      BY <2>8, <3>1, ErrorEffect
  <2> QED
    BY <1>2, <2>1, <2>2, <2>3, <2>4, <2>5, <2>6, <2>7, <2>8 DEF Next, Presenting
<1> QED
  BY <1>1, <1>2

LEMMA GenerationsStep ==
  ASSUME KeepsPace, FramesOK, OthersOK, Counted, BeginOrder, AcquireOrder, Generations,
         [Next]_drawablesVars
  PROVE  Generations'
<1>0. /\ generation \in Int /\ backing \in Int
      /\ \A f \in Frames : frame[f].generation \in Int /\ frame[f].backing \in Int
  BY SlotOfFrame DEF OthersOK
<1> DEFINE Goal(f) ==
             /\ Acquired(f)' => frame'[f].backing <= backing' /\ frame'[f].generation <= generation'
             /\ In(f, Active \ {"submitted"})' => frame'[f].generation = generation'
             /\ In(f, Active)' /\ frame'[f].generation = generation'
                  => ~pending' /\ frame'[f].backing = backing'
             /\ Contains(compute, f)' => Submitted(f)' \/ At(f, "discarded")'
             /\ Contains(copies, f)' => In(f, {"enqueued", "presented", "done"})'
             /\ Contains(compute, f)' \/ Contains(copies, f)' => frame'[f].backing = backing'
<1> SUFFICES ASSUME NEW f \in Frames PROVE Goal(f)
  BY DEF Generations, Active
<1> USE DEF At, In, Acquired, Submitted, Active, Acquiring, Consuming
<1>1. ASSUME UNCHANGED <<frame, pending, generation, backing>>,
             \A x : Contains(compute', x) => Contains(compute, x),
             \A x : Contains(copies', x) => Contains(copies, x)
      PROVE  Goal(f)
  BY <1>1 DEF Generations
<1>2. CASE Resize
  <2>1. pending' = TRUE /\ generation' = generation + 1 /\ UNCHANGED <<frame, backing, compute, copies>>
    BY <1>2 DEF Resize, swapchainVars, gpuVars
  <2>2. frame[f].step \in Settled \cup {"submitted"}
    BY <1>2 DEF Resize, KeepsPace
  <2> QED
    BY <1>0, <2>1, <2>2 DEF Generations, Settled
<1>3. CASE Begin
  <2>1. UNCHANGED <<pending, generation, backing, compute, copies>>
    BY <1>3 DEF Begin, poolVars, swapchainVars, gpuVars
  <2> QED
    BY <1>3, <2>1, BeginEffect DEF Generations, KeepsFields
<1>4. ASSUME NEW h \in Frames, Apply(h) PROVE Goal(f)
  <2>1. /\ frame[h].step = "apply" /\ frame'[h].step = "read"
        /\ KeepsFields(f) /\ (f # h => frame'[f].step = frame[f].step)
    BY <1>4, GotoEffect DEF Apply
  <2>2. CASE UNCHANGED <<pending, generation, backing>>
    <3>1. UNCHANGED <<compute, copies>>
      BY <1>4 DEF Apply, gpuVars
    <3> QED
      BY <2>1, <2>2, <3>1 DEF Generations, KeepsFields
  <2>3. CASE pending /\ Recreate /\ compute = << >> /\ copies = << >>
    <3>1. backing' = backing + 1 /\ generation' = generation
      BY <1>4, <2>3 DEF Apply, Recreate
    <3>2. \A x : ~Contains(compute', x) /\ ~Contains(copies', x)
      BY <1>4, <2>3, ContainsEmpty DEF Apply, gpuVars
    <3> QED
      BY <1>0, <2>1, <2>3, <3>1, <3>2 DEF Generations, KeepsFields
  <2> QED
    BY <1>4, <2>2, <2>3 DEF Apply, swapchainVars, IdleGpu
<1>14. ASSUME NEW h \in Frames, ApplySame(h) \/ SubmitFails(h) PROVE Goal(f)
  <2>1. UNCHANGED <<generation, backing, compute, copies>> /\ (pending' => pending)
    BY <1>14, ErrorEffect
  <2>2. CASE f = h
    <3>1. frame[f].step \in {"apply", "image"} /\ frame'[f].step \in {"read", "failed"}
      BY <1>14, <2>2, ErrorEffect
    <3>2. ~Contains(compute, f) /\ ~Contains(copies, f)
      BY <3>1 DEF Generations
    <3> QED
      BY <2>1, <3>1, <3>2
  <2>3. CASE f # h
    BY <1>14, <2>1, <2>3, ErrorEffect DEF Generations
  <2> QED
    BY <2>2, <2>3
<1>5. ASSUME NEW h \in Frames, ReadGeneration(h) PROVE Goal(f)
  <2>1. UNCHANGED <<pending, generation, backing, compute, copies>> /\ frame[h].step = "read"
    BY <1>5 DEF ReadGeneration, poolVars, swapchainVars, gpuVars
  <2> QED
    BY <1>5, <2>1, ReadGenerationEffect DEF Generations
<1>6. ASSUME NEW h \in Frames, NextImage(h) PROVE Goal(f)
  <2>1. UNCHANGED <<pending, generation, backing, compute, copies>> /\ frame[h].step = "image"
    BY <1>6 DEF NextImage, poolVars, gpuVars
  <2>2. CASE f = h
    BY <1>0, <1>6, <2>1, <2>2, NextImageEffect DEF Generations, AcquireOrder
  <2>3. CASE f # h
    BY <1>6, <2>1, <2>3, NextImageEffect DEF Generations
  <2> QED
    BY <2>2, <2>3
<1>7. ASSUME NEW h \in Frames, Submit(h) PROVE Goal(f)
  <2>1. /\ UNCHANGED <<pending, generation, backing, copies>> /\ frame[h].step = "acquired"
        /\ frame'[h].step = "submitted" /\ KeepsFields(f) /\ (f # h => frame'[f].step = frame[f].step)
    BY <1>7, GotoEffect DEF Submit, poolVars, swapchainVars
  <2>2. \A x : Contains(compute', x) => Contains(compute, x) \/ x = h
    BY <1>7, ContainsAppend DEF Submit, OthersOK
  <2> QED
    BY <2>1, <2>2 DEF Generations, KeepsFields
<1>8. ASSUME NEW h \in Frames, Enqueue(h) PROVE Goal(f)
  <2>1. /\ UNCHANGED <<pending, generation, backing, compute>> /\ frame[h].step = "recorded"
        /\ frame'[h].step = "enqueued" /\ KeepsFields(f) /\ (f # h => frame'[f].step = frame[f].step)
    BY <1>8, GotoEffect DEF Enqueue, poolVars, swapchainVars
  <2>2. \A x : Contains(copies', x) => Contains(copies, x) \/ x = h
    BY <1>8, ContainsAppend DEF Enqueue, OthersOK
  <2> QED
    BY <2>1, <2>2 DEF Generations, KeepsFields
<1>9. ASSUME NEW h \in Frames, Prepare(h) PROVE Goal(f)
  <2>1. UNCHANGED <<pending, generation, backing, compute, copies>> /\ frame[h].step = "consuming"
    BY <1>9 DEF Prepare, poolVars, swapchainVars, gpuVars
  <2> QED
    BY <1>9, <2>1, PrepareEffect DEF Generations
<1>10. ASSUME NEW h \in Frames,
              \/ LockBackend(h) \/ WaitSlot(h) \/ Cancel(h) \/ Claim(h) \/ Consume(h)
              \/ QueuePresent(h) \/ Finish(h)
       PROVE  Goal(f)
  <2>1. UNCHANGED <<pending, generation, backing, compute, copies>>
    BY <1>10 DEF LockBackend, WaitSlot, Cancel, Claim, Consume, QueuePresent, Finish,
                 poolVars, swapchainVars, gpuVars
  <2>2. KeepsFields(f) /\ (f # h => frame'[f].step = frame[f].step)
    BY <1>10, GotoEffect DEF LockBackend, WaitSlot, Cancel, Claim, Consume, QueuePresent, Finish
  <2>3. CASE f # h
    BY <2>1, <2>2, <2>3 DEF Generations, KeepsFields
  <2>4. CASE f = h
    <3>1. \/ frame[h].step = "lock" /\ frame'[h].step = "wait"
          \/ frame[h].step = "wait" /\ frame'[h].step = "image"
          \/ frame[h].step \in {"acquired", "submitted", "claimed"} /\ frame'[h].step = "discarded"
          \/ /\ frame[h].step = "submitted" /\ frame'[h].step = "claimed"
             /\ frame[h].generation = generation
          \/ frame[h].step = "claimed" /\ frame'[h].step = "consuming"
          \/ frame[h].step = "enqueued" /\ frame'[h].step = "presented"
          \/ frame[h].step = "presented" /\ frame'[h].step = "done"
      BY <1>10, GotoEffect DEF LockBackend, WaitSlot, Cancel, Claim, Consume, QueuePresent, Finish
    <3> QED
      BY <2>1, <2>2, <2>4, <3>1 DEF Generations, KeepsFields
  <2> QED
    BY <2>3, <2>4
<1>11. CASE Render
  <2>1. UNCHANGED <<frame, pending, generation, backing, copies>>
    BY <1>11 DEF Render, poolVars
  <2>2. \A x : Contains(compute', x) => Contains(compute, x)
    BY <1>11, ContainsTail DEF Render, OthersOK
  <2> QED
    BY <1>1, <2>1, <2>2
<1>12. CASE Copy
  <2>1. UNCHANGED <<pending, generation, backing, compute>>
    BY <1>12 DEF Copy, poolVars, swapchainVars
  <2>2. \A x : Contains(copies', x) => Contains(copies, x)
    BY <1>12, ContainsTail DEF Copy, OthersOK
  <2>3. /\ frame'[f].step = frame[f].step /\ frame'[f].generation = frame[f].generation
        /\ frame'[f].backing = frame[f].backing
    BY <1>12, CopyEffect
  <2> QED
    BY <2>1, <2>2, <2>3 DEF Generations
<1>13. CASE Show \/ UNCHANGED drawablesVars
  BY <1>1, <1>13 DEF Show, drawablesVars, poolVars, swapchainVars, gpuVars
<1> QED
  BY <1>2, <1>3, <1>4, <1>5, <1>6, <1>7, <1>8, <1>9, <1>10, <1>11, <1>12, <1>13, <1>14
     DEF Next, Submitting, Presenting

(* The ring of slots: one acquire is one slot further.                     *)
LEMMA AheadAdvances ==
  ASSUME NEW c \in Ring, NEW s \in Ring
  PROVE  /\ Ahead((c + 1) % Slots, s) = IF s = c THEN 1 ELSE Ahead(c, s) + 1
         /\ Ahead(c, c) = Slots /\ Ahead(c, s) \in Int
<1>1. /\ Slots \in Nat /\ Slots >= 1 /\ c \in Int /\ 0 <= c /\ c < Slots
      /\ s \in Int /\ 0 <= s /\ s < Slots
  BY DrawablesAssumption DEF Ring
<1>2. (c + 1) % Slots = IF c + 1 = Slots THEN 0 ELSE c + 1
  BY <1>1, SMTT(30)
<1> QED
  BY <1>1, <1>2 DEF Ahead

LEMMA SpacingStep ==
  ASSUME FramesOK, OthersOK, Counted, BeginOrder, Generations, Spacing, [Next]_drawablesVars
  PROVE  Spacing'
<1>0. /\ frames \in Int /\ backing \in Int /\ current \in Ring /\ Latest \in Int
      /\ \A g \in Frames : frame[g].slot \in Ring /\ frame[g].backing \in Int /\ g \in Int
  BY SlotOfFrame DEF OthersOK, Latest, Frames
<1>1. Latest' \in Int /\ Latest' >= Latest
  <2>1. CASE Begin
    <3>1. frames' = frames + 1 /\ frames + 1 \in Frames /\ frame'[frames + 1].step \in Acquiring
      BY <2>1, BeginEffect DEF Begin, Acquiring
    <3> QED
      BY <1>0, <3>1 DEF Latest, In
  <2>2. CASE ~Begin
    <3>1. frames' = frames /\ \A f \in Frames : In(f, Acquiring)' => In(f, Acquiring)
      BY <2>2, FrameMoves DEF In, Moves, Acquiring
    <3> QED
      BY <1>0, <3>1 DEF Latest
  <2> QED
    BY <2>1, <2>2
<1> SUFFICES ASSUME NEW g \in Frames, Acquired(g)', frame'[g].backing = backing'
             PROVE  Latest' - g >= Ahead(current', frame'[g].slot)
  BY DEF Spacing
<1>2. CASE UNCHANGED <<current, backing>> /\ ~\E h \in Frames : NextImage(h)
  <2>1. frame'[g].slot = frame[g].slot /\ frame'[g].backing = frame[g].backing
    BY <1>2, FieldsMove DEF Acquired, In, At
  <2>2. Acquired(g)
    BY <1>2, NewlyAcquired
  <2>3. Latest - g >= Ahead(current, frame[g].slot)
    BY <1>2, <2>1, <2>2 DEF Spacing
  <2>4. Ahead(current, frame[g].slot) \in Int
    BY <1>0, AheadAdvances
  <2> QED
    BY <1>0, <1>1, <1>2, <2>1, <2>3, <2>4
<1>3. ASSUME NEW h \in Frames, NextImage(h) PROVE Latest' - g >= Ahead(current', frame'[g].slot)
  <2>1. frame[h].step = "image" /\ current' = NextSlot /\ UNCHANGED <<frames, backing>> /\ h = frames
    BY <1>3 DEF NextImage, At, In, Acquiring, BeginOrder, countVars
  <2>2. Latest = frames /\ Latest' = frames + 1
    <3>1. \A f \in Frames : ~In(f, Acquiring)'
      BY <1>3, <2>1, NextImageEffect DEF BeginOrder, In, Acquiring
    <3> QED
      BY <2>1, <3>1 DEF Latest, In, Acquiring
  <2>3. CASE g = h
    <3>1. Ahead(current', frame'[g].slot) = 1
      BY <1>0, <1>3, <2>1, <2>3, NextImageEffect, AheadAdvances DEF NextSlot
    <3> QED
      BY <1>0, <2>1, <2>2, <2>3, <3>1
  <2>4. CASE g # h
    <3>1. frame'[g] = frame[g] /\ Acquired(g) /\ frame[g].backing = backing
      BY <1>3, <2>1, <2>4, NextImageEffect DEF Acquired, In
    <3>2. Latest - g >= Ahead(current, frame[g].slot)
      BY <3>1 DEF Spacing
    <3>3. /\ Ahead(current, frame[g].slot) \in Int
          /\ Ahead(current', frame[g].slot) \in {1, Ahead(current, frame[g].slot) + 1}
      BY <1>0, <2>1, AheadAdvances DEF NextSlot
    <3>4. g < frames
      <4>1. ~(g > frames)
        <5>1. frame[g].step # "none" /\ g <= frames
          BY <3>1, Begun DEF Acquired, In
        <5> QED
          BY <1>0, <5>1
      <4>2. g \in Int /\ frames \in Int /\ g # frames
        BY <1>0, <2>1, <2>4
      <4> QED
        BY <4>1, <4>2
    <3> QED
      BY <1>0, <2>2, <3>1, <3>2, <3>3, <3>4
  <2> QED
    BY <2>3, <2>4
<1>4. ASSUME NEW h \in Frames, Apply(h), backing' # backing \/ current' # current PROVE FALSE
  <2>1. backing' = backing + 1 /\ Goto(h, "read") /\ frame[h].step = "apply"
    BY <1>4 DEF Apply, Recreate, swapchainVars, At
  <2>2. Acquired(g)
    BY <2>1, GotoEffect DEF Acquired, In, Acquiring
  <2>3. frame[g].backing <= backing /\ frame'[g].backing = frame[g].backing
    BY <2>1, <2>2, GotoEffect DEF Generations, KeepsFields
  <2> QED
    BY <1>0, <2>1, <2>3
<1>5. ASSUME NEW h \in Frames, ApplySame(h) \/ SubmitFails(h)
      PROVE  UNCHANGED <<current, backing>>
  BY <1>5, ErrorEffect
<1> QED
  BY <1>2, <1>3, <1>4, <1>5
     DEF Next, Submitting, Presenting, Begin, Resize, ReadGeneration, LockBackend, WaitSlot, Submit, Cancel,
         Claim, Consume, Prepare, Enqueue, QueuePresent, Finish, Render, Copy, Show, drawablesVars, swapchainVars

(* What becomes of the frames that the GPU still has to copy, of the       *)
(* swapchain, and of the values a slot waits for.                          *)
LEMMA CopiesMove ==
  ASSUME OthersOK, [Next]_drawablesVars, NEW x \in Frames, Contains(copies, x)'
  PROVE  Contains(copies, x) \/ Enqueue(x)
<1>1. CASE UNCHANGED copies
  BY <1>1
<1>2. CASE Copy
  BY <1>2, ContainsTail DEF Copy, OthersOK
<1>3. ASSUME NEW h \in Frames, Enqueue(h) PROVE Contains(copies, x) \/ Enqueue(x)
  BY <1>3, ContainsAppend DEF Enqueue, OthersOK
<1>4. ASSUME NEW h \in Frames, ApplySame(h) \/ SubmitFails(h) PROVE UNCHANGED copies
  BY <1>4 DEF ApplySame, SubmitFails, ApplyFails, NextImageFails, ScratchFails, gpuVars
<1> QED
  BY <1>1, <1>2, <1>3, <1>4
     DEF Next, Submitting, Presenting, Resize, Begin, Apply, ReadGeneration, LockBackend, WaitSlot, NextImage,
         Submit, Cancel, Claim, Consume, Prepare, QueuePresent, Finish, Render, Show, drawablesVars, gpuVars

LEMMA BackingMoves ==
  ASSUME OthersOK, [Next]_drawablesVars
  PROVE  \/ backing' = backing
         \/ /\ backing' = backing + 1 /\ pending /\ pending' = FALSE
            /\ compute = << >> /\ copies = << >> /\ UNCHANGED <<compute, copies, generation, sync>>
            /\ scratch' = NoSlots
            /\ \E h \in Frames : At(h, "apply") /\ Goto(h, "read")
<1>1. ASSUME NEW h \in Frames, Apply(h)
      PROVE  \/ backing' = backing
             \/ /\ backing' = backing + 1 /\ pending /\ pending' = FALSE
                /\ compute = << >> /\ copies = << >> /\ UNCHANGED <<compute, copies, generation, sync>>
                /\ scratch' = NoSlots
                /\ At(h, "apply") /\ Goto(h, "read")
  BY <1>1 DEF Apply, IdleGpu, Recreate, swapchainVars, gpuVars
<1>2. ASSUME ~\E h \in Frames : Apply(h) PROVE backing' = backing
  BY <1>2
     DEF Next, Submitting, Presenting, Resize, Begin, ReadGeneration, LockBackend, WaitSlot, NextImage, Submit,
         Cancel, Claim, Consume, Prepare, Enqueue, QueuePresent, Finish, Render, Copy, Show, drawablesVars,
         ApplySame, SubmitFails, ApplyFails, NextImageFails, ScratchFails, swapchainVars
<1> QED
  BY <1>1, <1>2

LEMMA SyncMoves ==
  ASSUME FramesOK, OthersOK, [Next]_drawablesVars, NEW s \in Ring
  PROVE  \/ sync'[s].copy = sync[s].copy
         \/ \E h \in Frames : Finish(h) /\ s = frame[h].slot /\ sync'[s].copy = h
<1>1. CASE UNCHANGED sync
  BY <1>1
<1>2. ASSUME NEW h \in Frames, WaitSlot(h) PROVE sync'[s].copy = sync[s].copy
  BY <1>2 DEF WaitSlot, OthersOK
<1>3. ASSUME NEW h \in Frames, Finish(h)
      PROVE  sync'[s].copy = sync[s].copy \/ (s = frame[h].slot /\ sync'[s].copy = h)
  BY <1>3, SlotOfFrame DEF Finish, OthersOK
<1> QED
  BY <1>1, <1>2, <1>3
     DEF Next, Submitting, Presenting, Resize, Begin, Apply, Recreate, ReadGeneration, LockBackend, NextImage, Submit,
         Cancel, Claim, Consume, Prepare, Enqueue, QueuePresent, Render, Copy, Show, drawablesVars, swapchainVars,
         ApplySame, SubmitFails, ApplyFails, NextImageFails, ScratchFails

LEMMA AcquiredStays ==
  ASSUME FramesOK, OthersOK, BeginOrder, [Next]_drawablesVars, NEW g \in Frames, Acquired(g)
  PROVE  frame'[g].slot = frame[g].slot /\ frame'[g].backing = frame[g].backing
         /\ frame'[g].generation = frame[g].generation
<1>1. frame[g].step \notin {"image", "read"} /\ frame'[g].step # "failed"
  BY Standing DEF Acquired, In, Acquiring
<1> QED
  BY <1>1, FieldsMove DEF NextImage, ReadGeneration, At

(* A frame with an image of the swapchain of now had it before the step.   *)
LEMMA StillOfNow ==
  ASSUME FramesOK, OthersOK, BeginOrder, Generations, [Next]_drawablesVars, NEW g \in Frames,
         Acquired(g), frame'[g].backing = backing'
  PROVE  frame[g].backing = backing /\ backing' = backing
<1>1. frame'[g].backing = frame[g].backing /\ frame[g].backing <= backing
  BY AcquiredStays DEF Generations
<1>2. backing \in Int /\ frame[g].backing \in Int
  BY SlotOfFrame DEF OthersOK
<1>3. backing' = backing \/ backing' = backing + 1
  BY BackingMoves
<1> QED
  BY <1>1, <1>2, <1>3

LEMMA ExclusionStep ==
  ASSUME KeepsPace, FramesOK, OthersOK, BeginOrder, AcquireOrder, Generations, Spacing, Exclusion,
         SyncSound, [Next]_drawablesVars
  PROVE  Exclusion'
<1> SUFFICES ASSUME NEW f \in Frames, NEW g \in Frames, Acquired(f)', Acquired(g)',
                    Sharing(f, g)', g < f
             PROVE  In(g, Settled)' /\ ~Contains(copies, g)'
  BY DEF Exclusion
<1>0. f \in Int /\ g \in Int
  BY DEF Frames
<1>1. CASE Acquired(f) /\ Acquired(g)
  <2>1. Sharing(f, g)
    BY <1>1, AcquiredStays, StillOfNow DEF Sharing
  <2>2. In(g, Settled) /\ ~Contains(copies, g)
    BY <1>1, <2>1 DEF Exclusion
  <2>3. frame'[g].step = frame[g].step
    BY <1>1, <2>2, Standing DEF Acquired, At, In
  <2>4. ~Enqueue(g)
    BY <2>2 DEF Enqueue, At, In, Settled
  <2> QED
    BY <2>2, <2>3, <2>4, CopiesMove DEF In
<1>2. CASE NextImage(f) /\ Acquired(g)
  <2>1. frame[f].step = "image" /\ f = frames /\ backing' = backing /\ copies' = copies
    BY <1>2 DEF NextImage, At, BeginOrder, In, Acquiring, gpuVars
  <2>2. frame'[g] = frame[g] /\ frame'[f].slot = current
    BY <1>0, <1>2, NextImageEffect
  <2>3. frame[g].backing = backing /\ frame[g].slot = current
    BY <2>1, <2>2 DEF Sharing
  <2>4. Latest = f
    BY <2>1 DEF Latest, In, Acquiring
  <2>5. f - g >= Slots
    BY <1>2, <2>3, <2>4, AheadAdvances DEF Spacing, OthersOK
  <2>6. In(g, Settled)
    <3>1. Depth \in Nat /\ Slots \in Nat /\ g + Depth <= f
      BY <1>0, <2>5, DrawablesAssumption DEF KeepsPace
    <3> QED
      BY <2>1, <3>1 DEF BeginOrder, In, Acquiring
  <2>7. ~Contains(copies, g)
    <3> SUFFICES ASSUME Contains(copies, g) PROVE FALSE
      OBVIOUS
    <3>1. At(g, "done")
      BY <2>6 DEF Generations, In, At, Settled
    <3>2. sync[current].copy = g
      BY <2>3, <3>1 DEF SyncSound
    <3>3. Copied(g)
      BY <2>1, <3>2 DEF AcquireOrder, At
    <3> QED
      BY <3>3 DEF Copied, Frames
  <2> QED
    BY <2>1, <2>2, <2>6, <2>7 DEF In
<1>3. CASE NextImage(g)
  <2>1. g = frames
    BY <1>3 DEF NextImage, At, BeginOrder, In, Acquiring
  <2>2. frame[f].step = "none" /\ frame'[f] = frame[f]
    BY <1>0, <1>3, <2>1, NextImageEffect DEF BeginOrder, At
  <2> QED
    BY <2>2 DEF Acquired, In
<1> QED
  BY <1>1, <1>2, <1>3, NewlyAcquired

LEMMA SyncSoundStep ==
  ASSUME FramesOK, OthersOK, BeginOrder, Generations, Exclusion, SyncSound, [Next]_drawablesVars
  PROVE  SyncSound'
<1>1. ASSUME NEW s \in Ring, sync'[s].copy # 0 PROVE At(sync[s].copy, "done")'
  <2>1. CASE sync'[s].copy = sync[s].copy
    <3>1. sync[s].copy \in Frames /\ At(sync[s].copy, "done")
      BY <1>1, <2>1, DrawablesAssumption DEF OthersOK, Frames, SyncSound
    <3>2. frame'[sync[s].copy].step = "done"
      BY <3>1, Standing DEF At, In, Settled
    <3> QED
      BY <2>1, <3>2 DEF At
  <2>2. ASSUME NEW h \in Frames, Finish(h), sync'[s].copy = h PROVE At(sync[s].copy, "done")'
    BY <2>2, GotoEffect DEF Finish, At
  <2> QED
    BY <2>1, <2>2, SyncMoves
<1>2. ASSUME NEW g \in Frames, Contains(copies, g)', At(g, "done")'
      PROVE  sync'[frame'[g].slot].copy = g
  <2>1. CASE At(g, "done")
    <3>1. Acquired(g) /\ Contains(copies, g)
      BY <1>2, <2>1, CopiesMove DEF Enqueue, At, Acquired, In, Acquiring
    <3>2. /\ sync[frame[g].slot].copy = g /\ frame'[g].slot = frame[g].slot
          /\ frame[g].slot \in Ring /\ frame[g].backing = backing
      BY <2>1, <3>1, AcquiredStays, SlotOfFrame DEF SyncSound, Generations
    <3>3. ASSUME NEW h \in Frames, Finish(h), frame[g].slot = frame[h].slot PROVE FALSE
      <4>1. frame[h].step = "presented"
        BY <3>3 DEF Finish, At
      <4>2. Acquired(h) /\ ~In(h, Settled) /\ frame[h].backing = backing /\ h # g
        BY <2>1, <4>1 DEF Generations, Active, Consuming, Acquired, Acquiring, Settled, In, At
      <4>3. Sharing(g, h) /\ Sharing(h, g)
        BY <3>2, <3>3, <4>2 DEF Sharing
      <4>4. h < g \/ g < h
        BY <4>2 DEF Frames
      <4> QED
        BY <3>1, <4>2, <4>3, <4>4 DEF Exclusion
    <3> QED
      BY <3>2, <3>3, SyncMoves
  <2>2. CASE ~At(g, "done")
    <3>1. Finish(g) /\ frame[g].step = "presented"
      BY <1>2, <2>2, NewlyDone DEF At
    <3>2. frame'[g].slot = frame[g].slot /\ frame[g].slot \in Ring
      BY <3>1, AcquiredStays, SlotOfFrame DEF Acquired, In, Acquiring
    <3> QED
      BY <3>1, <3>2 DEF Finish, OthersOK
  <2> QED
    BY <2>1, <2>2
<1> QED
  BY <1>1, <1>2 DEF SyncSound

(* The frames that the GPU has to render: one more at the end, or one less *)
(* at the front.                                                           *)
LEMMA ComputeMoves ==
  ASSUME OthersOK, [Next]_drawablesVars
  PROVE  \/ compute' = compute
         \/ \E h \in Frames : Submit(h) /\ compute' = Append(compute, h)
         \/ Render /\ compute # << >> /\ compute' = Tail(compute)
  BY DEF Next, Submitting, Presenting, Resize, Begin, Apply, ReadGeneration, LockBackend, WaitSlot, NextImage,
         Submit, Cancel, Claim, Consume, Prepare, Enqueue, QueuePresent, Finish, Render, Copy, Show,
         ApplySame, SubmitFails, ApplyFails, NextImageFails, ScratchFails, drawablesVars, gpuVars

(* What a frame has that is rendered or waits for it.                      *)
LEMMA Rendering ==
  ASSUME OthersOK, BeginOrder, Generations, NEW g \in Frames, Contains(compute, g)
  PROVE  /\ Acquired(g) /\ frame[g].backing = backing /\ g <= frames
         /\ frame[g].step \notin {"none", "acquired"}
<1>1. (Submitted(g) \/ At(g, "discarded")) /\ frame[g].backing = backing
  BY DEF Generations
<1>2. Acquired(g) /\ frame[g].step \notin {"none", "acquired"}
  BY <1>1 DEF Submitted, Acquired, At, In, Acquiring
<1> QED
  BY <1>1, <1>2, Begun

LEMMA SubmittedLast ==
  ASSUME OthersOK, BeginOrder, NEW h \in Frames, Submit(h), NEW g \in Frames,
         frame[g].step \notin {"none", "acquired"}
  PROVE  g < h
<1>1. frame[h].step = "acquired" /\ h = frames
  BY DEF Submit, At, In, BeginOrder
<1>2. g <= frames /\ g # h /\ g \in Int /\ h \in Int
  BY <1>1, Begun DEF Frames
<1> QED
  BY <1>1, <1>2

LEMMA RenderOrderStep ==
  ASSUME FramesOK, OthersOK, BeginOrder, Generations, RenderOrder, [Next]_drawablesVars
  PROVE  RenderOrder'
<1>0. compute \in Seq(Frames) /\ \A i \in 1..Len(compute) : compute[i] \in Frames /\ Contains(compute, compute[i])
  BY DEF OthersOK, Contains
<1>1. ASSUME NEW i \in 1..Len(compute'), NEW j \in 1..Len(compute'), i < j
      PROVE  compute'[i] < compute'[j]
  <2>1. CASE compute' = compute
    BY <1>1, <2>1 DEF RenderOrder
  <2>2. ASSUME NEW h \in Frames, Submit(h), compute' = Append(compute, h)
        PROVE  compute'[i] < compute'[j]
    <3>1. i \in 1..Len(compute) /\ compute'[i] = compute[i]
      BY <1>0, <1>1, <2>2
    <3>2. CASE j \in 1..Len(compute)
      <4>1. compute'[j] = compute[j]
        BY <1>0, <2>2, <3>2
      <4> QED
        BY <1>1, <3>1, <3>2, <4>1 DEF RenderOrder
    <3>3. CASE j \notin 1..Len(compute)
      <4>1. compute'[j] = h
        BY <1>0, <1>1, <2>2, <3>3
      <4>2. compute[i] < h
        BY <1>0, <2>2, <3>1, Rendering, SubmittedLast
      <4> QED
        BY <3>1, <4>1, <4>2
    <3> QED
      BY <3>2, <3>3
  <2>3. CASE compute # << >> /\ compute' = Tail(compute)
    <3>1. /\ i + 1 \in 1..Len(compute) /\ j + 1 \in 1..Len(compute) /\ i + 1 < j + 1
          /\ compute'[i] = compute[i + 1] /\ compute'[j] = compute[j + 1]
      BY <1>0, <1>1, <2>3
    <3> QED
      BY <3>1 DEF RenderOrder
  <2> QED
    BY <2>1, <2>2, <2>3, ComputeMoves
<1>2. ASSUME NEW f \in Frames, NEW g \in Frames, Submitted(f)', ~Contains(compute, f)', Contains(compute, g)'
      PROVE  f < g
  <2>1. Submitted(f)
    <3> SUFFICES ASSUME ~Submitted(f) PROVE FALSE
      OBVIOUS
    <3>1. Submit(f)
      <4>1. frame[f].step = "acquired" /\ frame'[f].step \notin {"acquired", "discarded"}
        BY <1>2, Standing DEF At, Submitted, In
      <4> QED
        BY <4>1, NewlySubmitted
    <3>2. Contains(compute', f)
      BY <3>1, ContainsAppend DEF Submit, OthersOK
    <3> QED
      BY <1>2, <3>2
  <2>2. f \in Int /\ g \in Int /\ frame[f].step \notin {"none", "acquired"}
    BY <2>1 DEF Submitted, In, Frames
  <2>3. CASE compute' = compute
    BY <1>2, <2>1, <2>3 DEF RenderOrder
  <2>4. ASSUME NEW h \in Frames, Submit(h), compute' = Append(compute, h) PROVE f < g
    <3>1. ~Contains(compute, f) /\ (Contains(compute, g) \/ g = h)
      BY <1>0, <1>2, <2>4, ContainsAppend
    <3>2. CASE Contains(compute, g)
      BY <2>1, <3>1, <3>2 DEF RenderOrder
    <3>3. CASE g = h
      BY <2>2, <2>4, <3>3, SubmittedLast
    <3> QED
      BY <3>1, <3>2, <3>3
  <2>5. CASE compute # << >> /\ compute' = Tail(compute)
    <3>1. Contains(compute, g) /\ (Contains(compute, f) => f = Head(compute))
      BY <1>0, <1>2, <2>5, ContainsTail
    <3>2. CASE ~Contains(compute, f)
      BY <2>1, <3>1, <3>2 DEF RenderOrder
    <3>3. CASE f = Head(compute)
      <4> PICK i \in 1..Len(compute') : compute'[i] = g
        BY <1>2 DEF Contains
      <4>1. i + 1 \in 1..Len(compute) /\ 1 \in 1..Len(compute) /\ 1 < i + 1
            /\ compute[i + 1] = g /\ compute[1] = f
        BY <1>0, <2>5, <3>3
      <4> QED
        BY <4>1 DEF RenderOrder
    <3> QED
      BY <3>1, <3>2, <3>3
  <2> QED
    BY <2>3, <2>4, <2>5, ComputeMoves
<1> QED
  BY <1>1, <1>2 DEF RenderOrder

(* The textures of the slots.                                              *)
LEMMA ScratchMoves ==
  ASSUME FramesOK, OthersOK, [Next]_drawablesVars, NEW s \in Ring, backing' = backing
  PROVE  \/ scratch'[s] = scratch[s]
         \/ /\ Render /\ Head(compute) \in Frames /\ Contains(compute, Head(compute))
            /\ s = frame[Head(compute)].slot /\ scratch'[s] = Head(compute)
         \/ \E h \in Frames : NextImage(h) /\ scratch[s] = -1 /\ scratch'[s] = 0
         \/ pending /\ copies = << >> /\ Broken'
<1>1. CASE UNCHANGED scratch
  BY <1>1
<1>2. CASE Render
  <2>1. Head(compute) \in Frames /\ Contains(compute, Head(compute))
    BY <1>2, QueueParts, ContainsTail DEF Render, OthersOK
  <2>2. frame[Head(compute)].slot \in Ring
    BY <2>1, SlotOfFrame
  <2> QED
    BY <1>2, <2>1, <2>2 DEF Render, OthersOK
<1>3. ASSUME NEW h \in Frames, NextImage(h)
      PROVE  scratch'[s] = scratch[s] \/ (scratch[s] = -1 /\ scratch'[s] = 0)
  <2>1. scratch' = [scratch EXCEPT ![current] = IF @ = -1 THEN 0 ELSE @]
    BY <1>3 DEF NextImage
  <2> QED
    BY <2>1 DEF OthersOK
<1>4. ASSUME NEW h \in Frames, Apply(h) PROVE UNCHANGED scratch
  BY <1>4 DEF Apply, Recreate, OthersOK, swapchainVars
<1>5. ASSUME NEW h \in Frames, ApplySame(h) \/ SubmitFails(h)
      PROVE  UNCHANGED scratch \/ (pending /\ copies = << >> /\ Broken')
  <2>1. AllAre("retired")[1] = "retired" /\ 1 \in 1..Images
    BY DrawablesAssumption DEF AllAre
  <2>2. image' = AllAre("retired") => Broken'
    BY <2>1 DEF Broken
  <2> QED
    BY <1>5, <2>2 DEF ApplySame, SubmitFails, ApplyFails, NextImageFails, ScratchFails, IdleGpu, swapchainVars
<1> QED
  BY <1>1, <1>2, <1>3, <1>4, <1>5
     DEF Next, Submitting, Presenting, Resize, Begin, ReadGeneration, LockBackend, WaitSlot, Submit,
         Cancel, Claim, Consume, Prepare, Enqueue, QueuePresent, Finish, Copy, Show, drawablesVars, swapchainVars

(* A swapchain that is given up stays so until another replaces it, and is *)
(* neither acquired from nor presented to.                                 *)
LEMMA BrokenStep ==
  ASSUME OthersOK, AcquireOrder, Generations, BrokenWaits, [Next]_drawablesVars
  PROVE  (Broken /\ backing' = backing => Broken') /\ BrokenWaits'
<1> USE DEF poolVars
<1>1. CASE UNCHANGED <<image, pending, screen>>
  BY <1>1 DEF Broken, BrokenWaits
<1>2. CASE Resize
  BY <1>2 DEF Resize, Broken, BrokenWaits
<1>3. ASSUME NEW h \in Frames, Apply(h)
      PROVE  (Broken /\ backing' = backing => Broken') /\ BrokenWaits'
  <2>1. CASE UNCHANGED <<pending, swapchainVars, image, screen>>
    BY <1>1, <2>1
  <2>2. CASE Recreate
    <3>1. backing' # backing
      BY <2>2 DEF Recreate, OthersOK
    <3>2. ~Broken'
      BY <2>2 DEF Recreate, AllAre, Broken
    <3> QED
      BY <3>1, <3>2 DEF BrokenWaits
  <2> QED
    BY <1>3, <2>1, <2>2 DEF Apply
<1>4. ASSUME NEW h \in Frames, ApplySame(h)
      PROVE  (Broken /\ backing' = backing => Broken') /\ BrokenWaits'
  BY <1>4 DEF ApplySame, Broken, BrokenWaits
<1>5. ASSUME NEW h \in Frames, ApplyFails(h)
      PROVE  (Broken /\ backing' = backing => Broken') /\ BrokenWaits'
  <2>1. CASE UNCHANGED <<scratch, image, screen>>
    BY <1>1, <1>5, <2>1 DEF ApplyFails
  <2>2. CASE image' = AllAre("retired") /\ screen' = << >>
    <3>1. AllAre("retired")[1] = "retired" /\ 1 \in 1..Images
      BY DrawablesAssumption DEF AllAre
    <3> QED
      BY <1>5, <2>2, <3>1 DEF ApplyFails, Broken, BrokenWaits
  <2> QED
    BY <1>5, <2>1, <2>2 DEF ApplyFails
<1>6. ASSUME NEW h \in Frames, NextImage(h) \/ ScratchFails(h) \/ QueuePresent(h)
      PROVE  (Broken /\ backing' = backing => Broken') /\ BrokenWaits'
  <2>1. ~pending
    <3>1. CASE NextImage(h) \/ ScratchFails(h)
      BY <3>1 DEF NextImage, ScratchFails, AcquireOrder, At, In
    <3>2. CASE QueuePresent(h)
      BY <3>2 DEF QueuePresent, Generations, Active, Consuming, At, In
    <3> QED
      BY <1>6, <3>1, <3>2
  <2>2. ~Broken
    BY <2>1 DEF BrokenWaits
  <2>3. \A j \in 1..Images : image'[j] \in {image[j], "held", "queued"}
    BY <1>6 DEF NextImage, ScratchFails, QueuePresent, OthersOK
  <2>4. ~Broken'
    BY <2>2, <2>3 DEF Broken
  <2> QED
    BY <2>2, <2>4 DEF BrokenWaits
<1>7. CASE Show
  <2>1. ~Broken
    BY <1>7 DEF Show, BrokenWaits
  <2>2. ~Broken'
    BY <1>7, <2>1 DEF Show, Broken
  <2> QED
    BY <2>1, <2>2 DEF BrokenWaits
<1>8. ASSUME NEW h \in Frames, NextImageFails(h) PROVE UNCHANGED <<image, pending, screen>>
  BY <1>8 DEF NextImageFails
<1> QED
  BY <1>1, <1>2, <1>3, <1>4, <1>5, <1>6, <1>7, <1>8
     DEF Next, Submitting, Presenting, SubmitFails, Begin, ReadGeneration, LockBackend, WaitSlot, Submit,
         Cancel, Claim, Consume, Prepare, Enqueue, Finish, Render, Copy, drawablesVars

LEMMA LiveFrame ==
  ASSUME Generations, NEW f \in Frames, Live(f)
  PROVE  /\ Acquired(f) /\ Submitted(f) /\ frame[f].backing = backing
         /\ ~(In(f, Settled) /\ ~Contains(copies, f))
<1>1. CASE In(f, Active \ {"acquired"}) /\ frame[f].generation = generation
  BY <1>1 DEF Generations, Active, Consuming, Acquired, Submitted, Acquiring, Settled, In
<1>2. CASE Contains(copies, f)
  BY <1>2 DEF Generations, Acquired, Submitted, Acquiring, In
<1> QED
  BY <1>1, <1>2 DEF Live

LEMMA LiveStays ==
  ASSUME KeepsPace, FramesOK, OthersOK, BeginOrder, Generations, [Next]_drawablesVars, NEW f \in Frames,
         Live(f)'
  PROVE  Live(f) \/ Submit(f)
<1>1. CASE In(f, Active \ {"acquired"})' /\ frame'[f].generation = generation'
  <2>1. In(f, Active \ {"acquired"}) \/ Submit(f)
    <3>1. CASE At(f, "acquired")
      <4>1. frame[f].step = "acquired" /\ frame'[f].step \notin {"acquired", "discarded"}
        BY <1>1, <3>1 DEF In, At, Active, Consuming
      <4> QED
        BY <4>1, NewlySubmitted
    <3> QED
      BY <1>1, <3>1, Standing
  <2>2. ASSUME In(f, Active \ {"acquired"}) PROVE frame[f].generation = generation
    <3>1. Acquired(f)
      BY <2>2 DEF Active, Consuming, Acquired, Acquiring, In
    <3>2. frame[f].generation = generation' /\ frame[f].generation <= generation
      BY <1>1, <3>1, AcquiredStays DEF Generations
    <3>3. generation' = generation \/ generation' = generation + 1
      BY DEF Next, Submitting, Presenting, Resize, Begin, Apply, ReadGeneration, LockBackend, WaitSlot,
             NextImage, Submit, Cancel, Claim, Consume, Prepare, Enqueue, QueuePresent, Finish, Render, Copy,
             Show, ApplySame, SubmitFails, ApplyFails, NextImageFails, ScratchFails, drawablesVars, poolVars
    <3>4. generation \in Int
      BY DEF OthersOK
    <3> QED
      BY <3>2, <3>3, <3>4
  <2> QED
    BY <2>1, <2>2 DEF Live
<1>2. CASE Contains(copies, f)'
  <2>1. Contains(copies, f) \/ frame[f].step = "recorded"
    BY <1>2, CopiesMove DEF Enqueue, At
  <2> QED
    BY <2>1 DEF Live, Generations, Active, Consuming, In
<1> QED
  BY <1>1, <1>2 DEF Live

LEMMA PixelsKeptStep ==
  ASSUME KeepsPace, FramesOK, OthersOK, BeginOrder, Generations, Exclusion, RenderOrder, PixelsKept,
         AcquireOrder, BrokenWaits, [Next]_drawablesVars
  PROVE  PixelsKept'
<1>1. ASSUME NEW f \in Frames, Live(f)', ~Contains(compute, f)' PROVE scratch'[frame'[f].slot] = f
  <2>1. Live(f)
    <3>1. ~Submit(f)
      <4>1. Submit(f) => Contains(compute', f)
        BY ContainsAppend DEF Submit, OthersOK
      <4> QED
        BY <1>1, <4>1
    <3> QED
      BY <1>1, <3>1, LiveStays
  <2>2. /\ Acquired(f) /\ Submitted(f) /\ frame[f].backing = backing /\ frame'[f].slot = frame[f].slot
        /\ frame[f].slot \in Ring
    BY <2>1, LiveFrame, AcquiredStays, SlotOfFrame
  <2>6. ~(pending /\ copies = << >>)
    BY <2>1, ContainsEmpty DEF Live, Generations, In
  <2>3. backing' = backing
    BY <2>6, BackingMoves
  <2>4. CASE Contains(compute, f)
    <3>1. Render /\ compute # << >> /\ compute' = Tail(compute)
      <4>1. ASSUME NEW h \in Frames, compute' = Append(compute, h) PROVE FALSE
        BY <1>1, <2>4, <4>1, ContainsAppend DEF OthersOK
      <4> QED
        BY <1>1, <2>4, <4>1, ComputeMoves
    <3>2. f = Head(compute)
      BY <1>1, <2>4, <3>1, ContainsTail DEF OthersOK
    <3> QED
      BY <2>2, <3>1, <3>2 DEF Render, OthersOK
  <2>5. CASE ~Contains(compute, f)
    <3>1. scratch[frame[f].slot] = f /\ f # -1
      BY <2>1, <2>5 DEF PixelsKept, Frames
    <3>2. ASSUME NEW h \in Frames, Contains(compute, h), frame[f].slot = frame[h].slot PROVE FALSE
      <4>1. Acquired(h) /\ frame[h].backing = backing /\ f < h
        BY <2>2, <2>5, <3>2, Rendering DEF RenderOrder
      <4>2. In(f, Settled) /\ ~Contains(copies, f)
        BY <2>2, <3>2, <4>1 DEF Exclusion, Sharing
      <4> QED
        BY <2>1, <4>2, LiveFrame
    <3> QED
      BY <2>2, <2>3, <2>6, <3>1, <3>2, ScratchMoves
  <2> QED
    BY <2>4, <2>5
<1>2. ASSUME NEW f \in Frames, Acquired(f)', frame'[f].backing = backing', ~Broken'
      PROVE  scratch'[frame'[f].slot] # -1
  <2>1. CASE Acquired(f)
    <3>1. /\ frame[f].backing = backing /\ backing' = backing /\ frame'[f].slot = frame[f].slot
          /\ frame[f].slot \in Ring
      BY <1>2, <2>1, StillOfNow, AcquiredStays, SlotOfFrame
    <3>2. ~Broken
      BY <1>2, <3>1, BrokenStep
    <3>3. scratch[frame[f].slot] # -1
      BY <2>1, <3>1, <3>2 DEF PixelsKept
    <3>4. \A h \in Frames : h # -1
      BY DEF Frames
    <3> QED
      BY <1>2, <3>1, <3>3, <3>4, ScratchMoves
  <2>2. CASE ~Acquired(f)
    <3>1. NextImage(f) /\ current \in Ring /\ frame'[f].slot = current
      BY <1>2, <2>2, NewlyAcquired, NextImageEffect DEF OthersOK
    <3>2. scratch' = [scratch EXCEPT ![current] = IF @ = -1 THEN 0 ELSE @]
      BY <3>1 DEF NextImage
    <3> QED
      BY <3>1, <3>2 DEF OthersOK
  <2> QED
    BY <2>1, <2>2
<1> QED
  BY <1>1, <1>2 DEF PixelsKept

(* With all that, a consume finds its slot, its swapchain and its pixels.  *)
LEMMA PresentsStep ==
  ASSUME FrameOrder, PresentsOwnFrame, [Next]_drawablesVars
  PROVE  PresentsOwnFrame'
<1> USE DEF FrameOrder
<1> SUFFICES ASSUME NEW f \in Frames
             PROVE  /\ ~At(f, "panicked")'
                    /\ In(f, {"recorded", "enqueued", "presented", "done"})' => frame'[f].target = frame'[f].backing
                    /\ frame'[f].copied \in {0, f}
  BY DEF PresentsOwnFrame
<1>1. CASE Prepare(f)
  <2>1. frame[f].step = "consuming"
    BY <1>1 DEF Prepare, At
  <2>3. frame[f].backing = backing /\ ~pending /\ Acquired(f)
    BY <2>1 DEF Generations, Active, Consuming, Acquired, Acquiring, In
  <2>2. frame[f].backing = backing /\ scratch[frame[f].slot] # -1
    BY <2>3 DEF PixelsKept, BrokenWaits
  <2> QED
    BY <1>1, <2>2, PrepareEffect DEF PresentsOwnFrame, At
<1>2. CASE ~Prepare(f)
  <2>1. ~At(f, "panicked")' /\ (In(f, {"recorded", "enqueued", "presented", "done"})' =>
                                  In(f, {"recorded", "enqueued", "presented", "done"}))
    <3>1. CASE frame'[f].step = frame[f].step \/ Begin
      BY <3>1, BeginEffect DEF PresentsOwnFrame, At, In
    <3>2. CASE frame'[f].step # frame[f].step /\ ~Begin
      <4>1. Moves(frame[f].step, frame'[f].step)
        BY <3>2, FrameMoves
      <4>2. frame[f].step # "consuming"
        BY <1>2, <3>2, WhoMoves
           DEF Submitting, Presenting, Apply, ReadGeneration, LockBackend, WaitSlot, NextImage, Submit,
               Claim, Cancel, Consume, Enqueue, QueuePresent, Finish, At, In
      <4> QED
        BY <4>1, <4>2 DEF Moves, At, In
    <3> QED
      BY <3>1, <3>2
  <2>2. frame'[f].target = frame[f].target
    BY <1>2, FieldsMove
  <2>3. In(f, {"recorded", "enqueued", "presented", "done"}) => frame'[f].backing = frame[f].backing
    BY AcquiredStays DEF Acquired, Acquiring, In
  <2>4. frame'[f].copied \in {0, f}
    <3>1. CASE Copy /\ f = Head(copies)
      <4>1. Contains(copies, f) /\ ~Contains(compute, f)
        BY <3>1, ContainsTail DEF Copy, Rendered, OthersOK, Frames
      <4>2. scratch[frame[f].slot] = f
        BY <4>1 DEF PixelsKept, Live
      <4> QED
        BY <3>1, <4>2, CopyEffect
    <3>2. CASE ~(Copy /\ f = Head(copies))
      BY <3>2, FieldsMove DEF PresentsOwnFrame
    <3> QED
      BY <3>1, <3>2
  <2> QED
    BY <2>1, <2>2, <2>3, <2>4 DEF PresentsOwnFrame
<1> QED
  BY <1>1, <1>2

LEMMA FrameOrderInit == Init => FrameOrder /\ PresentsOwnFrame
<1> SUFFICES ASSUME Init PROVE FrameOrder /\ PresentsOwnFrame
  OBVIOUS
<1>1. \A f \in Frames : frame[f].step = "none" /\ frame[f].copied = 0
  BY DEF Init, NoFrame
<1>2. \A x : ~Contains(compute, x) /\ ~Contains(copies, x)
  BY ContainsEmpty DEF Init
<1>3. FramesOK /\ OthersOK /\ Counted
  BY TypeInit
<1>4. BeginOrder /\ AcquireOrder /\ Generations
  BY <1>1, <1>2 DEF BeginOrder, AcquireOrder, Generations, Acquired, Active, Acquiring, Consuming, At, In, Settled
<1>5. Spacing /\ Exclusion /\ PixelsKept
  BY <1>1, <1>2 DEF Spacing, Exclusion, PixelsKept, Live, Acquired, Active, Acquiring, Consuming, In
<1>9. BrokenWaits
  BY DEF Init, Broken, BrokenWaits
<1>6. SyncSound
  BY <1>2 DEF SyncSound, Init
<1>7. RenderOrder
  <2>1. Len(compute) = 0
    BY DEF Init
  <2> QED
    BY <1>2, <2>1 DEF RenderOrder
<1>8. PresentsOwnFrame
  BY <1>1 DEF PresentsOwnFrame, At, In
<1> QED
  BY <1>3, <1>4, <1>5, <1>6, <1>7, <1>8, <1>9 DEF FrameOrder

LEMMA FrameOrderStep ==
  ASSUME KeepsPace, FrameOrder, [Next]_drawablesVars PROVE FrameOrder'
  BY FramesStep, OthersStep, BeginOrderStep, AcquireOrderStep, GenerationsStep, SpacingStep,
     ExclusionStep, SyncSoundStep, RenderOrderStep, PixelsKeptStep, BrokenStep DEF FrameOrder

(* A claim that is consumed presents the pixels that its own submit        *)
(* rendered, in the image acquired for them, and never finds its slot gone,*)
(* for clients that keep the pace.                                         *)
THEOREM ClaimsPresentTheirFrame == KeepsPace => (Spec => []PresentsOwnFrame)
<1> SUFFICES ASSUME KeepsPace PROVE Spec => []PresentsOwnFrame
  OBVIOUS
<1>1. FrameOrder /\ PresentsOwnFrame /\ [Next]_drawablesVars
        => (FrameOrder /\ PresentsOwnFrame)'
  BY FrameOrderStep, PresentsStep
<1> QED
  BY <1>1, FrameOrderInit, PTL DEF Spec

(* What a queue of frames contains.                                        *)
LEMMA SetOfQueue ==
  ASSUME NEW q \in Seq(Frames)
  PROVE  \A g \in ToSet(q) : g \in Frames /\ Contains(q, g)
BY DEF ToSet, Contains

(* A slot's texture and copy command buffer are idle when they are used    *)
(* again.                                                                  *)
THEOREM SlotsAreIdle == KeepsPace => (Spec => []SlotIsIdle)
<1> SUFFICES ASSUME KeepsPace PROVE Spec => []SlotIsIdle
  OBVIOUS
<1>1. FrameOrder /\ [Next]_drawablesVars => FrameOrder'
  BY FrameOrderStep
<1>2. FrameOrder => SlotIsIdle
  <2> SUFFICES ASSUME FrameOrder PROVE SlotIsIdle
    OBVIOUS
  <2>0. compute \in Seq(Frames) /\ copies \in Seq(Frames)
    BY DEF FrameOrder, OthersOK
  <2>1. \A g \in ToSet(copies) : g \in Frames /\ Contains(copies, g)
    BY <2>0, SetOfQueue
  <2>2. \A f \in ToSet(compute) : f \in Frames /\ Contains(compute, f)
    BY <2>0, SetOfQueue
  <2> USE DEF FrameOrder
  <2>3. \A g \in Frames : Contains(copies, g) => Acquired(g) /\ frame[g].backing = backing
    BY DEF Generations, Acquired, Acquiring, In
  <2>4. \A f \in Frames : Contains(compute, f) => Acquired(f) /\ frame[f].backing = backing
    BY Rendering
  <2>5. \A f \in Frames, g \in ToSet(copies) :
          Acquired(f) /\ frame[f].backing = backing /\ f > g => frame[f].slot # frame[g].slot
    BY <2>1, <2>3 DEF Exclusion, Sharing, Frames
  <2> QED
    BY <2>1, <2>2, <2>3, <2>4, <2>5 DEF SlotIsIdle, Frames
<1> QED
  BY <1>1, <1>2, FrameOrderInit, PTL DEF Spec
=============================================================================
