------------------------------ MODULE Drawables ------------------------------
(***************************************************************************)
(* The frames of a window surface.  A frame is acquired inside             *)
(* Scheme::submit, which renders into the scratch texture of one of a ring *)
(* of slots; the claim it leaves in the Submission is later taken and      *)
(* consumed, perhaps by another thread: the scratch texture is copied to   *)
(* the swapchain image that was acquired, and the image is presented.      *)
(*                                                                         *)
(* A resize is recorded at once and applied by the next acquire, which     *)
(* waits for the GPU and replaces images and scratch textures.  The        *)
(* backend lock is held from the waits of an acquire to its end, while a   *)
(* frame is looked up and while its present is written down, but not while *)
(* the copy is submitted and the image queued.                             *)
(*                                                                         *)
(* One thread submits.  Left out: render passes that draw into the image,  *)
(* drawables acquired before the submit, changes of the present mode, the  *)
(* binary semaphores, errors of the native present.  A resize that broke   *)
(* off after it gave up the old swapchain is retried with handles that are *)
(* gone: what that does is undefined, the model lets the retry succeed or  *)
(* fail, and does not let it return because the extent is the old one.     *)
(***************************************************************************)
EXTENDS Integers, Sequences, FiniteSets, FiniteSetsExt, SequencesExt

CONSTANTS
  Slots,              (* MAX_FRAMES_IN_FLIGHT                               *)
  Images,             (* how many images a swapchain has                    *)
  Depth,              (* the client settles a frame before it begins the    *)
                      (* one that is Depth frames later                     *)
  ClaimsOutliveResize,(* may a resize come while a claim is in hand?        *)
  MaxFrames,          (* bound on the frames                                *)
  MaxResizes,         (* bound on the resizes                               *)
  MaxDiscards         (* bound on the frames given up while they are valid  *)

Frames == 1..MaxFrames
Ring   == 0..(Slots - 1)

ASSUME DrawablesAssumption ==
  /\ Slots \in Nat \ {0}
  /\ Images \in Nat \ {0}
  /\ Depth \in Nat \ {0}
  /\ ClaimsOutliveResize \in BOOLEAN
  /\ MaxFrames \in Nat /\ MaxResizes \in Nat /\ MaxDiscards \in Nat

VARIABLES
  pending,     (* SwapchainPoolInner::pending_resize is some extent         *)
  generation,  (* SwapchainPoolInner::generation                            *)
  backing,     (* how often the swapchain has been replaced                 *)
  lock,        (* the frame whose acquire holds the backend lock, or 0      *)
  frames,      (* frames begun                                              *)
  discards,    (* frames given up while valid                               *)
  frame,       (* frame[f]: how far frame f is                              *)
  current,     (* SurfaceState::current_frame                               *)
  scratch,     (* scratch[s]: the frame whose pixels the texture of slot s  *)
               (* holds, 0 for nobody's, -1 when there is no texture        *)
  sync,        (* sync[s]: copy_timeline_value and                          *)
               (* last_compute_timeline_value, as the frame they are of     *)
  image,       (* image[i]: "free", "held", "queued", "shown" or "retired"  *)
  compute,     (* frames being rendered on the context's queue, in order    *)
  copies,      (* frames being copied on the graphics queue, in order       *)
  screen       (* frames queued for presentation, in order                  *)

poolVars      == <<pending, generation>>
swapchainVars == <<backing, current, scratch, sync>>
gpuVars       == <<compute, copies>>
countVars     == <<frames, discards>>
drawablesVars == <<poolVars, swapchainVars, lock, countVars, frame, image, gpuVars, screen>>

(* generation: of the claim; backing: of the image and the slot; target:   *)
(* the swapchain that the present goes to; copied: whose pixels it showed. *)
NoFrame == [step |-> "none", slot |-> 0, image |-> 0, generation |-> 0, backing |-> 0,
            target |-> 0, copied |-> 0]

Acquiring == {"apply", "read", "lock", "wait", "image"}
Consuming == {"consuming", "recorded", "enqueued", "presented"}
Unsettled == Acquiring \cup {"acquired", "submitted", "claimed"} \cup Consuming
Settled   == {"none", "done", "discarded", "failed", "panicked"}

Init ==
  /\ pending    = FALSE
  /\ generation = 0
  /\ backing    = 0
  /\ lock       = 0
  /\ frames     = 0
  /\ discards   = 0
  /\ frame      = [f \in Frames |-> NoFrame]
  /\ current    = 0
  /\ scratch    = [s \in Ring |-> -1]
  /\ sync       = [s \in Ring |-> [copy |-> 0, compute |-> 0]]
  /\ image      = [i \in 1..Images |-> "free"]
  /\ compute    = << >>
  /\ copies     = << >>
  /\ screen     = << >>

At(f, step)   == frame[f].step = step
Goto(f, step) == frame' = [frame EXCEPT ![f].step = step]
In(f, steps)  == frame[f].step \in steps

Rendered(f) == f = 0 \/ ~Contains(compute, f)
Copied(f)   == f = 0 \/ ~Contains(copies, f)

-----------------------------------------------------------------------------
(* SwapchainPool::resize to an extent that is new.                         *)
Resize ==
  /\ generation < MaxResizes
  /\ ClaimsOutliveResize \/ \A f \in Frames : In(f, Settled \cup {"submitted"})
  /\ pending'    = TRUE
  /\ generation' = generation + 1
  /\ UNCHANGED <<swapchainVars, lock, countVars, frame, image, gpuVars, screen>>

(* Scheme::submit reaches the partition that presents: acquire_slot.       *)
Begin ==
  /\ frames < MaxFrames
  /\ \A f \in Frames : ~In(f, Acquiring \cup {"acquired"})
  /\ \A f \in Frames : In(f, Unsettled) => f + Depth > frames + 1
  /\ frames' = frames + 1
  /\ Goto(frames + 1, "apply")
  /\ UNCHANGED <<poolVars, swapchainVars, lock, discards, image, gpuVars, screen>>

Broken   == \E i \in 1..Images : image[i] = "retired"
IdleGpu  == compute = << >> /\ copies = << >>
NoSlots  == [s \in Ring |-> -1]
AllAre(st) == [i \in 1..Images |-> st]

(* The backend's resize, once the device is idle.                          *)
Recreate ==
  /\ backing' = backing + 1
  /\ image'   = AllAre("free")
  /\ screen'  = << >>
  /\ current' = 0
  /\ scratch' = NoSlots
  /\ UNCHANGED sync

(* apply_pending_resize.                                                   *)
Apply(f) ==
  /\ At(f, "apply")
  /\ \/ ~pending /\ UNCHANGED <<pending, swapchainVars, image, screen>>
     \/ pending /\ lock = 0 /\ IdleGpu /\ pending' = FALSE /\ Recreate
  /\ Goto(f, "read")
  /\ UNCHANGED <<generation, lock, countVars, gpuVars>>

(* The extent, clamped to what the surface can do, is the one it has:      *)
(* nothing is replaced, although the generation has changed.               *)
ApplySame(f) ==
  /\ At(f, "apply")
  /\ pending /\ lock = 0 /\ ~Broken
  /\ pending' = FALSE
  /\ Goto(f, "read")
  /\ UNCHANGED <<generation, swapchainVars, lock, countVars, image, gpuVars, screen>>

(* A resize that fails is put back and fails the submit: before it changed *)
(* anything, or after it gave up the slots and the old swapchain.          *)
ApplyFails(f) ==
  /\ At(f, "apply")
  /\ pending /\ lock = 0
  /\ \/ UNCHANGED <<scratch, image, screen>>
     \/ IdleGpu /\ scratch' = NoSlots /\ image' = AllAre("retired") /\ screen' = << >>
  /\ Goto(f, "failed")
  /\ UNCHANGED <<poolVars, backing, current, sync, lock, countVars, gpuVars>>

(* Mutant of ReadGeneration: the generation that a resize would bring.     *)
ReadGenerationAhead(f) ==
  /\ At(f, "read")
  /\ frame' = [frame EXCEPT ![f].step = "lock", ![f].generation = generation + 1]
  /\ UNCHANGED <<poolVars, swapchainVars, lock, countVars, image, gpuVars, screen>>

ReadGeneration(f) ==
  /\ At(f, "read")
  /\ frame' = [frame EXCEPT ![f].step = "lock", ![f].generation = generation]
  /\ UNCHANGED <<poolVars, swapchainVars, lock, countVars, image, gpuVars, screen>>

(* Surface::begin.                                                         *)
LockBackend(f) ==
  /\ At(f, "lock")
  /\ lock = 0
  /\ lock' = f
  /\ Goto(f, "wait")
  /\ UNCHANGED <<poolVars, swapchainVars, countVars, image, gpuVars, screen>>

NextSlot == (current + 1) % Slots

(* Mutant of WaitSlot: the slot's last copy is not waited for.             *)
WaitSlotRendered(f) ==
  /\ At(f, "wait")
  /\ Rendered(sync[NextSlot].compute)
  /\ sync' = [sync EXCEPT ![current].compute = 0]
  /\ Goto(f, "image")
  /\ UNCHANGED <<poolVars, backing, current, scratch, lock, countVars, image, gpuVars, screen>>

(* Mutant of WaitSlot: the frame in the next slot has to be settled.       *)
WaitSlotSettled(f) ==
  /\ At(f, "wait")
  /\ Copied(sync[current].copy)
  /\ \A g \in Frames : In(g, Unsettled \ Acquiring) => frame[g].slot # NextSlot
  /\ sync' = [sync EXCEPT ![current].compute = 0]
  /\ Goto(f, "image")
  /\ UNCHANGED <<poolVars, backing, current, scratch, lock, countVars, image, gpuVars, screen>>

(* Wait for the copy that last read this slot and for what was rendered    *)
(* into the next.                                                          *)
WaitSlot(f) ==
  /\ At(f, "wait")
  /\ Copied(sync[current].copy)
  /\ Rendered(sync[NextSlot].compute)
  /\ sync' = [sync EXCEPT ![current].compute = 0]
  /\ Goto(f, "image")
  /\ UNCHANGED <<poolVars, backing, current, scratch, lock, countVars, image, gpuVars, screen>>

FreeImages == {i \in 1..Images : image[i] = "free"}

(* vkAcquireNextImageKHR, without a timeout.  Free images are alike: which *)
(* of them it is does not matter.                                          *)
NextImage(f) ==
  /\ At(f, "image")
  /\ FreeImages # {}
  /\ image' = [image EXCEPT ![Min(FreeImages)] = "held"]
  /\ frame' = [frame EXCEPT ![f].step = "acquired", ![f].slot = current,
                            ![f].image = Min(FreeImages), ![f].backing = backing]
  /\ scratch' = [scratch EXCEPT ![current] = IF @ = -1 THEN 0 ELSE @]
  /\ current' = NextSlot
  /\ lock'    = 0
  /\ UNCHANGED <<poolVars, backing, sync, countVars, gpuVars, screen>>

(* The surface is out of date or lost: the submit fails without an image.  *)
NextImageFails(f) ==
  /\ At(f, "image")
  /\ Goto(f, "failed")
  /\ lock' = 0
  /\ UNCHANGED <<poolVars, swapchainVars, countVars, image, gpuVars, screen>>

(* The scratch texture of the slot cannot be made: the submit fails, and   *)
(* the image it was given is not given back.                               *)
ScratchFails(f) ==
  /\ At(f, "image")
  /\ FreeImages # {}
  /\ scratch[current] = -1
  /\ image' = [image EXCEPT ![Min(FreeImages)] = "held"]
  /\ frame' = [frame EXCEPT ![f].step = "failed", ![f].image = Min(FreeImages),
                            ![f].backing = backing]
  /\ lock' = 0
  /\ UNCHANGED <<poolVars, swapchainVars, countVars, gpuVars, screen>>

(* The partition is submitted; its claim is left in the Submission.        *)
Submit(f) ==
  /\ At(f, "acquired")
  /\ compute' = Append(compute, f)
  /\ Goto(f, "submitted")
  /\ UNCHANGED <<poolVars, swapchainVars, lock, countVars, image, copies, screen>>

(* Frame::cancel: by a submit that fails, a discard, or a drop.  The image *)
(* is not given back.                                                      *)
Cancel(f) ==
  /\ In(f, {"acquired", "submitted", "claimed"})
  /\ \/ frame[f].generation # generation /\ UNCHANGED discards
     \/ frame[f].generation = generation /\ discards < MaxDiscards /\ discards' = discards + 1
  /\ Goto(f, "discarded")
  /\ UNCHANGED <<poolVars, swapchainVars, lock, frames, image, gpuVars, screen>>

(* Mutant of Claim: whatever the generation.                               *)
ClaimStale(f) ==
  /\ At(f, "submitted")
  /\ Goto(f, "claimed")
  /\ UNCHANGED <<poolVars, swapchainVars, lock, countVars, image, gpuVars, screen>>

(* Transaction::claim.                                                     *)
Claim(f) ==
  /\ At(f, "submitted")
  /\ frame[f].generation = generation
  /\ Goto(f, "claimed")
  /\ UNCHANGED <<poolVars, swapchainVars, lock, countVars, image, gpuVars, screen>>

-----------------------------------------------------------------------------
(* Claim::consume, possibly by a thread of its own.                        *)
Consume(f) ==
  /\ At(f, "claimed")
  /\ Goto(f, "consuming")
  /\ UNCHANGED <<poolVars, swapchainVars, lock, countVars, image, gpuVars, screen>>

(* The frame keeps the numbers of its image and slot; the swapchain and    *)
(* the texture are those of now.                                           *)
Prepare(f) ==
  /\ At(f, "consuming")
  /\ lock = 0
  /\ frame' = [frame EXCEPT
       ![f].step   = IF scratch[frame[f].slot] = -1 THEN "panicked" ELSE "recorded",
       ![f].target = backing]
  /\ UNCHANGED <<poolVars, swapchainVars, lock, countVars, image, gpuVars, screen>>

Enqueue(f) ==
  /\ At(f, "recorded")
  /\ copies' = Append(copies, f)
  /\ Goto(f, "enqueued")
  /\ UNCHANGED <<poolVars, swapchainVars, lock, countVars, image, compute, screen>>

QueuePresent(f) ==
  /\ At(f, "enqueued")
  /\ screen' = Append(screen, f)
  /\ image'  = [image EXCEPT ![frame[f].image] = "queued"]
  /\ Goto(f, "presented")
  /\ UNCHANGED <<poolVars, swapchainVars, lock, countVars, gpuVars>>

(* finish_present.                                                         *)
Finish(f) ==
  /\ At(f, "presented")
  /\ lock = 0
  /\ sync' = [sync EXCEPT ![frame[f].slot] = [copy |-> f, compute |-> f]]
  /\ Goto(f, "done")
  /\ UNCHANGED <<poolVars, backing, current, scratch, lock, countVars, image, gpuVars, screen>>

-----------------------------------------------------------------------------
Render ==
  /\ compute # << >>
  /\ scratch' = [scratch EXCEPT ![frame[Head(compute)].slot] = Head(compute)]
  /\ compute' = Tail(compute)
  /\ UNCHANGED <<poolVars, backing, current, sync, lock, countVars, frame, image, copies, screen>>

(* The copy waits for what was rendered for its frame.                     *)
Copy ==
  /\ copies # << >>
  /\ Rendered(Head(copies))
  /\ frame'  = [frame EXCEPT ![Head(copies)].copied = scratch[frame[Head(copies)].slot]]
  /\ copies' = Tail(copies)
  /\ UNCHANGED <<poolVars, swapchainVars, lock, countVars, image, compute, screen>>

(* The presentation engine shows an image that is copied, and gives up the *)
(* one before.                                                             *)
Show ==
  /\ screen # << >>
  /\ Copied(Head(screen))
  /\ image'  = [i \in 1..Images |-> IF i = frame[Head(screen)].image THEN "shown"
                                 ELSE IF image[i] = "shown" THEN "free" ELSE image[i]]
  /\ screen' = Tail(screen)
  /\ UNCHANGED <<poolVars, swapchainVars, lock, countVars, frame, gpuVars>>

Submitting(f) == Apply(f) \/ ReadGeneration(f) \/ LockBackend(f) \/ WaitSlot(f) \/ NextImage(f)
                   \/ Submit(f)
SubmitFails(f) == ApplyFails(f) \/ NextImageFails(f) \/ ScratchFails(f)
Presenting(f) == Prepare(f) \/ Enqueue(f) \/ QueuePresent(f) \/ Finish(f)

Next ==
  \/ Resize
  \/ Begin
  \/ \E f \in Frames : Submitting(f) \/ ApplySame(f) \/ SubmitFails(f)
  \/ \E f \in Frames : Presenting(f) \/ Claim(f) \/ Cancel(f) \/ Consume(f)
  \/ Render
  \/ Copy
  \/ Show

Spec == Init /\ [][Next]_drawablesVars

(* A submit or a consume that is under way goes on; the GPU and the        *)
(* presentation engine work off what they were given.  Nobody has to       *)
(* submit, take or consume a claim, or resize; and no acquire is helped out*)
(* of a wait by an error or by a resize that turns out to be none.         *)
Fairness ==
  /\ \A f \in Frames : /\ WF_drawablesVars(Submitting(f))
                       /\ WF_drawablesVars(Presenting(f))
  /\ WF_drawablesVars(Render)
  /\ WF_drawablesVars(Copy)
  /\ WF_drawablesVars(Show)

FairSpec == Spec /\ Fairness

-----------------------------------------------------------------------------
(* Every variable has its type.                                            *)
TypeOK ==
  /\ pending \in BOOLEAN
  /\ generation \in 0..MaxResizes
  /\ backing \in 0..MaxResizes
  /\ lock \in 0..MaxFrames
  /\ frames \in 0..MaxFrames
  /\ discards \in 0..MaxDiscards
  /\ frame \in [Frames -> [step : Unsettled \cup Settled, slot : Ring,
                           image : 0..Images, generation : 0..MaxResizes,
                           backing : 0..MaxResizes, target : 0..MaxResizes,
                           copied : -1..MaxFrames]]
  /\ current \in Ring
  /\ scratch \in [Ring -> -1..MaxFrames]
  /\ sync \in [Ring -> [copy : 0..MaxFrames, compute : 0..MaxFrames]]
  /\ image \in [1..Images -> {"free", "held", "queued", "shown", "retired"}]
  /\ compute \in Seq(Frames)
  /\ copies \in Seq(Frames)
  /\ screen \in Seq(Frames)

(* A claim that is consumed presents the pixels that its own submit        *)
(* rendered, in the image acquired for them, and never finds its slot gone.*)
PresentsOwnFrame ==
  \A f \in Frames :
    /\ ~At(f, "panicked")
    /\ In(f, {"recorded", "enqueued", "presented", "done"}) => frame[f].target = frame[f].backing
    /\ frame[f].copied \in {0, f}

(* A slot's scratch texture and copy command buffer are not used again     *)
(* before the copy of the frame that had the slot before is done.          *)
SlotIsIdle ==
  /\ \A f \in ToSet(compute), g \in ToSet(copies) : f > g => frame[f].slot # frame[g].slot
  /\ \A f, g \in ToSet(copies) : f # g => frame[f].slot # frame[g].slot

(* A frame that was given up keeps its image for as long as the swapchain  *)
(* lives.  An acquire can count on one while more images are left than the *)
(* client has frames under way: one of them is shown, and the others are   *)
(* held by at most Depth - 1 claims, or queued.                            *)
LostImages   == {g \in Frames : /\ In(g, {"discarded", "failed"})
                                /\ frame[g].image # 0 /\ frame[g].backing = backing}
EnoughImages == Depth < Images - Cardinality(LostImages)

(* A submit that waits for a drawable, with the backend lock, gets one:    *)
(* neither the slot's last copy nor the images that are held by claims,    *)
(* queued or shown keep it for ever, as long as images enough are left.    *)
AcquireReturns ==
  \A f \in Frames : In(f, Acquiring) ~> ~In(f, Acquiring) \/ ~EnoughImages

(* A consume under way ends, although acquires of later frames hold the    *)
(* backend lock while they wait for a copy or for an image.                *)
ConsumeReturns ==
  \A f \in Frames : In(f, Consuming) ~> ~In(f, Consuming) \/ ~EnoughImages

(* The same, whatever became of the images; discards refute it.            *)
ConsumeAlwaysReturns ==
  \A f \in Frames : In(f, Consuming) ~> ~In(f, Consuming)
=============================================================================
