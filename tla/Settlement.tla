----------------------------- MODULE Settlement -----------------------------
(***************************************************************************)
(* Who may use a parcel now?  One GPU resource and the stamps (deeds) it   *)
(* is held under one after the other.  A stamp keeps, per context, the     *)
(* last tickets that wrote and read the parcel, the promises of presents   *)
(* whose read is not known yet, and a count of live host views.            *)
(*                                                                         *)
(*   submit   waits for the outstanding promises of a parcel it writes and *)
(*            fails while a host view is live; a submit that presents puts *)
(*            a promise on the stamp and resolves it                       *)
(*   settle   waits until nothing in flight uses the parcel                *)
(*   view     waits for the last writes and claims the parcel for the CPU  *)
(*   release  puts the resource into a transient pool, under a fresh stamp *)
(*                                                                         *)
(* Every submit runs one partition.  How conflicting submits are ordered   *)
(* on the GPU is the subject of Ledger, the horizon of DeviceTimeline;     *)
(* here each context runs its submits in order.  Failed submits, host      *)
(* views through a staging copy and host sinks are left out.               *)
(***************************************************************************)
EXTENDS Integers, Sequences, FiniteSets, FiniteSetsExt

CONSTANTS
  Contexts,        (* submission contexts                                   *)
  NoContext,       (* context handle 0, which no context has                *)
  Doomed,          (* the contexts that the client may drop                 *)
  Threads,         (* client threads                                        *)
  NoThread,        (* nobody holds a promise's `park` mutex                 *)
  Hosts,           (* the threads that settle, view and release the parcel  *)
  Kinds,           (* Kinds[t]: the kinds of submit that thread t makes     *)
  Drivers,         (* Drivers[c]: the threads that submit on context c      *)
  ViewsOutlive,    (* whether the parcel may be released under a live view  *)
  MaxTicket,       (* bound on the submits                                  *)
  MaxPromises,     (* bound on the presents                                 *)
  MaxDeeds         (* bound on the stamps of the resource                   *)

Keys     == Contexts \cup {NoContext}
Promises == 1..MaxPromises
Deeds    == 1..MaxDeeds
Tables   == [Keys -> 0..MaxTicket]
Pending   == 0                          \* PROMISE_PENDING
Abandoned == MaxTicket + 1              \* PROMISE_ABANDONED
Steps == {"idle", "gate", "block", "lock", "recheck", "sleep", "asleep", "woken", "fold", "claims",
          "submit", "stamp", "push", "resolve", "unpark", "notify", "settle", "measure", "await",
          "settled", "viewwait", "viewepochs", "viewclaim", "panicked"}

ASSUME SettlementAssumption ==
  /\ NoContext \notin Contexts
  /\ Doomed \subseteq Contexts
  /\ NoThread \notin Threads /\ IsFiniteSet(Threads)
  /\ Hosts \subseteq Threads
  /\ Drivers \in [Contexts -> SUBSET Threads]
  /\ Kinds \in [Threads -> SUBSET {"read", "write", "present", "frame"}]
  /\ ViewsOutlive \in BOOLEAN
  /\ MaxTicket \in Nat /\ MaxPromises \in Nat /\ MaxDeeds \in Nat \ {0}

VARIABLES
  live,      (* contexts not yet destroyed                                  *)
  next,      (* the next ticket                                             *)
  gpu,       (* gpu[c]: submits of context c in flight, oldest first        *)
  progress,  (* progress[c]: the context's timeline semaphore               *)
  stamp,     (* stamp[d]: the ParcelStamp of deed d                         *)
  promise,   (* promise[p]: PromiseCell::state                              *)
  park,      (* park[p]: the thread that holds PromiseCell::park            *)
  waiters,   (* waiters[p]: threads inside PromiseCell::wake.wait           *)
  promises,  (* promises created                                            *)
  thread,    (* the call each client thread is inside of                    *)
  view,      (* view[t]: the deed that t's live host view claims, or 0      *)
  deed,      (* the current stamp of the resource                           *)
  bin,       (* where the resource is: "held", or "pending" or "ready" in   *)
             (* the bin of the transient pool                               *)
  readyAfter (* ready_after of the bin entry                                *)

gpuVars        == <<live, next, gpu, progress>>
latchVars      == <<promise, park, waiters, promises>>
poolVars       == <<deed, bin, readyAfter>>
settlementVars == <<gpuVars, stamp, latchVars, thread, view, poolVars>>

Empty == [k \in Keys |-> 0]
Fresh == [write |-> Empty, reads |-> Empty, foreign |-> Empty, pending |-> {}, claims |-> 0]
Idle  == [step |-> "idle", op |-> "none", ctx |-> NoContext, kind |-> "read", tv |-> 0,
          promise |-> 0, blocking |-> {}, deed |-> 0, epochs |-> Empty, owed |-> {}]

(* A frame writes the parcel and presents it; a present reads it.          *)
Writing    == {"write", "frame"}
Reading    == {"read", "present", "frame"}
Presenting == {"present", "frame"}

Init ==
  /\ live       = Contexts
  /\ next       = 1
  /\ gpu        = [c \in Contexts |-> << >>]
  /\ progress   = [c \in Contexts |-> 0]
  /\ stamp      = [d \in Deeds |-> Fresh]
  /\ promise    = [p \in Promises |-> Pending]
  /\ park       = [p \in Promises |-> NoThread]
  /\ waiters    = [p \in Promises |-> {}]
  /\ promises   = 0
  /\ thread     = [t \in Threads |-> Idle]
  /\ view       = [t \in Threads |-> 0]
  /\ deed       = 1
  /\ bin        = "held"
  /\ readyAfter = Empty

-----------------------------------------------------------------------------
InFlight == UNION {{gpu[c][i] : i \in 1..Len(gpu[c])} : c \in Contexts}

(* Vulkan's gpu_progress: 0 for a context that is no longer there.         *)
ProgressOf(k) == IF k \in live THEN progress[k] ELSE 0

(* device_timeline_retired: the tickets up to the first one in flight.     *)
Retired == Min({w.ticket : w \in InFlight} \cup {next}) - 1

(* Mutant of Merged: the reads that goldy scheduled are left out.          *)
MergedWithoutReads(s) == [k \in Keys |-> Max({s.write[k], s.foreign[k]})]

Merged(s) == [k \in Keys |-> Max({s.write[k], s.reads[k], s.foreign[k]})]

KeysOf(table) == {k \in Keys : table[k] > 0}

(* Mutant of IsReady: one context that is done suffices.                   *)
IsReadyAny(table) == \E k \in Keys : ProgressOf(k) >= table[k] /\ k \in KeysOf(table)

IsReady(table) == \A k \in KeysOf(table) : ProgressOf(k) >= table[k]

Raise(table, K, tv) == [k \in Keys |-> IF k \in K THEN Max({table[k], tv}) ELSE table[k]]

(* Mutant of Fold: promises that were kept stay on the list.               *)
FoldKeeps(d, K) ==
  LET kept == {p \in stamp[d].pending : promise[p] \notin {Pending, Abandoned}}
      tv   == Max({promise[p] : p \in kept} \cup {0})
  IN  stamp' = [stamp EXCEPT
        ![d].foreign = Raise(@, K, tv),
        ![d].pending = {p \in @ : promise[p] # Abandoned}]

(* Take the promises that are no longer pending off the stamp, and record  *)
(* what the kept ones read as a read on the contexts in K.                 *)
Fold(d, K) ==
  LET kept == {p \in stamp[d].pending : promise[p] \notin {Pending, Abandoned}}
      tv   == Max({promise[p] : p \in kept} \cup {0})
  IN  stamp' = [stamp EXCEPT
        ![d].foreign = Raise(@, K, tv),
        ![d].pending = {p \in @ : promise[p] = Pending}]

(* The contexts that a settle folds into: all those on the stamp.          *)
FoldKeys(d) ==
  LET used == KeysOf(Merged(stamp[d])) IN IF used = {} THEN {NoContext} ELSE used

At(t, step)   == thread[t].step = step
Goto(t, step) == thread' = [thread EXCEPT ![t].step = step]

(* A call that returns.                                                    *)
Return(t) == thread' = [thread EXCEPT ![t] = Idle]

(* The submits whose call is past recording them on stamp d.               *)
Recorded(d) ==
  {w.ticket : w \in {w \in InFlight : w.deed = d}}
    \ {thread[t].tv : t \in {t \in Threads : At(t, "stamp")}}

(* A submit that has no ticket yet; one that will make a promise.          *)
AtGate(t) == thread[t].op = "submit" /\ thread[t].tv = 0
Owing(t)  == /\ thread[t].op = "submit" /\ thread[t].kind \in Presenting
             /\ thread[t].step \notin {"resolve", "unpark", "notify"}

(* The parcel is held, and its last clone is not being dropped.            *)
Held == bin = "held" /\ \A u \in Threads : thread[u].op # "drop"

-----------------------------------------------------------------------------
(* Submitting.  A scheme that writes the parcel passes the gate first.     *)
SubmitBegin(t, c, kind) ==
  /\ At(t, "idle")
  /\ Held
  /\ c \in live
  /\ t \in Drivers[c]
  /\ kind \in Kinds[t]
  /\ next + Cardinality({u \in Threads : AtGate(u)}) <= MaxTicket
  /\ kind \in Presenting => promises + Cardinality({u \in Threads : Owing(u)}) < MaxPromises
  /\ thread' = [thread EXCEPT ![t] =
       [Idle EXCEPT !.step = IF kind \in Writing THEN "gate" ELSE "submit", !.op = "submit",
                    !.ctx = c, !.kind = kind, !.deed = deed]]
  /\ UNCHANGED <<gpuVars, stamp, latchVars, view, poolVars>>

(* drain_pending_for_submit_gate: wait for each promise of a snapshot.     *)
GateSnapshot(t) ==
  /\ At(t, "gate")
  /\ LET list == stamp[thread[t].deed].pending IN
       thread' = [thread EXCEPT ![t].step = IF list = {} THEN "claims" ELSE "block",
                                ![t].blocking = list]
  /\ UNCHANGED <<gpuVars, stamp, latchVars, view, poolVars>>

(* The next promise of the snapshot: past it, or TimelinePromise::block.   *)
BlockNext(t) ==
  /\ At(t, "block")
  /\ LET list == {p \in thread[t].blocking : promise[p] = Pending} IN
       IF list = {}
       THEN thread' = [thread EXCEPT ![t].step = "fold", ![t].blocking = {}, ![t].promise = 0]
       ELSE thread' = [thread EXCEPT ![t].step = "lock", ![t].blocking = list,
                                     ![t].promise = Min(list)]
  /\ UNCHANGED <<gpuVars, stamp, latchVars, view, poolVars>>

BlockLock(t) ==
  LET p == thread[t].promise IN
  /\ At(t, "lock")
  /\ park[p] = NoThread
  /\ park' = [park EXCEPT ![p] = t]
  /\ Goto(t, "recheck")
  /\ UNCHANGED <<gpuVars, stamp, promise, waiters, promises, view, poolVars>>

(* Polled again under the lock, which only a waiter keeps.                 *)
BlockPoll(t) ==
  LET p == thread[t].promise IN
  /\ At(t, "recheck")
  /\ \/ promise[p] = Pending  /\ Goto(t, "sleep") /\ UNCHANGED park
     \/ promise[p] # Pending  /\ Goto(t, "block") /\ park' = [park EXCEPT ![p] = NoThread]
  /\ UNCHANGED <<gpuVars, stamp, promise, waiters, promises, view, poolVars>>

(* Condvar::wait gives the lock up and sleeps in one step ...              *)
BlockSleep(t) ==
  LET p == thread[t].promise IN
  /\ At(t, "sleep")
  /\ park'    = [park EXCEPT ![p] = NoThread]
  /\ waiters' = [waiters EXCEPT ![p] = @ \cup {t}]
  /\ Goto(t, "asleep")
  /\ UNCHANGED <<gpuVars, stamp, promise, promises, view, poolVars>>

(* ... and, notified, takes it once more.                                  *)
BlockWake(t) ==
  /\ At(t, "woken")
  /\ park[thread[t].promise] = NoThread
  /\ Goto(t, "block")
  /\ UNCHANGED <<gpuVars, stamp, latchVars, view, poolVars>>

(* The snapshot is waited for: fold, and start over if more have come.     *)
(* wait_until_settled folds into all contexts of the stamp and starts over *)
(* anyway.                                                                 *)
FoldIn(t) ==
  LET d == thread[t].deed IN
  /\ At(t, "fold")
  /\ IF thread[t].op = "submit" THEN Fold(d, {thread[t].ctx}) ELSE Fold(d, FoldKeys(d))
  /\ Goto(t, IF thread[t].op # "submit" THEN "settle"
             ELSE IF stamp'[d].pending = {} THEN "claims" ELSE "gate")
  /\ UNCHANGED <<gpuVars, latchVars, view, poolVars>>

(* Mutant of GateClaims: live views are not looked at.                     *)
GateClaimsIgnored(t) ==
  /\ At(t, "claims")
  /\ Goto(t, "submit")
  /\ UNCHANGED <<gpuVars, stamp, latchVars, view, poolVars>>

(* A live host view fails the submit.                                      *)
GateClaims(t) ==
  /\ At(t, "claims")
  /\ IF stamp[thread[t].deed].claims > 0 THEN Return(t) ELSE Goto(t, "submit")
  /\ UNCHANGED <<gpuVars, stamp, latchVars, view, poolVars>>

Submit(t) ==
  LET c == thread[t].ctx IN
  /\ At(t, "submit")
  /\ next'   = next + 1
  /\ gpu'    = [gpu EXCEPT ![c] = Append(@,
                  [ticket |-> next, writes |-> thread[t].kind \in Writing, deed |-> thread[t].deed])]
  /\ thread' = [thread EXCEPT ![t].step = "stamp", ![t].tv = next]
  /\ UNCHANGED <<live, progress, stamp, latchVars, view, poolVars>>

(* The stamp learns of the submit only afterwards.                         *)
Stamp(t) ==
  LET d == thread[t].deed
      K == {thread[t].ctx}
  IN
  /\ At(t, "stamp")
  /\ stamp' = [stamp EXCEPT
       ![d].write = IF thread[t].kind \in Writing THEN Raise(@, K, thread[t].tv) ELSE @,
       ![d].reads = IF thread[t].kind \in Reading THEN Raise(@, K, thread[t].tv) ELSE @]
  /\ IF thread[t].kind \in Presenting THEN Goto(t, "push") ELSE Return(t)
  /\ UNCHANGED <<gpuVars, latchVars, view, poolVars>>

(* claim_present_easement_promises: a promise for the read of the present. *)
Push(t) ==
  /\ At(t, "push")
  /\ promises' = promises + 1
  /\ stamp'    = [stamp EXCEPT ![thread[t].deed].pending = @ \cup {promises + 1}]
  /\ thread'   = [thread EXCEPT ![t].step = "resolve", ![t].promise = promises + 1]
  /\ UNCHANGED <<gpuVars, promise, park, waiters, view, poolVars>>

(* Mutant of Resolve: the waiters are notified without taking the lock.    *)
ResolveUnlocked(t) ==
  /\ At(t, "resolve")
  /\ \E s \in {thread[t].tv, Abandoned} : promise' = [promise EXCEPT ![thread[t].promise] = s]
  /\ Goto(t, "notify")
  /\ UNCHANGED <<gpuVars, stamp, park, waiters, promises, view, poolVars>>

(* finish_submit_frame keeps the promise, or drops the resolver of a frame *)
(* without a copy.                                                         *)
Resolve(t) ==
  /\ At(t, "resolve")
  /\ \E s \in {thread[t].tv, Abandoned} : promise' = [promise EXCEPT ![thread[t].promise] = s]
  /\ Goto(t, "unpark")
  /\ UNCHANGED <<gpuVars, stamp, park, waiters, promises, view, poolVars>>

(* The lock is taken and dropped before the waiters are notified.          *)
Unpark(t) ==
  /\ At(t, "unpark")
  /\ park[thread[t].promise] = NoThread
  /\ Goto(t, "notify")
  /\ UNCHANGED <<gpuVars, stamp, latchVars, view, poolVars>>

Notify(t) ==
  LET p == thread[t].promise IN
  /\ At(t, "notify")
  /\ waiters' = [waiters EXCEPT ![p] = {}]
  /\ thread'  = [u \in Threads |-> IF u = t THEN Idle
                                   ELSE IF u \in waiters[p] THEN [thread[u] EXCEPT !.step = "woken"]
                                   ELSE thread[u]]
  /\ UNCHANGED <<gpuVars, stamp, promise, park, promises, view, poolVars>>

-----------------------------------------------------------------------------
(* Settling: is_settled and wait_until_settled, which the last clone of a  *)
(* lease calls before it releases ("drop").  Only the latter owns the      *)
(* parcel.                                                                 *)
Owned(t) ==
  /\ bin = "held"
  /\ \A u \in Threads \ {t} : thread[u].op = "none"
  /\ ViewsOutlive \/ \A u \in Threads : view[u] # deed

SettleBegin(t, op) ==
  /\ At(t, "idle")
  /\ t \in Hosts
  /\ Held
  /\ op = "drop" => Owned(t) /\ deed < MaxDeeds
  /\ thread' = [thread EXCEPT ![t] =
       [Idle EXCEPT !.step = "settle", !.op = op, !.deed = deed, !.owed = Recorded(deed)]]
  /\ UNCHANGED <<gpuVars, stamp, latchVars, view, poolVars>>

(* block_or_gc_pending_nonblocking; block_pending_promises if that leaves  *)
(* any.                                                                    *)
SettleCollect(t) ==
  LET d == thread[t].deed IN
  /\ At(t, "settle")
  /\ Fold(d, FoldKeys(d))
  /\ LET list == stamp'[d].pending IN
       thread' = [thread EXCEPT ![t].step = IF list = {} THEN "measure" ELSE "block",
                                ![t].blocking = list]
  /\ UNCHANGED <<gpuVars, latchVars, view, poolVars>>

(* settle_global: Ready, or Waiting for the latest ticket not reached.     *)
SettleMeasure(t) ==
  /\ At(t, "measure")
  /\ LET refs == Merged(stamp[thread[t].deed])
         late == {refs[k] : k \in {k \in Keys : ProgressOf(k) < refs[k]}}
     IN thread' = [thread EXCEPT ![t].step = IF late = {} THEN "settled" ELSE "await",
                                 ![t].tv   = IF late = {} THEN 0 ELSE Max(late)]
  /\ UNCHANGED <<gpuVars, stamp, latchVars, view, poolVars>>

(* Runtime::wait_until_retired.                                            *)
SettleAwait(t) ==
  /\ At(t, "await")
  /\ Retired >= thread[t].tv
  /\ thread' = [thread EXCEPT ![t].step = "settle", ![t].tv = 0]
  /\ UNCHANGED <<gpuVars, stamp, latchVars, view, poolVars>>

(* retire_stamp_for_pool_return and park_entry.                            *)
Park(table) ==
  /\ deed'       = deed + 1
  /\ bin'        = IF KeysOf(table) = {} THEN "ready" ELSE "pending"
  /\ readyAfter' = table

SettleReturn(t) ==
  /\ At(t, "settled")
  /\ Return(t)
  /\ IF thread[t].op = "drop" THEN Park(Merged(stamp[deed])) ELSE UNCHANGED poolVars
  /\ UNCHANGED <<gpuVars, stamp, latchVars, view>>

-----------------------------------------------------------------------------
(* The transient pool.  release_buffer and release_texture do not wait.    *)
Release(t) ==
  /\ At(t, "idle")
  /\ t \in Hosts
  /\ Owned(t)
  /\ deed < MaxDeeds
  /\ Park(Merged(stamp[deed]))
  /\ UNCHANGED <<gpuVars, stamp, latchVars, thread, view>>

(* drain_ready promotes, so that the next acquire need not look.           *)
DrainReady ==
  /\ bin = "pending"
  /\ IsReady(readyAfter)
  /\ bin' = "ready"
  /\ UNCHANGED <<gpuVars, stamp, latchVars, thread, view, deed, readyAfter>>

(* take_ready_or_promote.                                                  *)
Acquire ==
  /\ \/ bin = "ready"
     \/ bin = "pending" /\ IsReady(readyAfter)
  /\ bin'        = "held"
  /\ readyAfter' = Empty
  /\ UNCHANGED <<gpuVars, stamp, latchVars, thread, view, deed>>

-----------------------------------------------------------------------------
(* Host views of one of the submissions of context c.                      *)
ViewBegin(t, c, tv) ==
  /\ At(t, "idle")
  /\ t \in Hosts
  /\ view[t] = 0
  /\ Held
  /\ c \in live
  /\ tv \in ({progress[c]} \cup {gpu[c][i].ticket : i \in 1..Len(gpu[c])}) \ {0}
  /\ thread' = [thread EXCEPT ![t] =
       [Idle EXCEPT !.step = "viewwait", !.op = "view", !.ctx = c, !.tv = tv, !.deed = deed]]
  /\ UNCHANGED <<gpuVars, stamp, latchVars, view, poolVars>>

(* Mutant of ViewWait: later writes of the parcel are not waited for.      *)
ViewWaitOwn(t) ==
  /\ At(t, "viewwait")
  /\ ProgressOf(thread[t].ctx) >= thread[t].tv
  /\ thread' = [thread EXCEPT ![t].step = "viewclaim"]
  /\ UNCHANGED <<gpuVars, stamp, latchVars, view, poolVars>>

(* wait_ready: first the submission, then the writes recorded by then.     *)
ViewWait(t) ==
  /\ At(t, "viewwait")
  /\ ProgressOf(thread[t].ctx) >= thread[t].tv
  /\ thread' = [thread EXCEPT ![t].step = "viewepochs",
                              ![t].epochs = stamp[thread[t].deed].write]
  /\ UNCHANGED <<gpuVars, stamp, latchVars, view, poolVars>>

(* The wait for an epoch of a context that is gone panics.                 *)
ViewEpochs(t) ==
  /\ At(t, "viewepochs")
  /\ \/ /\ IsReady(thread[t].epochs)
        /\ Goto(t, "viewclaim")
     \/ /\ KeysOf(thread[t].epochs) \ live # {}
        /\ Goto(t, "panicked")
  /\ UNCHANGED <<gpuVars, stamp, latchVars, view, poolVars>>

(* Mutant of ViewClaim: a view that is not counted.                        *)
ViewClaimUncounted(t) ==
  /\ At(t, "viewclaim")
  /\ view' = [view EXCEPT ![t] = thread[t].deed]
  /\ Return(t)
  /\ UNCHANGED <<gpuVars, stamp, latchVars, poolVars>>

(* finish_mapped.                                                          *)
ViewClaim(t) ==
  /\ At(t, "viewclaim")
  /\ stamp' = [stamp EXCEPT ![thread[t].deed].claims = @ + 1]
  /\ view'  = [view EXCEPT ![t] = thread[t].deed]
  /\ Return(t)
  /\ UNCHANGED <<gpuVars, latchVars, poolVars>>

ViewDrop(t) ==
  /\ At(t, "idle")
  /\ view[t] # 0
  /\ stamp' = [stamp EXCEPT ![view[t]].claims = @ - 1]
  /\ view'  = [view EXCEPT ![t] = 0]
  /\ UNCHANGED <<gpuVars, latchVars, thread, poolVars>>

-----------------------------------------------------------------------------
Complete(c) ==
  /\ gpu[c] # << >>
  /\ progress' = [progress EXCEPT ![c] = Head(gpu[c]).ticket]
  /\ gpu'      = [gpu EXCEPT ![c] = Tail(@)]
  /\ UNCHANGED <<live, next, stamp, latchVars, thread, view, poolVars>>

(* Dropping a context, which nobody is using, drains its work first.       *)
DestroyContext(c) ==
  /\ c \in Doomed \cap live
  /\ gpu[c] = << >>
  /\ \A t \in Threads : thread[t].op # "none" => thread[t].ctx # c
  /\ live' = live \ {c}
  /\ UNCHANGED <<next, gpu, progress, stamp, latchVars, thread, view, poolVars>>

(* The steps of the calls that thread t is inside of.                      *)
Step(t) ==
  \/ GateSnapshot(t) \/ BlockNext(t) \/ BlockLock(t) \/ BlockPoll(t) \/ BlockSleep(t)
  \/ BlockWake(t) \/ FoldIn(t) \/ GateClaims(t) \/ Submit(t) \/ Stamp(t) \/ Push(t)
  \/ Resolve(t) \/ Unpark(t) \/ Notify(t)
  \/ SettleCollect(t) \/ SettleMeasure(t) \/ SettleAwait(t) \/ SettleReturn(t)
  \/ ViewWait(t) \/ ViewEpochs(t) \/ ViewClaim(t)

Call(t) ==
  \/ \E c \in Contexts, kind \in Reading \cup Writing : SubmitBegin(t, c, kind)
  \/ \E op \in {"settle", "drop"} : SettleBegin(t, op)
  \/ Release(t)
  \/ \E c \in Contexts, tv \in 1..MaxTicket : ViewBegin(t, c, tv)
  \/ ViewDrop(t)

Next ==
  \/ \E t \in Threads : Step(t) \/ Call(t)
  \/ \E c \in Contexts : Complete(c) \/ DestroyContext(c)
  \/ DrainReady
  \/ Acquire

Spec == Init /\ [][Next]_settlementVars

(* A call runs until it returns or sleeps; the GPU finishes what it was    *)
(* given.  Nobody has to call.                                             *)
Fairness ==
  /\ \A t \in Threads  : WF_settlementVars(Step(t))
  /\ \A c \in Contexts : WF_settlementVars(Complete(c))

FairSpec == Spec /\ Fairness

-----------------------------------------------------------------------------
Calls == [step : Steps, op : {"none", "submit", "settle", "drop", "view"}, ctx : Keys,
          kind : Reading \cup Writing, tv : 0..MaxTicket, promise : 0..MaxPromises,
          blocking : SUBSET Promises, deed : 0..MaxDeeds, epochs : Tables,
          owed : SUBSET (1..MaxTicket)]

Stamps == [write : Tables, reads : Tables, foreign : Tables, pending : SUBSET Promises,
           claims : 0..Cardinality(Threads)]

(* Every variable has its type: no stamp counts fewer than no views, no    *)
(* more promises and tickets exist than were created.                      *)
TypeOK ==
  /\ live \subseteq Contexts
  /\ next \in 1..(MaxTicket + 1)
  /\ gpu \in [Contexts -> Seq([ticket : 1..MaxTicket, writes : BOOLEAN, deed : Deeds])]
  /\ progress \in [Contexts -> 0..MaxTicket]
  /\ stamp \in [Deeds -> Stamps]
  /\ promise \in [Promises -> 0..Abandoned]
  /\ park \in [Promises -> Threads \cup {NoThread}]
  /\ waiters \in [Promises -> SUBSET Threads]
  /\ promises \in 0..MaxPromises
  /\ thread \in [Threads -> Calls]
  /\ view \in [Threads -> 0..MaxDeeds]
  /\ deed \in Deeds
  /\ bin \in {"held", "pending", "ready"}
  /\ readyAfter \in Tables

(* A settle that reports Ready has seen the end of every submit recorded   *)
(* before it began, on whatever context, presents included.                *)
SettledMeansIdle ==
  \A t \in Threads : At(t, "settled") => \A w \in InFlight : w.ticket \notin thread[t].owed

(* A resource that the pool hands out again is not in use by any submit    *)
(* made under an earlier stamp.                                            *)
ReissuedIsIdle == bin = "held" => \A w \in InFlight : w.deed = deed

(* While a host view is live, no write of the resource is under way on the *)
(* GPU.                                                                    *)
ViewExcludesWrites ==
  \A t \in Threads : view[t] # 0 => \A w \in InFlight : ~w.writes

(* A submit that waits at the gate for promises gets past it: no wake-up   *)
(* is lost, whatever the order in which the promise is kept, looked at and *)
(* slept on.                                                               *)
GateOpens == \A t \in Threads : AtGate(t) ~> ~AtGate(t)

(* Epochs recorded on a context that the context's semaphore will not      *)
(* reach by what has been submitted so far.                                *)
LastOf(k) == IF k \in live /\ gpu[k] # << >> THEN gpu[k][Len(gpu[k])].ticket ELSE ProgressOf(k)
Unreachable(d) == \E k \in Keys : Merged(stamp[d])[k] > LastOf(k)

(* wait_until_settled returns.                                             *)
Settling(t) == thread[t].op \in {"settle", "drop"}
SettleReturns == \A t \in Threads : Settling(t) ~> ~Settling(t)

(* wait_until_settled returns, unless the stamp holds an epoch that its    *)
(* context will not reach.                                                 *)
SettleReturnsWhenReachable ==
  \A t \in Threads : Settling(t) ~> (~Settling(t) \/ Unreachable(thread[t].deed))
=============================================================================
