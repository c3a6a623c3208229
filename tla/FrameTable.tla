----------------------------- MODULE FrameTable -----------------------------
(***************************************************************************)
(* The frame table of one Vulkan context.  Dispatches do not find their    *)
(* resources in baked constants but in a row of a device-local table, whose*)
(* number they read from a selector cell.  A submit writes its indices into*)
(* a row of host-visible staging memory; the command buffer it records     *)
(* starts with a prologue that copies that staging row, and its number, to *)
(* the device when it executes.                                            *)
(*                                                                         *)
(* Rows are handed out round robin.  A row is written again only when the  *)
(* context's semaphore has reached the last ticket that used it.  A        *)
(* command buffer may be retained under a key and submitted again without  *)
(* being recorded; it pins its row, and is evicted when a fresh submit     *)
(* comes around to that row.                                               *)
(*                                                                         *)
(* One client thread submits on the context (see the README); schemes and  *)
(* resources may be dropped on other threads, which evicts what was        *)
(* retained for them.  Command buffers without table bindings take no row  *)
(* and are left out, and so are lookups that cannot fail on a live context.*)
(* A command buffer has one prologue here; one with render passes may have *)
(* a prologue per pass, each of which records the pass's own indices (into *)
(* the row of the graph if that has one, else into a row of its own).      *)
(***************************************************************************)
EXTENDS Integers, Sequences, FiniteSets

CONSTANTS
  Rows,             (* FRAME_TABLE_MAX_ROWS                                 *)
  Queues,           (* native queues the context's partitions run on        *)
  Keys,             (* keys of retained command buffers                     *)
  NoKey,            (* a submit that retains nothing                        *)
  None,             (* no command buffer retained under a key               *)
  MaxReservations,  (* bound on the command buffers recorded                *)
  MaxTicket,        (* bound on the submits                                 *)
  MaxFailures,      (* bound on submits that are refused or fail natively   *)
  BindingsDropped   (* whether other threads drop resources that the scheme *)
                    (* being submitted binds                                *)

RowIds  == 0..(Rows - 1)
Buffers == 1..MaxReservations    \* command buffers, named by their recording
ClientSteps == {"idle", "waiting", "recording", "replaying"}
ROW_IN_USE == MaxTicket + 1      \* above every ticket

Entries == [cb : Buffers, row : RowIds, queue : Queues, last : 1..MaxTicket]
Works   == [ticket : 1..MaxTicket, row : RowIds, cb : Buffers]

ASSUME FrameTableAssumption ==
  /\ Rows \in Nat \ {0}
  /\ NoKey \notin Keys
  /\ None \notin Entries
  /\ MaxReservations \in Nat
  /\ MaxTicket \in Nat
  /\ MaxFailures \in Nat
  /\ BindingsDropped \in BOOLEAN

VARIABLES
  submission_counter,    (* recordings so far                               *)
  pinned_rows,           (* rows pinned by retained command buffers         *)
  last_token_for_row,    (* last ticket of each row, or ROW_IN_USE          *)
  staging,               (* staging[r]: recording whose indices are in r    *)
  retained,              (* retained_compute_cbs                            *)
  retiring,              (* timeline_cmd_buffers: to be reused after `until`*)
  reusable,              (* free_cmd_buffers                                *)
  evicting,              (* what another thread took out of retained and has*)
                         (* not yet unpinned, or None                       *)
  client,                (* the submit that the client thread is inside of  *)
  next,                  (* the next ticket                                 *)
  gpu,                   (* gpu[q]: submits on native queue q, oldest first *)
  dispatching,           (* dispatching[q]: the oldest is past its prologue *)
  table,                 (* device-local rows                               *)
  selector,              (* device-local selector cell                      *)
  sem,                   (* the context's timeline semaphore                *)
  failures               (* native submits that failed                      *)

rowVars    == <<submission_counter, pinned_rows, last_token_for_row, staging>>
cbVars     == <<retained, retiring, reusable, evicting>>
gpuVars    == <<gpu, dispatching, table, selector, sem, failures>>
tableVars  == <<submission_counter, pinned_rows, last_token_for_row, staging, retained,
                retiring, reusable, evicting, client, next, gpu, dispatching, table, selector,
                sem, failures>>

Idle == [step |-> "idle", row |-> 0, cb |-> 0, key |-> NoKey, queue |-> None]

Kept == {k \in Keys : retained[k] # None}

Init ==
  /\ submission_counter = 0
  /\ pinned_rows        = {}
  /\ last_token_for_row = [r \in RowIds |-> 0]
  /\ staging            = [r \in RowIds |-> 0]
  /\ retained           = [k \in Keys |-> None]
  /\ retiring           = {}
  /\ reusable           = {}
  /\ evicting           = None
  /\ client             = Idle
  /\ next               = 1
  /\ gpu                = [q \in Queues |-> << >>]
  /\ dispatching        = [q \in Queues |-> FALSE]
  /\ table              = [r \in RowIds |-> 0]
  /\ selector           = 0
  /\ sem                = 0
  /\ failures           = 0

-----------------------------------------------------------------------------
(* Mutant of Evicted: rows stay pinned.                                    *)
EvictedPinned(K) ==
  /\ retained'    = [k \in Keys |-> IF k \in K THEN None ELSE retained[k]]
  /\ retiring'    = retiring \cup {[cb |-> retained[k].cb, until |-> retained[k].last] : k \in K}
  /\ pinned_rows' = pinned_rows

(* Forget the command buffers retained under the keys K: their rows are    *)
(* unpinned, and they may be reused once their last submit is done.        *)
Evicted(K) ==
  /\ retained'    = [k \in Keys |-> IF k \in K THEN None ELSE retained[k]]
  /\ retiring'    = retiring \cup {[cb |-> retained[k].cb, until |-> retained[k].last] : k \in K}
  /\ pinned_rows' = pinned_rows \ {retained[k].row : k \in K}

(* Another thread drops the scheme that retained k, or a resource that it  *)
(* binds: the entry leaves the map ...                                     *)
EvictBegin(k) ==
  /\ evicting = None
  /\ k \in Kept
  /\ client.step = "replaying" /\ client.key = k => BindingsDropped
  /\ evicting' = retained[k]
  /\ retained' = [retained EXCEPT ![k] = None]
  /\ UNCHANGED <<rowVars, retiring, reusable, client, next, gpuVars>>

(* ... and only then are its row unpinned and its command buffer retired.  *)
EvictEnd ==
  /\ evicting # None
  /\ pinned_rows' = pinned_rows \ {evicting.row}
  /\ retiring' = retiring \cup {[cb |-> evicting.cb, until |-> evicting.last]}
  /\ evicting' = None
  /\ UNCHANGED <<submission_counter, last_token_for_row, staging, retained, reusable, client, next, gpuVars>>

(* A submit, to be retained under key unless that is NoKey, evicts what    *)
(* was retained under the same key, takes the next row and evicts those    *)
(* that pin it.                                                            *)
Reserve(q, key) ==
  /\ client = Idle
  /\ submission_counter < MaxReservations
  /\ LET row == submission_counter % Rows IN
       /\ Evicted({k \in Kept : k = key \/ retained[k].row = row})
       /\ client' = [step |-> "waiting", row |-> row, cb |-> submission_counter + 1,
                     key |-> key, queue |-> q]
  /\ submission_counter' = submission_counter + 1
  /\ UNCHANGED <<last_token_for_row, staging, reusable, evicting, next, gpuVars>>

(* assert_not_pinned: the eviction found nothing to evict, because another *)
(* thread has taken the entry and not yet unpinned the row.  The submit    *)
(* fails.                                                                  *)
RowStillPinned ==
  /\ client.step = "waiting"
  /\ client.row \in pinned_rows
  /\ client' = Idle
  /\ UNCHANGED <<rowVars, cbVars, next, gpuVars>>

(* Mutant of Claim: the row is written without waiting for its last user.  *)
ClaimAtOnce ==
  /\ client.step = "waiting"
  /\ client.row \notin pinned_rows
  /\ last_token_for_row' = [last_token_for_row EXCEPT ![client.row] = ROW_IN_USE]
  /\ staging' = [staging EXCEPT ![client.row] = client.cb]
  /\ client'  = [client EXCEPT !.step = "recording"]
  /\ UNCHANGED <<submission_counter, pinned_rows, cbVars, next, gpuVars>>

(* Wait for the row's last ticket on the context's semaphore, mark the row *)
(* and write its staging memory.                                           *)
Claim ==
  /\ client.step = "waiting"
  /\ client.row \notin pinned_rows
  /\ last_token_for_row[client.row] # ROW_IN_USE
  /\ sem >= last_token_for_row[client.row]
  /\ last_token_for_row' = [last_token_for_row EXCEPT ![client.row] = ROW_IN_USE]
  /\ staging' = [staging EXCEPT ![client.row] = client.cb]
  /\ client'  = [client EXCEPT !.step = "recording"]
  /\ UNCHANGED <<submission_counter, pinned_rows, cbVars, next, gpuVars>>

(* Mutant of Abort: the reservation is not released.                       *)
AbortInUse ==
  /\ client.step = "recording"
  /\ client' = Idle
  /\ UNCHANGED <<rowVars, cbVars, next, gpuVars>>

(* Recording fails: RowReservation's drop frees the row.                   *)
Abort ==
  /\ client.step = "recording"
  /\ last_token_for_row' = [last_token_for_row EXCEPT ![client.row] = 0]
  /\ client' = Idle
  /\ UNCHANGED <<submission_counter, pinned_rows, staging, cbVars, next, gpuVars>>

Work(row, cb) == [ticket |-> next, row |-> row, cb |-> cb]

(* The recorded command buffer takes a ticket and goes to its queue; it is *)
(* retained and pins its row, or retires with its ticket.                  *)
Commit ==
  /\ client.step = "recording"
  /\ next <= MaxTicket
  /\ next' = next + 1
  /\ last_token_for_row' = [last_token_for_row EXCEPT ![client.row] = next]
  /\ gpu' = [gpu EXCEPT ![client.queue] = Append(@, Work(client.row, client.cb))]
  /\ IF client.key = NoKey
       THEN /\ retiring' = retiring \cup {[cb |-> client.cb, until |-> next]}
            /\ UNCHANGED <<retained, pinned_rows>>
       ELSE /\ retained' = [retained EXCEPT ![client.key] =
                   [cb |-> client.cb, row |-> client.row, queue |-> client.queue, last |-> next]]
            /\ pinned_rows' = pinned_rows \cup {client.row}
            /\ UNCHANGED retiring
  /\ client' = Idle
  /\ UNCHANGED <<submission_counter, staging, reusable, evicting, dispatching, table, selector, sem, failures>>

(* A submit finds a command buffer retained under its key: it goes on with *)
(* a copy of the entry.                                                    *)
FindRetained(k) ==
  /\ client = Idle
  /\ k \in Kept
  /\ client' = [step |-> "replaying", row |-> retained[k].row, cb |-> retained[k].cb,
                key |-> k, queue |-> retained[k].queue]
  /\ UNCHANGED <<rowVars, cbVars, next, gpuVars>>

(* The entry of the client's command buffer, if there still is one, takes  *)
(* a new last ticket.                                                      *)
LastTicketNow ==
  [k \in Keys |-> IF k \in Kept /\ retained[k].cb = client.cb
                    THEN [retained[k] EXCEPT !.last = next] ELSE retained[k]]

(* Mutants of Resubmit: the row's token, or the command buffer's last      *)
(* ticket, is not updated.                                                 *)
ResubmitOldToken ==
  /\ client.step = "replaying"
  /\ next <= MaxTicket
  /\ next' = next + 1
  /\ retained' = LastTicketNow
  /\ gpu' = [gpu EXCEPT ![client.queue] = Append(@, Work(client.row, client.cb))]
  /\ client' = Idle
  /\ UNCHANGED <<rowVars, retiring, reusable, evicting, dispatching, table, selector, sem, failures>>

ResubmitOldLast ==
  /\ client.step = "replaying"
  /\ next <= MaxTicket
  /\ next' = next + 1
  /\ last_token_for_row' = [last_token_for_row EXCEPT ![client.row] = next]
  /\ gpu' = [gpu EXCEPT ![client.queue] = Append(@, Work(client.row, client.cb))]
  /\ client' = Idle
  /\ UNCHANGED <<submission_counter, pinned_rows, staging, cbVars, dispatching, table, selector, sem, failures>>

(* And submits it again, with a new ticket.                                *)
Resubmit ==
  /\ client.step = "replaying"
  /\ next <= MaxTicket
  /\ next' = next + 1
  /\ retained' = LastTicketNow
  /\ last_token_for_row' = [last_token_for_row EXCEPT ![client.row] = next]
  /\ gpu' = [gpu EXCEPT ![client.queue] = Append(@, Work(client.row, client.cb))]
  /\ client' = Idle
  /\ UNCHANGED <<submission_counter, pinned_rows, staging, retiring, reusable, evicting,
                 dispatching, table, selector, sem, failures>>

(* Command buffers whose ticket the semaphore has reached can be reused.   *)
Reap ==
  /\ \E g \in retiring : g.until <= sem
  /\ retiring' = {g \in retiring : g.until > sem}
  /\ reusable' = reusable \cup {g.cb : g \in retiring \ retiring'}
  /\ UNCHANGED <<rowVars, retained, evicting, client, next, gpuVars>>

-----------------------------------------------------------------------------
(* A queue begins its oldest submit: the prologue waits for the dispatches *)
(* of earlier ones on the queue, then copies the row and its number.       *)
Prologue(q) ==
  /\ gpu[q] # << >>
  /\ ~dispatching[q]
  /\ LET row == Head(gpu[q]).row IN
       /\ table'    = [table EXCEPT ![row] = staging[row]]
       /\ selector' = row
  /\ dispatching' = [dispatching EXCEPT ![q] = TRUE]
  /\ UNCHANGED <<rowVars, cbVars, client, next, gpu, sem, failures>>

(* The values a semaphore at v may hold after a signal of t (see           *)
(* DeviceTimeline).                                                        *)
SignalOutcomes(v, t) == IF t > v THEN {t} ELSE {v, t}

(* The dispatches end and the submit signals its ticket.                   *)
Finish(q) ==
  /\ dispatching[q]
  /\ gpu[q] # << >>
  /\ sem' \in SignalOutcomes(sem, Head(gpu[q]).ticket)
  /\ gpu' = [gpu EXCEPT ![q] = Tail(@)]
  /\ dispatching' = [dispatching EXCEPT ![q] = FALSE]
  /\ UNCHANGED <<rowVars, cbVars, client, next, table, selector, failures>>

(* The worker could not submit the work natively, or refused it: it is gone*)
(* and its ticket is never signaled.  That it leaves when it is the oldest,*)
(* and not at once, makes no difference to anything else.                  *)
Fail(q) ==
  /\ gpu[q] # << >>
  /\ ~dispatching[q]
  /\ failures < MaxFailures
  /\ failures' = failures + 1
  /\ gpu' = [gpu EXCEPT ![q] = Tail(@)]
  /\ UNCHANGED <<rowVars, cbVars, client, next, dispatching, table, selector, sem>>

-----------------------------------------------------------------------------
Client ==
  \/ \E q \in Queues, key \in Keys \cup {NoKey} : Reserve(q, key)
  \/ Claim
  \/ RowStillPinned
  \/ Abort
  \/ Commit
  \/ \E k \in Keys : FindRetained(k)
  \/ Resubmit

Next ==
  \/ Client
  \/ \E k \in Keys : EvictBegin(k)
  \/ EvictEnd
  \/ Reap
  \/ \E q \in Queues : Prologue(q) \/ Finish(q) \/ Fail(q)

Spec == Init /\ [][Next]_tableVars

(* The GPU finishes what it is given, and the client thread goes on.       *)
FairSpec ==
  /\ Spec
  /\ WF_tableVars(Claim \/ RowStillPinned)
  /\ \A q \in Queues : WF_tableVars(Prologue(q)) /\ WF_tableVars(Finish(q))

-----------------------------------------------------------------------------
(* Types of the frame table's state.                                       *)
TypeOK ==
  /\ submission_counter \in 0..MaxReservations
  /\ pinned_rows \subseteq RowIds
  /\ last_token_for_row \in [RowIds -> 0..ROW_IN_USE]
  /\ staging  \in [RowIds -> 0..MaxReservations]
  /\ retained \in [Keys -> Entries \cup {None}]
  /\ evicting \in Entries \cup {None}
  /\ retiring \subseteq [cb : Buffers, until : 1..MaxTicket]
  /\ reusable \subseteq Buffers
  /\ next     \in 1..(MaxTicket + 1)
  /\ gpu      \in [Queues -> Seq(Works)]
  /\ dispatching \in [Queues -> BOOLEAN]
  /\ table    \in [RowIds -> 0..MaxReservations]
  /\ selector \in RowIds
  /\ sem      \in 0..MaxTicket
  /\ failures \in 0..MaxFailures
  /\ client \in [step : ClientSteps, row : RowIds, cb : 0..MaxReservations,
                 key : Keys \cup {NoKey}, queue : Queues \cup {None}]
  /\ client.step # "idle" => client.cb \in Buffers /\ client.queue \in Queues

(* While a submit's dispatches execute, the selector names its row and the *)
(* row holds the indices it was recorded with: fresh submits and replays   *)
(* bind the resources they mean.                                           *)
DispatchReadsItsRow ==
  \A q \in Queues : dispatching[q] =>
    /\ selector = Head(gpu[q]).row
    /\ table[selector] = Head(gpu[q]).cb

(* Staging rows that will still be copied are intact: those of submits not *)
(* yet past their prologue, and those pinned for replays.                  *)
StagingIntact ==
  /\ \A q \in Queues : \A i \in 1..Len(gpu[q]) : staging[gpu[q][i].row] = gpu[q][i].cb
  /\ \A k \in Kept : staging[retained[k].row] = retained[k].cb

(* A row is pinned exactly as long as one retained command buffer, or one  *)
(* that another thread is evicting, has it: pins are never lost or leaked, *)
(* and a submit finds its row pinned ("lifecycle bug") only during such an *)
(* eviction.                                                               *)
PinsHaveOneOwner ==
  /\ pinned_rows = {retained[k].row : k \in Kept} \cup {e.row : e \in {evicting} \ {None}}
  /\ \A k, l \in Kept : retained[k].row = retained[l].row => k = l
  /\ evicting # None => \A k \in Kept : retained[k].row # evicting.row

(* A command buffer is not reused while a submit of it is under way or it  *)
(* is still retained: of several replays the last one counts, as "update   *)
(* the last signal value so eviction can defer-free the CB safely" says.   *)
ReusableIsIdle ==
  /\ \A q \in Queues : \A i \in 1..Len(gpu[q]) : gpu[q][i].cb \notin reusable
  /\ \A k \in Kept : retained[k].cb \notin reusable

(* Backpressure ends: a submit that waits for its row gets it, unless a    *)
(* native submit failed (its ticket may be the one waited for, without a   *)
(* timeout).                                                               *)
RowWaitEnds == client.step = "waiting" ~> (client.step # "waiting" \/ failures > 0)
-----------------------------------------------------------------------------
(* Why pins have one owner: neither the row nor the key of a fresh submit  *)
(* under way is retained, and a row being recorded is not pinned at all.   *)
PinOrder ==
  /\ PinsHaveOneOwner
  /\ client.step \in {"waiting", "recording"} =>
       \A k \in Kept : k # client.key /\ retained[k].row # client.row
  /\ client.step = "recording" => client.row \notin pinned_rows

(* Why StagingIntact holds, on a context with one queue.                   *)
OneQueue == \A p, q \in Queues : p = q

(* Work on a queue comes in ascending order of tickets above the semaphore,*)
(* and the last ticket kept for a row covers those of all work that will   *)
(* still copy it.                                                          *)
WorkOrder ==
  /\ sem < next
  /\ \A q \in Queues : \A i \in 1..Len(gpu[q]) :
       /\ sem < gpu[q][i].ticket
       /\ gpu[q][i].ticket < next
       /\ gpu[q][i].ticket <= last_token_for_row[gpu[q][i].row]
  /\ \A q \in Queues : \A i, j \in 1..Len(gpu[q]) : i < j => gpu[q][i].ticket < gpu[q][j].ticket

(* The client's row holds what it is about to submit, and a row being      *)
(* recorded has no pending work.                                           *)
ClientRowIsReady ==
  /\ client.step \in {"recording", "replaying"} => staging[client.row] = client.cb
  /\ client.step = "recording" =>
       \A q \in Queues : \A i \in 1..Len(gpu[q]) : gpu[q][i].row # client.row

(* A queue that dispatches has work.                                       *)
DispatchingHasWork == \A q \in Queues : dispatching[q] => gpu[q] # << >>

(* The inductive invariant of a context with one queue.                    *)
RowOrder ==
  /\ PinOrder
  /\ StagingIntact
  /\ WorkOrder
  /\ ClientRowIsReady
  /\ DispatchingHasWork
  /\ DispatchReadsItsRow

(* Why ReusableIsIdle holds, on a context with one queue and when no other *)
(* thread drops what the scheme being submitted binds.  A submit under way *)
(* has its command buffer held, retained or to be retired, for long enough.*)
Held(cb, t) ==
  \/ \E k \in Kept : retained[k].cb = cb /\ t <= retained[k].last
  \/ evicting # None /\ evicting.cb = cb /\ t <= evicting.last
  \/ \E g \in retiring : g.cb = cb /\ t <= g.until

WorkIsHeld == \A q \in Queues : \A i \in 1..Len(gpu[q]) : Held(gpu[q][i].cb, gpu[q][i].ticket)

(* It is held once, and not reusable at the same time.                     *)
Retiring == {g.cb : g \in retiring}
Evicting == {e.cb : e \in {evicting} \ {None}}
Retained == {retained[k].cb : k \in Kept}

HeldOnce ==
  /\ \A k, l \in Kept : retained[k].cb = retained[l].cb => k = l
  /\ \A g, h \in retiring : g.cb = h.cb => g = h
  /\ Retained \cap (Evicting \cup Retiring \cup reusable) = {}
  /\ Evicting \cap (Retiring \cup reusable) = {}
  /\ Retiring \cap reusable = {}

(* The client records a new command buffer, or replays a retained one.     *)
Recorded == Retained \cup Evicting \cup Retiring \cup reusable

ClientBuffer ==
  /\ \A cb \in Recorded : cb <= submission_counter
  /\ client.step \in {"waiting", "recording"} =>
       client.cb <= submission_counter /\ client.cb \notin Recorded
  /\ client.step = "replaying" => client.key \in Kept /\ retained[client.key].cb = client.cb

ReuseOrder == WorkIsHeld /\ HeldOnce /\ ClientBuffer
=============================================================================
