-------------------------- MODULE FrameTableProofs --------------------------
(***************************************************************************)
(* Proofs about FrameTable.                                                *)
(***************************************************************************)
EXTENDS FrameTable, TLAPS

USE FrameTableAssumption DEF RowIds, Buffers, ClientSteps

(* The next row is a row.                                                  *)
LEMMA NextRow ==
  ASSUME NEW n \in Nat PROVE n % Rows \in RowIds
  BY SMTT(30)

(* What a row's token may be set to.                                       *)
LEMMA Tokens ==
  ROW_IN_USE \in 0..ROW_IN_USE /\ 0 \in 0..ROW_IN_USE /\ \A t \in 1..MaxTicket : t \in 0..ROW_IN_USE
  BY DEF ROW_IN_USE

(* A new retiring command buffer.                                          *)
LEMMA Retire ==
  ASSUME TypeOK, NEW cb \in Buffers, NEW t \in 1..MaxTicket
  PROVE  retiring \cup {[cb |-> cb, until |-> t]} \subseteq [cb : Buffers, until : 1..MaxTicket]
  BY SMTT(30) DEF TypeOK

(* Every key that retains something retains an entry.                      *)
LEMMA KeptEntries ==
  ASSUME TypeOK PROVE \A k \in Kept : k \in Keys /\ retained[k] \in Entries
  BY DEF TypeOK, Kept

(* A replay changes nothing of the entries but last tickets.               *)
LEMMA LastTicket ==
  ASSUME TypeOK, next \in 1..MaxTicket
  PROVE  /\ LastTicketNow \in [Keys -> Entries \cup {None}]
         /\ \A k \in Keys : LastTicketNow[k] # None <=> k \in Kept
         /\ \A k \in Kept : /\ LastTicketNow[k].row = retained[k].row
                            /\ LastTicketNow[k].cb = retained[k].cb
<1>1. ASSUME NEW k \in Kept
      PROVE  /\ [retained[k] EXCEPT !.last = next] \in Entries
             /\ [retained[k] EXCEPT !.last = next].row = retained[k].row
             /\ [retained[k] EXCEPT !.last = next].cb = retained[k].cb
  <2>1. retained[k] \in Entries
    BY KeptEntries
  <2> QED
    BY <2>1 DEF Entries
<1>2. ASSUME NEW k \in Kept
      PROVE  /\ k \in Keys /\ LastTicketNow[k] \in Entries
             /\ LastTicketNow[k].row = retained[k].row
             /\ LastTicketNow[k].cb = retained[k].cb
  <2>1. k \in Keys /\ retained[k] \in Entries
    BY KeptEntries
  <2>2. LastTicketNow[k] = [retained[k] EXCEPT !.last = next] \/ LastTicketNow[k] = retained[k]
    BY <2>1 DEF LastTicketNow
  <2> QED
    BY <1>1, <2>1, <2>2
<1>3. ASSUME NEW k \in Keys, k \notin Kept PROVE LastTicketNow[k] = None
  BY <1>3 DEF LastTicketNow, Kept
<1>4. LastTicketNow \in [Keys -> Entries \cup {None}]
  <2>1. \A k \in Keys : LastTicketNow[k] \in Entries \cup {None}
    BY <1>2, <1>3
  <2>2. LastTicketNow = [k \in Keys |-> LastTicketNow[k]]
    BY DEF LastTicketNow
  <2> HIDE DEF LastTicketNow
  <2> QED
    BY <2>1, <2>2
<1> QED
  BY <1>2, <1>3, <1>4

-----------------------------------------------------------------------------
(* Types *)

LEMMA TypeInit == Init => TypeOK
<1> SUFFICES ASSUME Init PROVE TypeOK
  OBVIOUS
<1>1. 0 \in RowIds /\ 0 \in 0..MaxReservations /\ 0 \in 0..MaxTicket /\ 0 \in 0..MaxFailures
  OBVIOUS
<1> QED
  BY <1>1 DEF Init, TypeOK, Idle, ROW_IN_USE

LEMMA TypeReserve ==
  ASSUME TypeOK, NEW q \in Queues, NEW key \in Keys \cup {NoKey}, Reserve(q, key) PROVE TypeOK'
<1> DEFINE row == submission_counter % Rows
           K == {k \in Kept : k = key \/ retained[k].row = row}
<1>1. row \in RowIds
  <2>1. submission_counter \in Nat
    BY DEF TypeOK
  <2> QED
    BY ONLY <2>1, NextRow
<1>2. /\ submission_counter < MaxReservations
      /\ submission_counter' = submission_counter + 1
      /\ client' = [step |-> "waiting", row |-> row, cb |-> submission_counter + 1,
                    key |-> key, queue |-> q]
      /\ retained' = [k \in Keys |-> IF k \in K THEN None ELSE retained[k]]
      /\ retiring' = retiring \cup {[cb |-> retained[k].cb, until |-> retained[k].last] : k \in K}
      /\ pinned_rows' = pinned_rows \ {retained[k].row : k \in K}
  BY DEF Reserve, Evicted
<1>3. submission_counter' \in 0..MaxReservations /\ submission_counter + 1 \in Buffers
  BY <1>2 DEF TypeOK
<1>4. retiring' \subseteq [cb : Buffers, until : 1..MaxTicket]
  <2>1. \A k \in K : retained[k].cb \in Buffers /\ retained[k].last \in 1..MaxTicket
    BY KeptEntries DEF Entries
  <2> HIDE DEF K
  <2>2. \A k \in K : [cb |-> retained[k].cb, until |-> retained[k].last] \in [cb : Buffers, until : 1..MaxTicket]
    BY <2>1
  <2>3. retiring \subseteq [cb : Buffers, until : 1..MaxTicket]
    BY DEF TypeOK
  <2> QED
    BY <1>2, <2>2, <2>3
<1>5. retained' \in [Keys -> Entries \cup {None}] /\ pinned_rows' \subseteq RowIds
  BY <1>2 DEF TypeOK
<1>6. /\ client' \in [step : ClientSteps, row : RowIds, cb : 0..MaxReservations,
                      key : Keys \cup {NoKey}, queue : Queues \cup {None}]
      /\ client'.cb \in Buffers /\ client'.queue \in Queues
  BY <1>1, <1>2, <1>3
<1>7. UNCHANGED <<last_token_for_row, staging, reusable, evicting, next, gpuVars>>
  BY DEF Reserve
<1> QED
  BY <1>3, <1>4, <1>5, <1>6, <1>7 DEF TypeOK, gpuVars

LEMMA TypeStep == TypeOK /\ [Next]_tableVars => TypeOK'
<1> SUFFICES ASSUME TypeOK, [Next]_tableVars PROVE TypeOK'
  OBVIOUS
<1>1. ASSUME NEW q \in Queues, NEW key \in Keys \cup {NoKey}, Reserve(q, key) PROVE TypeOK'
  BY <1>1, TypeReserve
<1>2. CASE Claim
  <2>1. client.row \in RowIds /\ client.cb \in Buffers
    BY <1>2 DEF Claim, TypeOK
  <2>2. last_token_for_row' \in [RowIds -> 0..ROW_IN_USE]
    BY <1>2, Tokens DEF Claim, TypeOK
  <2>3. staging' \in [RowIds -> 0..MaxReservations]
    BY <1>2, <2>1 DEF Claim, TypeOK
  <2>4. /\ client' \in [step : ClientSteps, row : RowIds, cb : 0..MaxReservations,
                        key : Keys \cup {NoKey}, queue : Queues \cup {None}]
        /\ client'.cb = client.cb /\ client'.queue = client.queue
    BY <1>2 DEF Claim, TypeOK
  <2> QED
    BY <1>2, <2>1, <2>2, <2>4, <2>3 DEF Claim, TypeOK, cbVars, gpuVars
<1>3. Idle \in [step : ClientSteps, row : RowIds, cb : 0..MaxReservations,
                key : Keys \cup {NoKey}, queue : Queues \cup {None}]
  BY DEF Idle
<1>4. CASE RowStillPinned
  BY <1>3, <1>4 DEF RowStillPinned, TypeOK, Idle, rowVars, cbVars, gpuVars
<1>5. CASE Abort
  <2>1. last_token_for_row' \in [RowIds -> 0..ROW_IN_USE]
    BY <1>5, Tokens DEF Abort, TypeOK
  <2> QED
    BY <1>3, <1>5, <2>1 DEF Abort, TypeOK, Idle, cbVars, gpuVars
<1>6. ASSUME NEW row \in RowIds, NEW cb \in Buffers, NEW q \in Queues, next <= MaxTicket,
             gpu' = [gpu EXCEPT ![q] = Append(@, Work(row, cb))]
      PROVE  gpu' \in [Queues -> Seq(Works)]
  <2>1. Work(row, cb) \in Works
    BY <1>6 DEF Work, Works, TypeOK
  <2>2. Append(gpu[q], Work(row, cb)) \in Seq(Works)
    BY <2>1 DEF TypeOK
  <2> QED
    BY <1>6, <2>2 DEF TypeOK
<1>7. CASE Commit
  <2>1. /\ client.row \in RowIds /\ client.cb \in Buffers /\ client.queue \in Queues
        /\ client.key \in Keys \cup {NoKey}
    BY <1>7 DEF Commit, TypeOK
  <2>2. next <= MaxTicket /\ next \in 1..(MaxTicket + 1) /\ next' = next + 1
    BY <1>7 DEF Commit, TypeOK
  <2>3. next \in 1..MaxTicket /\ next' \in 1..(MaxTicket + 1)
    BY <2>2
  <2>4. last_token_for_row' \in [RowIds -> 0..ROW_IN_USE]
    BY <1>7, <2>3, Tokens DEF Commit, TypeOK
  <2>5. gpu' \in [Queues -> Seq(Works)]
    BY <1>6, <1>7, <2>1, <2>2 DEF Commit
  <2>6. /\ retiring' \subseteq [cb : Buffers, until : 1..MaxTicket]
        /\ retained' \in [Keys -> Entries \cup {None}]
        /\ pinned_rows' \subseteq RowIds
    <3>1. CASE client.key = NoKey
      <4>1. /\ retiring' = retiring \cup {[cb |-> client.cb, until |-> next]}
            /\ UNCHANGED <<retained, pinned_rows>>
        BY <1>7, <3>1 DEF Commit
      <4>2. retiring' \subseteq [cb : Buffers, until : 1..MaxTicket]
        BY <4>1, <2>1, <2>3, Retire
      <4> QED
        BY <4>1, <4>2 DEF TypeOK
    <3>2. CASE client.key # NoKey
      <4>1. [cb |-> client.cb, row |-> client.row, queue |-> client.queue, last |-> next] \in Entries
        BY <2>1, <2>3 DEF Entries
      <4>2. /\ retained' = [retained EXCEPT ![client.key] =
                 [cb |-> client.cb, row |-> client.row, queue |-> client.queue, last |-> next]]
            /\ pinned_rows' = pinned_rows \cup {client.row}
            /\ retiring' = retiring
        BY <1>7, <3>2 DEF Commit
      <4>3. retained \in [Keys -> Entries \cup {None}]
        BY DEF TypeOK
      <4>4. retained' \in [Keys -> Entries \cup {None}]
        BY <4>1, <4>2, <4>3
      <4>5. retiring \subseteq [cb : Buffers, until : 1..MaxTicket] /\ pinned_rows \subseteq RowIds
        BY DEF TypeOK
      <4> QED
        BY <2>1, <4>2, <4>4, <4>5
    <3> QED
      BY <3>1, <3>2
  <2> QED
    BY <1>3, <1>7, <2>4, <2>5, <2>6, <2>3 DEF Commit, TypeOK, Idle
<1>8. ASSUME NEW k \in Keys, FindRetained(k) PROVE TypeOK'
  <2>1. /\ retained[k] \in Entries
        /\ retained[k].row \in RowIds /\ retained[k].cb \in Buffers /\ retained[k].queue \in Queues
    BY <1>8, KeptEntries DEF FindRetained, Entries
  <2>2. client' = [step |-> "replaying", row |-> retained[k].row, cb |-> retained[k].cb,
                   key |-> k, queue |-> retained[k].queue]
    BY <1>8 DEF FindRetained
  <2>3. /\ client' \in [step : ClientSteps, row : RowIds, cb : 0..MaxReservations,
                         key : Keys \cup {NoKey}, queue : Queues \cup {None}]
        /\ client'.cb \in Buffers /\ client'.queue \in Queues
    BY <2>1, <2>2
  <2>4. UNCHANGED <<rowVars, cbVars, next, gpuVars>>
    BY <1>8 DEF FindRetained
  <2> QED
    BY <2>3, <2>4 DEF TypeOK, rowVars, cbVars, gpuVars
<1>9. CASE Resubmit
  <2>1. /\ client.row \in RowIds /\ client.cb \in Buffers /\ client.queue \in Queues
    BY <1>9 DEF Resubmit, TypeOK
  <2>2. next <= MaxTicket /\ next \in 1..(MaxTicket + 1) /\ next' = next + 1
    BY <1>9 DEF Resubmit, TypeOK
  <2>3. next \in 1..MaxTicket /\ next' \in 1..(MaxTicket + 1)
    BY <2>2
  <2>4. last_token_for_row' \in [RowIds -> 0..ROW_IN_USE]
    BY <1>9, <2>3, Tokens DEF Resubmit, TypeOK
  <2>5. gpu' \in [Queues -> Seq(Works)]
    BY <1>6, <1>9, <2>1, <2>2 DEF Resubmit
  <2>6. retained' \in [Keys -> Entries \cup {None}]
    <3>1. retained' = LastTicketNow
      BY <1>9 DEF Resubmit
    <3> QED
      BY <2>3, <3>1, LastTicket
  <2> QED
    BY <1>3, <1>9, <2>3, <2>4, <2>5, <2>6 DEF Resubmit, TypeOK, Idle
<1>10. ASSUME NEW k \in Keys, EvictBegin(k) PROVE TypeOK'
  BY <1>10, KeptEntries DEF EvictBegin, TypeOK, rowVars, gpuVars
<1>11. CASE EvictEnd
  <2>1. evicting.cb \in Buffers /\ evicting.last \in 1..MaxTicket
    BY <1>11 DEF EvictEnd, TypeOK, Entries
  <2>2. retiring' \subseteq [cb : Buffers, until : 1..MaxTicket]
    BY <1>11, <2>1, Retire DEF EvictEnd
  <2> QED
    BY <1>11, <2>2 DEF EvictEnd, TypeOK, gpuVars
<1>12. CASE Reap
  <2>1. \A g \in retiring : g.cb \in Buffers
    BY DEF TypeOK
  <2>2. /\ retiring' = {g \in retiring : g.until > sem}
        /\ reusable' = reusable \cup {g.cb : g \in retiring \ retiring'}
    BY <1>12 DEF Reap
  <2>3. retiring' \subseteq retiring
    BY <2>2
  <2>4. reusable \subseteq Buffers
    BY DEF TypeOK
  <2>5. {g.cb : g \in retiring \ retiring'} \subseteq Buffers
    BY <2>1
  <2>6. reusable' \subseteq Buffers
    BY <2>2, <2>4, <2>5
  <2> QED
    BY <1>12, <2>3, <2>6 DEF Reap, TypeOK, rowVars, gpuVars
<1>13. ASSUME NEW q \in Queues, gpu[q] # << >>
       PROVE  Head(gpu[q]) \in Works /\ Tail(gpu[q]) \in Seq(Works)
  BY <1>13 DEF TypeOK
<1>14. ASSUME NEW q \in Queues, Prologue(q) PROVE TypeOK'
  <2>1. Head(gpu[q]).row \in RowIds
    BY <1>13, <1>14 DEF Prologue, Works
  <2> QED
    BY <1>14, <2>1 DEF Prologue, TypeOK, rowVars, cbVars
<1>15. ASSUME NEW q \in Queues, Finish(q) PROVE TypeOK'
  <2>1. Head(gpu[q]).ticket \in 1..MaxTicket
    BY <1>13, <1>15 DEF Finish, Works
  <2>2. sem' \in 0..MaxTicket
    <3>1. sem' = sem \/ sem' = Head(gpu[q]).ticket
      BY <1>15 DEF Finish, SignalOutcomes
    <3>2. sem \in 0..MaxTicket
      BY DEF TypeOK
    <3>3. Head(gpu[q]).ticket \in 0..MaxTicket
      BY <2>1
    <3> QED
      BY <3>1, <3>2, <3>3
  <2>3. gpu' \in [Queues -> Seq(Works)]
    BY <1>13, <1>15 DEF Finish, TypeOK
  <2> QED
    BY <1>15, <2>2, <2>3 DEF Finish, TypeOK, rowVars, cbVars
<1>16. ASSUME NEW q \in Queues, Fail(q) PROVE TypeOK'
  <2>1. gpu' \in [Queues -> Seq(Works)]
    BY <1>13, <1>16 DEF Fail, TypeOK
  <2>2. failures' \in 0..MaxFailures
    BY <1>16 DEF Fail, TypeOK
  <2>3. UNCHANGED <<rowVars, cbVars, client, next, dispatching, table, selector, sem>>
    BY <1>16 DEF Fail
  <2> QED
    BY <2>1, <2>2, <2>3 DEF TypeOK, rowVars, cbVars
<1>17. CASE UNCHANGED tableVars
  BY <1>17 DEF tableVars, TypeOK
<1> QED
  BY <1>1, <1>2, <1>4, <1>5, <1>7, <1>8, <1>9, <1>10, <1>11, <1>12, <1>14, <1>15, <1>16, <1>17
     DEF Next, Client

(* Types, for every number of rows, queues and keys.                       *)
THEOREM FrameTableTypes == Spec => []TypeOK
<1> QED
  BY TypeInit, TypeStep, PTL DEF Spec
-----------------------------------------------------------------------------
(* Pins *)

LEMMA PinInit == Init => PinOrder
  BY DEF Init, PinOrder, PinsHaveOneOwner, Kept, Idle

LEMMA PinReserve ==
  ASSUME TypeOK, PinOrder, NEW q \in Queues, NEW key \in Keys \cup {NoKey}, Reserve(q, key)
  PROVE  PinOrder'
<1> DEFINE row == submission_counter % Rows
           K == {k \in Kept : k = key \/ retained[k].row = row}
<1>1. /\ client'.step = "waiting" /\ client'.row = row /\ client'.key = key
      /\ retained' = [k \in Keys |-> IF k \in K THEN None ELSE retained[k]]
      /\ pinned_rows' = pinned_rows \ {retained[k].row : k \in K}
      /\ evicting' = evicting
  BY DEF Reserve, Evicted
<1>2. Kept' = Kept \ K /\ \A k \in Kept' : retained'[k] = retained[k]
  BY <1>1 DEF Kept
<1>3. \A k \in Kept' : k # key /\ retained'[k].row # row
  BY <1>2
<1> HIDE DEF K, row
<1>4. PinsHaveOneOwner'
  <2>1. K \subseteq Kept
    BY DEF K
  <2> QED
    BY <1>1, <1>2, <2>1 DEF PinOrder, PinsHaveOneOwner
<1> QED
  BY <1>1, <1>3, <1>4 DEF PinOrder

LEMMA PinCommit ==
  ASSUME TypeOK, PinOrder, Commit PROVE PinOrder'
<1> DEFINE e == [cb |-> client.cb, row |-> client.row, queue |-> client.queue, last |-> next]
<1>1. client'.step = "idle" /\ client.step = "recording" /\ evicting' = evicting
  BY DEF Commit, Idle
<1>2. CASE client.key = NoKey
  <2>1. UNCHANGED <<retained, pinned_rows>>
    BY <1>2 DEF Commit
  <2> QED
    BY <1>1, <2>1 DEF PinOrder, PinsHaveOneOwner, Kept
<1>3. CASE client.key # NoKey
  <2>1. client.key \in Keys /\ e \in Entries
    BY <1>1, <1>3 DEF TypeOK, Commit, Entries
  <2>2. /\ retained' = [retained EXCEPT ![client.key] = e]
        /\ pinned_rows' = pinned_rows \cup {client.row}
    BY <1>3 DEF Commit
  <2>3. e # None /\ e.row = client.row
    BY <2>1
  <2> HIDE DEF e
  <2>4. /\ Kept' = Kept \cup {client.key}
        /\ retained'[client.key] = e
        /\ \A k \in Kept : retained'[k] = retained[k] /\ k # client.key /\ retained[k].row # client.row
    BY <1>1, <2>1, <2>2, <2>3 DEF Kept, TypeOK, PinOrder
  <2>5. client.row \notin pinned_rows
    BY <1>1 DEF PinOrder
  <2>6. PinsHaveOneOwner'
    BY <1>1, <2>2, <2>3, <2>4, <2>5 DEF PinOrder, PinsHaveOneOwner
  <2> QED
    BY <1>1, <2>6 DEF PinOrder
<1> QED
  BY <1>2, <1>3

LEMMA PinStep == TypeOK /\ PinOrder /\ [Next]_tableVars => PinOrder'
<1> SUFFICES ASSUME TypeOK, PinOrder, [Next]_tableVars PROVE PinOrder'
  OBVIOUS
<1>1. ASSUME NEW q \in Queues, NEW key \in Keys \cup {NoKey}, Reserve(q, key) PROVE PinOrder'
  BY <1>1, PinReserve
<1>2. ASSUME UNCHANGED <<pinned_rows, retained, evicting>>,
             \/ client' = client
             \/ client'.step \in {"idle", "replaying"}
             \/ /\ client'.step = "recording" /\ client.step = "waiting"
                /\ client'.row = client.row /\ client'.key = client.key
                /\ client.row \notin pinned_rows
      PROVE  PinOrder'
  BY <1>2 DEF PinOrder, PinsHaveOneOwner, Kept
<1>3. CASE Claim
  <2>1. client'.step = "recording" /\ client'.row = client.row /\ client'.key = client.key
    BY <1>3 DEF Claim, TypeOK
  <2> QED
    BY <1>2, <1>3, <2>1 DEF Claim, cbVars
<1>4. CASE RowStillPinned
  BY <1>2, <1>4 DEF RowStillPinned, Idle, rowVars, cbVars
<1>5. CASE Abort
  BY <1>2, <1>5 DEF Abort, Idle, cbVars
<1>6. CASE Commit
  BY <1>6, PinCommit
<1>7. CASE Resubmit
  <2>1. /\ client'.step = "idle" /\ retained' = LastTicketNow /\ UNCHANGED <<pinned_rows, evicting>>
    BY <1>7 DEF Resubmit, Idle
  <2>2. next \in 1..MaxTicket
    <3>1. next <= MaxTicket /\ next \in 1..(MaxTicket + 1)
      BY <1>7 DEF Resubmit, TypeOK
    <3> QED
      BY <3>1
  <2>3. Kept' = Kept /\ \A k \in Kept : retained'[k].row = retained[k].row
    BY <2>1, <2>2, LastTicket DEF Kept
  <2>4. PinsHaveOneOwner'
    BY <2>1, <2>3 DEF PinOrder, PinsHaveOneOwner
  <2> QED
    BY <2>1, <2>4 DEF PinOrder
<1>8. ASSUME NEW k \in Keys, FindRetained(k) PROVE PinOrder'
  BY <1>2, <1>8 DEF FindRetained, rowVars, cbVars
<1>9. ASSUME NEW k \in Keys, EvictBegin(k) PROVE PinOrder'
  <2>1. /\ k \in Kept /\ evicting = None /\ evicting' = retained[k] /\ evicting' # None
        /\ retained' = [retained EXCEPT ![k] = None]
        /\ UNCHANGED <<pinned_rows, client>>
    BY <1>9 DEF EvictBegin, Kept, rowVars
  <2>2. Kept' = Kept \ {k} /\ \A l \in Kept' : retained'[l] = retained[l]
    BY <2>1 DEF Kept, TypeOK
  <2>3. PinsHaveOneOwner'
    BY <2>1, <2>2 DEF PinOrder, PinsHaveOneOwner
  <2> QED
    BY <2>1, <2>2, <2>3 DEF PinOrder
<1>10. CASE EvictEnd
  <2>1. /\ evicting # None /\ evicting' = None /\ pinned_rows' = pinned_rows \ {evicting.row}
        /\ UNCHANGED <<retained, client>>
    BY <1>10 DEF EvictEnd
  <2>2. Kept' = Kept
    BY <2>1 DEF Kept
  <2>3. pinned_rows = {retained[k].row : k \in Kept} \cup {evicting.row}
    <3>1. {evicting} \ {None} = {evicting}
      BY <2>1
    <3>2. {e.row : e \in {evicting} \ {None}} = {evicting.row}
      BY <3>1
    <3> QED
      BY <3>2 DEF PinOrder, PinsHaveOneOwner
  <2>4. evicting.row \notin {retained[k].row : k \in Kept}
    BY <2>1 DEF PinOrder, PinsHaveOneOwner
  <2>5. pinned_rows' = {retained[k].row : k \in Kept}
    BY <2>1, <2>3, <2>4
  <2>6. PinsHaveOneOwner'
    BY <2>1, <2>2, <2>5 DEF PinOrder, PinsHaveOneOwner
  <2> QED
    BY <2>1, <2>2, <2>6, <2>5, <2>3 DEF PinOrder
<1>11. CASE Reap
  BY <1>2, <1>11 DEF Reap, rowVars
<1>12. ASSUME NEW q \in Queues, Prologue(q) \/ Finish(q) \/ Fail(q) PROVE PinOrder'
  BY <1>2, <1>12 DEF Prologue, Finish, Fail, rowVars, cbVars
<1>13. CASE UNCHANGED tableVars
  BY <1>2, <1>13 DEF tableVars
<1> QED
  BY <1>1, <1>3, <1>4, <1>5, <1>6, <1>7, <1>9, <1>10, <1>11, <1>12, <1>13, <1>8 DEF Next, Client

(* However submits, replays, failures and evictions on other threads       *)
(* interleave, no pin is lost or leaked and none has two owners.           *)
THEOREM PinsAreOwned == Spec => []PinsHaveOneOwner
<1>1. Spec => [](TypeOK /\ PinOrder)
  BY TypeInit, TypeStep, PinInit, PinStep, PTL DEF Spec
<1>2. PinOrder => PinsHaveOneOwner
  BY DEF PinOrder
<1> QED
  BY <1>1, <1>2, PTL
-----------------------------------------------------------------------------
(* Staging rows *)

(* The submits on each queue are still there after one more joined q, or   *)
(* the oldest of q left.                                                   *)
LEMMA Pushed ==
  ASSUME TypeOK, NEW q \in Queues, NEW w \in Works, gpu' = [gpu EXCEPT ![q] = Append(@, w)]
  PROVE  /\ \A p \in Queues : gpu[p] \in Seq(Works) /\ (p # q => gpu'[p] = gpu[p])
         /\ Len(gpu'[q]) = Len(gpu[q]) + 1 /\ gpu'[q][Len(gpu[q]) + 1] = w
         /\ \A i \in 1..Len(gpu[q]) : gpu'[q][i] = gpu[q][i]
<1>1. \A p \in Queues : gpu[p] \in Seq(Works) /\ (p # q => gpu'[p] = gpu[p])
  BY DEF TypeOK
<1>2. gpu'[q] = Append(gpu[q], w)
  BY DEF TypeOK
<1> QED
  BY <1>1, <1>2

LEMMA Popped ==
  ASSUME TypeOK, NEW q \in Queues, gpu[q] # << >>, gpu' = [gpu EXCEPT ![q] = Tail(@)]
  PROVE  /\ \A p \in Queues : gpu[p] \in Seq(Works) /\ (p # q => gpu'[p] = gpu[p])
         /\ Len(gpu[q]) \in Nat \ {0} /\ Len(gpu'[q]) = Len(gpu[q]) - 1
         /\ Head(gpu[q]) = gpu[q][1]
         /\ \A i \in 1..Len(gpu'[q]) : i + 1 \in 1..Len(gpu[q]) /\ gpu'[q][i] = gpu[q][i + 1]
<1>1. \A p \in Queues : gpu[p] \in Seq(Works) /\ (p # q => gpu'[p] = gpu[p])
  BY DEF TypeOK
<1>2. gpu'[q] = Tail(gpu[q])
  BY DEF TypeOK
<1>3. gpu[q] \in Seq(Works)
  BY <1>1
<1>4. /\ Len(gpu[q]) \in Nat \ {0} /\ Len(Tail(gpu[q])) = Len(gpu[q]) - 1
      /\ Head(gpu[q]) = gpu[q][1]
  BY <1>3
<1>5. \A i \in 1..(Len(gpu[q]) - 1) : i + 1 \in 1..Len(gpu[q]) /\ Tail(gpu[q])[i] = gpu[q][i + 1]
  BY <1>3, <1>4
<1> QED
  BY <1>1, <1>2, <1>4, <1>5

(* Tickets and rows of the submits on the queues.                          *)
LEMMA WorkTypes ==
  ASSUME TypeOK
  PROVE  /\ \A q \in Queues : /\ Len(gpu[q]) \in Nat
                              /\ \A i \in 1..Len(gpu[q]) : /\ gpu[q][i].ticket \in 1..MaxTicket
                                                           /\ gpu[q][i].row \in RowIds
         /\ \A r \in RowIds : last_token_for_row[r] \in Nat
         /\ sem \in Nat /\ next \in Nat
<1>1. ASSUME NEW q \in Queues PROVE gpu[q] \in Seq(Works)
  BY DEF TypeOK
<1>2. \A r \in RowIds : last_token_for_row[r] \in Nat
  BY DEF TypeOK, ROW_IN_USE
<1>3. sem \in Nat /\ next \in Nat
  BY DEF TypeOK
<1>4. ASSUME NEW q \in Queues
      PROVE  /\ Len(gpu[q]) \in Nat
             /\ \A i \in 1..Len(gpu[q]) : gpu[q][i].ticket \in 1..MaxTicket /\ gpu[q][i].row \in RowIds
  <2>1. Len(gpu[q]) \in Nat /\ \A i \in 1..Len(gpu[q]) : gpu[q][i] \in Works
    BY <1>1
  <2> QED
    BY <2>1 DEF Works
<1> QED
  BY <1>2, <1>3, <1>4

(* What the invariant says of one submit, and of two submits.              *)
LEMMA WorkAt ==
  ASSUME TypeOK, WorkOrder, StagingIntact, NEW q \in Queues, NEW i \in 1..Len(gpu[q])
  PROVE  /\ gpu[q][i].ticket \in Nat /\ gpu[q][i].row \in RowIds
         /\ last_token_for_row[gpu[q][i].row] \in Nat
         /\ sem < gpu[q][i].ticket /\ gpu[q][i].ticket < next
         /\ gpu[q][i].ticket <= last_token_for_row[gpu[q][i].row]
         /\ staging[gpu[q][i].row] = gpu[q][i].cb
<1>1. gpu[q][i].ticket \in 1..MaxTicket /\ gpu[q][i].row \in RowIds
  BY WorkTypes
<1>2. last_token_for_row[gpu[q][i].row] \in Nat
  BY <1>1, WorkTypes
<1>3. /\ sem < gpu[q][i].ticket /\ gpu[q][i].ticket < next
      /\ gpu[q][i].ticket <= last_token_for_row[gpu[q][i].row]
  BY DEF WorkOrder
<1>4. staging[gpu[q][i].row] = gpu[q][i].cb
  BY DEF StagingIntact
<1> QED
  BY <1>1, <1>2, <1>3, <1>4

LEMMA WorkAscends ==
  ASSUME WorkOrder, NEW q \in Queues, NEW i \in 1..Len(gpu[q]), NEW j \in 1..Len(gpu[q]), i < j
  PROVE  gpu[q][i].ticket < gpu[q][j].ticket
  BY DEF WorkOrder

(* A submit that joins a queue takes a new ticket, and its row's token     *)
(* covers it.                                                              *)
LEMMA PushOrder ==
  ASSUME TypeOK, WorkOrder, StagingIntact,
         NEW row \in RowIds, NEW cb \in Buffers, NEW q \in Queues,
         next <= MaxTicket, next' = next + 1, staging[row] = cb, UNCHANGED <<sem, staging>>,
         gpu' = [gpu EXCEPT ![q] = Append(@, Work(row, cb))],
         last_token_for_row' = [last_token_for_row EXCEPT ![row] = next]
  PROVE  /\ WorkOrder'
         /\ \A p \in Queues : \A i \in 1..Len(gpu'[p]) : staging'[gpu'[p][i].row] = gpu'[p][i].cb
<1> DEFINE w == Work(row, cb)
<1>1. w \in Works /\ w.ticket = next /\ w.row = row /\ w.cb = cb
  <2>1. next \in 1..(MaxTicket + 1)
    BY DEF TypeOK
  <2> QED
    BY <2>1 DEF Work, Works
<1> HIDE DEF w
<1>2. /\ \A p \in Queues : gpu[p] \in Seq(Works) /\ (p # q => gpu'[p] = gpu[p])
      /\ Len(gpu'[q]) = Len(gpu[q]) + 1 /\ gpu'[q][Len(gpu[q]) + 1] = w
      /\ \A i \in 1..Len(gpu[q]) : gpu'[q][i] = gpu[q][i]
  BY <1>1, Pushed DEF w
<1>3. \A p \in Queues : \A i \in 1..Len(gpu'[p]) :
         \/ i \in 1..Len(gpu[p]) /\ gpu'[p][i] = gpu[p][i]
         \/ p = q /\ i = Len(gpu[q]) + 1 /\ gpu'[p][i] = w
  BY <1>2, WorkTypes
<1>4. \A r \in RowIds : last_token_for_row'[r] = IF r = row THEN next ELSE last_token_for_row[r]
  BY DEF TypeOK
<1>5. sem \in Nat /\ next \in Nat
  BY WorkTypes
<1>6. sem' < next'
  BY <1>5 DEF WorkOrder
<1>7. ASSUME NEW p \in Queues, NEW i \in 1..Len(gpu'[p])
      PROVE  /\ sem' < gpu'[p][i].ticket
             /\ gpu'[p][i].ticket < next'
             /\ gpu'[p][i].ticket <= last_token_for_row'[gpu'[p][i].row]
             /\ staging'[gpu'[p][i].row] = gpu'[p][i].cb
  <2>1. CASE i \in 1..Len(gpu[p]) /\ gpu'[p][i] = gpu[p][i]
    <3>1. /\ sem < gpu[p][i].ticket /\ gpu[p][i].ticket < next
          /\ gpu[p][i].ticket <= last_token_for_row[gpu[p][i].row]
          /\ staging[gpu[p][i].row] = gpu[p][i].cb
          /\ gpu[p][i].row \in RowIds /\ gpu[p][i].ticket \in Nat
      BY <2>1, WorkAt
    <3>2. next' = next + 1
      OBVIOUS
    <3>3. gpu[p][i].ticket < next' /\ gpu[p][i].ticket <= next
      BY ONLY <3>1, <1>5, <3>2
    <3>4. gpu[p][i].ticket <= last_token_for_row'[gpu[p][i].row]
      BY <3>1, <3>3, <1>4
    <3> QED
      BY <2>1, <3>1, <3>3, <3>4
  <2>2. CASE gpu'[p][i] = w
    <3>1. last_token_for_row'[w.row] = next /\ staging'[w.row] = w.cb
      BY <1>1, <1>4
    <3>2. sem' < next /\ next < next' /\ next <= next
      BY <1>5 DEF WorkOrder
    <3> QED
      BY <2>2, <1>1, <3>1, <3>2
  <2> QED
    BY <1>3, <2>1, <2>2
<1>8. ASSUME NEW p \in Queues, NEW i \in 1..Len(gpu'[p]), NEW j \in 1..Len(gpu'[p]), i < j
      PROVE  gpu'[p][i].ticket < gpu'[p][j].ticket
  <2>1. i \in 1..Len(gpu[p]) /\ gpu'[p][i] = gpu[p][i]
    BY <1>2, <1>3, <1>8, WorkTypes
  <2>2. CASE j \in 1..Len(gpu[p]) /\ gpu'[p][j] = gpu[p][j]
    BY <1>8, <2>1, <2>2 DEF WorkOrder
  <2>3. CASE gpu'[p][j] = w
    BY <1>1, <2>1, <2>3 DEF WorkOrder
  <2> QED
    BY <1>3, <2>2, <2>3
<1> QED
  BY <1>6, <1>7, <1>8 DEF WorkOrder

(* When the oldest submit of a queue leaves, finished or failed, the other *)
(* ones keep their order and their rows.                                   *)
LEMMA PopOrder ==
  ASSUME TypeOK, WorkOrder, StagingIntact, OneQueue, NEW q \in Queues, gpu[q] # << >>,
         gpu' = [gpu EXCEPT ![q] = Tail(@)], UNCHANGED <<next, staging, last_token_for_row>>,
         sem' = sem \/ sem' = Head(gpu[q]).ticket
  PROVE  /\ WorkOrder'
         /\ \A p \in Queues : \A i \in 1..Len(gpu'[p]) : staging'[gpu'[p][i].row] = gpu'[p][i].cb
<1>1. /\ Len(gpu[q]) \in Nat \ {0} /\ Len(gpu'[q]) = Len(gpu[q]) - 1
      /\ Head(gpu[q]) = gpu[q][1] /\ 1 \in 1..Len(gpu[q])
      /\ \A i \in 1..Len(gpu'[q]) : i + 1 \in 1..Len(gpu[q]) /\ gpu'[q][i] = gpu[q][i + 1]
  <2>1. /\ Len(gpu[q]) \in Nat \ {0} /\ Len(gpu'[q]) = Len(gpu[q]) - 1
        /\ Head(gpu[q]) = gpu[q][1]
        /\ \A i \in 1..Len(gpu'[q]) : i + 1 \in 1..Len(gpu[q]) /\ gpu'[q][i] = gpu[q][i + 1]
    BY Popped
  <2> QED
    BY <2>1
<1>2. sem' < next'
  BY <1>1, WorkTypes DEF WorkOrder
<1>3. ASSUME NEW p \in Queues, NEW i \in 1..Len(gpu'[p])
      PROVE  /\ p = q /\ i + 1 \in 1..Len(gpu[q]) /\ gpu'[p][i] = gpu[q][i + 1]
             /\ gpu[q][1].ticket < gpu[q][i + 1].ticket
  <2>1. p = q /\ i + 1 \in 1..Len(gpu[q]) /\ gpu'[p][i] = gpu[q][i + 1] /\ 1 < i + 1
    BY <1>1 DEF OneQueue
  <2> QED
    BY <1>1, <2>1 DEF WorkOrder
<1>4. ASSUME NEW p \in Queues, NEW i \in 1..Len(gpu'[p])
      PROVE  /\ sem' < gpu'[p][i].ticket
             /\ gpu'[p][i].ticket < next'
             /\ gpu'[p][i].ticket <= last_token_for_row'[gpu'[p][i].row]
             /\ staging'[gpu'[p][i].row] = gpu'[p][i].cb
  BY <1>1, <1>3 DEF WorkOrder, StagingIntact
<1>5. ASSUME NEW p \in Queues, NEW i \in 1..Len(gpu'[p]), NEW j \in 1..Len(gpu'[p]), i < j
      PROVE  gpu'[p][i].ticket < gpu'[p][j].ticket
  <2>1. i + 1 < j + 1
    BY <1>5
  <2>2. /\ i + 1 \in 1..Len(gpu[q]) /\ j + 1 \in 1..Len(gpu[q])
        /\ gpu'[p][i] = gpu[q][i + 1] /\ gpu'[p][j] = gpu[q][j + 1]
    BY <1>3
  <2>3. gpu[q][i + 1].ticket < gpu[q][j + 1].ticket
    BY <2>1, <2>2, WorkAscends
  <2> QED
    BY <2>2, <2>3
<1> QED
  BY <1>2, <1>4, <1>5 DEF WorkOrder

LEMMA StagingStep ==
  TypeOK /\ OneQueue /\ RowOrder /\ [Next]_tableVars => (StagingIntact /\ WorkOrder /\ ClientRowIsReady)'
<1> SUFFICES ASSUME TypeOK, OneQueue, RowOrder, [Next]_tableVars
             PROVE  (StagingIntact /\ WorkOrder /\ ClientRowIsReady)'
  OBVIOUS
<1> USE DEF RowOrder
<1>1. ASSUME UNCHANGED <<staging, gpu, sem, next, last_token_for_row>>,
             Kept' \subseteq Kept, \A k \in Kept' : retained'[k] = retained[k],
             client' = client \/ client'.step \in {"idle", "waiting"}
      PROVE  (StagingIntact /\ WorkOrder /\ ClientRowIsReady)'
  BY <1>1 DEF StagingIntact, WorkOrder, ClientRowIsReady
<1>2. ASSUME retained' = retained PROVE Kept' \subseteq Kept /\ \A k \in Kept' : retained'[k] = retained[k]
  BY <1>2 DEF Kept
<1>3. ASSUME NEW q \in Queues, NEW key \in Keys \cup {NoKey}, Reserve(q, key)
      PROVE  (StagingIntact /\ WorkOrder /\ ClientRowIsReady)'
  <2>1. Kept' \subseteq Kept /\ \A k \in Kept' : retained'[k] = retained[k]
    BY <1>3 DEF Reserve, Evicted, Kept
  <2>2. client'.step = "waiting" /\ UNCHANGED <<staging, gpu, sem, next, last_token_for_row>>
    BY <1>3 DEF Reserve, gpuVars
  <2> QED
    BY <1>1, <2>1, <2>2
<1>4. CASE Claim
  <2>1. /\ client.step = "waiting" /\ last_token_for_row[client.row] # ROW_IN_USE
        /\ last_token_for_row[client.row] <= sem
        /\ last_token_for_row' = [last_token_for_row EXCEPT ![client.row] = ROW_IN_USE]
        /\ staging' = [staging EXCEPT ![client.row] = client.cb]
        /\ client' = [client EXCEPT !.step = "recording"]
        /\ UNCHANGED <<gpu, sem, next, retained>>
    BY <1>4 DEF Claim, cbVars, gpuVars, TypeOK
  <2>2. client.row \in RowIds /\ client'.row = client.row /\ client'.cb = client.cb
    BY <2>1 DEF TypeOK
  <2>3. /\ staging'[client.row] = client.cb
        /\ \A r \in RowIds \ {client.row} : /\ staging'[r] = staging[r]
                                             /\ last_token_for_row'[r] = last_token_for_row[r]
    BY <2>1, <2>2 DEF TypeOK
  <2>4. ASSUME NEW q \in Queues, NEW i \in 1..Len(gpu[q])
        PROVE  gpu[q][i].row \in RowIds \ {client.row}
    <3>1. /\ gpu[q][i].ticket \in Nat /\ gpu[q][i].row \in RowIds
          /\ last_token_for_row[gpu[q][i].row] \in Nat
          /\ sem < gpu[q][i].ticket /\ gpu[q][i].ticket <= last_token_for_row[gpu[q][i].row]
      BY WorkAt
    <3>2. sem \in Nat
      BY WorkTypes
    <3>3. last_token_for_row[gpu[q][i].row] > sem
      BY ONLY <3>1, <3>2
    <3> QED
      BY <2>1, <3>1, <3>2, <3>3
  <2>5. WorkOrder'
    BY <2>1, <2>3, <2>4 DEF WorkOrder
  <2>6. ASSUME NEW k \in Kept PROVE retained[k].row \in RowIds \ {client.row}
    <3>1. retained[k].row \in RowIds
      BY KeptEntries DEF Entries
    <3> QED
      BY <2>1, <3>1 DEF PinOrder
  <2>7. StagingIntact'
    BY <2>1, <2>3, <2>4, <2>6 DEF StagingIntact, Kept
  <2>8. ClientRowIsReady'
    BY <2>1, <2>2, <2>3, <2>4 DEF ClientRowIsReady
  <2> QED
    BY <2>5, <2>7, <2>8
<1>5. CASE RowStillPinned
  BY <1>1, <1>2, <1>5 DEF RowStillPinned, Idle, rowVars, cbVars, gpuVars
<1>6. CASE Abort
  <2>1. /\ client.step = "recording" /\ client'.step = "idle"
        /\ last_token_for_row' = [last_token_for_row EXCEPT ![client.row] = 0]
        /\ UNCHANGED <<staging, gpu, sem, next, retained>>
    BY <1>6 DEF Abort, Idle, cbVars, gpuVars
  <2>2. ASSUME NEW q \in Queues, NEW i \in 1..Len(gpu[q])
        PROVE  last_token_for_row'[gpu[q][i].row] = last_token_for_row[gpu[q][i].row]
    BY <2>1, WorkTypes DEF ClientRowIsReady, TypeOK
  <2>3. \A q \in Queues : \A i \in 1..Len(gpu[q]) :
          gpu[q][i].ticket <= last_token_for_row'[gpu[q][i].row]
    BY <2>2 DEF WorkOrder
  <2>4. WorkOrder'
    BY <2>1, <2>3 DEF WorkOrder
  <2> QED
    BY <2>1, <2>4 DEF StagingIntact, ClientRowIsReady, Kept
<1>7. CASE Commit
  <2>1. /\ client.step = "recording" /\ client'.step = "idle" /\ next <= MaxTicket /\ next' = next + 1
        /\ last_token_for_row' = [last_token_for_row EXCEPT ![client.row] = next]
        /\ gpu' = [gpu EXCEPT ![client.queue] = Append(@, Work(client.row, client.cb))]
        /\ UNCHANGED <<staging, sem>>
    BY <1>7 DEF Commit, Idle
  <2>2. client.row \in RowIds /\ client.cb \in Buffers /\ client.queue \in Queues
    BY <2>1 DEF TypeOK
  <2>3. staging[client.row] = client.cb
    BY <2>1 DEF ClientRowIsReady
  <2>4. /\ WorkOrder'
        /\ \A p \in Queues : \A i \in 1..Len(gpu'[p]) : staging'[gpu'[p][i].row] = gpu'[p][i].cb
    BY <2>1, <2>2, <2>3, PushOrder
  <2>5. ASSUME NEW k \in Kept' PROVE staging'[retained'[k].row] = retained'[k].cb
    <3>1. CASE k \in Kept /\ retained'[k] = retained[k]
      BY <2>1, <3>1 DEF StagingIntact
    <3>2. CASE retained'[k].row = client.row /\ retained'[k].cb = client.cb
      BY <2>1, <2>3, <3>2
    <3>3. CASE client.key = NoKey
      <4>1. retained' = retained
        BY <1>7, <3>3 DEF Commit
      <4> QED
        BY <3>1, <4>1 DEF Kept
    <3>4. CASE client.key # NoKey
      <4>1. retained' = [retained EXCEPT ![client.key] =
                [cb |-> client.cb, row |-> client.row, queue |-> client.queue, last |-> next]]
        BY <1>7, <3>4 DEF Commit
      <4>2. k \in Keys /\ retained \in [Keys -> Entries \cup {None}]
        BY DEF Kept, TypeOK
      <4>3. CASE k = client.key
        BY <3>2, <4>1, <4>2, <4>3
      <4>4. CASE k # client.key
        BY <3>1, <4>1, <4>2, <4>4 DEF Kept
      <4> QED
        BY <4>3, <4>4
    <3> QED
      BY <3>3, <3>4
  <2> QED
    BY <2>1, <2>4, <2>5 DEF StagingIntact, ClientRowIsReady
<1>8. CASE Resubmit
  <2>1. /\ client.step = "replaying" /\ client'.step = "idle" /\ next <= MaxTicket /\ next' = next + 1
        /\ last_token_for_row' = [last_token_for_row EXCEPT ![client.row] = next]
        /\ gpu' = [gpu EXCEPT ![client.queue] = Append(@, Work(client.row, client.cb))]
        /\ retained' = LastTicketNow
        /\ UNCHANGED <<staging, sem>>
    BY <1>8 DEF Resubmit, Idle
  <2>2. client.row \in RowIds /\ client.cb \in Buffers /\ client.queue \in Queues
    BY <2>1 DEF TypeOK
  <2>3. staging[client.row] = client.cb
    BY <2>1 DEF ClientRowIsReady
  <2>4. /\ WorkOrder'
        /\ \A p \in Queues : \A i \in 1..Len(gpu'[p]) : staging'[gpu'[p][i].row] = gpu'[p][i].cb
    BY <2>1, <2>2, <2>3, PushOrder
  <2>5. ASSUME NEW k \in Kept' PROVE staging'[retained'[k].row] = retained'[k].cb
    <3>1. next \in 1..MaxTicket
      <4>1. next \in 1..(MaxTicket + 1)
        BY DEF TypeOK
      <4> QED
        BY <2>1, <4>1
    <3>2. k \in Kept /\ retained'[k].row = retained[k].row /\ retained'[k].cb = retained[k].cb
      BY <2>1, <3>1, LastTicket DEF Kept
    <3> QED
      BY <2>1, <3>2 DEF StagingIntact
  <2> QED
    BY <2>1, <2>4, <2>5 DEF StagingIntact, ClientRowIsReady
<1>9. ASSUME NEW k \in Keys, FindRetained(k) PROVE (StagingIntact /\ WorkOrder /\ ClientRowIsReady)'
  <2>1. /\ k \in Kept /\ client'.step = "replaying"
        /\ client'.row = retained[k].row /\ client'.cb = retained[k].cb
        /\ UNCHANGED <<staging, gpu, sem, next, last_token_for_row, retained>>
    BY <1>9 DEF FindRetained, rowVars, cbVars, gpuVars
  <2>2. staging[retained[k].row] = retained[k].cb
    BY <2>1 DEF StagingIntact
  <2>3. ClientRowIsReady'
    BY <2>1, <2>2 DEF ClientRowIsReady
  <2> QED
    BY <2>1, <2>3 DEF StagingIntact, WorkOrder, Kept
<1>10. ASSUME NEW k \in Keys, EvictBegin(k) PROVE (StagingIntact /\ WorkOrder /\ ClientRowIsReady)'
  <2>1. Kept' \subseteq Kept /\ \A l \in Kept' : retained'[l] = retained[l]
    BY <1>10 DEF EvictBegin, Kept, TypeOK
  <2> QED
    BY <1>1, <1>10, <2>1 DEF EvictBegin, rowVars, gpuVars
<1>11. CASE EvictEnd
  BY <1>1, <1>2, <1>11 DEF EvictEnd, gpuVars
<1>12. CASE Reap
  BY <1>1, <1>2, <1>12 DEF Reap, rowVars, gpuVars
<1>13. ASSUME NEW q \in Queues, Prologue(q) PROVE (StagingIntact /\ WorkOrder /\ ClientRowIsReady)'
  BY <1>1, <1>2, <1>13 DEF Prologue, rowVars, cbVars
<1>14. ASSUME NEW q \in Queues, Finish(q) \/ Fail(q)
       PROVE  (StagingIntact /\ WorkOrder /\ ClientRowIsReady)'
  <2>1. /\ gpu[q] # << >> /\ gpu' = [gpu EXCEPT ![q] = Tail(@)]
        /\ sem' = sem \/ sem' = Head(gpu[q]).ticket
        /\ UNCHANGED <<staging, last_token_for_row, next, retained, client>>
    BY <1>14 DEF Finish, Fail, SignalOutcomes, rowVars, cbVars
  <2>2. /\ WorkOrder'
        /\ \A p \in Queues : \A i \in 1..Len(gpu'[p]) : staging'[gpu'[p][i].row] = gpu'[p][i].cb
    BY <2>1, PopOrder
  <2>3. StagingIntact'
    BY <2>1, <2>2 DEF StagingIntact, Kept
  <2>4. ClientRowIsReady'
    <3>1. \A i \in 1..Len(gpu'[q]) : i + 1 \in 1..Len(gpu[q]) /\ gpu'[q][i] = gpu[q][i + 1]
      BY <2>1, Popped
    <3> QED
      BY <2>1, <3>1 DEF ClientRowIsReady, OneQueue
  <2> QED
    BY <2>2, <2>3, <2>4
<1>15. CASE UNCHANGED tableVars
  BY <1>1, <1>2, <1>15 DEF tableVars
<1> QED
  BY <1>3, <1>4, <1>5, <1>6, <1>7, <1>8, <1>10, <1>11, <1>12, <1>13, <1>14, <1>15, <1>9 DEF Next, Client

LEMMA DispatchStep ==
  TypeOK /\ OneQueue /\ RowOrder /\ [Next]_tableVars => (DispatchingHasWork /\ DispatchReadsItsRow)'
<1> SUFFICES ASSUME TypeOK, OneQueue, RowOrder, [Next]_tableVars
             PROVE  (DispatchingHasWork /\ DispatchReadsItsRow)'
  OBVIOUS
<1> USE DEF RowOrder
<1>1. ASSUME UNCHANGED <<gpu, dispatching, table, selector>>
      PROVE  (DispatchingHasWork /\ DispatchReadsItsRow)'
  BY <1>1 DEF DispatchingHasWork, DispatchReadsItsRow
<1>2. ASSUME NEW q \in Queues, NEW w, gpu' = [gpu EXCEPT ![q] = Append(@, w)], w \in Works,
             UNCHANGED <<dispatching, table, selector>>
      PROVE  (DispatchingHasWork /\ DispatchReadsItsRow)'
  <2>1. ASSUME NEW p \in Queues, dispatching[p]
        PROVE  gpu'[p] # << >> /\ Head(gpu'[p]) = Head(gpu[p])
    <3>1. gpu[p] \in Seq(Works) /\ gpu[p] # << >>
      BY <2>1 DEF TypeOK, DispatchingHasWork
    <3>2. gpu'[p] = gpu[p] \/ gpu'[p] = Append(gpu[p], w)
      BY <1>2 DEF TypeOK
    <3>3. Append(gpu[p], w) # << >> /\ Head(Append(gpu[p], w)) = Head(gpu[p])
      BY <1>2, <3>1
    <3> QED
      BY <3>1, <3>2, <3>3
  <2> QED
    BY <1>2, <2>1 DEF DispatchingHasWork, DispatchReadsItsRow
<1>3. ASSUME NEW row \in RowIds, NEW cb \in Buffers, next <= MaxTicket PROVE Work(row, cb) \in Works
  <2>1. next \in 1..MaxTicket
    BY <1>3 DEF TypeOK
  <2> QED
    BY <2>1 DEF Work, Works
<1>4. CASE Commit
  <2>1. /\ client.row \in RowIds /\ client.cb \in Buffers /\ client.queue \in Queues
        /\ next <= MaxTicket
    BY <1>4 DEF Commit, TypeOK
  <2> QED
    BY <1>2, <1>3, <1>4, <2>1 DEF Commit
<1>5. CASE Resubmit
  <2>1. /\ client.row \in RowIds /\ client.cb \in Buffers /\ client.queue \in Queues
        /\ next <= MaxTicket
    BY <1>5 DEF Resubmit, TypeOK
  <2> QED
    BY <1>2, <1>3, <1>5, <2>1 DEF Resubmit
<1>6. ASSUME NEW q \in Queues, Prologue(q) PROVE (DispatchingHasWork /\ DispatchReadsItsRow)'
  <2> DEFINE w == Head(gpu[q])
  <2>1. /\ gpu[q] # << >> /\ gpu' = gpu
        /\ table' = [table EXCEPT ![w.row] = staging[w.row]]
        /\ selector' = w.row
        /\ dispatching' = [dispatching EXCEPT ![q] = TRUE]
    BY <1>6 DEF Prologue
  <2>2. gpu[q] \in Seq(Works)
    BY DEF TypeOK
  <2>3. w = gpu[q][1] /\ 1 \in 1..Len(gpu[q])
    BY <2>1, <2>2
  <2>4. w.row \in RowIds /\ staging[w.row] = w.cb
    BY <2>3, WorkTypes DEF StagingIntact
  <2>5. table'[selector'] = w.cb
    BY <2>1, <2>4 DEF TypeOK
  <2> QED
    BY <2>1, <2>5 DEF DispatchingHasWork, DispatchReadsItsRow, OneQueue
<1>7. ASSUME NEW q \in Queues, Finish(q) \/ Fail(q) PROVE (DispatchingHasWork /\ DispatchReadsItsRow)'
  <2>1. ~dispatching'[q]
    BY <1>7 DEF Finish, Fail, TypeOK
  <2> QED
    BY <2>1 DEF DispatchingHasWork, DispatchReadsItsRow, OneQueue
<1>8. ASSUME NEW q \in Queues, NEW key \in Keys \cup {NoKey}, Reserve(q, key)
      PROVE  (DispatchingHasWork /\ DispatchReadsItsRow)'
  BY <1>1, <1>8 DEF Reserve, gpuVars
<1>9. CASE Claim \/ RowStillPinned \/ Abort
  BY <1>1, <1>9 DEF Claim, RowStillPinned, Abort, gpuVars
<1>10. ASSUME NEW k \in Keys, EvictBegin(k) \/ FindRetained(k)
       PROVE  (DispatchingHasWork /\ DispatchReadsItsRow)'
  BY <1>1, <1>10 DEF EvictBegin, FindRetained, gpuVars
<1>11. CASE EvictEnd \/ Reap
  BY <1>1, <1>11 DEF EvictEnd, Reap, gpuVars
<1>12. CASE UNCHANGED tableVars
  BY <1>1, <1>12 DEF tableVars
<1> QED
  BY <1>4, <1>5, <1>6, <1>7, <1>8, <1>9, <1>10, <1>11, <1>12 DEF Next, Client

LEMMA OneQueueInvariant == OneQueue => (Spec => [](TypeOK /\ RowOrder))
<1> SUFFICES ASSUME OneQueue PROVE Spec => [](TypeOK /\ RowOrder)
  OBVIOUS
<1>1. Init => RowOrder
  <2> SUFFICES ASSUME Init PROVE RowOrder
    OBVIOUS
  <2>1. /\ client.step = "idle" /\ sem < next /\ Kept = {}
        /\ \A q \in Queues : ~dispatching[q] /\ Len(gpu[q]) = 0
    BY DEF Init, Kept, Idle
  <2>2. WorkOrder
    BY <2>1 DEF WorkOrder
  <2>3. StagingIntact
    BY <2>1 DEF StagingIntact
  <2> QED
    BY <2>1, <2>2, <2>3, PinInit
       DEF RowOrder, ClientRowIsReady, DispatchingHasWork, DispatchReadsItsRow
<1>2. TypeOK /\ RowOrder /\ [Next]_tableVars => RowOrder'
  BY PinStep, StagingStep, DispatchStep DEF RowOrder
<1> QED
  BY <1>1, <1>2, TypeInit, TypeStep, PTL DEF Spec

(* On a context with one queue no submit overwrites staging memory that is *)
(* still to be copied.                                                     *)
THEOREM StagingStaysIntact == OneQueue => (Spec => []StagingIntact)
<1>1. RowOrder => StagingIntact
  BY DEF RowOrder
<1> QED
  BY <1>1, OneQueueInvariant, PTL

(* And every dispatch finds the indices it was recorded with.              *)
THEOREM DispatchesReadTheirRows == OneQueue => (Spec => []DispatchReadsItsRow)
<1>1. RowOrder => DispatchReadsItsRow
  BY DEF RowOrder
<1> QED
  BY <1>1, OneQueueInvariant, PTL
-----------------------------------------------------------------------------
(* Reuse of command buffers *)

(* Who holds a command buffer, entry by entry.                             *)
LEMMA Holders ==
  /\ \A cb : cb \in Retained <=> \E k \in Kept : retained[k].cb = cb
  /\ \A cb : cb \in Evicting <=> evicting # None /\ evicting.cb = cb
  /\ \A cb : cb \in Retiring <=> \E g \in retiring : g.cb = cb
  /\ \A cb, t : Held(cb, t) => cb \in Retained \cup Evicting \cup Retiring
  BY DEF Retained, Evicting, Retiring, Held

(* Recordings are numbered.                                                *)
LEMMA RecordedTypes ==
  ASSUME TypeOK
  PROVE  /\ Recorded \subseteq Buffers /\ submission_counter \in Nat
         /\ \A k \in Kept : retained[k].last \in Nat
         /\ evicting # None => evicting.last \in Nat
         /\ \A g \in retiring : g.until \in Nat
<1>1. \A k \in Kept : retained[k].cb \in Buffers /\ retained[k].last \in Nat
  BY KeptEntries DEF Entries
<1>2. evicting # None => evicting.cb \in Buffers /\ evicting.last \in Nat
  <2>1. evicting # None => evicting \in Entries
    BY DEF TypeOK
  <2> QED
    BY <2>1 DEF Entries
<1>3. \A g \in retiring : g.cb \in Buffers /\ g.until \in Nat
  BY SMTT(30) DEF TypeOK
<1>4. reusable \subseteq Buffers /\ submission_counter \in Nat
  BY DEF TypeOK
<1> QED
  BY <1>1, <1>2, <1>3, <1>4 DEF Recorded, Retained, Evicting, Retiring

(* Steps that neither record, retain nor retire anything.                  *)
LEMMA ReuseSame ==
  ASSUME TypeOK, ReuseOrder, UNCHANGED <<submission_counter, cbVars>>,
         \A q \in Queues : \A i \in 1..Len(gpu'[q]) : \E j \in 1..Len(gpu[q]) : gpu'[q][i] = gpu[q][j],
         \/ client'.step = "idle" \/ client' = client
         \/ client.step = "waiting" /\ client'.step = "recording" /\ client'.cb = client.cb
  PROVE  ReuseOrder'
<1>1. /\ Kept' = Kept /\ Retained' = Retained /\ Evicting' = Evicting /\ Retiring' = Retiring
      /\ Recorded' = Recorded
  BY DEF cbVars, Kept, Retained, Evicting, Retiring, Recorded
<1>2. WorkIsHeld'
  <2>1. \A cb, t : Held(cb, t) => Held(cb, t)'
    BY <1>1 DEF Held, cbVars
  <2> QED
    BY <2>1 DEF ReuseOrder, WorkIsHeld
<1>3. HeldOnce'
  BY <1>1 DEF ReuseOrder, HeldOnce, cbVars
<1>4. ClientBuffer'
  BY <1>1 DEF ReuseOrder, ClientBuffer, cbVars
<1> QED
  BY <1>2, <1>3, <1>4 DEF ReuseOrder

LEMMA ReuseReserve ==
  ASSUME TypeOK, ReuseOrder, NEW q \in Queues, NEW key \in Keys \cup {NoKey}, Reserve(q, key)
  PROVE  ReuseOrder'
<1> DEFINE K == {k \in Kept : k = key \/ retained[k].row = submission_counter % Rows}
<1>1. /\ client'.step = "waiting" /\ client'.cb = submission_counter + 1
      /\ submission_counter' = submission_counter + 1
      /\ retained' = [k \in Keys |-> IF k \in K THEN None ELSE retained[k]]
      /\ retiring' = retiring \cup {[cb |-> retained[k].cb, until |-> retained[k].last] : k \in K}
      /\ UNCHANGED <<reusable, evicting, gpu>>
  BY DEF Reserve, Evicted, gpuVars
<1>2. K \subseteq Kept
  OBVIOUS
<1> HIDE DEF K
<1>3. Kept' = Kept \ K /\ \A k \in Kept' : retained'[k] = retained[k]
  BY <1>1 DEF Kept
<1>4. /\ Retained' = {retained[k].cb : k \in Kept \ K} /\ Evicting' = Evicting
      /\ Retiring' = Retiring \cup {retained[k].cb : k \in K}
  <2>1. Retained' = {retained[k].cb : k \in Kept \ K} /\ Evicting' = Evicting
    BY <1>1, <1>3 DEF Retained, Evicting
  <2>2. \A k \in K : [cb |-> retained[k].cb, until |-> retained[k].last].cb = retained[k].cb
    OBVIOUS
  <2>3. Retiring' = Retiring \cup {retained[k].cb : k \in K}
    BY <1>1, <2>2 DEF Retiring
  <2> QED
    BY <2>1, <2>3
<1>5. Recorded' = Recorded
  BY <1>1, <1>2, <1>4 DEF Recorded, Retained
<1>6. ASSUME NEW cb, NEW t, Held(cb, t) PROVE Held(cb, t)'
  <2>1. CASE \E k \in Kept : retained[k].cb = cb /\ t <= retained[k].last
    <3>1. PICK k \in Kept : retained[k].cb = cb /\ t <= retained[k].last
      BY <2>1
    <3>2. CASE k \in K
      <4> DEFINE g == [cb |-> retained[k].cb, until |-> retained[k].last]
      <4>1. g \in retiring' /\ g.cb = cb /\ t <= g.until
        BY <1>1, <3>1, <3>2
      <4> QED
        BY <4>1 DEF Held
    <3>3. CASE k \notin K
      BY <1>3, <3>1, <3>3 DEF Held
    <3> QED
      BY <3>2, <3>3
  <2>2. CASE evicting # None /\ evicting.cb = cb /\ t <= evicting.last
    BY <1>1, <2>2 DEF Held
  <2>3. CASE \E g \in retiring : g.cb = cb /\ t <= g.until
    BY <1>1, <2>3 DEF Held
  <2> QED
    BY <1>6, <2>1, <2>2, <2>3 DEF Held
<1>7. WorkIsHeld'
  BY <1>1, <1>6 DEF ReuseOrder, WorkIsHeld
<1>8. HeldOnce'
  <2>1. \A k, l \in Kept : retained[k].cb = retained[l].cb => k = l
    BY DEF ReuseOrder, HeldOnce
  <2>2. Retained' \subseteq Retained /\ {retained[k].cb : k \in K} \subseteq Retained
    BY <1>2, <1>4 DEF Retained
  <2>3. Retained' \cap {retained[k].cb : k \in K} = {}
    BY <1>2, <1>4, <2>1
  <2>4. /\ Retained' \cap (Evicting' \cup Retiring' \cup reusable') = {}
        /\ Evicting' \cap (Retiring' \cup reusable') = {}
        /\ Retiring' \cap reusable' = {}
    BY <1>1, <1>4, <2>2, <2>3 DEF ReuseOrder, HeldOnce
  <2>5. \A k, l \in Kept' : retained'[k].cb = retained'[l].cb => k = l
    BY <1>3, <2>1
  <2>6. ASSUME NEW g \in retiring', NEW h \in retiring', g.cb = h.cb PROVE g = h
    <3>1. \A e \in retiring' : \/ e \in retiring /\ e.cb \notin Retained
                               \/ \E k \in K : e = [cb |-> retained[k].cb, until |-> retained[k].last]
      BY <1>1 DEF ReuseOrder, HeldOnce, Retiring
    <3>2. \A k \in K : k \in Kept /\ retained[k].cb \in Retained
      BY <1>2, <2>2
    <3>3. CASE g \in retiring /\ h \in retiring
      BY <2>6, <3>3 DEF ReuseOrder, HeldOnce
    <3>4. CASE g \notin retiring \/ h \notin retiring
      <4>1. PICK k \in K : \/ g = [cb |-> retained[k].cb, until |-> retained[k].last]
                           \/ h = [cb |-> retained[k].cb, until |-> retained[k].last]
        BY <3>1, <3>4
      <4>2. g.cb = retained[k].cb /\ h.cb = retained[k].cb
        BY <2>6, <4>1
      <4>3. g.cb \in Retained /\ h.cb \in Retained
        BY <3>2, <4>2
      <4>4. PICK l \in K : g = [cb |-> retained[l].cb, until |-> retained[l].last]
        BY <3>1, <4>3
      <4>5. PICK m \in K : h = [cb |-> retained[m].cb, until |-> retained[m].last]
        BY <3>1, <4>3
      <4>6. l = m
        BY <2>1, <2>6, <3>2, <4>4, <4>5
      <4> QED
        BY <4>4, <4>5, <4>6
    <3> QED
      BY <3>3, <3>4
  <2> QED
    BY <2>4, <2>5, <2>6 DEF HeldOnce
<1>9. ClientBuffer'
  BY <1>1, <1>5, RecordedTypes DEF ReuseOrder, ClientBuffer
<1> QED
  BY <1>7, <1>8, <1>9 DEF ReuseOrder

LEMMA ReuseCommit ==
  ASSUME TypeOK, PinOrder, ReuseOrder, Commit PROVE ReuseOrder'
<1>1. /\ client.step = "recording" /\ next <= MaxTicket /\ client'.step = "idle"
      /\ client.row \in RowIds /\ client.cb \in Buffers /\ client.queue \in Queues
      /\ gpu' = [gpu EXCEPT ![client.queue] = Append(@, Work(client.row, client.cb))]
      /\ UNCHANGED <<submission_counter, reusable, evicting>>
  BY DEF Commit, TypeOK, Idle
<1>2. client.cb \notin Recorded /\ client.cb <= submission_counter
  BY <1>1 DEF ReuseOrder, ClientBuffer
<1>3. next \in 1..MaxTicket /\ next \in Nat
  BY <1>1 DEF TypeOK
<1>4. /\ \A cb, t : Held(cb, t) => Held(cb, t)'
      /\ (\A cb, t : cb = client.cb /\ t = next => Held(cb, t)')
      /\ Evicting' = Evicting
      /\ \/ Retained' = Retained \cup {client.cb} /\ Retiring' = Retiring
         \/ Retained' = Retained /\ Retiring' = Retiring \cup {client.cb}
      /\ \A k, l \in Kept' : retained'[k].cb = retained'[l].cb => k = l
      /\ \A g, h \in retiring' : g.cb = h.cb => g = h
  <2>1. CASE client.key = NoKey
    <3> DEFINE e == [cb |-> client.cb, until |-> next]
    <3>1. retiring' = retiring \cup {e} /\ retained' = retained /\ Kept' = Kept
      BY <2>1 DEF Commit, Kept
    <3>2. Retiring' = Retiring \cup {client.cb} /\ Retained' = Retained /\ Evicting' = Evicting
      <4>1. e.cb = client.cb
        OBVIOUS
      <4> HIDE DEF e
      <4>2. Retiring' = Retiring \cup {client.cb}
        BY <3>1, <4>1 DEF Retiring
      <4> QED
        BY <1>1, <3>1, <4>2 DEF Retained, Evicting
    <3>3. \A g \in retiring : g.cb # client.cb
      BY <1>2 DEF Recorded, Retiring
    <3>4. \A g, h \in retiring' : g.cb = h.cb => g = h
      BY <3>1, <3>3 DEF ReuseOrder, HeldOnce
    <3>5. \A cb, t : cb = client.cb /\ t = next => Held(cb, t)'
      <4>1. e \in retiring' /\ e.cb = client.cb /\ next <= e.until
        BY <1>3, <3>1
      <4> QED
        BY <4>1 DEF Held
    <3>6. \A cb, t : Held(cb, t) => Held(cb, t)'
      BY <1>1, <3>1 DEF Held
    <3> QED
      BY <3>1, <3>2, <3>4, <3>5, <3>6 DEF ReuseOrder, HeldOnce
  <2>2. CASE client.key # NoKey
    <3> DEFINE e == [cb |-> client.cb, row |-> client.row, queue |-> client.queue, last |-> next]
    <3>1. /\ retained' = [retained EXCEPT ![client.key] = e] /\ retiring' = retiring
          /\ client.key \in Keys
      BY <2>2 DEF Commit, TypeOK
    <3>2. e \in Entries /\ e.cb = client.cb /\ e.last = next
      BY <1>1, <1>3 DEF Entries
    <3>3. client.key \notin Kept
      BY <1>1 DEF PinOrder
    <3> HIDE DEF e
    <3>4. /\ Kept' = Kept \cup {client.key} /\ retained'[client.key] = e
          /\ \A k \in Kept : retained'[k] = retained[k]
      BY <3>1, <3>2, <3>3 DEF Kept, TypeOK
    <3>5. Retained' = Retained \cup {client.cb} /\ Retiring' = Retiring /\ Evicting' = Evicting
      BY <1>1, <3>1, <3>2, <3>4 DEF Retained, Retiring, Evicting
    <3>6. \A k \in Kept : retained[k].cb # client.cb
      BY <1>2 DEF Recorded, Retained
    <3>7. \A k, l \in Kept' : retained'[k].cb = retained'[l].cb => k = l
      BY <3>2, <3>4, <3>6 DEF ReuseOrder, HeldOnce
    <3>8. \A cb, t : cb = client.cb /\ t = next => Held(cb, t)'
      BY <1>3, <3>2, <3>4 DEF Held
    <3>9. \A cb, t : Held(cb, t) => Held(cb, t)'
      BY <1>1, <3>1, <3>4 DEF Held
    <3> QED
      BY <3>1, <3>5, <3>7, <3>8, <3>9 DEF ReuseOrder, HeldOnce
  <2> QED
    BY <2>1, <2>2
<1>5. WorkIsHeld'
  <2> DEFINE w == Work(client.row, client.cb)
  <2>1. w \in Works /\ w.cb = client.cb /\ w.ticket = next
    BY <1>1, <1>3 DEF Work, Works
  <2> HIDE DEF w
  <2>2. ASSUME NEW q \in Queues, NEW i \in 1..Len(gpu'[q])
        PROVE  gpu'[q][i] = w \/ \E j \in 1..Len(gpu[q]) : gpu'[q][i] = gpu[q][j]
    <3>1. CASE q # client.queue
      BY <1>1, <2>1, <3>1, Pushed DEF w
    <3>2. CASE q = client.queue
      BY <1>1, <2>1, <3>2, Pushed, WorkTypes DEF w
    <3> QED
      BY <3>1, <3>2
  <2> QED
    BY <1>4, <2>1, <2>2 DEF ReuseOrder, WorkIsHeld
<1>6. HeldOnce'
  <2>1. /\ Retained' \cap (Evicting' \cup Retiring' \cup reusable') = {}
        /\ Evicting' \cap (Retiring' \cup reusable') = {}
        /\ Retiring' \cap reusable' = {}
    BY <1>1, <1>2, <1>4 DEF ReuseOrder, HeldOnce, Recorded
  <2> QED
    BY <1>4, <2>1 DEF HeldOnce
<1>7. ClientBuffer'
  <2>1. Recorded' = Recorded \cup {client.cb}
    BY <1>1, <1>4 DEF Recorded
  <2> QED
    BY <1>1, <1>2, <2>1 DEF ReuseOrder, ClientBuffer
<1> QED
  BY <1>5, <1>6, <1>7 DEF ReuseOrder

LEMMA ReuseResubmit ==
  ASSUME TypeOK, StagingIntact, WorkOrder, ReuseOrder, Resubmit PROVE ReuseOrder'
<1>1. /\ client.step = "replaying" /\ next <= MaxTicket /\ client'.step = "idle"
      /\ client.row \in RowIds /\ client.cb \in Buffers /\ client.queue \in Queues
      /\ gpu' = [gpu EXCEPT ![client.queue] = Append(@, Work(client.row, client.cb))]
      /\ retained' = LastTicketNow
      /\ UNCHANGED <<submission_counter, retiring, reusable, evicting>>
  BY DEF Resubmit, TypeOK, Idle
<1>2. client.key \in Kept /\ retained[client.key].cb = client.cb
  BY <1>1 DEF ReuseOrder, ClientBuffer
<1>3. next \in 1..MaxTicket /\ next \in Nat
  BY <1>1 DEF TypeOK
<1>4. Kept' = Kept /\ \A k \in Kept : retained'[k].cb = retained[k].cb
  BY <1>1, <1>3, LastTicket, KeptEntries DEF Kept
<1>5. \A k \in Kept : retained'[k].last = IF retained[k].cb = client.cb THEN next ELSE retained[k].last
  <2>1. \A k \in Kept : /\ k \in Keys /\ retained[k] \in Entries
                        /\ [retained[k] EXCEPT !.last = next].last = next
    BY KeptEntries DEF Entries
  <2> QED
    BY <1>1, <2>1 DEF LastTicketNow
<1>6. /\ Retained' = Retained /\ Evicting' = Evicting /\ Retiring' = Retiring
      /\ Recorded' = Recorded
  BY <1>1, <1>4 DEF Retained, Evicting, Retiring, Recorded
<1>7. ASSUME NEW cb, NEW t \in Nat, t < next, Held(cb, t) PROVE Held(cb, t)'
  <2>1. CASE \E k \in Kept : retained[k].cb = cb /\ t <= retained[k].last
    <3>1. PICK k \in Kept : retained[k].cb = cb /\ t <= retained[k].last
      BY <2>1
    <3>2. k \in Kept' /\ retained'[k].cb = cb /\ t <= retained'[k].last
      BY <1>3, <1>4, <1>5, <1>7, <3>1
    <3> QED
      BY <3>2 DEF Held
  <2>2. CASE ~\E k \in Kept : retained[k].cb = cb /\ t <= retained[k].last
    BY <1>1, <1>7, <2>2 DEF Held
  <2> QED
    BY <2>1, <2>2
<1>8. \A cb, t : cb = client.cb /\ t = next => Held(cb, t)'
  BY <1>2, <1>3, <1>4, <1>5 DEF Held
<1>9. WorkIsHeld'
  <2> DEFINE w == Work(client.row, client.cb)
  <2>1. w \in Works /\ w.cb = client.cb /\ w.ticket = next
    BY <1>1, <1>3 DEF Work, Works
  <2> HIDE DEF w
  <2>2. ASSUME NEW q \in Queues, NEW i \in 1..Len(gpu'[q])
        PROVE  gpu'[q][i] = w \/ \E j \in 1..Len(gpu[q]) : gpu'[q][i] = gpu[q][j]
    <3>1. CASE q # client.queue
      BY <1>1, <2>1, <3>1, Pushed DEF w
    <3>2. CASE q = client.queue
      BY <1>1, <2>1, <3>2, Pushed, WorkTypes DEF w
    <3> QED
      BY <3>1, <3>2
  <2>3. ASSUME NEW q \in Queues, NEW j \in 1..Len(gpu[q]), NEW cb, NEW t,
               cb = gpu[q][j].cb, t = gpu[q][j].ticket
        PROVE  Held(cb, t)'
    <3>1. gpu[q][j].ticket \in Nat /\ gpu[q][j].ticket < next
      BY WorkAt
    <3>2. Held(gpu[q][j].cb, gpu[q][j].ticket)
      BY DEF ReuseOrder, WorkIsHeld
    <3> QED
      BY <1>7, <2>3, <3>1, <3>2
  <2> QED
    BY <1>8, <2>1, <2>2, <2>3 DEF WorkIsHeld
<1>10. HeldOnce'
  BY <1>1, <1>4, <1>6 DEF ReuseOrder, HeldOnce
<1>11. ClientBuffer'
  BY <1>1, <1>6 DEF ReuseOrder, ClientBuffer
<1> QED
  BY <1>9, <1>10, <1>11 DEF ReuseOrder

LEMMA ReuseEvictBegin ==
  ASSUME TypeOK, ReuseOrder, ~BindingsDropped, NEW k \in Keys, EvictBegin(k) PROVE ReuseOrder'
<1>1. /\ evicting = None /\ k \in Kept /\ evicting' = retained[k]
      /\ retained' = [retained EXCEPT ![k] = None]
      /\ client.step = "replaying" => client.key # k
      /\ UNCHANGED <<submission_counter, retiring, reusable, client, gpu>>
  BY DEF EvictBegin, rowVars, gpuVars
<1>2. retained[k] \in Entries /\ evicting' # None
  BY <1>1, KeptEntries
<1>3. Kept' = Kept \ {k} /\ \A l \in Kept' : retained'[l] = retained[l]
  BY <1>1 DEF Kept, TypeOK
<1>4. /\ Evicting' = {retained[k].cb} /\ Evicting = {} /\ Retiring' = Retiring
      /\ Retained' = Retained \ {retained[k].cb} /\ retained[k].cb \in Retained
  <2>1. \A l \in Kept : retained[l].cb = retained[k].cb => l = k
    BY <1>1 DEF ReuseOrder, HeldOnce
  <2>2. Retained' = Retained \ {retained[k].cb} /\ retained[k].cb \in Retained
    BY <1>1, <1>3, <2>1 DEF Retained
  <2> QED
    BY <1>1, <1>2, <2>2 DEF Evicting, Retiring
<1>5. Recorded' = Recorded
  BY <1>1, <1>4 DEF Recorded
<1>6. \A cb, t : Held(cb, t) => Held(cb, t)'
  BY <1>1, <1>2, <1>3 DEF Held
<1>7. WorkIsHeld'
  BY <1>1, <1>6 DEF ReuseOrder, WorkIsHeld
<1>8. HeldOnce'
  BY <1>1, <1>3, <1>4 DEF ReuseOrder, HeldOnce
<1>9. ClientBuffer'
  BY <1>1, <1>3, <1>5 DEF ReuseOrder, ClientBuffer
<1> QED
  BY <1>7, <1>8, <1>9 DEF ReuseOrder

LEMMA ReuseEvictEnd ==
  ASSUME TypeOK, ReuseOrder, EvictEnd PROVE ReuseOrder'
<1> DEFINE e == [cb |-> evicting.cb, until |-> evicting.last]
<1>1. /\ evicting # None /\ evicting' = None /\ retiring' = retiring \cup {e}
      /\ UNCHANGED <<submission_counter, retained, reusable, client, gpu>>
  BY DEF EvictEnd, gpuVars
<1>2. /\ Kept' = Kept /\ Retained' = Retained /\ Evicting = {evicting.cb} /\ Evicting' = {}
      /\ Retiring' = Retiring \cup {evicting.cb}
  <2>1. e.cb = evicting.cb
    OBVIOUS
  <2> HIDE DEF e
  <2>2. Retiring' = Retiring \cup {evicting.cb}
    BY <1>1, <2>1 DEF Retiring
  <2> QED
    BY <1>1, <2>2 DEF Kept, Retained, Evicting
<1>3. Recorded' = Recorded
  BY <1>1, <1>2 DEF Recorded
<1>4. \A cb, t : Held(cb, t) => Held(cb, t)'
  <2>1. e \in retiring' /\ e.cb = evicting.cb /\ e.until = evicting.last
    BY <1>1
  <2> QED
    BY <1>1, <1>2, <2>1 DEF Held
<1>5. WorkIsHeld'
  BY <1>1, <1>4 DEF ReuseOrder, WorkIsHeld
<1>6. HeldOnce'
  <2>1. \A g \in retiring : g.cb # evicting.cb
    BY <1>2 DEF ReuseOrder, HeldOnce, Retiring
  <2>2. \A g, h \in retiring' : g.cb = h.cb => g = h
    BY <1>1, <2>1 DEF ReuseOrder, HeldOnce
  <2>3. /\ Retained' \cap (Evicting' \cup Retiring' \cup reusable') = {}
        /\ Evicting' \cap (Retiring' \cup reusable') = {}
        /\ Retiring' \cap reusable' = {}
    BY <1>1, <1>2 DEF ReuseOrder, HeldOnce
  <2> QED
    BY <1>1, <1>2, <2>2, <2>3 DEF ReuseOrder, HeldOnce
<1>7. ClientBuffer'
  BY <1>1, <1>2, <1>3 DEF ReuseOrder, ClientBuffer
<1> QED
  BY <1>5, <1>6, <1>7 DEF ReuseOrder

LEMMA ReuseReap ==
  ASSUME TypeOK, StagingIntact, WorkOrder, ReuseOrder, Reap PROVE ReuseOrder'
<1>1. /\ retiring' = {g \in retiring : g.until > sem}
      /\ reusable' = reusable \cup {g.cb : g \in retiring \ retiring'}
      /\ UNCHANGED <<submission_counter, retained, evicting, client, gpu, sem>>
  BY DEF Reap, rowVars, gpuVars
<1>2. Kept' = Kept /\ Retained' = Retained /\ Evicting' = Evicting
  BY <1>1 DEF Kept, Retained, Evicting
<1>3. retiring' \subseteq retiring
  BY <1>1
<1>4. /\ Retiring' \subseteq Retiring /\ {g.cb : g \in retiring \ retiring'} \subseteq Retiring
      /\ Retiring' \cap {g.cb : g \in retiring \ retiring'} = {}
      /\ Retiring' \cup {g.cb : g \in retiring \ retiring'} = Retiring
  BY <1>3 DEF ReuseOrder, HeldOnce, Retiring
<1>5. Recorded' = Recorded
  BY <1>1, <1>2, <1>4 DEF Recorded
<1>6. ASSUME NEW cb, NEW t \in Nat, sem < t, Held(cb, t) PROVE Held(cb, t)'
  <2>1. CASE \E g \in retiring : g.cb = cb /\ t <= g.until
    <3>1. PICK g \in retiring : g.cb = cb /\ t <= g.until
      BY <2>1
    <3>2. g.until > sem
      BY <1>6, <3>1, RecordedTypes, WorkTypes
    <3> QED
      BY <1>1, <3>1, <3>2 DEF Held
  <2>2. CASE ~\E g \in retiring : g.cb = cb /\ t <= g.until
    BY <1>1, <1>2, <1>6, <2>2 DEF Held
  <2> QED
    BY <2>1, <2>2
<1>7. WorkIsHeld'
  <2>1. ASSUME NEW q \in Queues, NEW i \in 1..Len(gpu[q]), NEW cb, NEW t,
               cb = gpu[q][i].cb, t = gpu[q][i].ticket
        PROVE  Held(cb, t)'
    <3>1. gpu[q][i].ticket \in Nat /\ sem < gpu[q][i].ticket
      BY WorkAt
    <3>2. Held(gpu[q][i].cb, gpu[q][i].ticket)
      BY DEF ReuseOrder, WorkIsHeld
    <3> QED
      BY <1>6, <2>1, <3>1, <3>2
  <2> QED
    BY <1>1, <2>1 DEF WorkIsHeld
<1>8. HeldOnce'
  <2>1. /\ Retained' \cap (Evicting' \cup Retiring' \cup reusable') = {}
        /\ Evicting' \cap (Retiring' \cup reusable') = {}
        /\ Retiring' \cap reusable' = {}
    BY <1>1, <1>2, <1>4 DEF ReuseOrder, HeldOnce
  <2> QED
    BY <1>1, <1>2, <1>3, <2>1 DEF ReuseOrder, HeldOnce
<1>9. ClientBuffer'
  BY <1>1, <1>2, <1>5 DEF ReuseOrder, ClientBuffer
<1> QED
  BY <1>7, <1>8, <1>9 DEF ReuseOrder

LEMMA ReuseStep ==
  TypeOK /\ RowOrder /\ ~BindingsDropped /\ ReuseOrder /\ [Next]_tableVars => ReuseOrder'
<1> SUFFICES ASSUME TypeOK, RowOrder, ~BindingsDropped, ReuseOrder, [Next]_tableVars
             PROVE  ReuseOrder'
  OBVIOUS
<1>1. PinOrder /\ StagingIntact /\ WorkOrder
  BY DEF RowOrder
<1>2. ASSUME gpu' = gpu
      PROVE  \A q \in Queues : \A i \in 1..Len(gpu'[q]) : \E j \in 1..Len(gpu[q]) : gpu'[q][i] = gpu[q][j]
  BY <1>2
<1>3. CASE Claim
  BY <1>2, <1>3, ReuseSame DEF Claim, TypeOK, gpuVars
<1>4. CASE RowStillPinned \/ Abort
  BY <1>2, <1>4, ReuseSame DEF RowStillPinned, Abort, Idle, rowVars, gpuVars
<1>5. ASSUME NEW k \in Keys, FindRetained(k) PROVE ReuseOrder'
  <2>1. /\ k \in Kept /\ client'.step = "replaying" /\ client'.cb = retained[k].cb /\ client'.key = k
        /\ UNCHANGED <<submission_counter, retained, retiring, reusable, evicting, gpu>>
    BY <1>5 DEF FindRetained, rowVars, cbVars, gpuVars
  <2>2. /\ Kept' = Kept /\ Retained' = Retained /\ Evicting' = Evicting /\ Retiring' = Retiring
        /\ Recorded' = Recorded
    BY <2>1 DEF Kept, Retained, Evicting, Retiring, Recorded
  <2>3. \A cb, t : Held(cb, t) => Held(cb, t)'
    BY <2>1, <2>2 DEF Held
  <2>4. WorkIsHeld' /\ HeldOnce'
    BY <2>1, <2>2, <2>3 DEF ReuseOrder, WorkIsHeld, HeldOnce
  <2>5. ClientBuffer'
    BY <2>1, <2>2 DEF ReuseOrder, ClientBuffer
  <2> QED
    BY <2>4, <2>5 DEF ReuseOrder
<1>6. ASSUME NEW q \in Queues, Prologue(q) PROVE ReuseOrder'
  BY <1>2, <1>6, ReuseSame DEF Prologue, rowVars
<1>7. ASSUME NEW q \in Queues, Finish(q) \/ Fail(q) PROVE ReuseOrder'
  <2>1. /\ gpu[q] # << >> /\ gpu' = [gpu EXCEPT ![q] = Tail(@)]
        /\ UNCHANGED <<submission_counter, cbVars, client>>
    BY <1>7 DEF Finish, Fail, rowVars
  <2>2. \A p \in Queues : \A i \in 1..Len(gpu'[p]) : \E j \in 1..Len(gpu[p]) : gpu'[p][i] = gpu[p][j]
    BY <2>1, Popped
  <2> QED
    BY <2>1, <2>2, ReuseSame
<1>8. CASE UNCHANGED tableVars
  BY <1>2, <1>8, ReuseSame DEF tableVars, cbVars
<1> QED
  BY <1>1, <1>3, <1>4, <1>5, <1>6, <1>7, <1>8, ReuseReserve, ReuseCommit, ReuseResubmit,
     ReuseEvictBegin, ReuseEvictEnd, ReuseReap DEF Next, Client

(* A command buffer is recorded over only when no submit of it is under    *)
(* way and nothing retains it, however often it was replayed, on a context *)
(* with one queue whose schemes keep their bindings while being submitted. *)
THEOREM ReusedBuffersAreIdle == OneQueue /\ ~BindingsDropped => (Spec => []ReusableIsIdle)
<1> SUFFICES ASSUME OneQueue, ~BindingsDropped PROVE Spec => []ReusableIsIdle
  OBVIOUS
<1>1. Init => ReuseOrder
  <2> SUFFICES ASSUME Init PROVE ReuseOrder
    OBVIOUS
  <2>1. /\ client.step = "idle" /\ Kept = {} /\ evicting = None /\ retiring = {} /\ reusable = {}
        /\ \A q \in Queues : Len(gpu[q]) = 0
    BY DEF Init, Kept, Idle
  <2>2. Retained = {} /\ Evicting = {} /\ Retiring = {} /\ Recorded = {}
    BY <2>1 DEF Retained, Evicting, Retiring, Recorded
  <2> QED
    BY <2>1, <2>2 DEF ReuseOrder, WorkIsHeld, HeldOnce, ClientBuffer
<1>2. TypeOK /\ RowOrder /\ ReuseOrder /\ [Next]_tableVars => ReuseOrder'
  BY ReuseStep
<1>3. ReuseOrder => ReusableIsIdle
  <2> SUFFICES ASSUME ReuseOrder PROVE ReusableIsIdle
    OBVIOUS
  <2>1. \A cb, t : Held(cb, t) => cb \notin reusable
    BY Holders DEF ReuseOrder, HeldOnce
  <2>2. \A k \in Kept : retained[k].cb \notin reusable
    BY Holders DEF ReuseOrder, HeldOnce
  <2> QED
    BY <2>1, <2>2 DEF ReuseOrder, WorkIsHeld, ReusableIsIdle
<1>4. Spec => [](TypeOK /\ RowOrder)
  BY OneQueueInvariant
<1> QED
  BY <1>1, <1>2, <1>3, <1>4, PTL DEF Spec
=============================================================================
