-------------------------- MODULE SettlementProofs --------------------------
(***************************************************************************)
(* Proofs about Settlement, for any threads, contexts, submits and stamps: *)
(* the types, a settle that reports Ready, the pool's reuse of a resource, *)
(* and writes kept away from live host views.                              *)
(***************************************************************************)
EXTENDS Settlement, FiniteSetTheorems, TLAPS

-----------------------------------------------------------------------------
(* What a call's step says of the call.                                    *)
Waiting   == {"block", "lock", "recheck", "sleep", "asleep", "woken", "fold"}
Resolving == {"resolve", "unpark", "notify"}

ShapeOf(t, r) ==
  /\ r.op = "none" <=> r.step = "idle"
  /\ r.op = "submit" =>
       /\ r.kind \in Kinds[t] /\ r.ctx \in Contexts /\ r.deed \in Deeds
       /\ \/ r.step \in {"gate", "claims"} \cup Waiting /\ r.kind \in Writing /\ r.tv = 0
          \/ r.step = "submit" /\ r.tv = 0
          \/ r.step = "stamp" /\ r.tv > 0
          \/ r.step = "push" /\ r.kind \in Presenting /\ r.tv > 0
          \/ r.step \in Resolving /\ r.kind \in Presenting /\ r.tv > 0 /\ r.promise \in Promises
  /\ r.op \in {"settle", "drop"} =>
       /\ r.step \in {"settle", "measure", "await", "settled"} \cup Waiting
       /\ r.deed \in Deeds
  /\ r.op = "view" =>
       /\ r.step \in {"viewwait", "viewepochs", "viewclaim", "panicked"}
       /\ t \in Hosts /\ r.ctx \in Contexts /\ r.deed \in Deeds

Shapes == \A t \in Threads : ShapeOf(t, thread[t])

(* Only those who sleep on a promise are woken for it.                     *)
Sleepers ==
  \A p \in Promises : \A t \in waiters[p] : At(t, "asleep") /\ thread[t].promise = p

(* A call uses the current stamp of a resource that is held, on contexts   *)
(* that are there; the one that drops it has it for itself.                *)
Leased ==
  \A t \in Threads : thread[t].op # "none" =>
    /\ bin = "held" /\ thread[t].deed = deed
    /\ thread[t].op \in {"submit", "view"} => thread[t].ctx \in live
    /\ thread[t].op = "view" => view[t] = 0
    /\ thread[t].op = "drop" =>
         deed < MaxDeeds /\ \A u \in Threads \ {t} : thread[u].op = "none"

(* The submits of a context complete in the order of their tickets.        *)
Queues ==
  /\ \A c \in Contexts : \A i \in 1..Len(gpu[c]) :
       /\ progress[c] < gpu[c][i].ticket /\ gpu[c][i].ticket < next
       /\ \A j \in 1..Len(gpu[c]) : i < j => gpu[c][i].ticket < gpu[c][j].ticket
  /\ \A c \in Contexts : progress[c] < next
  /\ \A c \in Contexts \ live : gpu[c] = << >>

(* A submit in flight is on its stamp, or its call is about to put it      *)
(* there.                                                                  *)
CoveredBy(s, c, w) ==
  /\ w.ticket <= s.write[c] \/ w.ticket <= s.reads[c]
  /\ w.writes => w.ticket <= s.write[c]
Stamping(t, c, w) ==
  /\ At(t, "stamp") /\ thread[t].ctx = c /\ thread[t].tv = w.ticket /\ thread[t].deed = w.deed
  /\ w.writes <=> thread[t].kind \in Writing
Recording ==
  \A c \in Contexts : \A i \in 1..Len(gpu[c]) :
    \/ CoveredBy(stamp[gpu[c][i].deed], c, gpu[c][i])
    \/ \E t \in Threads : Stamping(t, c, gpu[c][i])

(* What the GPU still has to do for the resource, held or in a bin.        *)
Binned ==
  \A c \in Contexts : \A i \in 1..Len(gpu[c]) :
    /\ bin = "held"    => gpu[c][i].deed = deed
    /\ bin = "pending" => gpu[c][i].ticket <= readyAfter[c]
    /\ bin # "ready"

(* A settle waits for what its stamp covers.                               *)
Awaiting ==
  \A t \in Threads : Settling(t) =>
    \A c \in Contexts : \A i \in 1..Len(gpu[c]) : gpu[c][i].ticket \in thread[t].owed =>
      /\ thread[t].step # "settled"
      /\ \/ gpu[c][i].ticket <= stamp[thread[t].deed].write[c]
         \/ gpu[c][i].ticket <= stamp[thread[t].deed].reads[c]
Owed == \A t \in Threads : Settling(t) => \A k \in thread[t].owed : k < next

(* A stamp counts its live views; the bounds leave room for what was       *)
(* begun.                                                                  *)
ViewsOf(d) == {t \in Threads : view[t] = d}
Gated      == {t \in Threads : AtGate(t)}
Owers      == {t \in Threads : Owing(t)}
Counted ==
  /\ \A d \in Deeds : stamp[d].claims = Cardinality(ViewsOf(d))
  /\ next + Cardinality(Gated) <= MaxTicket + 1
  /\ promises + Cardinality(Owers) <= MaxPromises

(* A host view and the writes of one thread keep clear of each other.      *)
OneWriter ==
  /\ ~ViewsOutlive
  /\ \A t \in Hosts, u \in Threads : Kinds[u] \cap Writing # {} => t = u

ViewsCurrent ==
  /\ \A t \in Threads : view[t] # 0 => bin = "held" /\ view[t] = deed /\ t \in Hosts
  /\ \A t \in Threads : thread[t].op = "drop" => \A u \in Threads : view[u] = 0
WritesGated ==
  \A t \in Threads : At(t, "submit") /\ thread[t].kind \in Writing =>
    \A u \in Threads : view[u] = 0
ViewsWait ==
  \A t \in Threads : \A c \in Contexts : \A i \in 1..Len(gpu[c]) : gpu[c][i].writes =>
    /\ At(t, "viewepochs") => gpu[c][i].ticket <= thread[t].epochs[c]
    /\ ~At(t, "viewclaim")
    /\ view[t] = 0
ViewOrder == ViewsCurrent /\ WritesGated /\ ViewsWait

-----------------------------------------------------------------------------
(* The smallest of some natural numbers is one of them: the intervals that *)
(* end at them are well-founded.                                           *)
LEMMA LeastElement ==
  ASSUME NEW S \in SUBSET Nat, S # {}
  PROVE  \E m \in S : \A n \in S : m <= n
<1> DEFINE T == {0..n : n \in S}
<1>1. T \subseteq FiniteSubsetsOf(Nat) /\ T # {}
  <2> SUFFICES ASSUME NEW n \in S PROVE 0..n \in FiniteSubsetsOf(Nat)
    OBVIOUS
  <2>1. n \in Nat
    OBVIOUS
  <2>2. IsFiniteSet(0..n)
    BY <2>1, FS_Interval
  <2> QED
    BY <2>1, <2>2 DEF FiniteSubsetsOf
<1>2. PICK x \in T : \A y \in T : ~(<<y, x>> \in StrictSubsetOrdering(Nat))
  <2> HIDE DEF T
  <2> QED
    BY <1>1, FS_StrictSubsetOrderingWellFounded, WFMin
<1>3. PICK m \in S : x = 0..m
  OBVIOUS
<1>4. \A n \in S : m <= n
  <2> SUFFICES ASSUME NEW n \in S, n < m PROVE FALSE
    OBVIOUS
  <2>1. n \in Nat /\ m \in Nat
    OBVIOUS
  <2>2. 0..n \subseteq 0..m /\ m \notin 0..n /\ m \in 0..m
    BY <2>1
  <2>3. <<0..n, x>> \in StrictSubsetOrdering(Nat)
    BY <1>3, <2>2 DEF StrictSubsetOrdering
  <2> QED
    BY <1>2, <2>3
<1> QED
  BY <1>4

LEMMA MinIsElement ==
  ASSUME NEW S \in SUBSET Nat, S # {}
  PROVE  Min(S) \in S /\ \A n \in S : Min(S) <= n
  BY LeastElement DEF Min

(* The largest of some numbers with a bound is one of them.                *)
LEMMA MaxIsElement ==
  ASSUME NEW N \in Nat, NEW S \in SUBSET (0..N), S # {}
  PROVE  Max(S) \in S /\ \A x \in S : x <= Max(S)
<1> DEFINE T == {N - x : x \in S}
<1>1. T \in SUBSET Nat /\ T # {}
  OBVIOUS
<1>2. PICK m \in T : \A y \in T : m <= y
  <2> HIDE DEF T
  <2> QED
    BY <1>1, LeastElement
<1>3. PICK x \in S : m = N - x
  OBVIOUS
<1>4. \A y \in S : y <= x
  <2> SUFFICES ASSUME NEW y \in S PROVE y <= x
    OBVIOUS
  <2>1. N - y \in T
    OBVIOUS
  <2>2. m <= N - y
    BY <1>2, <2>1
  <2> QED
    BY <1>3, <2>2
<1>5. \E z \in S : \A y \in S : z >= y
  BY <1>4
<1>6. Max(S) \in S /\ \A y \in S : Max(S) >= y
  BY <1>5 DEF Max
<1> QED
  BY <1>6

LEMMA MaxOfTwo ==
  ASSUME NEW a \in Nat, NEW b \in Nat
  PROVE  Max({a, b}) = IF a < b THEN b ELSE a
  BY SMTT(30) DEF Max

LEMMA MaxOfThree ==
  ASSUME NEW a \in Nat, NEW b \in Nat, NEW c \in Nat
  PROVE  /\ Max({a, b, c}) \in {a, b, c}
         /\ a <= Max({a, b, c}) /\ b <= Max({a, b, c}) /\ c <= Max({a, b, c})
<1>1. \E x \in {a, b, c} : \A y \in {a, b, c} : x >= y
  OBVIOUS
<1>2. Max({a, b, c}) \in {a, b, c} /\ \A y \in {a, b, c} : Max({a, b, c}) >= y
  BY <1>1 DEF Max
<1> QED
  BY <1>2

-----------------------------------------------------------------------------
(* TypeOK in parts; what is counted has its bound from the counting.       *)
Submits == [ticket : 1..MaxTicket, writes : BOOLEAN, deed : Deeds]
QueuesOK ==
  /\ live \subseteq Contexts
  /\ next \in Nat \ {0}
  /\ gpu \in [Contexts -> Seq(Submits)]
  /\ progress \in [Contexts -> 0..MaxTicket]

StampTypes == [write : Tables, reads : Tables, foreign : Tables, pending : SUBSET Promises,
               claims : Int]
StampsOK == stamp \in [Deeds -> StampTypes]

LatchOK ==
  /\ promise \in [Promises -> 0..Abandoned]
  /\ park \in [Promises -> Threads \cup {NoThread}]
  /\ waiters \in [Promises -> SUBSET Threads]
  /\ promises \in Nat

CallsOK == thread \in [Threads -> Calls]

PoolOK ==
  /\ view \in [Threads -> 0..MaxDeeds]
  /\ deed \in Deeds
  /\ bin \in {"held", "pending", "ready"}
  /\ readyAfter \in Tables

Types == QueuesOK /\ StampsOK /\ LatchOK /\ CallsOK /\ PoolOK

(* The inductive invariant.                                                *)
SettlementOrder ==
  /\ Types /\ Shapes /\ Sleepers /\ Leased /\ Queues /\ Recording /\ Binned
  /\ Awaiting /\ Owed /\ Counted


LEMMA ThreadsCount ==
  ASSUME NEW S \in SUBSET Threads
  PROVE  /\ IsFiniteSet(S)
         /\ Cardinality(S) \in 0..Cardinality(Threads)
         /\ Cardinality(Threads) \in Nat
<1>1. IsFiniteSet(Threads)
  BY SettlementAssumption
<1> QED
  BY <1>1, FS_Subset, FS_CardinalityType

LEMMA TypesGive == Types /\ Counted => TypeOK
<1> SUFFICES ASSUME Types, Counted PROVE TypeOK
  OBVIOUS
<1>1. Gated \in SUBSET Threads /\ Owers \in SUBSET Threads
  BY DEF Gated, Owers
<1>2. next \in 1..(MaxTicket + 1)
  <2>1. Cardinality(Gated) \in Nat /\ next \in Nat \ {0}
    BY <1>1, ThreadsCount DEF Types, QueuesOK
  <2> QED
    BY <2>1, SettlementAssumption DEF Counted
<1>3. promises \in 0..MaxPromises
  <2>1. Cardinality(Owers) \in Nat /\ promises \in Nat
    BY <1>1, ThreadsCount DEF Types, LatchOK
  <2> QED
    BY <2>1, SettlementAssumption DEF Counted
<1>4. stamp \in [Deeds -> Stamps]
  <2>1. ASSUME NEW d \in Deeds PROVE stamp[d].claims \in 0..Cardinality(Threads)
    <3>1. ViewsOf(d) \in SUBSET Threads
      BY DEF ViewsOf
    <3> QED
      BY <3>1, ThreadsCount DEF Counted
  <2>2. ASSUME NEW d \in Deeds PROVE stamp[d] \in Stamps
    BY <2>1 DEF Types, StampsOK, StampTypes, Stamps
  <2> QED
    BY <2>2 DEF Types, StampsOK
<1> QED
  BY <1>2, <1>3, <1>4 DEF Types, QueuesOK, Submits, LatchOK, CallsOK, PoolOK, TypeOK

LEMMA RaiseTables ==
  ASSUME NEW table \in Tables, NEW K, NEW tv \in 0..MaxTicket
  PROVE  /\ Raise(table, K, tv) \in Tables
         /\ \A k \in Keys : table[k] <= Raise(table, K, tv)[k]
         /\ \A k \in Keys : k \in K => tv <= Raise(table, K, tv)[k]
<1>1. ASSUME NEW k \in Keys
      PROVE  /\ Raise(table, K, tv)[k] \in 0..MaxTicket
             /\ table[k] <= Raise(table, K, tv)[k]
             /\ k \in K => tv <= Raise(table, K, tv)[k]
  <2>1. table[k] \in 0..MaxTicket /\ MaxTicket \in Nat
    BY SettlementAssumption DEF Tables
  <2>2. table[k] \in Nat /\ tv \in Nat
    BY <2>1
  <2>3. Max({table[k], tv}) = IF table[k] < tv THEN tv ELSE table[k]
    BY <2>2, MaxOfTwo
  <2>4. Raise(table, K, tv)[k] = IF k \in K THEN Max({table[k], tv}) ELSE table[k]
    BY DEF Raise
  <2> QED
    BY <2>1, <2>2, <2>3, <2>4
<1>2. DOMAIN Raise(table, K, tv) = Keys /\ Raise(table, K, tv) = [k \in Keys |-> Raise(table, K, tv)[k]]
  BY DEF Raise
<1>3. Raise(table, K, tv) \in Tables
  BY <1>1, <1>2 DEF Tables
<1> QED
  BY <1>1, <1>3

LEMMA MergedTables ==
  ASSUME NEW s \in StampTypes
  PROVE  /\ Merged(s) \in Tables
         /\ \A k \in Keys : s.write[k] <= Merged(s)[k] /\ s.reads[k] <= Merged(s)[k]
<1>1. ASSUME NEW k \in Keys
      PROVE  /\ Merged(s)[k] \in 0..MaxTicket
             /\ s.write[k] <= Merged(s)[k] /\ s.reads[k] <= Merged(s)[k]
  <2>1. s.write[k] \in 0..MaxTicket /\ s.reads[k] \in 0..MaxTicket /\ s.foreign[k] \in 0..MaxTicket
    BY DEF StampTypes, Tables
  <2>2. s.write[k] \in Nat /\ s.reads[k] \in Nat /\ s.foreign[k] \in Nat
    BY <2>1
  <2>3. Merged(s)[k] = Max({s.write[k], s.reads[k], s.foreign[k]})
    BY DEF Merged
  <2>4. Merged(s)[k] \in {s.write[k], s.reads[k], s.foreign[k]}
    BY <2>2, <2>3, MaxOfThree
  <2>5. s.write[k] <= Merged(s)[k] /\ s.reads[k] <= Merged(s)[k]
    BY <2>2, <2>3, MaxOfThree
  <2> QED
    BY <2>1, <2>4, <2>5
<1>2. Merged(s) = [k \in Keys |-> Merged(s)[k]]
  BY DEF Merged
<1>3. Merged(s) \in Tables
  BY <1>1, <1>2 DEF Tables
<1> QED
  BY <1>1, <1>3

LEMMA FoldEffect ==
  ASSUME StampsOK, LatchOK, NEW d \in Deeds, NEW K, Fold(d, K)
  PROVE  /\ StampsOK'
         /\ \A e \in Deeds : /\ stamp'[e].write = stamp[e].write
                             /\ stamp'[e].reads = stamp[e].reads
                             /\ stamp'[e].claims = stamp[e].claims
<1> DEFINE kept == {p \in stamp[d].pending : promise[p] \notin {Pending, Abandoned}}
           V  == {promise[p] : p \in kept} \cup {0}
           tv == Max(V)
           F  == Raise(stamp[d].foreign, K, tv)
           P  == {p \in stamp[d].pending : promise[p] = Pending}
<1>1. stamp[d] \in StampTypes /\ stamp[d].foreign \in Tables /\ stamp[d].pending \subseteq Promises
  BY DEF StampsOK, StampTypes
<1>2. V \in SUBSET (0..MaxTicket) /\ V # {}
  <2>1. ASSUME NEW p \in kept PROVE promise[p] \in 0..MaxTicket
    <3>1. promise[p] \in 0..(MaxTicket + 1) /\ promise[p] # MaxTicket + 1
      BY <1>1 DEF LatchOK, Abandoned
    <3> QED
      BY <3>1, SettlementAssumption
  <2> QED
    BY <2>1, SettlementAssumption
<1>3. tv \in 0..MaxTicket
  <2> HIDE DEF V
  <2> QED
    BY <1>2, MaxIsElement, SettlementAssumption
<1>4. F \in Tables
  <2> HIDE DEF tv
  <2> QED
    BY <1>1, <1>3, RaiseTables
<1>5. stamp' = [stamp EXCEPT ![d].foreign = F, ![d].pending = P]
  BY DEF Fold
<1>6. P \in SUBSET Promises
  BY <1>1
<1> HIDE DEF F, P
<1>7. stamp' = [stamp EXCEPT ![d] = [stamp[d] EXCEPT !.foreign = F, !.pending = P]]
  BY <1>5 DEF StampsOK
<1>8. [stamp[d] EXCEPT !.foreign = F, !.pending = P] \in StampTypes
  BY <1>1, <1>4, <1>6 DEF StampTypes
<1> QED
  BY <1>7, <1>8 DEF StampsOK, StampTypes

-----------------------------------------------------------------------------
(* A call of thread t that goes on: its step, and what it waits for.       *)
Going(t, s, b, p, v) ==
  [thread[t] EXCEPT !.step = s, !.blocking = b, !.promise = p, !.tv = v]

LEMMA GoingFields ==
  ASSUME CallsOK, NEW t \in Threads, NEW s \in Steps, NEW b \in SUBSET Promises,
         NEW p \in 0..MaxPromises, NEW v \in 0..MaxTicket
  PROVE  LET r == Going(t, s, b, p, v) IN
         /\ r \in Calls
         /\ r.step = s /\ r.blocking = b /\ r.promise = p /\ r.tv = v
         /\ r.op = thread[t].op /\ r.ctx = thread[t].ctx /\ r.kind = thread[t].kind
         /\ r.deed = thread[t].deed /\ r.owed = thread[t].owed /\ r.epochs = thread[t].epochs
<1>1. thread[t] \in Calls
  BY DEF CallsOK
<1> QED
  BY <1>1 DEF Going, Calls

LEMMA GotoGoes ==
  ASSUME CallsOK, NEW t \in Threads, NEW s \in Steps, Goto(t, s)
  PROVE  thread' = [thread EXCEPT ![t] =
                      Going(t, s, thread[t].blocking, thread[t].promise, thread[t].tv)]
<1>1. thread[t] \in Calls
  BY DEF CallsOK
<1>2. [thread[t] EXCEPT !.step = s]
        = Going(t, s, thread[t].blocking, thread[t].promise, thread[t].tv)
  BY <1>1 DEF Going, Calls
<1> QED
  BY <1>2 DEF Goto, CallsOK

LEMMA CallFieldTypes ==
  ASSUME CallsOK, NEW t \in Threads
  PROVE  /\ thread[t].step \in Steps /\ thread[t].ctx \in Keys
         /\ thread[t].kind \in Reading \cup Writing /\ thread[t].tv \in 0..MaxTicket
         /\ thread[t].promise \in 0..MaxPromises /\ thread[t].blocking \in SUBSET Promises
         /\ thread[t].deed \in 0..MaxDeeds /\ thread[t].epochs \in Tables
         /\ thread[t].owed \in SUBSET (1..MaxTicket)
         /\ thread[t].op \in {"none", "submit", "settle", "drop", "view"}
<1>1. thread[t] \in Calls
  BY DEF CallsOK
<1> QED
  BY <1>1 DEF Calls

(* A step inside of calls that leaves the queues, the resource and the     *)
(* tickets on the stamps alone; a walk reaches no step, either, that says  *)
(* something of them.                                                      *)
Marked == {"submit", "viewepochs", "viewclaim", "settled"}
SameCall(u) ==
  /\ thread'[u].op = thread[u].op /\ thread'[u].ctx = thread[u].ctx
  /\ thread'[u].kind = thread[u].kind /\ thread'[u].deed = thread[u].deed
  /\ thread'[u].owed = thread[u].owed
SameTickets ==
  \A d \in Deeds : /\ stamp'[d].write = stamp[d].write /\ stamp'[d].reads = stamp[d].reads
                   /\ stamp'[d].claims = stamp[d].claims
Stride ==
  /\ UNCHANGED <<live, next, gpu, progress, view, deed, bin, readyAfter>>
  /\ SameTickets
  /\ \A u \in Threads :
       /\ thread'[u].op = "none" \/ SameCall(u)
       /\ At(u, "stamp") => thread'[u] = thread[u]
       /\ AtGate(u)' => AtGate(u)
       /\ Owing(u)' => Owing(u)
Unmarked(u) ==
  thread'[u].step \in Marked =>
    thread'[u].step = thread[u].step /\ thread'[u].epochs = thread[u].epochs
Walk == Stride /\ \A u \in Threads : Unmarked(u)
Shaped == Types' /\ Shapes' /\ Sleepers'

(* Nobody but t goes to sleep, and only at step "asleep".                  *)
Sleeps(t, s, p) ==
  \A q \in Promises : \A u \in waiters'[q] :
    u \in waiters[q] \/ (u = t /\ s = "asleep" /\ q = p)

(* The call of thread t becomes r.                                         *)
LEMMA PutCall ==
  ASSUME Types, Shapes, Sleepers, NEW t \in Threads, NEW r \in Calls, ShapeOf(t, r),
         thread' = [thread EXCEPT ![t] = r], thread[t].step # "asleep",
         Sleeps(t, r.step, r.promise)
  PROVE  /\ CallsOK' /\ Shapes' /\ Sleepers'
         /\ thread'[t] = r /\ \A u \in Threads : u # t => thread'[u] = thread[u]
<1>1. CallsOK' /\ thread'[t] = r /\ \A u \in Threads : u # t => thread'[u] = thread[u]
  BY DEF Types, CallsOK
<1>2. Shapes'
  <2>1. ASSUME NEW u \in Threads PROVE ShapeOf(u, thread'[u])
    BY <1>1 DEF Shapes
  <2> QED
    BY <2>1 DEF Shapes, ShapeOf
<1>3. Sleepers'
  <2>1. ASSUME NEW q \in Promises, NEW u \in waiters'[q]
        PROVE  thread'[u].step = "asleep" /\ thread'[u].promise = q
    <3>1. CASE u = t /\ r.step = "asleep" /\ q = r.promise
      BY <3>1, <1>1
    <3>2. CASE u \in waiters[q]
      <4>1. thread[u].step = "asleep" /\ thread[u].promise = q /\ u \in Threads
        BY <3>2 DEF Sleepers, Types, LatchOK, At
      <4>2. u # t
        BY <4>1
      <4> QED
        BY <4>1, <4>2, <1>1
    <3> QED
      BY <2>1, <3>1, <3>2 DEF Sleeps
  <2> QED
    BY <2>1 DEF Sleepers, At
<1> QED
  BY <1>1, <1>2, <1>3

LEMMA WalkFrom ==
  ASSUME Types, Shapes, Sleepers, NEW t \in Threads, NEW s \in Steps, NEW b \in SUBSET Promises,
         NEW p \in 0..MaxPromises, NEW v \in 0..MaxTicket,
         thread' = [thread EXCEPT ![t] = Going(t, s, b, p, v)],
         ShapeOf(t, Going(t, s, b, p, v)),
         s \notin Marked, thread[t].step \notin {"stamp", "asleep"},
         thread[t].op = "submit" => v = thread[t].tv,
         thread[t].step \in Resolving => s \in Resolving,
         UNCHANGED <<gpuVars, view, poolVars>>, StampsOK', SameTickets, LatchOK',
         Sleeps(t, s, p)
  PROVE  Walk /\ Shaped
<1> DEFINE r == Going(t, s, b, p, v)
<1>1. CallsOK
  BY DEF Types
<1>2. /\ r \in Calls
      /\ r.step = s /\ r.tv = v /\ r.promise = p
      /\ r.op = thread[t].op /\ r.ctx = thread[t].ctx /\ r.kind = thread[t].kind
      /\ r.deed = thread[t].deed /\ r.owed = thread[t].owed /\ r.epochs = thread[t].epochs
  BY <1>1, GoingFields
<1>3. thread' = [thread EXCEPT ![t] = r] /\ ShapeOf(t, r)
  OBVIOUS
<1> HIDE DEF r
<1>4. /\ CallsOK' /\ Shapes' /\ Sleepers'
      /\ thread'[t] = r /\ \A u \in Threads : u # t => thread'[u] = thread[u]
  BY <1>2, <1>3, PutCall
<1>5. Types'
  BY <1>4 DEF Types, QueuesOK, PoolOK, gpuVars, poolVars
<1>8. ASSUME NEW u \in Threads
      PROVE  /\ SameCall(u)
             /\ thread'[u].step \in Marked =>
                  thread'[u].step = thread[u].step /\ thread'[u].epochs = thread[u].epochs
             /\ At(u, "stamp") => thread'[u] = thread[u]
             /\ AtGate(u)' => AtGate(u)
             /\ Owing(u)' => Owing(u)
  <2>1. CASE u = t
    BY <2>1, <1>2, <1>4 DEF SameCall, At, AtGate, Owing, Resolving
  <2>2. CASE u # t
    BY <2>2, <1>4 DEF SameCall, At, AtGate, Owing
  <2> QED
    BY <2>1, <2>2
<1> QED
  BY <1>4, <1>5, <1>8 DEF Walk, Stride, Unmarked, Shaped, gpuVars, poolVars

LEMMA StepNames ==
  {"idle", "gate", "block", "lock", "recheck", "sleep", "asleep", "woken", "fold", "claims",
   "submit", "stamp", "push", "resolve", "unpark", "notify", "settle", "measure", "await",
   "settled", "viewwait", "viewepochs", "viewclaim", "panicked"} = Steps
  BY DEF Steps

LEMMA SameStamps ==
  ASSUME StampsOK, UNCHANGED stamp
  PROVE  StampsOK' /\ SameTickets
  BY DEF StampsOK, SameTickets

LEMMA SameLatch ==
  ASSUME LatchOK, UNCHANGED latchVars, NEW t, NEW s, NEW p
  PROVE  LatchOK' /\ Sleeps(t, s, p)
  BY DEF LatchOK, latchVars, Sleeps

(* The shape of a call that goes on by its step alone.                     *)
LEMMA WaitingShape ==
  ASSUME CallsOK, Shapes, NEW t \in Threads, thread[t].step \in {"gate"} \cup Waiting,
         NEW s \in Steps, NEW b \in SUBSET Promises, NEW p \in 0..MaxPromises,
         \/ s \in Waiting
         \/ s \in {"gate", "claims"} /\ thread[t].op = "submit"
         \/ s = "settle" /\ thread[t].op # "submit"
  PROVE  ShapeOf(t, Going(t, s, b, p, thread[t].tv))
<1>1. ShapeOf(t, thread[t]) /\ thread[t].tv \in 0..MaxTicket
  BY CallFieldTypes DEF Shapes
<1>2. thread[t].op = "submit" => thread[t].kind \in Writing /\ thread[t].tv = 0
  BY <1>1 DEF ShapeOf, Waiting, Resolving
<1>3. thread[t].op \in {"submit", "settle", "drop"}
  BY <1>1, CallFieldTypes DEF ShapeOf, Waiting
<1> DEFINE r == Going(t, s, b, p, thread[t].tv)
<1>4. /\ r.step = s /\ r.tv = thread[t].tv
      /\ r.op = thread[t].op /\ r.ctx = thread[t].ctx /\ r.kind = thread[t].kind
      /\ r.deed = thread[t].deed
  BY <1>1, GoingFields
<1> HIDE DEF r
<1>5. ShapeOf(t, r)
  <2>1. CASE thread[t].op = "submit"
    BY <1>1, <1>2, <1>4, <2>1 DEF ShapeOf, Waiting
  <2>2. CASE thread[t].op \in {"settle", "drop"}
    BY <1>1, <1>4, <2>2 DEF ShapeOf, Waiting
  <2> QED
    BY <1>3, <2>1, <2>2
<1> QED
  BY <1>5 DEF r

LEMMA GateSnapshotWalks ==
  ASSUME Types, Shapes, Sleepers, NEW t \in Threads, GateSnapshot(t)
  PROVE  Walk /\ Shaped
<1> DEFINE list == stamp[thread[t].deed].pending
           s    == IF list = {} THEN "claims" ELSE "block"
<1>1. CallsOK /\ StampsOK /\ LatchOK
  BY DEF Types
<1>2. At(t, "gate") /\ UNCHANGED <<gpuVars, stamp, latchVars, view, poolVars>>
  BY DEF GateSnapshot
<1>3. ShapeOf(t, thread[t])
  BY DEF Shapes
<1>4. thread[t].op = "submit"
  BY <1>1, <1>2, <1>3, CallFieldTypes DEF ShapeOf, At, Waiting
<1>5. list \in SUBSET Promises
  <2>1. thread[t].deed \in Deeds
    BY <1>3, <1>4 DEF ShapeOf
  <2> QED
    BY <1>1, <2>1 DEF StampsOK, StampTypes
<1> HIDE DEF list
<1>6. thread' = [thread EXCEPT ![t] = Going(t, s, list, thread[t].promise, thread[t].tv)]
  <2>1. thread' = [thread EXCEPT ![t].step = s, ![t].blocking = list]
    BY DEF GateSnapshot, list
  <2>2. thread[t] \in Calls
    BY <1>1 DEF CallsOK
  <2>3. [thread[t] EXCEPT !.step = s, !.blocking = list]
          = Going(t, s, list, thread[t].promise, thread[t].tv)
    BY <2>2 DEF Going, Calls
  <2> QED
    BY <1>1, <2>1, <2>3 DEF CallsOK
<1>7. s \in Steps /\ s \in {"claims"} \cup Waiting /\ s \notin Marked
  BY StepNames DEF Waiting, Marked
<1> HIDE DEF s
<1>8. ShapeOf(t, Going(t, s, list, thread[t].promise, thread[t].tv))
  BY <1>1, <1>2, <1>4, <1>5, <1>7, WaitingShape, CallFieldTypes DEF At
<1>9. StampsOK' /\ SameTickets
  BY <1>1, <1>2, SameStamps
<1>10. LatchOK' /\ Sleeps(t, s, thread[t].promise)
  BY <1>1, <1>2, SameLatch
<1> QED
  BY <1>1, <1>2, <1>5, <1>6, <1>7, <1>8, <1>9, <1>10, CallFieldTypes, WalkFrom
     DEF At, Resolving

LEMMA GotoWalks ==
  ASSUME Types, Shapes, Sleepers, NEW t \in Threads, NEW s \in Steps, Goto(t, s),
         ShapeOf(t, Going(t, s, thread[t].blocking, thread[t].promise, thread[t].tv)),
         s \notin Marked, thread[t].step \notin {"stamp", "asleep"},
         thread[t].step \in Resolving => s \in Resolving,
         UNCHANGED <<gpuVars, view, poolVars>>, StampsOK', SameTickets, LatchOK',
         Sleeps(t, s, thread[t].promise)
  PROVE  Walk /\ Shaped
<1>1. CallsOK
  BY DEF Types
<1>2. thread' = [thread EXCEPT ![t] =
                   Going(t, s, thread[t].blocking, thread[t].promise, thread[t].tv)]
  BY <1>1, GotoGoes
<1> QED
  BY <1>1, <1>2, CallFieldTypes, WalkFrom

LEMMA BlockNextWalks ==
  ASSUME Types, Shapes, Sleepers, NEW t \in Threads, BlockNext(t)
  PROVE  Walk /\ Shaped
<1> DEFINE list == {p \in thread[t].blocking : promise[p] = Pending}
<1>1. CallsOK /\ StampsOK /\ LatchOK
  BY DEF Types
<1>2. At(t, "block") /\ UNCHANGED <<gpuVars, stamp, latchVars, view, poolVars>>
  BY DEF BlockNext
<1>3. list \in SUBSET Promises
  BY <1>1, CallFieldTypes
<1>4. \/ /\ list = {}
         /\ thread' = [thread EXCEPT ![t].step = "fold", ![t].blocking = {}, ![t].promise = 0]
      \/ /\ list # {}
         /\ thread' = [thread EXCEPT ![t].step = "lock", ![t].blocking = list,
                                     ![t].promise = Min(list)]
  BY DEF BlockNext
<1> HIDE DEF list
<1>5. PICK s \in {"fold", "lock"}, b \in SUBSET Promises, p \in 0..MaxPromises :
        thread' = [thread EXCEPT ![t].step = s, ![t].blocking = b, ![t].promise = p]
  <2>1. CASE list = {}
    <3>1. 0 \in 0..MaxPromises /\ {} \in SUBSET Promises
      BY SettlementAssumption
    <3> QED
      BY <1>4, <2>1, <3>1
  <2>2. CASE list # {}
    <3>1. list \in SUBSET Nat
      BY <1>3 DEF Promises
    <3>2. Min(list) \in list
      BY <2>2, <3>1, MinIsElement
    <3>3. Min(list) \in 0..MaxPromises
      <4>1. Min(list) \in Promises
        BY <1>3, <3>2
      <4>2. \A q \in Promises : q \in 0..MaxPromises
        BY SettlementAssumption DEF Promises
      <4> QED
        BY <4>1, <4>2
    <3>4. PICK p \in 0..MaxPromises : p = Min(list)
      BY <3>3
    <3>5. thread' = [thread EXCEPT ![t].step = "lock", ![t].blocking = list, ![t].promise = p]
      BY <1>4, <2>2, <3>4
    <3> QED
      BY <1>3, <3>5
  <2> QED
    BY <2>1, <2>2
<1>6. thread' = [thread EXCEPT ![t] = Going(t, s, b, p, thread[t].tv)]
  <2>1. thread[t] \in Calls
    BY <1>1 DEF CallsOK
  <2>2. [thread[t] EXCEPT !.step = s, !.blocking = b, !.promise = p]
          = Going(t, s, b, p, thread[t].tv)
    BY <2>1 DEF Going, Calls
  <2> QED
    BY <1>1, <1>5, <2>2 DEF CallsOK
<1>7. s \in Steps /\ s \in Waiting /\ s \notin Marked
  BY StepNames DEF Waiting, Marked
<1>8. ShapeOf(t, Going(t, s, b, p, thread[t].tv))
  BY <1>1, <1>2, <1>7, WaitingShape DEF At, Waiting
<1>9. StampsOK' /\ SameTickets
  BY <1>1, <1>2, SameStamps
<1>10. LatchOK' /\ Sleeps(t, s, p)
  BY <1>1, <1>2, SameLatch
<1> QED
  BY <1>1, <1>2, <1>6, <1>7, <1>8, <1>9, <1>10, CallFieldTypes, WalkFrom
     DEF At, Resolving

(* Taking, keeping and giving up a promise's lock, and sleeping on it.     *)
LEMMA LockWalks ==
  ASSUME Types, Shapes, Sleepers, NEW t \in Threads,
         BlockLock(t) \/ BlockPoll(t) \/ BlockSleep(t) \/ BlockWake(t)
  PROVE  Walk /\ Shaped
<1>1. CallsOK /\ StampsOK /\ LatchOK
  BY DEF Types
<1>2. PICK s \in Waiting : Goto(t, s) /\ (s = "asleep" <=> BlockSleep(t))
  <2>1. CASE BlockLock(t)
    <3>1. Goto(t, "recheck") /\ ~BlockSleep(t)
      BY <2>1 DEF BlockLock, BlockSleep, At
    <3> QED
      BY <3>1 DEF Waiting
  <2>2. CASE BlockPoll(t)
    <3>1. PICK s \in {"sleep", "block"} : Goto(t, s)
      BY <2>2 DEF BlockPoll
    <3>2. ~BlockSleep(t)
      BY <2>2 DEF BlockPoll, BlockSleep, At
    <3> QED
      BY <3>1, <3>2 DEF Waiting
  <2>3. CASE BlockSleep(t)
    BY <2>3 DEF BlockSleep, Waiting
  <2>4. CASE BlockWake(t)
    <3>1. Goto(t, "block") /\ ~BlockSleep(t)
      BY <2>4 DEF BlockWake, BlockSleep, At
    <3> QED
      BY <3>1 DEF Waiting
  <2> QED
    BY <2>1, <2>2, <2>3, <2>4
<1>3. thread[t].step \in Waiting \ {"asleep"} /\ UNCHANGED <<gpuVars, stamp, view, poolVars>>
  BY DEF BlockLock, BlockPoll, BlockSleep, BlockWake, At, Waiting
<1>4. s \in Steps /\ s \notin Marked
  BY StepNames DEF Waiting, Marked
<1>5. ShapeOf(t, Going(t, s, thread[t].blocking, thread[t].promise, thread[t].tv))
  BY <1>1, <1>3, <1>4, WaitingShape, CallFieldTypes
<1>6. StampsOK' /\ SameTickets
  BY <1>1, <1>3, SameStamps
<1>7. LatchOK'
  <2>1. park' \in [Promises -> Threads \cup {NoThread}]
    BY <1>1 DEF LatchOK, BlockLock, BlockPoll, BlockSleep, BlockWake, latchVars
  <2>2. waiters' \in [Promises -> SUBSET Threads]
    BY <1>1 DEF LatchOK, BlockLock, BlockPoll, BlockSleep, BlockWake, latchVars
  <2>3. UNCHANGED <<promise, promises>>
    BY DEF BlockLock, BlockPoll, BlockSleep, BlockWake, latchVars
  <2> QED
    BY <1>1, <2>1, <2>2, <2>3 DEF LatchOK
<1>8. Sleeps(t, s, thread[t].promise)
  <2>1. CASE BlockSleep(t)
    BY <1>1, <1>2, <2>1 DEF LatchOK, BlockSleep, Sleeps
  <2>2. CASE ~BlockSleep(t)
    BY <1>1, <2>2 DEF BlockLock, BlockPoll, BlockWake, latchVars, Sleeps
  <2> QED
    BY <2>1, <2>2
<1>9. thread[t].step \notin Resolving /\ thread[t].step \notin {"stamp", "asleep"}
  BY <1>3 DEF Waiting, Resolving
<1>10. UNCHANGED <<gpuVars, view, poolVars>>
  BY <1>3
<1> QED
  BY <1>2, <1>4, <1>5, <1>6, <1>7, <1>8, <1>9, <1>10, GotoWalks

LEMMA FoldInWalks ==
  ASSUME Types, Shapes, Sleepers, NEW t \in Threads, FoldIn(t)
  PROVE  Walk /\ Shaped
<1> DEFINE d == thread[t].deed
           s == IF thread[t].op # "submit" THEN "settle"
                ELSE IF stamp'[d].pending = {} THEN "claims" ELSE "gate"
<1>1. CallsOK /\ StampsOK /\ LatchOK /\ ShapeOf(t, thread[t])
  BY DEF Types, Shapes
<1>2. At(t, "fold") /\ UNCHANGED <<gpuVars, latchVars, view, poolVars>> /\ Goto(t, s)
  BY DEF FoldIn
<1>3. d \in Deeds
  BY <1>1, <1>2, CallFieldTypes DEF ShapeOf, At
<1>4. StampsOK' /\ SameTickets
  <2>1. Fold(d, {thread[t].ctx}) \/ Fold(d, FoldKeys(d))
    BY DEF FoldIn
  <2> QED
    BY <1>1, <1>3, <2>1, FoldEffect DEF SameTickets
<1>5. s \in Steps /\ s \notin Marked /\ s # "asleep"
      /\ (\/ s \in {"gate", "claims"} /\ thread[t].op = "submit"
          \/ s = "settle" /\ thread[t].op # "submit")
  BY StepNames DEF Marked
<1> HIDE DEF s, d
<1>6. ShapeOf(t, Going(t, s, thread[t].blocking, thread[t].promise, thread[t].tv))
  BY <1>1, <1>2, <1>5, WaitingShape, CallFieldTypes DEF At, Waiting
<1>7. LatchOK' /\ Sleeps(t, s, thread[t].promise)
  BY <1>1, <1>2, SameLatch
<1> QED
  BY <1>2, <1>4, <1>5, <1>6, <1>7, GotoWalks DEF At, Resolving

LEMMA ResolveWalks ==
  ASSUME Types, Shapes, Sleepers, NEW t \in Threads, Resolve(t) \/ Unpark(t)
  PROVE  Walk /\ Shaped
<1>1. CallsOK /\ StampsOK /\ LatchOK /\ ShapeOf(t, thread[t])
  BY DEF Types, Shapes
<1>2. PICK s \in {"unpark", "notify"} : Goto(t, s)
  BY DEF Resolve, Unpark
<1>3. thread[t].step \in Resolving /\ UNCHANGED <<gpuVars, stamp, view, poolVars>>
  BY DEF Resolve, Unpark, At, Resolving
<1>4. s \in Steps /\ s \notin Marked /\ s # "asleep" /\ s \in Resolving
  BY StepNames DEF Marked, Resolving
<1>5. ShapeOf(t, Going(t, s, thread[t].blocking, thread[t].promise, thread[t].tv))
  <2> DEFINE r == Going(t, s, thread[t].blocking, thread[t].promise, thread[t].tv)
  <2>1. /\ r.step = s /\ r.tv = thread[t].tv /\ r.promise = thread[t].promise
        /\ r.op = thread[t].op /\ r.ctx = thread[t].ctx /\ r.kind = thread[t].kind
        /\ r.deed = thread[t].deed
    BY <1>1, <1>4, GoingFields, CallFieldTypes
  <2> HIDE DEF r
  <2>2. thread[t].op = "submit"
    BY <1>1, <1>3, CallFieldTypes DEF ShapeOf, Waiting, Resolving
  <2>3. ShapeOf(t, r)
    BY <1>1, <1>3, <1>4, <2>1, <2>2 DEF ShapeOf, Waiting, Resolving
  <2> QED
    BY <2>3 DEF r
<1>6. StampsOK' /\ SameTickets
  BY <1>1, <1>3, SameStamps
<1>7. LatchOK'
  <2>1. thread[t].tv \in 0..Abandoned /\ Abandoned \in 0..Abandoned
    BY <1>1, CallFieldTypes, SettlementAssumption DEF Abandoned
  <2>2. promise' \in [Promises -> 0..Abandoned] /\ UNCHANGED <<park, waiters, promises>>
    BY <1>1, <2>1 DEF Resolve, Unpark, LatchOK, latchVars
  <2> QED
    BY <1>1, <2>2 DEF LatchOK
<1>8. Sleeps(t, s, thread[t].promise)
  BY DEF Resolve, Unpark, latchVars, Sleeps
<1>9. UNCHANGED <<gpuVars, view, poolVars>> /\ thread[t].step \notin {"stamp", "asleep"}
  BY <1>3 DEF Resolving
<1> QED
  BY <1>2, <1>4, <1>5, <1>6, <1>7, <1>8, <1>9, GotoWalks

LEMMA SettleWalks ==
  ASSUME Types, Shapes, Sleepers, NEW t \in Threads, SettleCollect(t) \/ SettleAwait(t)
  PROVE  Walk /\ Shaped
<1>1. CallsOK /\ StampsOK /\ LatchOK /\ ShapeOf(t, thread[t]) /\ thread[t] \in Calls
  BY DEF Types, Shapes, CallsOK
<1>2. thread[t].step \in {"settle", "await"} /\ UNCHANGED <<gpuVars, latchVars, view, poolVars>>
  BY DEF SettleCollect, SettleAwait, At
<1>3. thread[t].op \in {"settle", "drop"} /\ thread[t].deed \in Deeds
  BY <1>1, <1>2, CallFieldTypes DEF ShapeOf, Waiting, Resolving
<1>4. StampsOK' /\ SameTickets
  <2>1. CASE SettleCollect(t)
    <3>1. Fold(thread[t].deed, FoldKeys(thread[t].deed))
      BY <2>1 DEF SettleCollect
    <3> QED
      BY <1>1, <1>3, <3>1, FoldEffect DEF SameTickets
  <2>2. CASE SettleAwait(t)
    BY <1>1, <2>2, SameStamps DEF SettleAwait
  <2> QED
    BY <2>1, <2>2
<1>5. PICK s \in {"measure", "block", "settle"}, b \in SUBSET Promises, v \in 0..MaxTicket :
        thread' = [thread EXCEPT ![t] = Going(t, s, b, thread[t].promise, v)]
  <2>1. CASE SettleCollect(t)
    <3> DEFINE list == stamp'[thread[t].deed].pending
               s    == IF list = {} THEN "measure" ELSE "block"
    <3>1. list \in SUBSET Promises
      BY <1>3, <1>4 DEF StampsOK, StampTypes
    <3>2. thread' = [thread EXCEPT ![t].step = s, ![t].blocking = list]
      BY <2>1 DEF SettleCollect
    <3> HIDE DEF list
    <3>3. [thread[t] EXCEPT !.step = s, !.blocking = list]
            = Going(t, s, list, thread[t].promise, thread[t].tv)
      BY <1>1 DEF Going, Calls
    <3>4. thread' = [thread EXCEPT ![t] = Going(t, s, list, thread[t].promise, thread[t].tv)]
      BY <1>1, <3>2, <3>3 DEF CallsOK
    <3>5. s \in {"measure", "block", "settle"} /\ thread[t].tv \in 0..MaxTicket
      BY <1>1, CallFieldTypes
    <3> HIDE DEF s
    <3> QED
      BY <3>1, <3>4, <3>5
  <2>2. CASE SettleAwait(t)
    <3>1. thread' = [thread EXCEPT ![t].step = "settle", ![t].tv = 0]
      BY <2>2 DEF SettleAwait
    <3>2. [thread[t] EXCEPT !.step = "settle", !.tv = 0]
            = Going(t, "settle", thread[t].blocking, thread[t].promise, 0)
      BY <1>1 DEF Going, Calls
    <3>3. thread' = [thread EXCEPT ![t] = Going(t, "settle", thread[t].blocking, thread[t].promise, 0)]
      BY <1>1, <3>1, <3>2 DEF CallsOK
    <3>4. 0 \in 0..MaxTicket /\ thread[t].blocking \in SUBSET Promises
      BY <1>1, CallFieldTypes, SettlementAssumption
    <3> QED
      BY <3>3, <3>4
  <2> QED
    BY <2>1, <2>2
<1>6. s \in Steps /\ s \notin Marked
  BY StepNames DEF Marked
<1>7. ShapeOf(t, Going(t, s, b, thread[t].promise, v))
  <2> DEFINE r == Going(t, s, b, thread[t].promise, v)
  <2>1. r.step = s /\ r.op = thread[t].op /\ r.deed = thread[t].deed
    BY <1>1, <1>6, GoingFields, CallFieldTypes
  <2> HIDE DEF r
  <2>2. ShapeOf(t, r)
    BY <1>3, <2>1 DEF ShapeOf, Waiting
  <2> QED
    BY <2>2 DEF r
<1>8. LatchOK' /\ Sleeps(t, s, thread[t].promise)
  BY <1>1, <1>2, SameLatch
<1> QED
  BY <1>1, <1>2, <1>3, <1>4, <1>5, <1>6, <1>7, <1>8, CallFieldTypes, WalkFrom DEF Resolving

(* Some submit still owes a promise, so the bound leaves room for it.      *)
LEMMA RoomToPromise ==
  ASSUME Types, Counted, NEW t \in Threads, Owing(t)
  PROVE  promises + 1 \in Promises
<1>1. Owers \in SUBSET Threads /\ t \in Owers
  BY DEF Owers
<1>2. IsFiniteSet(Owers) /\ Cardinality(Owers) \in Nat
  BY <1>1, ThreadsCount
<1>3. Cardinality(Owers) # 0
  BY <1>1, <1>2, FS_EmptySet
<1> QED
  BY <1>2, <1>3, SettlementAssumption DEF Counted, Types, LatchOK, Promises

LEMMA PushWalks ==
  ASSUME Types, Shapes, Sleepers, Counted, NEW t \in Threads, Push(t)
  PROVE  Walk /\ Shaped /\ Owing(t) /\ ~Owing(t)'
<1>1. CallsOK /\ StampsOK /\ LatchOK /\ ShapeOf(t, thread[t]) /\ thread[t] \in Calls
  BY DEF Types, Shapes, CallsOK
<1>2. thread[t].step = "push" /\ UNCHANGED <<gpuVars, promise, park, waiters, view, poolVars>>
  BY DEF Push, At
<1>3. /\ thread[t].op = "submit" /\ thread[t].deed \in Deeds /\ thread[t].kind \in Presenting
      /\ thread[t].tv > 0
  <2>1. thread[t].op = "submit"
    BY <1>1, <1>2, CallFieldTypes DEF ShapeOf, Waiting, Resolving
  <2> QED
    BY <1>1, <1>2, <2>1 DEF ShapeOf, Waiting, Resolving
<1>4. Owing(t)
  BY <1>2, <1>3 DEF Owing
<1>5. promises + 1 \in Promises
  BY <1>4, RoomToPromise
<1> DEFINE d == thread[t].deed
           P == stamp[d].pending \cup {promises + 1}
<1>6. StampsOK' /\ SameTickets
  <2>1. stamp' = [stamp EXCEPT ![d] = [stamp[d] EXCEPT !.pending = P]]
    BY <1>1, <1>3 DEF Push, StampsOK
  <2>2. stamp[d] \in StampTypes
    BY <1>1, <1>3 DEF StampsOK
  <2>3. P \in SUBSET Promises
    BY <1>5, <2>2 DEF StampTypes
  <2> HIDE DEF P, d
  <2>4. [stamp[d] EXCEPT !.pending = P] \in StampTypes
    BY <2>2, <2>3 DEF StampTypes
  <2> QED
    BY <1>1, <2>1, <2>2, <2>4 DEF StampsOK, StampTypes, SameTickets
<1> DEFINE r == Going(t, "resolve", thread[t].blocking, promises + 1, thread[t].tv)
<1>7. thread' = [thread EXCEPT ![t] = r]
  <2>1. thread' = [thread EXCEPT ![t].step = "resolve", ![t].promise = promises + 1]
    BY DEF Push
  <2>2. [thread[t] EXCEPT !.step = "resolve", !.promise = promises + 1] = r
    BY <1>1 DEF Going, Calls
  <2> QED
    BY <1>1, <2>1, <2>2 DEF CallsOK
<1>8. "resolve" \in Steps /\ "resolve" \notin Marked /\ promises + 1 \in 0..MaxPromises
  BY <1>5, StepNames, SettlementAssumption DEF Marked, Promises
<1>9. r.step = "resolve" /\ r.op = thread[t].op /\ r.deed = thread[t].deed
      /\ r.ctx = thread[t].ctx /\ r.kind = thread[t].kind /\ r.tv = thread[t].tv
      /\ r.promise = promises + 1
  BY <1>1, <1>8, GoingFields, CallFieldTypes
<1>10. ShapeOf(t, r)
  <2> HIDE DEF r
  <2> QED
    BY <1>1, <1>3, <1>5, <1>9 DEF ShapeOf, Resolving
<1>11. LatchOK' /\ Sleeps(t, "resolve", promises + 1)
  BY <1>1, <1>2, <1>5 DEF LatchOK, Push, Promises, Sleeps
<1>12. Walk /\ Shaped
  BY <1>1, <1>2, <1>3, <1>6, <1>7, <1>8, <1>10, <1>11, CallFieldTypes, WalkFrom DEF Resolving
<1>13. ~Owing(t)'
  <2> HIDE DEF r
  <2>1. thread'[t] = r
    BY <1>1, <1>7 DEF CallsOK
  <2> QED
    BY <1>9, <2>1 DEF Owing
<1> QED
  BY <1>4, <1>12, <1>13

LEMMA IdleCall == Idle \in Calls /\ \A t \in Threads : ShapeOf(t, Idle)
<1>1. Empty \in Tables /\ NoContext \in Keys /\ "idle" \in Steps
  BY SettlementAssumption, StepNames DEF Empty, Tables, Keys
<1>2. Idle \in Calls
  BY <1>1, SettlementAssumption DEF Idle, Calls, Reading
<1> QED
  BY <1>2 DEF ShapeOf, Idle

LEMMA NotifyWalks ==
  ASSUME Types, Shapes, Sleepers, NEW t \in Threads, Notify(t)
  PROVE  Walk /\ Shaped
<1> DEFINE p == thread[t].promise
           W == waiters[p]
<1>1. CallsOK /\ StampsOK /\ LatchOK
  BY DEF Types
<1>2. At(t, "notify") /\ UNCHANGED <<gpuVars, stamp, promise, park, promises, view, poolVars>>
  BY DEF Notify
<1>3. thread' = [u \in Threads |-> IF u = t THEN Idle
                                   ELSE IF u \in W THEN [thread[u] EXCEPT !.step = "woken"]
                                   ELSE thread[u]]
  BY DEF Notify
<1>4. waiters' = [waiters EXCEPT ![p] = {}]
  BY DEF Notify
<1>5. p \in Promises
  <2>1. ShapeOf(t, thread[t])
    BY DEF Shapes
  <2> QED
    BY <1>1, <1>2, <2>1, CallFieldTypes DEF ShapeOf, At, Waiting, Resolving
<1>6. W \subseteq Threads /\ \A u \in W : thread[u].step = "asleep" /\ thread[u].promise = p
  BY <1>1, <1>5 DEF LatchOK, Sleepers, At
<1> HIDE DEF W, p
<1>7. ASSUME NEW u \in Threads, u # t, u \in W
      PROVE  /\ thread'[u] = Going(u, "woken", thread[u].blocking, thread[u].promise, thread[u].tv)
             /\ ShapeOf(u, thread'[u])
  <2>1. thread'[u] = [thread[u] EXCEPT !.step = "woken"] /\ thread[u] \in Calls
    BY <1>1, <1>3, <1>7 DEF CallsOK
  <2>2. thread'[u] = Going(u, "woken", thread[u].blocking, thread[u].promise, thread[u].tv)
    BY <2>1 DEF Going, Calls
  <2>3. ShapeOf(u, Going(u, "woken", thread[u].blocking, thread[u].promise, thread[u].tv))
    BY <1>1, <1>6, <1>7, WaitingShape, CallFieldTypes, StepNames DEF Waiting
  <2> QED
    BY <2>2, <2>3
<1>8. ASSUME NEW u \in Threads
      PROVE  /\ thread'[u] \in Calls /\ ShapeOf(u, thread'[u])
             /\ u # t /\ u \notin W => thread'[u] = thread[u]
             /\ thread'[u].op = "none" \/ SameCall(u)
             /\ thread'[u].step \in Marked =>
                  thread'[u].step = thread[u].step /\ thread'[u].epochs = thread[u].epochs
             /\ At(u, "stamp") => thread'[u] = thread[u]
             /\ AtGate(u)' => AtGate(u)
             /\ Owing(u)' => Owing(u)
  <2>1. CASE u = t
    <3>1. thread'[u] = Idle
      BY <1>3, <2>1
    <3>2. Idle.op = "none" /\ Idle.step = "idle"
      BY DEF Idle
    <3> QED
      BY <1>2, <2>1, <3>1, <3>2, IdleCall DEF Marked, At, AtGate, Owing
  <2>2. CASE u # t /\ u \in W
    <3>1. thread'[u] = Going(u, "woken", thread[u].blocking, thread[u].promise, thread[u].tv)
      BY <1>7, <2>2
    <3>2. ShapeOf(u, thread'[u]) /\ thread[u].step = "asleep"
      BY <1>6, <1>7, <2>2
    <3>3. /\ thread'[u] \in Calls
          /\ thread'[u].step = "woken" /\ thread'[u].tv = thread[u].tv
          /\ thread'[u].op = thread[u].op /\ thread'[u].ctx = thread[u].ctx
          /\ thread'[u].kind = thread[u].kind /\ thread'[u].deed = thread[u].deed
          /\ thread'[u].owed = thread[u].owed
      <4>1. "woken" \in Steps
        BY StepNames
      <4>2. /\ thread[u].promise \in 0..MaxPromises /\ thread[u].blocking \in SUBSET Promises
            /\ thread[u].tv \in 0..MaxTicket
        BY <1>1, CallFieldTypes
      <4> QED
        BY <1>1, <3>1, <4>1, <4>2, GoingFields
    <3> QED
      BY <2>2, <3>2, <3>3 DEF Marked, SameCall, At, AtGate, Owing
  <2>3. CASE u # t /\ u \notin W
    <3>1. thread'[u] = thread[u]
      BY <1>3, <2>3
    <3>2. thread[u] \in Calls /\ ShapeOf(u, thread[u])
      BY <1>1 DEF CallsOK, Shapes
    <3> QED
      BY <2>3, <3>1, <3>2 DEF SameCall, At, AtGate, Owing
  <2> QED
    BY <2>1, <2>2, <2>3
<1>9. StampsOK' /\ SameTickets
  BY <1>1, <1>2, SameStamps
<1>10. LatchOK'
  BY <1>1, <1>2, <1>4 DEF LatchOK
<1>11. Types'
  <2>1. CallsOK'
    BY <1>3, <1>8 DEF CallsOK
  <2> QED
    BY <1>2, <1>9, <1>10, <2>1 DEF Types, QueuesOK, PoolOK, gpuVars, poolVars
<1>12. Shapes'
  BY <1>8 DEF Shapes, ShapeOf
<1>13. Sleepers'
  <2>1. ASSUME NEW q \in Promises, NEW u \in waiters'[q]
        PROVE  thread'[u].step = "asleep" /\ thread'[u].promise = q
    <3>1. q # p /\ u \in waiters[q]
      BY <1>1, <1>4, <1>5, <2>1 DEF LatchOK
    <3>2. u \in Threads /\ thread[u].step = "asleep" /\ thread[u].promise = q
      BY <1>1, <3>1 DEF LatchOK, Sleepers, At
    <3>3. u # t
      BY <1>2, <3>2 DEF At
    <3>4. u \notin W
      <4>1. ASSUME u \in W PROVE thread[u].promise = p
        BY <1>6, <4>1
      <4> QED
        BY <3>1, <3>2, <4>1
    <3> QED
      BY <1>8, <3>2, <3>3, <3>4
  <2> QED
    BY <2>1 DEF Sleepers, At
<1> QED
  BY <1>2, <1>8, <1>9, <1>11, <1>12, <1>13 DEF Walk, Stride, Unmarked, Shaped, gpuVars, poolVars

-----------------------------------------------------------------------------
(* What keeps each part of the invariant.                                  *)
Grows ==
  \A d \in Deeds : \A k \in Keys :
    stamp[d].write[k] <= stamp'[d].write[k] /\ stamp[d].reads[k] <= stamp'[d].reads[k]

LEMMA SameGrow ==
  ASSUME StampsOK, SameTickets
  PROVE  Grows
<1> SUFFICES ASSUME NEW d \in Deeds, NEW k \in Keys
             PROVE  /\ stamp[d].write[k] <= stamp'[d].write[k]
                    /\ stamp[d].reads[k] <= stamp'[d].reads[k]
  BY DEF Grows
<1>1. stamp[d].write[k] \in Nat /\ stamp[d].reads[k] \in Nat
  <2>1. stamp[d].write \in Tables /\ stamp[d].reads \in Tables
    BY DEF StampsOK, StampTypes
  <2> QED
    BY <2>1, SettlementAssumption DEF Tables
<1> QED
  BY <1>1 DEF SameTickets

LEMMA StampValues ==
  ASSUME StampsOK, NEW d \in Deeds, NEW k \in Keys
  PROVE  stamp[d].write[k] \in Nat /\ stamp[d].reads[k] \in Nat
<1>1. stamp[d].write \in Tables /\ stamp[d].reads \in Tables
  BY DEF StampsOK, StampTypes
<1> QED
  BY <1>1, SettlementAssumption DEF Tables

LEMMA SubmitTypes ==
  ASSUME QueuesOK, NEW c \in Contexts, NEW i \in 1..Len(gpu[c])
  PROVE  /\ gpu[c][i] \in Submits /\ gpu[c][i].ticket \in 1..MaxTicket
         /\ gpu[c][i].ticket \in Nat \ {0}
         /\ gpu[c][i].writes \in BOOLEAN /\ gpu[c][i].deed \in Deeds /\ c \in Keys
<1>1. gpu[c][i] \in Submits
  BY DEF QueuesOK
<1> QED
  BY <1>1 DEF Submits, Keys

LEMMA LeasedKept ==
  ASSUME Leased, UNCHANGED <<deed, bin>>,
         \A u \in Threads :
           \/ thread'[u].op = "none"
           \/ /\ SameCall(u)
              /\ thread[u].ctx \in live => thread[u].ctx \in live'
              /\ thread[u].op = "view" => view'[u] = view[u]
  PROVE  Leased'
<1> SUFFICES ASSUME NEW t \in Threads, thread'[t].op # "none"
             PROVE  /\ bin' = "held" /\ thread'[t].deed = deed'
                    /\ thread'[t].op \in {"submit", "view"} => thread'[t].ctx \in live'
                    /\ thread'[t].op = "view" => view'[t] = 0
                    /\ thread'[t].op = "drop" =>
                         deed' < MaxDeeds /\ \A u \in Threads \ {t} : thread'[u].op = "none"
  BY DEF Leased
<1>1. SameCall(t)
  OBVIOUS
<1>2. thread[t].op = "drop" => \A u \in Threads \ {t} : thread'[u].op = "none"
  <2> SUFFICES ASSUME thread[t].op = "drop", NEW u \in Threads \ {t} PROVE thread'[u].op = "none"
    OBVIOUS
  <2>1. thread[u].op = "none"
    BY <1>1 DEF Leased, SameCall
  <2> QED
    BY <2>1 DEF SameCall
<1> QED
  BY <1>1, <1>2 DEF Leased, SameCall

LEMMA StillCovered ==
  ASSUME Types, Grows, StampsOK', NEW c \in Contexts, NEW i \in 1..Len(gpu[c]),
         CoveredBy(stamp[gpu[c][i].deed], c, gpu[c][i])
  PROVE  CoveredBy(stamp'[gpu[c][i].deed], c, gpu[c][i])
<1> DEFINE w == gpu[c][i]
<1>1. w.ticket \in Nat \ {0} /\ w.deed \in Deeds /\ c \in Keys
  BY SubmitTypes DEF Types
<1> SUFFICES CoveredBy(stamp'[w.deed], c, w)
  OBVIOUS
<1>2. CoveredBy(stamp[w.deed], c, w)
  OBVIOUS
<1> HIDE DEF w
<1>3. /\ stamp[w.deed].write[c] \in Nat /\ stamp[w.deed].reads[c] \in Nat
      /\ stamp'[w.deed].write[c] \in Nat /\ stamp'[w.deed].reads[c] \in Nat
  <2>1. /\ stamp[w.deed].write \in Tables /\ stamp[w.deed].reads \in Tables
        /\ stamp'[w.deed].write \in Tables /\ stamp'[w.deed].reads \in Tables
    BY <1>1 DEF Types, StampsOK, StampTypes
  <2>2. \A T \in Tables : T[c] \in Nat
    BY <1>1, SettlementAssumption DEF Tables
  <2> QED
    BY <2>1, <2>2
<1> QED
  BY <1>1, <1>2, <1>3 DEF Grows, CoveredBy

LEMMA StillRecorded ==
  ASSUME Types, Recording, Grows, StampsOK',
         \A u \in Threads : At(u, "stamp") => thread'[u] = thread[u],
         NEW c \in Contexts, NEW i \in 1..Len(gpu[c])
  PROVE  \/ CoveredBy(stamp'[gpu[c][i].deed], c, gpu[c][i])
         \/ \E t \in Threads :
              /\ thread'[t].step = "stamp"
              /\ thread'[t].ctx = c /\ thread'[t].tv = gpu[c][i].ticket
              /\ thread'[t].deed = gpu[c][i].deed
              /\ gpu[c][i].writes <=> thread'[t].kind \in Writing
<1> DEFINE w == gpu[c][i]
<1>1. w.ticket \in Nat \ {0} /\ w.deed \in Deeds /\ c \in Keys
  BY SubmitTypes DEF Types
<1>2. CoveredBy(stamp[w.deed], c, w) \/ \E t \in Threads : Stamping(t, c, w)
  BY DEF Recording
<1> HIDE DEF w
<1>3. CASE CoveredBy(stamp[w.deed], c, w)
  <2>1. CoveredBy(stamp'[w.deed], c, w)
    BY <1>3, StillCovered DEF w
  <2> QED
    BY <2>1 DEF w
<1>4. CASE \E t \in Threads : Stamping(t, c, w)
  <2>1. PICK t \in Threads : Stamping(t, c, w)
    BY <1>4
  <2>2. thread'[t] = thread[t]
    BY <2>1 DEF Stamping
  <2> QED
    BY <2>1, <2>2 DEF w, Stamping, At
<1> QED
  BY <1>2, <1>3, <1>4

LEMMA RecordingKept ==
  ASSUME Types, Recording, UNCHANGED gpu, Grows, StampsOK',
         \A u \in Threads : At(u, "stamp") => thread'[u] = thread[u]
  PROVE  Recording'
  BY StillRecorded DEF Recording, Stamping, At, CoveredBy

LEMMA StillAwaited ==
  ASSUME Types, Awaiting, Grows, StampsOK', Shapes,
         NEW t \in Threads, thread'[t].op \in {"settle", "drop"}, SameCall(t),
         thread'[t].step = "settled" => thread[t].step = "settled",
         NEW c \in Contexts, NEW i \in 1..Len(gpu[c]),
         gpu[c][i].ticket \in thread'[t].owed
  PROVE  /\ thread'[t].step # "settled"
         /\ \/ gpu[c][i].ticket <= stamp'[thread'[t].deed].write[c]
            \/ gpu[c][i].ticket <= stamp'[thread'[t].deed].reads[c]
<1> DEFINE w == gpu[c][i]
           d == thread[t].deed
<1>1. w.ticket \in Nat \ {0} /\ c \in Keys
  BY SubmitTypes DEF Types
<1>2. SameCall(t) /\ (thread'[t].step = "settled" => thread[t].step = "settled")
  OBVIOUS
<1>3. Settling(t) /\ w.ticket \in thread[t].owed /\ thread'[t].deed = d
  BY <1>2 DEF SameCall, Settling
<1>4. thread[t].step # "settled" /\ (w.ticket <= stamp[d].write[c] \/ w.ticket <= stamp[d].reads[c])
  BY <1>3 DEF Awaiting
<1>5. d \in Deeds
  BY <1>3 DEF Shapes, ShapeOf, Settling
<1> HIDE DEF w, d
<1>6. /\ stamp[d].write[c] \in Nat /\ stamp[d].reads[c] \in Nat
      /\ stamp'[d].write[c] \in Nat /\ stamp'[d].reads[c] \in Nat
  <2>1. /\ stamp[d].write \in Tables /\ stamp[d].reads \in Tables
        /\ stamp'[d].write \in Tables /\ stamp'[d].reads \in Tables
    BY <1>5 DEF Types, StampsOK, StampTypes
  <2> QED
    BY <1>1, <2>1, SettlementAssumption, SMTT(30) DEF Tables
<1>7. w.ticket <= stamp'[d].write[c] \/ w.ticket <= stamp'[d].reads[c]
  BY <1>1, <1>4, <1>5, <1>6 DEF Grows
<1> QED
  BY <1>2, <1>3, <1>4, <1>7 DEF w

LEMMA AwaitingKept ==
  ASSUME Types, Awaiting, UNCHANGED gpu, Grows, StampsOK', Shapes,
         \A u \in Threads : thread'[u].op \in {"settle", "drop"} =>
           /\ SameCall(u)
           /\ thread'[u].step = "settled" => thread[u].step = "settled"
  PROVE  Awaiting'
<1> SUFFICES ASSUME NEW t \in Threads, thread'[t].op \in {"settle", "drop"},
                    NEW c \in Contexts, NEW i \in 1..Len(gpu[c]),
                    gpu[c][i].ticket \in thread'[t].owed
             PROVE  /\ thread'[t].step # "settled"
                    /\ \/ gpu[c][i].ticket <= stamp'[thread'[t].deed].write[c]
                       \/ gpu[c][i].ticket <= stamp'[thread'[t].deed].reads[c]
  BY DEF Awaiting, Settling
<1> QED
  BY StillAwaited

LEMMA OwedKept ==
  ASSUME Types, Owed, next' \in {next, next + 1},
         \A u \in Threads : thread'[u].op \in {"settle", "drop"} => SameCall(u)
  PROVE  Owed'
<1> SUFFICES ASSUME NEW t \in Threads, thread'[t].op \in {"settle", "drop"},
                    NEW k \in thread'[t].owed
             PROVE  k < next'
  BY DEF Owed, Settling
<1>1. Settling(t) /\ k \in thread[t].owed
  BY DEF SameCall, Settling
<1>2. k < next /\ k \in Nat /\ next \in Nat
  BY <1>1, CallFieldTypes DEF Owed, Types, QueuesOK
<1> QED
  BY <1>2

LEMMA RoomKept ==
  ASSUME \A u \in Threads : (AtGate(u)' => AtGate(u)) /\ (Owing(u)' => Owing(u))
  PROVE  Cardinality(Gated') <= Cardinality(Gated) /\ Cardinality(Owers') <= Cardinality(Owers)
<1>1. Gated' \subseteq Gated /\ Owers' \subseteq Owers
  BY DEF Gated, Owers
<1>2. IsFiniteSet(Gated) /\ IsFiniteSet(Owers)
  BY ThreadsCount DEF Gated, Owers
<1> QED
  BY <1>1, <1>2, FS_Subset

LEMMA CountedKept ==
  ASSUME Types, Types', Counted, UNCHANGED view,
         \A d \in Deeds : stamp'[d].claims = stamp[d].claims,
         \A u \in Threads : (AtGate(u)' => AtGate(u)) /\ (Owing(u)' => Owing(u)),
         \/ next' = next
         \/ next' = next + 1 /\ \E t \in Threads : AtGate(t) /\ ~AtGate(t)',
         \/ promises' = promises
         \/ promises' = promises + 1 /\ \E t \in Threads : Owing(t) /\ ~Owing(t)'
  PROVE  Counted'
<1>1. /\ Cardinality(Gated') <= Cardinality(Gated) /\ Cardinality(Owers') <= Cardinality(Owers)
      /\ IsFiniteSet(Gated) /\ IsFiniteSet(Owers)
      /\ Cardinality(Gated) \in Nat /\ Cardinality(Owers) \in Nat
      /\ Cardinality(Gated') \in Nat /\ Cardinality(Owers') \in Nat
  <2>1. Gated \in SUBSET Threads /\ Owers \in SUBSET Threads
    BY DEF Gated, Owers
  <2>2. Gated' \in SUBSET Threads /\ Owers' \in SUBSET Threads
    BY DEF Gated, Owers
  <2> QED
    BY <2>1, <2>2, RoomKept, ThreadsCount
<1>2. \A d \in Deeds : stamp'[d].claims = Cardinality(ViewsOf(d)')
  BY DEF Counted, ViewsOf
<1>3. next' + Cardinality(Gated') <= MaxTicket + 1
  <2>1. next \in Nat /\ next + Cardinality(Gated) <= MaxTicket + 1 /\ MaxTicket \in Nat
    BY SettlementAssumption DEF Counted, Types, QueuesOK
  <2>2. CASE next' = next
    BY <1>1, <2>1, <2>2
  <2>3. CASE next' = next + 1 /\ \E t \in Threads : AtGate(t) /\ ~AtGate(t)'
    <3>1. PICK t \in Threads : AtGate(t) /\ ~AtGate(t)'
      BY <2>3
    <3>2. Gated' \subseteq Gated \ {t} /\ t \in Gated
      BY <3>1 DEF Gated
    <3>3. IsFiniteSet(Gated \ {t}) /\ Cardinality(Gated \ {t}) = Cardinality(Gated) - 1
      BY <1>1, <3>2, FS_RemoveElement
    <3>4. Cardinality(Gated') <= Cardinality(Gated) - 1
      BY <3>2, <3>3, FS_Subset
    <3> QED
      BY <1>1, <2>1, <2>3, <3>4
  <2> QED
    BY <2>2, <2>3
<1>4. promises' + Cardinality(Owers') <= MaxPromises
  <2>1. promises \in Nat /\ promises + Cardinality(Owers) <= MaxPromises /\ MaxPromises \in Nat
    BY SettlementAssumption DEF Counted, Types, LatchOK
  <2>2. CASE promises' = promises
    BY <1>1, <2>1, <2>2
  <2>3. CASE promises' = promises + 1 /\ \E t \in Threads : Owing(t) /\ ~Owing(t)'
    <3>1. PICK t \in Threads : Owing(t) /\ ~Owing(t)'
      BY <2>3
    <3>2. Owers' \subseteq Owers \ {t} /\ t \in Owers
      BY <3>1 DEF Owers
    <3>3. IsFiniteSet(Owers \ {t}) /\ Cardinality(Owers \ {t}) = Cardinality(Owers) - 1
      BY <1>1, <3>2, FS_RemoveElement
    <3>4. Cardinality(Owers') <= Cardinality(Owers) - 1
      BY <3>2, <3>3, FS_Subset
    <3> QED
      BY <1>1, <2>1, <2>3, <3>4
  <2> QED
    BY <2>2, <2>3
<1> QED
  BY <1>2, <1>3, <1>4 DEF Counted

(* A step inside of calls keeps what does not speak of its own thread's    *)
(* progress.                                                               *)
LEMMA StrideKeeps ==
  ASSUME SettlementOrder, Stride, Shaped
  PROVE  Leased' /\ Queues' /\ Recording' /\ Binned' /\ Owed'
<1>1. /\ UNCHANGED <<live, next, gpu, progress, view, deed, bin, readyAfter>>
      /\ SameTickets
      /\ \A u \in Threads : /\ thread'[u].op = "none" \/ SameCall(u)
                            /\ At(u, "stamp") => thread'[u] = thread[u]
  BY DEF Stride
<1>2. Types /\ StampsOK' /\ Grows
  BY <1>1, SameGrow DEF SettlementOrder, Shaped, Types
<1>3. Leased'
  BY <1>1, LeasedKept DEF SettlementOrder
<1>4. Queues'
  BY <1>1 DEF SettlementOrder, Queues
<1>5. Recording'
  BY <1>1, <1>2, RecordingKept DEF SettlementOrder
<1>6. Binned'
  BY <1>1 DEF SettlementOrder, Binned
<1>7. Owed'
  BY <1>1, <1>2, OwedKept DEF SettlementOrder
<1> QED
  BY <1>3, <1>4, <1>5, <1>6, <1>7

LEMMA StrideCounts ==
  ASSUME SettlementOrder, Stride, Shaped,
         \/ promises' = promises
         \/ promises' = promises + 1 /\ \E t \in Threads : Owing(t) /\ ~Owing(t)'
  PROVE  Counted'
  BY CountedKept DEF SettlementOrder, Shaped, Stride, SameTickets

LEMMA WalkKeeps ==
  ASSUME SettlementOrder, Walk, Shaped,
         \/ promises' = promises
         \/ promises' = promises + 1 /\ \E t \in Threads : Owing(t) /\ ~Owing(t)'
  PROVE  SettlementOrder'
<1>1. Stride /\ \A u \in Threads : Unmarked(u)
  BY DEF Walk
<1>2. Awaiting'
  <2>1. UNCHANGED gpu /\ SameTickets
    BY <1>1 DEF Stride
  <2>2. Types /\ Awaiting /\ Shapes /\ StampsOK' /\ Grows
    BY <2>1, SameGrow DEF SettlementOrder, Shaped, Types
  <2>3. \A u \in Threads : thread'[u].op \in {"settle", "drop"} =>
           /\ SameCall(u)
           /\ thread'[u].step = "settled" => thread[u].step = "settled"
    BY <1>1 DEF Stride, Unmarked, Marked
  <2> QED
    BY <2>1, <2>2, <2>3, AwaitingKept
<1> QED
  BY <1>1, <1>2, StrideKeeps, StrideCounts DEF SettlementOrder, Shaped

-----------------------------------------------------------------------------
(* A call that goes on or returns, and changes nothing else.               *)
LEMMA PutStride ==
  ASSUME Types, Shapes, Sleepers, NEW t \in Threads, NEW r \in Calls, ShapeOf(t, r),
         thread' = [thread EXCEPT ![t] = r], thread[t].step \notin {"stamp", "asleep"},
         r.step # "asleep",
         \/ r.op = "none"
         \/ /\ r.op = thread[t].op /\ r.ctx = thread[t].ctx /\ r.kind = thread[t].kind
            /\ r.deed = thread[t].deed /\ r.owed = thread[t].owed
            /\ r.op = "submit" => r.tv = thread[t].tv,
         thread[t].step \notin Resolving,
         UNCHANGED <<gpuVars, stamp, latchVars, view, poolVars>>
  PROVE  /\ Stride /\ Shaped /\ promises' = promises
         /\ thread'[t] = r /\ \A u \in Threads : u # t => thread'[u] = thread[u]
<1>1. StampsOK' /\ SameTickets
  BY SameStamps DEF Types
<1>2. LatchOK' /\ Sleeps(t, r.step, r.promise)
  BY SameLatch DEF Types
<1>3. /\ CallsOK' /\ Shapes' /\ Sleepers'
      /\ thread'[t] = r /\ \A u \in Threads : u # t => thread'[u] = thread[u]
  BY <1>2, PutCall
<1>4. Types'
  BY <1>1, <1>2, <1>3 DEF Types, QueuesOK, PoolOK, gpuVars, poolVars
<1>5. ASSUME NEW u \in Threads
      PROVE  /\ thread'[u].op = "none" \/ SameCall(u)
             /\ At(u, "stamp") => thread'[u] = thread[u]
             /\ AtGate(u)' => AtGate(u)
             /\ Owing(u)' => Owing(u)
  <2>1. CASE u = t
    BY <2>1, <1>3 DEF SameCall, At, AtGate, Owing, Resolving
  <2>2. CASE u # t
    BY <2>2, <1>3 DEF SameCall, At, AtGate, Owing
  <2> QED
    BY <2>1, <2>2
<1> QED
  BY <1>1, <1>3, <1>4, <1>5 DEF Stride, Shaped, gpuVars, poolVars, latchVars

LEMMA PutKeeps ==
  ASSUME SettlementOrder, NEW t \in Threads, NEW r,
         Stride /\ Shaped /\ promises' = promises,
         thread'[t] = r, \A u \in Threads : u # t => thread'[u] = thread[u],
         r.op \in {"settle", "drop"} => SameCall(t) /\ r.step # "settled"
  PROVE  SettlementOrder'
<1>1. Awaiting'
  <2>1. UNCHANGED gpu /\ SameTickets
    BY DEF Stride
  <2>2. Types /\ Awaiting /\ Shapes /\ StampsOK' /\ Grows
    BY <2>1, SameGrow DEF SettlementOrder, Shaped, Types
  <2>3. ASSUME NEW u \in Threads, thread'[u].op \in {"settle", "drop"}
        PROVE  /\ SameCall(u)
               /\ thread'[u].step = "settled" => thread[u].step = "settled"
    <3>1. CASE u = t
      BY <2>3, <3>1
    <3>2. CASE u # t
      BY <2>3, <3>2 DEF SameCall
    <3> QED
      BY <3>1, <3>2
  <2> QED
    BY <2>1, <2>2, <2>3, AwaitingKept
<1> QED
  BY <1>1, StrideKeeps, StrideCounts DEF SettlementOrder, Shaped

LEMMA GateClaimsStep ==
  ASSUME Types, Shapes, Sleepers, NEW t \in Threads, GateClaims(t)
  PROVE  /\ Stride /\ Shaped /\ promises' = promises
         /\ \A u \in Threads : u # t => thread'[u] = thread[u]
         /\ thread'[t].op \notin {"settle", "drop", "view"}
         /\ \/ thread'[t] = Idle
            \/ /\ stamp[thread[t].deed].claims <= 0 /\ thread[t].op = "submit"
               /\ SameCall(t) /\ thread'[t].step = "submit"
<1>1. /\ At(t, "claims") /\ UNCHANGED <<gpuVars, stamp, latchVars, view, poolVars>>
      /\ CallsOK /\ ShapeOf(t, thread[t])
  BY DEF GateClaims, Types, Shapes
<1>2. thread[t].op = "submit" /\ thread[t].deed \in Deeds /\ thread[t].tv = 0
  <2>1. thread[t].op = "submit"
    BY <1>1, CallFieldTypes DEF ShapeOf, At, Waiting
  <2> QED
    BY <1>1, <2>1 DEF ShapeOf, At, Waiting, Resolving
<1>3. CASE stamp[thread[t].deed].claims > 0
  <2>1. thread' = [thread EXCEPT ![t] = Idle]
    BY <1>3 DEF GateClaims, Return
  <2>2. Idle \in Calls /\ ShapeOf(t, Idle) /\ Idle.op = "none" /\ Idle.step = "idle"
    BY IdleCall DEF Idle
  <2> HIDE DEF Idle
  <2> QED
    BY <1>1, <2>1, <2>2, PutStride DEF At, Resolving
<1>4. CASE ~(stamp[thread[t].deed].claims > 0)
  <2> DEFINE r == Going(t, "submit", thread[t].blocking, thread[t].promise, thread[t].tv)
  <2>1. "submit" \in Steps
    BY StepNames
  <2>2. /\ r \in Calls
        /\ r.step = "submit" /\ r.tv = thread[t].tv
        /\ r.op = thread[t].op /\ r.ctx = thread[t].ctx /\ r.kind = thread[t].kind
        /\ r.deed = thread[t].deed /\ r.owed = thread[t].owed
    BY <1>1, <2>1, GoingFields, CallFieldTypes
  <2>3. thread' = [thread EXCEPT ![t] = r]
    BY <1>1, <1>4, <2>1, GotoGoes DEF GateClaims
  <2> HIDE DEF r
  <2>4. ShapeOf(t, r)
    BY <1>1, <1>2, <2>2 DEF ShapeOf
  <2>5. /\ Stride /\ Shaped /\ promises' = promises
        /\ thread'[t] = r /\ \A u \in Threads : u # t => thread'[u] = thread[u]
    BY <1>1, <2>2, <2>3, <2>4, PutStride DEF At, Resolving
  <2>6. stamp[thread[t].deed].claims <= 0
    <3>1. stamp[thread[t].deed].claims \in Int
      BY <1>2 DEF Types, StampsOK, StampTypes
    <3> QED
      BY <1>4, <3>1
  <2> QED
    BY <1>2, <2>2, <2>5, <2>6 DEF SameCall
<1> QED
  BY <1>3, <1>4

LEMMA GateClaimsKeeps ==
  ASSUME SettlementOrder, NEW t \in Threads, GateClaims(t)
  PROVE  SettlementOrder'
  BY GateClaimsStep, PutKeeps DEF SettlementOrder

LEMMA ViewWaitStep ==
  ASSUME Types, Shapes, Sleepers, NEW t \in Threads, ViewWait(t)
  PROVE  /\ Stride /\ Shaped /\ promises' = promises
         /\ \A u \in Threads : u # t => thread'[u] = thread[u]
         /\ thread[t].op = "view" /\ SameCall(t) /\ thread[t].deed \in Deeds
         /\ thread'[t].step = "viewepochs" /\ thread'[t].epochs = stamp[thread[t].deed].write
<1>1. /\ At(t, "viewwait") /\ UNCHANGED <<gpuVars, stamp, latchVars, view, poolVars>>
      /\ CallsOK /\ ShapeOf(t, thread[t]) /\ thread[t] \in Calls
  BY DEF ViewWait, Types, Shapes, CallsOK
<1>2. thread[t].op = "view"
  BY <1>1, CallFieldTypes DEF ShapeOf, At, Waiting, Resolving
<1> DEFINE e == stamp[thread[t].deed].write
           r == [thread[t] EXCEPT !.step = "viewepochs", !.epochs = e]
<1>3. thread[t].deed \in Deeds /\ t \in Hosts /\ thread[t].ctx \in Contexts
  BY <1>1, <1>2 DEF ShapeOf
<1>4. e \in Tables
  BY <1>3 DEF Types, StampsOK, StampTypes
<1>5. thread' = [thread EXCEPT ![t] = r]
  BY <1>1 DEF ViewWait, CallsOK
<1> HIDE DEF e
<1>6. /\ r \in Calls
      /\ r.step = "viewepochs" /\ r.epochs = e
      /\ r.op = thread[t].op /\ r.ctx = thread[t].ctx /\ r.kind = thread[t].kind
      /\ r.deed = thread[t].deed /\ r.owed = thread[t].owed
  BY <1>1, <1>4, StepNames DEF Calls
<1> HIDE DEF r
<1>7. ShapeOf(t, r)
  BY <1>2, <1>3, <1>6 DEF ShapeOf
<1>8. /\ Stride /\ Shaped /\ promises' = promises
      /\ thread'[t] = r /\ \A u \in Threads : u # t => thread'[u] = thread[u]
  BY <1>1, <1>2, <1>5, <1>6, <1>7, PutStride DEF At, Resolving
<1> QED
  BY <1>2, <1>3, <1>6, <1>8 DEF SameCall, e

LEMMA ViewWaitKeeps ==
  ASSUME SettlementOrder, NEW t \in Threads, ViewWait(t)
  PROVE  SettlementOrder'
<1>1. thread'[t].op = "view"
  BY ViewWaitStep DEF SettlementOrder, SameCall
<1> QED
  BY <1>1, ViewWaitStep, PutKeeps DEF SettlementOrder

LEMMA ViewEpochsStep ==
  ASSUME Types, Shapes, Sleepers, NEW t \in Threads, ViewEpochs(t)
  PROVE  /\ Stride /\ Shaped /\ promises' = promises
         /\ \A u \in Threads : u # t => thread'[u] = thread[u]
         /\ thread[t].op = "view" /\ SameCall(t) /\ thread[t].step = "viewepochs"
         /\ \/ thread'[t].step = "viewclaim" /\ IsReady(thread[t].epochs)
            \/ thread'[t].step = "panicked"
<1>1. /\ At(t, "viewepochs") /\ UNCHANGED <<gpuVars, stamp, latchVars, view, poolVars>>
      /\ CallsOK /\ ShapeOf(t, thread[t]) /\ thread[t] \in Calls
  BY DEF ViewEpochs, Types, Shapes, CallsOK
<1>2. thread[t].op = "view"
  BY <1>1, CallFieldTypes DEF ShapeOf, At, Waiting, Resolving
<1>3. PICK s \in {"viewclaim", "panicked"} :
        Goto(t, s) /\ (s = "viewclaim" => IsReady(thread[t].epochs))
  BY DEF ViewEpochs
<1> DEFINE r == Going(t, s, thread[t].blocking, thread[t].promise, thread[t].tv)
<1>4. s \in Steps
  BY StepNames
<1>5. /\ r \in Calls
      /\ r.step = s /\ r.tv = thread[t].tv
      /\ r.op = thread[t].op /\ r.ctx = thread[t].ctx /\ r.kind = thread[t].kind
      /\ r.deed = thread[t].deed /\ r.owed = thread[t].owed
  BY <1>1, <1>4, GoingFields, CallFieldTypes
<1>6. thread' = [thread EXCEPT ![t] = r]
  BY <1>1, <1>3, <1>4, GotoGoes
<1> HIDE DEF r
<1>7. ShapeOf(t, r)
  BY <1>1, <1>2, <1>5 DEF ShapeOf
<1>8. /\ Stride /\ Shaped /\ promises' = promises
      /\ thread'[t] = r /\ \A u \in Threads : u # t => thread'[u] = thread[u]
  BY <1>1, <1>2, <1>5, <1>6, <1>7, PutStride DEF At, Resolving
<1> QED
  BY <1>1, <1>2, <1>3, <1>5, <1>8 DEF SameCall, At

LEMMA ViewEpochsKeeps ==
  ASSUME SettlementOrder, NEW t \in Threads, ViewEpochs(t)
  PROVE  SettlementOrder'
<1>1. thread'[t].op = "view"
  BY ViewEpochsStep DEF SettlementOrder, SameCall
<1> QED
  BY <1>1, ViewEpochsStep, PutKeeps DEF SettlementOrder

(* A settle that reports Ready: each context has passed what the stamp     *)
(* has of it.                                                              *)
LEMMA SettleMeasureStep ==
  ASSUME Types, Shapes, Sleepers, NEW t \in Threads, SettleMeasure(t)
  PROVE  /\ Stride /\ Shaped /\ promises' = promises
         /\ \A u \in Threads : u # t => thread'[u] = thread[u]
         /\ Settling(t) /\ thread[t].deed \in Deeds /\ SameCall(t)
         /\ thread'[t].step \in {"settled", "await"}
         /\ thread'[t].step = "settled" =>
              \A k \in Keys : ~(ProgressOf(k) < Merged(stamp[thread[t].deed])[k])
<1> DEFINE refs == Merged(stamp[thread[t].deed])
           late == {refs[k] : k \in {k \in Keys : ProgressOf(k) < refs[k]}}
           s    == IF late = {} THEN "settled" ELSE "await"
           v    == IF late = {} THEN 0 ELSE Max(late)
<1>1. /\ At(t, "measure") /\ UNCHANGED <<gpuVars, stamp, latchVars, view, poolVars>>
      /\ CallsOK /\ ShapeOf(t, thread[t]) /\ thread[t] \in Calls
  BY DEF SettleMeasure, Types, Shapes, CallsOK
<1>2. thread[t].op \in {"settle", "drop"} /\ thread[t].deed \in Deeds
  BY <1>1, CallFieldTypes DEF ShapeOf, At, Waiting, Resolving
<1>3. refs \in Tables
  <2>1. stamp[thread[t].deed] \in StampTypes
    BY <1>2 DEF Types, StampsOK
  <2> QED
    BY <2>1, MergedTables
<1>4. thread' = [thread EXCEPT ![t].step = s, ![t].tv = v]
  BY DEF SettleMeasure
<1> HIDE DEF refs
<1>5. v \in 0..MaxTicket
  <2>1. late \in SUBSET (0..MaxTicket)
    BY <1>3 DEF Tables
  <2>2. late # {} => Max(late) \in late
    <3> HIDE DEF late
    <3> QED
      BY <2>1, MaxIsElement, SettlementAssumption
  <2>3. v = 0 \/ (late # {} /\ v = Max(late))
    OBVIOUS
  <2> HIDE DEF late, v
  <2>4. 0 \in 0..MaxTicket
    BY SettlementAssumption
  <2> QED
    BY <2>1, <2>2, <2>3, <2>4
<1>6. late = {} => \A k \in Keys : ~(ProgressOf(k) < refs[k])
  OBVIOUS
<1>7. s \in Steps /\ s \in {"settled", "await"} /\ (s = "settled" => late = {})
  BY StepNames
<1> HIDE DEF s, v, late
<1> DEFINE r == Going(t, s, thread[t].blocking, thread[t].promise, v)
<1>8. /\ r \in Calls
      /\ r.step = s
      /\ r.op = thread[t].op /\ r.ctx = thread[t].ctx /\ r.kind = thread[t].kind
      /\ r.deed = thread[t].deed /\ r.owed = thread[t].owed
  BY <1>1, <1>5, <1>7, GoingFields, CallFieldTypes
<1>9. thread' = [thread EXCEPT ![t] = r]
  <2>1. [thread[t] EXCEPT !.step = s, !.tv = v] = r
    BY <1>1 DEF Going, Calls
  <2> QED
    BY <1>1, <1>4, <2>1 DEF CallsOK
<1> HIDE DEF r
<1>10. ShapeOf(t, r)
  BY <1>2, <1>7, <1>8 DEF ShapeOf
<1>11. /\ Stride /\ Shaped /\ promises' = promises
       /\ thread'[t] = r /\ \A u \in Threads : u # t => thread'[u] = thread[u]
  BY <1>1, <1>2, <1>7, <1>8, <1>9, <1>10, PutStride DEF At, Resolving
<1> QED
  BY <1>2, <1>6, <1>7, <1>8, <1>11 DEF SameCall, Settling, refs

LEMMA SettleMeasureKeeps ==
  ASSUME SettlementOrder, NEW t \in Threads, SettleMeasure(t)
  PROVE  SettlementOrder'
<1>1. Types /\ Shapes /\ Sleepers /\ Queues /\ Awaiting
  BY DEF SettlementOrder
<1>2. /\ Stride /\ Shaped /\ promises' = promises
      /\ \A u \in Threads : u # t => thread'[u] = thread[u]
      /\ Settling(t) /\ thread[t].deed \in Deeds /\ SameCall(t)
      /\ thread'[t].step \in {"settled", "await"}
      /\ thread'[t].step = "settled" =>
           \A k \in Keys : ~(ProgressOf(k) < Merged(stamp[thread[t].deed])[k])
  BY <1>1, SettleMeasureStep
<1>3. UNCHANGED <<gpu, live, progress>> /\ SameTickets
  BY <1>2 DEF Stride
<1>4. Awaiting'
  <2> SUFFICES ASSUME NEW u \in Threads, thread'[u].op \in {"settle", "drop"},
                      NEW c \in Contexts, NEW i \in 1..Len(gpu[c]),
                      gpu[c][i].ticket \in thread'[u].owed
               PROVE  /\ thread'[u].step # "settled"
                      /\ \/ gpu[c][i].ticket <= stamp'[thread'[u].deed].write[c]
                         \/ gpu[c][i].ticket <= stamp'[thread'[u].deed].reads[c]
    BY <1>3 DEF Awaiting, Settling
  <2> DEFINE w == gpu[c][i]
             d == thread[u].deed
  <2>1. Settling(u) /\ thread'[u].deed = d /\ w.ticket \in thread[u].owed
    BY <1>2 DEF SameCall, Settling
  <2>2. d \in Deeds
    BY <1>1, <2>1 DEF Shapes, ShapeOf, Settling
  <2>3. thread[u].step # "settled" /\ (w.ticket <= stamp[d].write[c] \/ w.ticket <= stamp[d].reads[c])
    BY <1>1, <2>1 DEF Awaiting
  <2>4. thread'[u].step # "settled"
    <3>1. CASE u # t
      BY <1>2, <2>3, <3>1
    <3>2. CASE u = t
      <4> SUFFICES ASSUME thread'[u].step = "settled" PROVE FALSE
        OBVIOUS
      <4>1. c \in Keys /\ w.ticket \in Nat
        BY <1>1, SubmitTypes DEF Types
      <4>2. ~(ProgressOf(c) < Merged(stamp[d])[c])
        BY <1>2, <3>2, <4>1
      <4>3. c \in live /\ progress[c] < w.ticket
        BY <1>1 DEF Queues
      <4>4. stamp[d] \in StampTypes /\ progress[c] \in Nat
        BY <1>1, <2>2, SettlementAssumption DEF Types, StampsOK, QueuesOK
      <4>5. /\ Merged(stamp[d])[c] \in Nat
            /\ stamp[d].write[c] <= Merged(stamp[d])[c] /\ stamp[d].reads[c] <= Merged(stamp[d])[c]
        <5>1. Merged(stamp[d]) \in Tables
          BY <4>4, MergedTables
        <5> QED
          BY <4>1, <4>4, <5>1, MergedTables, SettlementAssumption DEF Tables
      <4>6. stamp[d].write[c] \in Nat /\ stamp[d].reads[c] \in Nat
        BY <1>1, <2>2, <4>1, StampValues DEF Types
      <4> HIDE DEF w, d
      <4> QED
        BY <2>3, <4>1, <4>2, <4>3, <4>4, <4>5, <4>6 DEF ProgressOf
    <3> QED
      BY <3>1, <3>2
  <2> QED
    BY <1>3, <2>1, <2>2, <2>3, <2>4 DEF SameTickets
<1> QED
  BY <1>1, <1>2, <1>4, StrideKeeps, StrideCounts DEF SettlementOrder, Shaped

-----------------------------------------------------------------------------
(* The GPU is given a submit, and its next submit completes.               *)
LEMMA AppendedQueue ==
  ASSUME QueuesOK, NEW c \in Contexts, NEW w \in Submits, gpu' = [gpu EXCEPT ![c] = Append(@, w)]
  PROVE  /\ gpu' \in [Contexts -> Seq(Submits)] /\ gpu'[c] # << >>
         /\ \A e \in Contexts : e # c => gpu'[e] = gpu[e]
         /\ \A e \in Contexts : \A i \in 1..Len(gpu'[e]) :
              \/ i \in 1..Len(gpu[e]) /\ gpu'[e][i] = gpu[e][i]
              \/ e = c /\ i = Len(gpu[e]) + 1 /\ gpu'[e][i] = w
<1>1. gpu \in [Contexts -> Seq(Submits)] /\ gpu[c] \in Seq(Submits)
  BY DEF QueuesOK
<1>2. Append(gpu[c], w) \in Seq(Submits) /\ gpu'[c] = Append(gpu[c], w)
  BY <1>1
<1>3. gpu' \in [Contexts -> Seq(Submits)] /\ \A e \in Contexts : e # c => gpu'[e] = gpu[e]
  BY <1>1, <1>2
<1>4. ASSUME NEW e \in Contexts, NEW i \in 1..Len(gpu'[e])
      PROVE  \/ i \in 1..Len(gpu[e]) /\ gpu'[e][i] = gpu[e][i]
             \/ e = c /\ i = Len(gpu[e]) + 1 /\ gpu'[e][i] = w
  <2>1. CASE e # c
    BY <1>3, <2>1
  <2>2. CASE e = c
    BY <1>1, <1>2, <2>2
  <2> QED
    BY <2>1, <2>2
<1>5. gpu'[c] # << >>
  BY <1>1, <1>2
<1> QED
  BY <1>3, <1>4, <1>5

LEMMA ShortenedQueue ==
  ASSUME QueuesOK, NEW c \in Contexts, gpu[c] # << >>, gpu' = [gpu EXCEPT ![c] = Tail(@)]
  PROVE  /\ gpu' \in [Contexts -> Seq(Submits)] /\ Head(gpu[c]) = gpu[c][1] /\ 1 \in 1..Len(gpu[c])
         /\ \A e \in Contexts : e # c => gpu'[e] = gpu[e]
         /\ \A i \in 1..Len(gpu'[c]) : i + 1 \in 1..Len(gpu[c]) /\ gpu'[c][i] = gpu[c][i + 1]
         /\ \A e \in Contexts : \A i \in 1..Len(gpu'[e]) :
              \E j \in 1..Len(gpu[e]) : gpu'[e][i] = gpu[e][j]
<1>1. gpu \in [Contexts -> Seq(Submits)] /\ gpu[c] \in Seq(Submits)
  BY DEF QueuesOK
<1>2. Tail(gpu[c]) \in Seq(Submits) /\ gpu'[c] = Tail(gpu[c])
  BY <1>1
<1>3. gpu' \in [Contexts -> Seq(Submits)] /\ \A e \in Contexts : e # c => gpu'[e] = gpu[e]
  BY <1>1, <1>2
<1>4. \A i \in 1..Len(gpu'[c]) : i + 1 \in 1..Len(gpu[c]) /\ gpu'[c][i] = gpu[c][i + 1]
  BY <1>1, <1>2
<1>5. Head(gpu[c]) = gpu[c][1] /\ 1 \in 1..Len(gpu[c])
  BY <1>1
<1>6. ASSUME NEW e \in Contexts, NEW i \in 1..Len(gpu'[e])
      PROVE  \E j \in 1..Len(gpu[e]) : gpu'[e][i] = gpu[e][j]
  <2>1. CASE e # c
    BY <1>3, <2>1
  <2>2. CASE e = c
    BY <1>4, <2>2
  <2> QED
    BY <2>1, <2>2
<1> QED
  BY <1>3, <1>4, <1>5, <1>6

LEMMA RoomToSubmit ==
  ASSUME Types, Counted, NEW t \in Threads, AtGate(t)
  PROVE  next \in 1..MaxTicket
<1>1. Gated \in SUBSET Threads /\ t \in Gated
  BY DEF Gated
<1>2. IsFiniteSet(Gated) /\ Cardinality(Gated) \in Nat
  BY <1>1, ThreadsCount
<1>3. Cardinality(Gated) # 0
  BY <1>1, <1>2, FS_EmptySet
<1> QED
  BY <1>2, <1>3, SettlementAssumption DEF Counted, Types, QueuesOK

Submitted(t) ==
  [ticket |-> next, writes |-> thread[t].kind \in Writing, deed |-> thread[t].deed]

LEMMA SubmitStep ==
  ASSUME SettlementOrder, NEW t \in Threads, Submit(t)
  PROVE  /\ Shaped /\ AtGate(t) /\ thread[t].step = "submit"
         /\ thread[t].ctx \in Contexts /\ thread[t].ctx \in live
         /\ bin = "held" /\ thread[t].deed = deed
         /\ Submitted(t) \in Submits /\ next \in 1..MaxTicket
         /\ gpu' = [gpu EXCEPT ![thread[t].ctx] = Append(@, Submitted(t))]
         /\ next' = next + 1
         /\ UNCHANGED <<live, progress, stamp, promise, park, waiters, promises, view, deed, bin,
                        readyAfter>>
         /\ \A u \in Threads : u # t => thread'[u] = thread[u]
         /\ SameCall(t) /\ thread'[t].step = "stamp" /\ thread'[t].tv = next
<1> DEFINE c == thread[t].ctx
           r == Going(t, "stamp", thread[t].blocking, thread[t].promise, next)
<1>1. Types /\ Shapes /\ Sleepers /\ Counted /\ Leased
  BY DEF SettlementOrder
<1>2. /\ At(t, "submit") /\ UNCHANGED <<live, progress, stamp, latchVars, view, poolVars>>
      /\ CallsOK /\ ShapeOf(t, thread[t]) /\ thread[t] \in Calls /\ QueuesOK
      /\ next' = next + 1
      /\ gpu' = [gpu EXCEPT ![c] = Append(@, Submitted(t))]
      /\ thread' = [thread EXCEPT ![t].step = "stamp", ![t].tv = next]
  BY <1>1 DEF Submit, Types, Shapes, CallsOK, Submitted
<1>3. thread[t].op = "submit" /\ thread[t].tv = 0 /\ c \in Contexts /\ thread[t].deed \in Deeds
      /\ thread[t].kind \in Kinds[t]
  <2>1. thread[t].op = "submit"
    BY <1>2, CallFieldTypes DEF ShapeOf, At, Waiting
  <2> QED
    BY <1>2, <2>1 DEF ShapeOf, At, Waiting, Resolving
<1>4. AtGate(t) /\ next \in 1..MaxTicket
  <2>1. AtGate(t)
    BY <1>3 DEF AtGate
  <2> QED
    BY <1>1, <2>1, RoomToSubmit
<1>5. c \in live /\ bin = "held" /\ thread[t].deed = deed
  BY <1>1, <1>3 DEF Leased
<1>6. Submitted(t) \in Submits
  BY <1>3, <1>4 DEF Submitted, Submits
<1>7. thread' = [thread EXCEPT ![t] = r]
  <2>1. [thread[t] EXCEPT !.step = "stamp", !.tv = next] = r
    BY <1>2 DEF Going, Calls
  <2> QED
    BY <1>2, <2>1 DEF CallsOK
<1>8. "stamp" \in Steps /\ next \in 0..MaxTicket
  BY <1>4, StepNames
<1>9. /\ r \in Calls
      /\ r.step = "stamp" /\ r.tv = next
      /\ r.op = thread[t].op /\ r.ctx = thread[t].ctx /\ r.kind = thread[t].kind
      /\ r.deed = thread[t].deed /\ r.owed = thread[t].owed
  BY <1>2, <1>8, GoingFields, CallFieldTypes
<1> HIDE DEF r
<1>10. ShapeOf(t, r)
  BY <1>3, <1>4, <1>9 DEF ShapeOf
<1>11. LatchOK' /\ Sleeps(t, r.step, r.promise)
  BY <1>1, <1>2, SameLatch DEF Types
<1>12. /\ CallsOK' /\ Shapes' /\ Sleepers'
       /\ thread'[t] = r /\ \A u \in Threads : u # t => thread'[u] = thread[u]
  BY <1>1, <1>2, <1>7, <1>9, <1>10, <1>11, PutCall DEF At
<1>13. Types'
  <2>1. gpu' \in [Contexts -> Seq(Submits)]
    BY <1>2, <1>3, <1>6, AppendedQueue
  <2>2. next' \in Nat \ {0}
    BY <1>2, <1>4
  <2>3. QueuesOK'
    BY <1>2, <2>1, <2>2 DEF QueuesOK
  <2>4. StampsOK'
    BY <1>1, <1>2, SameStamps DEF Types
  <2> QED
    BY <1>1, <1>2, <1>11, <1>12, <2>3, <2>4 DEF Types, PoolOK, poolVars
<1> QED
  BY <1>2, <1>3, <1>4, <1>5, <1>6, <1>9, <1>12, <1>13
     DEF Shaped, SameCall, At, latchVars, poolVars

LEMMA SubmitKeeps ==
  ASSUME SettlementOrder, NEW t \in Threads, Submit(t)
  PROVE  SettlementOrder'
<1> DEFINE c == thread[t].ctx
           w == Submitted(t)
<1>1. /\ Types /\ Shapes /\ Leased /\ Queues /\ Recording /\ Binned /\ Awaiting /\ Owed /\ Counted
      /\ QueuesOK /\ StampsOK
  BY DEF SettlementOrder, Types
<1>2. /\ Shaped /\ AtGate(t) /\ thread[t].step = "submit"
      /\ c \in Contexts /\ c \in live
      /\ bin = "held" /\ thread[t].deed = deed
      /\ w \in Submits /\ next \in 1..MaxTicket
      /\ gpu' = [gpu EXCEPT ![c] = Append(@, w)]
      /\ next' = next + 1
      /\ UNCHANGED <<live, progress, stamp, promise, park, waiters, promises, view, deed, bin,
                     readyAfter>>
      /\ \A u \in Threads : u # t => thread'[u] = thread[u]
      /\ SameCall(t) /\ thread'[t].step = "stamp" /\ thread'[t].tv = next
  BY SubmitStep
<1>3. /\ \A e \in Contexts : e # c => gpu'[e] = gpu[e]
      /\ \A e \in Contexts : \A i \in 1..Len(gpu'[e]) :
           \/ i \in 1..Len(gpu[e]) /\ gpu'[e][i] = gpu[e][i]
           \/ e = c /\ i = Len(gpu[e]) + 1 /\ gpu'[e][i] = w
  BY <1>1, <1>2, AppendedQueue
<1>4. w.ticket = next /\ w.deed = deed /\ (w.writes <=> thread[t].kind \in Writing)
  BY <1>2 DEF Submitted
<1> HIDE DEF w, c
<1>5. Types' /\ Shapes' /\ Sleepers' /\ StampsOK' /\ SameTickets /\ Grows
  BY <1>1, <1>2, SameStamps, SameGrow DEF Shaped, Types
<1>6. Leased'
  <2>1. ASSUME NEW u \in Threads
        PROVE  \/ thread'[u].op = "none"
               \/ /\ SameCall(u)
                  /\ thread[u].ctx \in live => thread[u].ctx \in live'
                  /\ thread[u].op = "view" => view'[u] = view[u]
    BY <1>2 DEF SameCall
  <2> QED
    BY <1>1, <1>2, <2>1, LeasedKept
<1>7. Queues'
  <2>1. ASSUME NEW e \in Contexts, NEW i \in 1..Len(gpu'[e])
        PROVE  /\ progress[e] < gpu'[e][i].ticket /\ gpu'[e][i].ticket < next + 1
               /\ \A j \in 1..Len(gpu'[e]) : i < j => gpu'[e][i].ticket < gpu'[e][j].ticket
    <3>1. progress[e] \in Nat /\ next \in Nat /\ progress[e] < next
      BY <1>1, <1>2, SettlementAssumption DEF QueuesOK, Queues
    <3>2. \A k \in 1..Len(gpu[e]) : gpu[e][k].ticket \in Nat
      BY <1>1, SubmitTypes
    <3>3. CASE i \in 1..Len(gpu[e]) /\ gpu'[e][i] = gpu[e][i]
      <4>1. progress[e] < gpu[e][i].ticket /\ gpu[e][i].ticket < next
        BY <1>1, <3>3 DEF Queues
      <4>2. ASSUME NEW j \in 1..Len(gpu'[e]), i < j PROVE gpu[e][i].ticket < gpu'[e][j].ticket
        <5>1. CASE j \in 1..Len(gpu[e]) /\ gpu'[e][j] = gpu[e][j]
          BY <1>1, <3>3, <4>2, <5>1 DEF Queues
        <5>2. CASE gpu'[e][j] = w
          BY <1>4, <4>1, <5>2
        <5> QED
          BY <1>3, <5>1, <5>2
      <4> QED
        BY <3>1, <3>2, <3>3, <4>1, <4>2
    <3>4. CASE e = c /\ i = Len(gpu[e]) + 1 /\ gpu'[e][i] = w
      <4>1. \A j \in 1..Len(gpu'[e]) : ~(i < j)
        <5>1. Len(gpu[e]) \in Nat
          BY <1>1 DEF QueuesOK
        <5> QED
          BY <1>3, <3>4, <5>1
      <4> QED
        BY <1>4, <3>1, <3>4, <4>1
    <3> QED
      BY <1>3, <3>3, <3>4
  <2>2. \A e \in Contexts : progress'[e] < next'
    <3>1. \A e \in Contexts : progress[e] \in Nat /\ progress[e] < next /\ next \in Nat
      BY <1>1, <1>2, SettlementAssumption DEF QueuesOK, Queues
    <3> QED
      BY <1>2, <3>1
  <2>3. \A e \in Contexts \ live' : gpu'[e] = << >>
    BY <1>1, <1>2, <1>3 DEF Queues
  <2> QED
    BY <1>2, <2>1, <2>2, <2>3 DEF Queues
<1>8. Recording'
  <2>1. \A u \in Threads : At(u, "stamp") => thread'[u] = thread[u]
    BY <1>2 DEF At
  <2>2. ASSUME NEW e \in Contexts, NEW i \in 1..Len(gpu'[e])
        PROVE  \/ CoveredBy(stamp'[gpu'[e][i].deed], e, gpu'[e][i])
               \/ \E u \in Threads :
                    /\ thread'[u].step = "stamp"
                    /\ thread'[u].ctx = e /\ thread'[u].tv = gpu'[e][i].ticket
                    /\ thread'[u].deed = gpu'[e][i].deed
                    /\ gpu'[e][i].writes <=> thread'[u].kind \in Writing
    <3>1. CASE i \in 1..Len(gpu[e]) /\ gpu'[e][i] = gpu[e][i]
      BY <1>1, <1>5, <2>1, <3>1, StillRecorded
    <3>2. CASE e = c /\ gpu'[e][i] = w
      <4>1. thread'[t].ctx = c /\ thread'[t].deed = deed /\ thread'[t].kind = thread[t].kind
        BY <1>2 DEF SameCall, c
      <4> QED
        BY <1>2, <1>4, <3>2, <4>1
    <3> QED
      BY <1>3, <3>1, <3>2
  <2> QED
    BY <2>2 DEF Recording, Stamping, At, CoveredBy
<1>9. Binned'
  BY <1>1, <1>2, <1>3, <1>4 DEF Binned
<1>10. Awaiting'
  <2> SUFFICES ASSUME NEW u \in Threads, thread'[u].op \in {"settle", "drop"},
                      NEW e \in Contexts, NEW i \in 1..Len(gpu'[e]),
                      gpu'[e][i].ticket \in thread'[u].owed
               PROVE  /\ thread'[u].step # "settled"
                      /\ \/ gpu'[e][i].ticket <= stamp'[thread'[u].deed].write[e]
                         \/ gpu'[e][i].ticket <= stamp'[thread'[u].deed].reads[e]
    BY DEF Awaiting, Settling
  <2>1. SameCall(u) /\ (thread'[u].step = "settled" => thread[u].step = "settled")
    BY <1>2 DEF SameCall
  <2>2. CASE i \in 1..Len(gpu[e]) /\ gpu'[e][i] = gpu[e][i]
    BY <1>1, <1>5, <2>1, <2>2, StillAwaited
  <2>3. gpu'[e][i] # w
    <3>1. Settling(u) /\ gpu'[e][i].ticket \in thread[u].owed
      BY <2>1 DEF SameCall, Settling
    <3>2. gpu'[e][i].ticket < next /\ next \in Nat
      BY <1>1, <3>1 DEF Owed, QueuesOK
    <3> QED
      BY <1>4, <3>2
  <2> QED
    BY <1>3, <2>2, <2>3
<1>11. Owed'
  BY <1>1, <1>2, OwedKept DEF SameCall
<1>12. Counted'
  <2>1. ~AtGate(t)'
    BY <1>2 DEF AtGate
  <2>2. \A u \in Threads : (AtGate(u)' => AtGate(u)) /\ (Owing(u)' => Owing(u))
    BY <1>2 DEF AtGate, Owing, SameCall
  <2> QED
    BY <1>1, <1>2, <1>5, <2>1, <2>2, CountedKept
<1> QED
  BY <1>5, <1>6, <1>7, <1>8, <1>9, <1>10, <1>11, <1>12 DEF SettlementOrder

LEMMA CompleteKeeps ==
  ASSUME SettlementOrder, NEW c \in Contexts, Complete(c)
  PROVE  SettlementOrder'
<1>1. /\ Types /\ Shapes /\ Sleepers /\ Leased /\ Queues /\ Recording /\ Binned /\ Awaiting /\ Owed
      /\ Counted /\ QueuesOK /\ StampsOK
  BY DEF SettlementOrder, Types
<1>2. /\ gpu[c] # << >>
      /\ progress' = [progress EXCEPT ![c] = Head(gpu[c]).ticket]
      /\ gpu' = [gpu EXCEPT ![c] = Tail(@)]
      /\ UNCHANGED <<live, next, stamp, promise, park, waiters, promises, thread, view, deed, bin,
                     readyAfter>>
  BY DEF Complete, latchVars, poolVars
<1>3. /\ gpu' \in [Contexts -> Seq(Submits)] /\ Head(gpu[c]) = gpu[c][1] /\ 1 \in 1..Len(gpu[c])
      /\ \A e \in Contexts : e # c => gpu'[e] = gpu[e]
      /\ \A i \in 1..Len(gpu'[c]) : i + 1 \in 1..Len(gpu[c]) /\ gpu'[c][i] = gpu[c][i + 1]
      /\ \A e \in Contexts : \A i \in 1..Len(gpu'[e]) :
           \E j \in 1..Len(gpu[e]) : gpu'[e][i] = gpu[e][j]
  BY <1>1, <1>2, ShortenedQueue
<1>4. gpu[c][1].ticket \in 1..MaxTicket /\ gpu[c][1].ticket < next
  BY <1>1, <1>3, SubmitTypes DEF Queues
<1>5. progress'[c] = gpu[c][1].ticket /\ \A e \in Contexts : e # c => progress'[e] = progress[e]
  BY <1>1, <1>2, <1>3 DEF QueuesOK
<1>6. Types'
  <2>1. progress' \in [Contexts -> 0..MaxTicket]
    <3>1. gpu[c][1].ticket \in 0..MaxTicket
      BY <1>4
    <3> QED
      BY <1>1, <1>2, <1>3, <3>1 DEF QueuesOK
  <2> QED
    BY <1>1, <1>2, <1>3, <2>1 DEF Types, QueuesOK, StampsOK, LatchOK, CallsOK, PoolOK
<1>7. Shapes' /\ Sleepers' /\ StampsOK' /\ SameTickets /\ Grows
  <2>1. Shapes' /\ Sleepers'
    BY <1>1, <1>2 DEF Shapes, ShapeOf, Sleepers, At
  <2> QED
    BY <1>1, <1>2, <2>1, SameStamps, SameGrow
<1>8. Leased'
  BY <1>1, <1>2 DEF Leased
<1>9. Queues'
  <2>1. ASSUME NEW e \in Contexts, NEW i \in 1..Len(gpu'[e])
        PROVE  /\ progress'[e] < gpu'[e][i].ticket /\ gpu'[e][i].ticket < next
               /\ \A j \in 1..Len(gpu'[e]) : i < j => gpu'[e][i].ticket < gpu'[e][j].ticket
    <3>1. CASE e # c
      BY <1>1, <1>3, <1>5, <3>1 DEF Queues
    <3>2. CASE e = c
      <4>1. Len(gpu'[c]) \in Nat /\ i \in Nat /\ 1 < i + 1
        BY <1>3, <3>2
      <4>2. progress'[c] < gpu[c][i + 1].ticket /\ gpu[c][i + 1].ticket < next
        BY <1>1, <1>3, <1>5, <3>2, <4>1 DEF Queues
      <4>3. ASSUME NEW j \in 1..Len(gpu'[c]), i < j
            PROVE  gpu[c][i + 1].ticket < gpu[c][j + 1].ticket
        <5>1. j \in Nat /\ i + 1 < j + 1
          BY <1>3, <4>1, <4>3
        <5>2. i + 1 \in 1..Len(gpu[c]) /\ j + 1 \in 1..Len(gpu[c])
          BY <1>3, <3>2
        <5> QED
          BY <1>1, <5>1, <5>2 DEF Queues
      <4> QED
        BY <1>3, <3>2, <4>2, <4>3
    <3> QED
      BY <3>1, <3>2
  <2>2. \A e \in Contexts : progress'[e] < next
    BY <1>1, <1>4, <1>5 DEF Queues
  <2>3. \A e \in Contexts \ live : gpu'[e] = << >>
    BY <1>1, <1>2, <1>3 DEF Queues
  <2> QED
    BY <1>2, <2>1, <2>2, <2>3 DEF Queues
<1>10. Recording'
  <2>1. ASSUME NEW e \in Contexts, NEW i \in 1..Len(gpu'[e])
        PROVE  CoveredBy(stamp[gpu'[e][i].deed], e, gpu'[e][i])
               \/ \E u \in Threads : Stamping(u, e, gpu'[e][i])
    <3>1. PICK j \in 1..Len(gpu[e]) : gpu'[e][i] = gpu[e][j]
      BY <1>3
    <3> QED
      BY <1>1, <3>1 DEF Recording
  <2>2. stamp' = stamp /\ thread' = thread
    BY <1>2
  <2> QED
    BY <2>1, <2>2 DEF Recording, Stamping, At
<1>11. Binned'
  <2>1. ASSUME NEW e \in Contexts, NEW i \in 1..Len(gpu'[e])
        PROVE  /\ bin = "held"    => gpu'[e][i].deed = deed
               /\ bin = "pending" => gpu'[e][i].ticket <= readyAfter[e]
               /\ bin # "ready"
    <3>1. PICK j \in 1..Len(gpu[e]) : gpu'[e][i] = gpu[e][j]
      BY <1>3
    <3> QED
      BY <1>1, <3>1 DEF Binned
  <2> QED
    BY <1>2, <2>1 DEF Binned
<1>12. Awaiting'
  <2>1. ASSUME NEW u \in Threads, Settling(u), NEW e \in Contexts, NEW i \in 1..Len(gpu'[e]),
               gpu'[e][i].ticket \in thread[u].owed
        PROVE  /\ thread[u].step # "settled"
               /\ \/ gpu'[e][i].ticket <= stamp[thread[u].deed].write[e]
                  \/ gpu'[e][i].ticket <= stamp[thread[u].deed].reads[e]
    <3>1. PICK j \in 1..Len(gpu[e]) : gpu'[e][i] = gpu[e][j]
      BY <1>3, <2>1
    <3> QED
      BY <1>1, <2>1, <3>1 DEF Awaiting
  <2> QED
    BY <1>2, <2>1 DEF Awaiting, Settling
<1>13. Owed'
  BY <1>1, <1>2 DEF Owed, Settling
<1>14. Counted'
  BY <1>1, <1>2 DEF Counted, ViewsOf, Gated, Owers, AtGate, Owing
<1> QED
  BY <1>6, <1>7, <1>8, <1>9, <1>10, <1>11, <1>12, <1>13, <1>14 DEF SettlementOrder

LEMMA DestroyKeeps ==
  ASSUME SettlementOrder, NEW c \in Contexts, DestroyContext(c)
  PROVE  SettlementOrder'
<1>1. /\ Types /\ Shapes /\ Sleepers /\ Leased /\ Queues /\ Recording /\ Binned /\ Awaiting /\ Owed
      /\ Counted
  BY DEF SettlementOrder
<1>2. /\ gpu[c] = << >> /\ live' = live \ {c}
      /\ \A t \in Threads : thread[t].op # "none" => thread[t].ctx # c
      /\ UNCHANGED <<next, gpu, progress, stamp, promise, park, waiters, promises, thread, view,
                     deed, bin, readyAfter>>
  BY DEF DestroyContext, latchVars, poolVars
<1>3. Types'
  BY <1>1, <1>2 DEF Types, QueuesOK, StampsOK, LatchOK, CallsOK, PoolOK
<1>4. Shapes' /\ Sleepers'
  BY <1>1, <1>2 DEF Shapes, ShapeOf, Sleepers, At
<1>5. Leased'
  <2>1. ASSUME NEW t \in Threads, thread[t].op \in {"submit", "view"} PROVE thread[t].ctx \in live'
    BY <1>1, <1>2, <2>1 DEF Leased
  <2> QED
    BY <1>1, <1>2, <2>1 DEF Leased
<1>6. Queues'
  BY <1>1, <1>2 DEF Queues
<1>7. Recording' /\ Binned' /\ Awaiting' /\ Owed'
  BY <1>1, <1>2 DEF Recording, Stamping, At, CoveredBy, Binned, Awaiting, Owed, Settling
<1>8. Counted'
  BY <1>1, <1>2 DEF Counted, ViewsOf, Gated, Owers, AtGate, Owing
<1> QED
  BY <1>3, <1>4, <1>5, <1>6, <1>7, <1>8 DEF SettlementOrder

(* The stamp learns of the submit.                                         *)
LEMMA StampStep ==
  ASSUME SettlementOrder, NEW t \in Threads, Stamp(t)
  PROVE  /\ Shaped /\ Grows
         /\ thread[t].step = "stamp" /\ thread[t].op = "submit"
         /\ thread[t].deed \in Deeds /\ thread[t].ctx \in Keys
         /\ \A d \in Deeds : stamp'[d].claims = stamp[d].claims
         /\ thread[t].kind \in Writing =>
              thread[t].tv <= stamp'[thread[t].deed].write[thread[t].ctx]
         /\ thread[t].kind \notin Writing =>
              thread[t].tv <= stamp'[thread[t].deed].reads[thread[t].ctx]
         /\ UNCHANGED <<live, next, gpu, progress, promises, view, deed, bin, readyAfter>>
         /\ \A u \in Threads : u # t => thread'[u] = thread[u]
         /\ ~AtGate(t)' /\ (Owing(t)' => Owing(t))
         /\ thread'[t].step \in {"idle", "push"}
         /\ thread'[t].op = "none" \/ SameCall(t)
<1> DEFINE d == thread[t].deed
           K == {thread[t].ctx}
           W == IF thread[t].kind \in Writing THEN Raise(stamp[d].write, K, thread[t].tv)
                ELSE stamp[d].write
           R == IF thread[t].kind \in Reading THEN Raise(stamp[d].reads, K, thread[t].tv)
                ELSE stamp[d].reads
           S == [stamp[d] EXCEPT !.write = W, !.reads = R]
<1>1. Types /\ Shapes /\ Sleepers /\ CallsOK /\ StampsOK /\ LatchOK
  BY DEF SettlementOrder, Types
<1>2. /\ At(t, "stamp") /\ UNCHANGED <<gpuVars, latchVars, view, poolVars>>
      /\ ShapeOf(t, thread[t]) /\ thread[t] \in Calls
  BY <1>1 DEF Stamp, Shapes, CallsOK
<1>3. thread[t].op = "submit" /\ thread[t].tv > 0 /\ d \in Deeds /\ thread[t].ctx \in Contexts
  <2>1. thread[t].op = "submit"
    BY <1>1, <1>2, CallFieldTypes DEF ShapeOf, At, Waiting
  <2> QED
    BY <1>2, <2>1 DEF ShapeOf, At, Waiting, Resolving
<1>4. thread[t].tv \in 0..MaxTicket /\ thread[t].ctx \in Keys /\ thread[t].kind \in Reading \cup Writing
  BY <1>1, CallFieldTypes
<1>5. stamp[d] \in StampTypes /\ stamp[d].write \in Tables /\ stamp[d].reads \in Tables
  BY <1>1, <1>3 DEF StampsOK, StampTypes
<1>6. \A k \in Keys : stamp[d].write[k] \in Nat /\ stamp[d].reads[k] \in Nat
  BY <1>1, <1>3, StampValues
<1>7. /\ W \in Tables /\ \A k \in Keys : stamp[d].write[k] <= W[k]
      /\ thread[t].kind \in Writing => thread[t].tv <= W[thread[t].ctx]
  <2>1. CASE thread[t].kind \in Writing
    BY <1>4, <1>5, <2>1, RaiseTables
  <2>2. CASE thread[t].kind \notin Writing
    BY <1>5, <1>6, <2>2
  <2> QED
    BY <2>1, <2>2
<1>8. /\ R \in Tables /\ \A k \in Keys : stamp[d].reads[k] <= R[k]
      /\ thread[t].kind \in Reading => thread[t].tv <= R[thread[t].ctx]
  <2>1. CASE thread[t].kind \in Reading
    BY <1>4, <1>5, <2>1, RaiseTables
  <2>2. CASE thread[t].kind \notin Reading
    BY <1>5, <1>6, <2>2
  <2> QED
    BY <2>1, <2>2
<1>9. stamp' = [stamp EXCEPT ![d].write = W, ![d].reads = R]
  BY <1>1, <1>3 DEF Stamp, StampsOK
<1> HIDE DEF W, R
<1>10. stamp' = [stamp EXCEPT ![d] = S]
  BY <1>1, <1>9 DEF StampsOK
<1>11. S \in StampTypes /\ S.write = W /\ S.reads = R /\ S.claims = stamp[d].claims
  BY <1>5, <1>7, <1>8 DEF StampTypes
<1> HIDE DEF S
<1>12. StampsOK' /\ stamp'[d] = S /\ \A e \in Deeds : e # d => stamp'[e] = stamp[e]
  BY <1>1, <1>3, <1>10, <1>11 DEF StampsOK
<1>13. Grows
  <2> SUFFICES ASSUME NEW e \in Deeds, NEW k \in Keys
               PROVE  /\ stamp[e].write[k] <= stamp'[e].write[k]
                      /\ stamp[e].reads[k] <= stamp'[e].reads[k]
    BY DEF Grows
  <2>1. CASE e = d
    BY <1>7, <1>8, <1>11, <1>12, <2>1
  <2>2. CASE e # d
    <3>1. stamp[e].write[k] \in Nat /\ stamp[e].reads[k] \in Nat
      BY <1>1, StampValues
    <3> QED
      BY <1>12, <2>2, <3>1
  <2> QED
    BY <2>1, <2>2
<1>14. \A e \in Deeds : stamp'[e].claims = stamp[e].claims
  BY <1>11, <1>12
<1>15. PICK r \in Calls :
         /\ thread' = [thread EXCEPT ![t] = r] /\ ShapeOf(t, r)
         /\ \/ r.op = "none" /\ r.step = "idle"
            \/ /\ r.op = thread[t].op /\ r.ctx = thread[t].ctx /\ r.kind = thread[t].kind
               /\ r.deed = thread[t].deed /\ r.owed = thread[t].owed /\ r.tv = thread[t].tv
               /\ r.step = "push"
  <2>1. CASE thread[t].kind \in Presenting
    <3> DEFINE r == Going(t, "push", thread[t].blocking, thread[t].promise, thread[t].tv)
    <3>1. "push" \in Steps
      BY StepNames
    <3>2. thread' = [thread EXCEPT ![t] = r]
      BY <1>1, <2>1, <3>1, GotoGoes DEF Stamp
    <3>3. /\ r \in Calls
          /\ r.step = "push" /\ r.tv = thread[t].tv
          /\ r.op = thread[t].op /\ r.ctx = thread[t].ctx /\ r.kind = thread[t].kind
          /\ r.deed = thread[t].deed /\ r.owed = thread[t].owed
      BY <1>1, <3>1, GoingFields, CallFieldTypes
    <3> HIDE DEF r
    <3>4. ShapeOf(t, r)
      BY <1>2, <1>3, <2>1, <3>3 DEF ShapeOf
    <3> QED
      BY <3>2, <3>3, <3>4
  <2>2. CASE thread[t].kind \notin Presenting
    <3>1. thread' = [thread EXCEPT ![t] = Idle]
      BY <2>2 DEF Stamp, Return
    <3>2. Idle \in Calls /\ ShapeOf(t, Idle) /\ Idle.op = "none" /\ Idle.step = "idle"
      BY IdleCall DEF Idle
    <3> HIDE DEF Idle
    <3> QED
      BY <3>1, <3>2
  <2> QED
    BY <2>1, <2>2
<1>16. LatchOK' /\ Sleeps(t, r.step, r.promise)
  BY <1>1, <1>2, SameLatch
<1>17. /\ CallsOK' /\ Shapes' /\ Sleepers'
       /\ thread'[t] = r /\ \A u \in Threads : u # t => thread'[u] = thread[u]
  BY <1>1, <1>2, <1>15, <1>16, PutCall DEF At
<1>18. Types'
  BY <1>1, <1>2, <1>12, <1>16, <1>17 DEF Types, QueuesOK, PoolOK, gpuVars, poolVars
<1>19. ~AtGate(t)' /\ (Owing(t)' => Owing(t))
  BY <1>2, <1>3, <1>15, <1>17 DEF AtGate, Owing, At
<1>20. /\ thread[t].kind \in Writing => thread[t].tv <= stamp'[d].write[thread[t].ctx]
       /\ thread[t].kind \notin Writing => thread[t].tv <= stamp'[d].reads[thread[t].ctx]
  BY <1>4, <1>7, <1>8, <1>11, <1>12
<1> QED
  BY <1>2, <1>3, <1>4, <1>13, <1>14, <1>15, <1>17, <1>18, <1>19, <1>20
     DEF Shaped, SameCall, At, gpuVars, latchVars, poolVars

LEMMA StampKeeps ==
  ASSUME SettlementOrder, NEW t \in Threads, Stamp(t)
  PROVE  SettlementOrder'
<1> DEFINE d == thread[t].deed
<1>1. /\ Types /\ Shapes /\ Leased /\ Queues /\ Recording /\ Binned /\ Awaiting /\ Owed /\ Counted
  BY DEF SettlementOrder
<1>2. /\ Shaped /\ Grows
      /\ thread[t].step = "stamp" /\ thread[t].op = "submit"
      /\ d \in Deeds /\ thread[t].ctx \in Keys
      /\ \A e \in Deeds : stamp'[e].claims = stamp[e].claims
      /\ thread[t].kind \in Writing => thread[t].tv <= stamp'[d].write[thread[t].ctx]
      /\ thread[t].kind \notin Writing => thread[t].tv <= stamp'[d].reads[thread[t].ctx]
      /\ UNCHANGED <<live, next, gpu, progress, promises, view, deed, bin, readyAfter>>
      /\ \A u \in Threads : u # t => thread'[u] = thread[u]
      /\ ~AtGate(t)' /\ (Owing(t)' => Owing(t))
      /\ thread'[t].step \in {"idle", "push"}
      /\ thread'[t].op = "none" \/ SameCall(t)
  BY StampStep
<1>3. Types' /\ Shapes' /\ Sleepers' /\ StampsOK'
  BY <1>2 DEF Shaped, Types
<1>4. \A u \in Threads : thread'[u].op = "none" \/ SameCall(u)
  BY <1>2 DEF SameCall
<1>5. Leased'
  BY <1>1, <1>2, <1>4, LeasedKept
<1>6. Queues' /\ Binned'
  BY <1>1, <1>2 DEF Queues, Binned
<1>7. Recording'
  <2>1. ASSUME NEW e \in Contexts, NEW i \in 1..Len(gpu[e])
        PROVE  \/ CoveredBy(stamp'[gpu[e][i].deed], e, gpu[e][i])
               \/ \E u \in Threads :
                    /\ thread'[u].step = "stamp"
                    /\ thread'[u].ctx = e /\ thread'[u].tv = gpu[e][i].ticket
                    /\ thread'[u].deed = gpu[e][i].deed
                    /\ gpu[e][i].writes <=> thread'[u].kind \in Writing
    <3>1. CASE CoveredBy(stamp[gpu[e][i].deed], e, gpu[e][i])
      BY <1>1, <1>2, <1>3, <3>1, StillCovered
    <3>2. CASE \E u \in Threads : Stamping(u, e, gpu[e][i])
      <4>1. PICK u \in Threads : Stamping(u, e, gpu[e][i])
        BY <3>2
      <4>2. CASE u # t
        BY <1>2, <4>1, <4>2 DEF Stamping, At
      <4>3. CASE u = t
        <5> HIDE DEF d
        <5>1. /\ thread[t].ctx = e /\ thread[t].tv = gpu[e][i].ticket /\ d = gpu[e][i].deed
              /\ gpu[e][i].writes <=> thread[t].kind \in Writing
          BY <4>1, <4>3 DEF Stamping, d
        <5> QED
          BY <1>2, <5>1 DEF CoveredBy
      <4> QED
        BY <4>2, <4>3
    <3> QED
      BY <1>1, <3>1, <3>2 DEF Recording
  <2>2. gpu' = gpu
    BY <1>2
  <2> QED
    BY <2>1, <2>2 DEF Recording, Stamping, At
<1>8. Awaiting'
  <2>1. \A u \in Threads : thread'[u].op \in {"settle", "drop"} =>
           /\ SameCall(u)
           /\ thread'[u].step = "settled" => thread[u].step = "settled"
    BY <1>2, <1>4
  <2> QED
    BY <1>1, <1>2, <1>3, <2>1, AwaitingKept
<1>9. Owed'
  BY <1>1, <1>2, <1>4, OwedKept
<1>10. Counted'
  <2>1. \A u \in Threads : (AtGate(u)' => AtGate(u)) /\ (Owing(u)' => Owing(u))
    BY <1>2 DEF AtGate, Owing
  <2> QED
    BY <1>1, <1>2, <1>3, <2>1, CountedKept
<1> QED
  BY <1>3, <1>5, <1>6, <1>7, <1>8, <1>9, <1>10 DEF SettlementOrder

-----------------------------------------------------------------------------
(* Host views come and go.                                                 *)
LEMMA ReturnPuts ==
  ASSUME Types, Shapes, Sleepers, NEW t \in Threads, Return(t), UNCHANGED latchVars,
         thread[t].step # "asleep"
  PROVE  /\ CallsOK' /\ Shapes' /\ Sleepers' /\ LatchOK' /\ promises' = promises
         /\ thread'[t].op = "none" /\ thread'[t].step = "idle"
         /\ \A u \in Threads : u # t => thread'[u] = thread[u]
<1>1. Idle \in Calls /\ ShapeOf(t, Idle) /\ Idle.op = "none" /\ Idle.step = "idle"
  BY IdleCall DEF Idle
<1>2. thread' = [thread EXCEPT ![t] = Idle]
  BY DEF Return
<1> HIDE DEF Idle
<1>3. LatchOK' /\ Sleeps(t, Idle.step, Idle.promise)
  BY SameLatch DEF Types
<1>4. /\ CallsOK' /\ Shapes' /\ Sleepers'
      /\ thread'[t] = Idle /\ \A u \in Threads : u # t => thread'[u] = thread[u]
  BY <1>1, <1>2, <1>3, PutCall
<1> QED
  BY <1>1, <1>3, <1>4 DEF latchVars

(* A stamp's claims change by n.                                           *)
LEMMA ClaimsChange ==
  ASSUME StampsOK, NEW d \in Deeds, NEW n \in Int,
         stamp' = [stamp EXCEPT ![d].claims = n]
  PROVE  /\ StampsOK' /\ Grows
         /\ stamp'[d].claims = n
         /\ \A e \in Deeds : e # d => stamp'[e] = stamp[e]
<1> DEFINE S == [stamp[d] EXCEPT !.claims = n]
<1>1. stamp' = [stamp EXCEPT ![d] = S]
  BY DEF StampsOK
<1>2. stamp[d] \in StampTypes
  BY DEF StampsOK
<1>3. S \in StampTypes /\ S.claims = n /\ S.write = stamp[d].write /\ S.reads = stamp[d].reads
  BY <1>2 DEF StampTypes
<1> HIDE DEF S
<1>4. StampsOK' /\ stamp'[d] = S /\ \A e \in Deeds : e # d => stamp'[e] = stamp[e]
  BY <1>1, <1>3 DEF StampsOK
<1>5. Grows
  <2> SUFFICES ASSUME NEW e \in Deeds, NEW k \in Keys
               PROVE  /\ stamp[e].write[k] <= stamp'[e].write[k]
                      /\ stamp[e].reads[k] <= stamp'[e].reads[k]
    BY DEF Grows
  <2>1. stamp[e].write[k] \in Nat /\ stamp[e].reads[k] \in Nat
    BY StampValues
  <2>2. stamp'[e].write = stamp[e].write /\ stamp'[e].reads = stamp[e].reads
    BY <1>3, <1>4
  <2> QED
    BY <2>1, <2>2
<1> QED
  BY <1>3, <1>4, <1>5

(* Views and claims apart, a step that ends t's call or leaves it alone.   *)
LEMMA ClaimKeeps ==
  ASSUME SettlementOrder, NEW t \in Threads, Types', Shapes', Sleepers', Grows,
         UNCHANGED <<live, next, gpu, progress, promises, deed, bin, readyAfter>>,
         thread[t].step # "stamp",
         \A u \in Threads : u # t => thread'[u] = thread[u] /\ view'[u] = view[u],
         thread'[t].op = "none",
         \A d \in Deeds : stamp'[d].claims = Cardinality(ViewsOf(d)')
  PROVE  SettlementOrder'
<1>1. /\ Types /\ Shapes /\ Leased /\ Queues /\ Recording /\ Binned /\ Awaiting /\ Owed /\ Counted
      /\ StampsOK'
  BY DEF SettlementOrder, Types
<1>2. \A u \in Threads :
        \/ thread'[u].op = "none"
        \/ SameCall(u) /\ thread'[u] = thread[u] /\ view'[u] = view[u]
  BY DEF SameCall
<1>3. Leased'
  BY <1>1, <1>2, LeasedKept
<1>4. Queues' /\ Binned'
  BY <1>1 DEF Queues, Binned
<1>5. Recording'
  BY <1>1, RecordingKept DEF At
<1>6. Awaiting'
  BY <1>1, <1>2, AwaitingKept
<1>7. Owed'
  BY <1>1, <1>2, OwedKept
<1>8. Counted'
  <2>1. \A u \in Threads : (AtGate(u)' => AtGate(u)) /\ (Owing(u)' => Owing(u))
    BY <1>2 DEF AtGate, Owing
  <2>2. /\ Cardinality(Gated') <= Cardinality(Gated) /\ Cardinality(Owers') <= Cardinality(Owers)
    BY <2>1, RoomKept
  <2>3. /\ Cardinality(Gated) \in Nat /\ Cardinality(Owers) \in Nat
        /\ Cardinality(Gated') \in Nat /\ Cardinality(Owers') \in Nat
    <3>1. Gated \in SUBSET Threads /\ Owers \in SUBSET Threads
      BY DEF Gated, Owers
    <3>2. Gated' \in SUBSET Threads /\ Owers' \in SUBSET Threads
      BY DEF Gated, Owers
    <3> QED
      BY <3>1, <3>2, ThreadsCount
  <2>4. next \in Nat /\ promises \in Nat /\ MaxTicket \in Nat /\ MaxPromises \in Nat
    BY <1>1, SettlementAssumption DEF Types, QueuesOK, LatchOK
  <2> QED
    BY <1>1, <2>2, <2>3, <2>4 DEF Counted
<1> QED
  BY <1>3, <1>4, <1>5, <1>6, <1>7, <1>8 DEF SettlementOrder

LEMMA ViewClaimStep ==
  ASSUME SettlementOrder, NEW t \in Threads, ViewClaim(t)
  PROVE  /\ Types' /\ Shapes' /\ Sleepers' /\ Grows
         /\ UNCHANGED <<live, next, gpu, progress, promises, deed, bin, readyAfter>>
         /\ thread[t].step = "viewclaim" /\ thread[t].op = "view" /\ t \in Hosts
         /\ bin = "held" /\ view'[t] = deed
         /\ \A u \in Threads : u # t => thread'[u] = thread[u] /\ view'[u] = view[u]
         /\ thread'[t].op = "none" /\ thread'[t].step = "idle"
         /\ \A d \in Deeds : stamp'[d].claims = Cardinality(ViewsOf(d)')
<1> DEFINE d == thread[t].deed
<1>1. Types /\ Shapes /\ Sleepers /\ Leased /\ Counted /\ CallsOK /\ StampsOK /\ PoolOK
  BY DEF SettlementOrder, Types
<1>2. /\ At(t, "viewclaim") /\ UNCHANGED <<gpuVars, latchVars, poolVars>>
      /\ stamp' = [stamp EXCEPT ![d].claims = @ + 1]
      /\ view' = [view EXCEPT ![t] = d]
      /\ Return(t) /\ ShapeOf(t, thread[t])
  BY <1>1 DEF ViewClaim, Shapes
<1>3. thread[t].op = "view" /\ d \in Deeds /\ t \in Hosts
  <2>1. thread[t].op = "view"
    BY <1>1, <1>2, CallFieldTypes DEF ShapeOf, At, Waiting, Resolving
  <2> QED
    BY <1>2, <2>1 DEF ShapeOf
<1>4. bin = "held" /\ d = deed /\ view[t] = 0
  BY <1>1, <1>3 DEF Leased
<1>5. stamp[d].claims \in Int /\ stamp[d].claims = Cardinality(ViewsOf(d))
  BY <1>1, <1>3 DEF StampsOK, StampTypes, Counted
<1> HIDE DEF d
<1>6. stamp' = [stamp EXCEPT ![d].claims = stamp[d].claims + 1] /\ stamp[d].claims + 1 \in Int
  BY <1>1, <1>2, <1>3, <1>5 DEF StampsOK
<1>7. /\ StampsOK' /\ Grows
      /\ stamp'[d].claims = stamp[d].claims + 1
      /\ \A e \in Deeds : e # d => stamp'[e] = stamp[e]
  BY <1>1, <1>3, <1>6, ClaimsChange
<1>8. /\ CallsOK' /\ Shapes' /\ Sleepers' /\ LatchOK' /\ promises' = promises
      /\ thread'[t].op = "none" /\ thread'[t].step = "idle"
      /\ \A u \in Threads : u # t => thread'[u] = thread[u]
  BY <1>1, <1>2, ReturnPuts DEF At
<1>9. /\ view' \in [Threads -> 0..MaxDeeds] /\ view'[t] = d
      /\ \A u \in Threads : u # t => view'[u] = view[u]
  BY <1>1, <1>2, <1>3, SettlementAssumption DEF PoolOK, Deeds
<1>10. Types'
  BY <1>1, <1>2, <1>7, <1>8, <1>9 DEF Types, QueuesOK, PoolOK, gpuVars, poolVars
<1>11. ASSUME NEW e \in Deeds PROVE stamp'[e].claims = Cardinality(ViewsOf(e)')
  <2>1. 0 \notin Deeds
    BY DEF Deeds
  <2>2. CASE e = d
    <3>1. ViewsOf(e)' = ViewsOf(e) \cup {t} /\ t \notin ViewsOf(e)
      BY <1>4, <1>9, <2>1, <2>2 DEF ViewsOf
    <3>2. IsFiniteSet(ViewsOf(e))
      BY ThreadsCount DEF ViewsOf
    <3>3. Cardinality(ViewsOf(e) \cup {t}) = Cardinality(ViewsOf(e)) + 1
      BY <3>1, <3>2, FS_AddElement
    <3> QED
      BY <1>5, <1>7, <2>2, <3>1, <3>3
  <2>3. CASE e # d
    <3>1. ViewsOf(e)' = ViewsOf(e)
      BY <1>4, <1>9, <2>1, <2>3 DEF ViewsOf
    <3> QED
      BY <1>1, <1>7, <2>3, <3>1 DEF Counted
  <2> QED
    BY <2>2, <2>3
<1> QED
  BY <1>2, <1>3, <1>4, <1>7, <1>8, <1>9, <1>10, <1>11 DEF At, gpuVars, latchVars, poolVars

LEMMA ViewClaimKeeps ==
  ASSUME SettlementOrder, NEW t \in Threads, ViewClaim(t)
  PROVE  SettlementOrder'
<1>1. /\ Types' /\ Shapes' /\ Sleepers' /\ Grows
      /\ UNCHANGED <<live, next, gpu, progress, promises, deed, bin, readyAfter>>
      /\ thread[t].step = "viewclaim"
      /\ \A u \in Threads : u # t => thread'[u] = thread[u] /\ view'[u] = view[u]
      /\ thread'[t].op = "none"
      /\ \A d \in Deeds : stamp'[d].claims = Cardinality(ViewsOf(d)')
  BY ViewClaimStep
<1> QED
  BY <1>1, ClaimKeeps

LEMMA ViewDropStep ==
  ASSUME SettlementOrder, NEW t \in Threads, ViewDrop(t)
  PROVE  /\ Types' /\ Shapes' /\ Sleepers' /\ Grows
         /\ UNCHANGED <<live, next, gpu, progress, promises, deed, bin, readyAfter, thread>>
         /\ thread[t].step = "idle" /\ thread[t].op = "none" /\ view'[t] = 0
         /\ \A u \in Threads : u # t => view'[u] = view[u]
         /\ \A d \in Deeds : stamp'[d].claims = Cardinality(ViewsOf(d)')
<1> DEFINE d == view[t]
<1>1. Types /\ Shapes /\ Sleepers /\ Counted /\ CallsOK /\ StampsOK /\ PoolOK
  BY DEF SettlementOrder, Types
<1>2. /\ At(t, "idle") /\ UNCHANGED <<gpuVars, latchVars, thread, poolVars>> /\ d # 0
      /\ stamp' = [stamp EXCEPT ![d].claims = @ - 1]
      /\ view' = [view EXCEPT ![t] = 0]
  BY DEF ViewDrop
<1>3. thread[t].op = "none"
  BY <1>1, <1>2 DEF Shapes, ShapeOf, At
<1>4. d \in Deeds
  <2>1. d \in 0..MaxDeeds
    BY <1>1 DEF PoolOK
  <2> QED
    BY <1>2, <2>1, SettlementAssumption DEF Deeds
<1>5. stamp[d].claims \in Int /\ stamp[d].claims = Cardinality(ViewsOf(d)) /\ t \in ViewsOf(d)
  BY <1>1, <1>4 DEF StampsOK, StampTypes, Counted, ViewsOf
<1> HIDE DEF d
<1>6. stamp' = [stamp EXCEPT ![d].claims = stamp[d].claims - 1] /\ stamp[d].claims - 1 \in Int
  BY <1>1, <1>2, <1>4, <1>5 DEF StampsOK
<1>7. /\ StampsOK' /\ Grows
      /\ stamp'[d].claims = stamp[d].claims - 1
      /\ \A e \in Deeds : e # d => stamp'[e] = stamp[e]
  BY <1>1, <1>4, <1>6, ClaimsChange
<1>8. /\ view' \in [Threads -> 0..MaxDeeds] /\ view'[t] = 0
      /\ \A u \in Threads : u # t => view'[u] = view[u]
  BY <1>1, <1>2, SettlementAssumption DEF PoolOK
<1>9. Types' /\ Shapes' /\ Sleepers'
  <2>1. Types'
    BY <1>1, <1>2, <1>7, <1>8
       DEF Types, QueuesOK, LatchOK, CallsOK, PoolOK, gpuVars, latchVars, poolVars
  <2>2. Shapes' /\ Sleepers'
    BY <1>1, <1>2 DEF Shapes, ShapeOf, Sleepers, At, latchVars
  <2> QED
    BY <2>1, <2>2
<1>10. ASSUME NEW e \in Deeds PROVE stamp'[e].claims = Cardinality(ViewsOf(e)')
  <2>1. 0 \notin Deeds
    BY DEF Deeds
  <2>2. CASE e = d
    <3>1. ViewsOf(e)' = ViewsOf(e) \ {t}
      BY <1>8, <2>1 DEF ViewsOf
    <3>2. IsFiniteSet(ViewsOf(e)) /\ t \in ViewsOf(e)
      BY <1>5, <2>2, ThreadsCount DEF ViewsOf
    <3>3. Cardinality(ViewsOf(e) \ {t}) = Cardinality(ViewsOf(e)) - 1
      BY <3>2, FS_RemoveElement
    <3> QED
      BY <1>5, <1>7, <2>2, <3>1, <3>3
  <2>3. CASE e # d
    <3>1. ViewsOf(e)' = ViewsOf(e)
      BY <1>8, <2>1, <2>3 DEF ViewsOf, d
    <3> QED
      BY <1>1, <1>7, <2>3, <3>1 DEF Counted
  <2> QED
    BY <2>2, <2>3
<1> QED
  BY <1>2, <1>3, <1>7, <1>8, <1>9, <1>10 DEF At, gpuVars, latchVars, poolVars

LEMMA ViewDropKeeps ==
  ASSUME SettlementOrder, NEW t \in Threads, ViewDrop(t)
  PROVE  SettlementOrder'
<1>1. /\ Types' /\ Shapes' /\ Sleepers' /\ Grows
      /\ UNCHANGED <<live, next, gpu, progress, promises, deed, bin, readyAfter, thread>>
      /\ thread[t].step = "idle" /\ thread[t].op = "none"
      /\ \A u \in Threads : u # t => view'[u] = view[u]
      /\ \A d \in Deeds : stamp'[d].claims = Cardinality(ViewsOf(d)')
  BY ViewDropStep
<1> QED
  BY <1>1, ClaimKeeps

-----------------------------------------------------------------------------
(* A call begins.                                                          *)
LEMMA BeginPuts ==
  ASSUME SettlementOrder, NEW t \in Threads, NEW r \in Calls, ShapeOf(t, r),
         thread' = [thread EXCEPT ![t] = r], thread[t].step = "idle", r.step # "asleep",
         UNCHANGED <<gpuVars, stamp, latchVars, view, poolVars>>
  PROVE  /\ Shaped /\ thread'[t] = r /\ \A u \in Threads : u # t => thread'[u] = thread[u]
         /\ Queues' /\ Recording' /\ Binned' /\ StampsOK' /\ Grows
<1>1. /\ Types /\ Shapes /\ Sleepers /\ Queues /\ Recording /\ Binned
  BY DEF SettlementOrder
<1>2. StampsOK' /\ Grows
  BY <1>1, SameStamps, SameGrow DEF Types
<1>3. LatchOK' /\ Sleeps(t, r.step, r.promise)
  BY <1>1, SameLatch DEF Types
<1>4. /\ CallsOK' /\ Shapes' /\ Sleepers'
      /\ thread'[t] = r /\ \A u \in Threads : u # t => thread'[u] = thread[u]
  BY <1>1, <1>3, PutCall
<1>5. Types'
  BY <1>1, <1>2, <1>3, <1>4 DEF Types, QueuesOK, PoolOK, gpuVars, poolVars
<1>6. Queues' /\ Binned'
  BY <1>1 DEF Queues, Binned, gpuVars, poolVars
<1>7. Recording'
  <2>1. \A u \in Threads : At(u, "stamp") => thread'[u] = thread[u]
    BY <1>4 DEF At
  <2> QED
    BY <1>1, <1>2, <2>1, RecordingKept DEF gpuVars
<1> QED
  BY <1>2, <1>4, <1>5, <1>6, <1>7 DEF Shaped

(* Held: nobody is dropping the parcel, so a call may begin.               *)
LEMMA BeginLeases ==
  ASSUME Leased, Held, NEW t \in Threads, NEW r, thread[t].op = "none", thread'[t] = r,
         \A u \in Threads : u # t => thread'[u] = thread[u],
         UNCHANGED <<live, view, deed, bin>>,
         r.deed = deed, r.op \in {"submit", "view"} => r.ctx \in live,
         r.op = "view" => view[t] = 0,
         r.op = "drop" => deed < MaxDeeds /\ \A u \in Threads \ {t} : thread[u].op = "none"
  PROVE  Leased'
<1> SUFFICES ASSUME NEW u \in Threads, thread'[u].op # "none"
             PROVE  /\ bin = "held" /\ thread'[u].deed = deed
                    /\ thread'[u].op \in {"submit", "view"} => thread'[u].ctx \in live
                    /\ thread'[u].op = "view" => view[u] = 0
                    /\ thread'[u].op = "drop" =>
                         deed < MaxDeeds /\ \A v \in Threads \ {u} : thread'[v].op = "none"
  BY DEF Leased
<1>1. bin = "held" /\ \A v \in Threads : thread[v].op # "drop"
  BY DEF Held
<1>2. CASE u = t
  BY <1>1, <1>2
<1>3. CASE u # t
  <2>1. thread'[u] = thread[u] /\ thread[u].op # "drop"
    BY <1>1, <1>3
  <2> QED
    BY <1>1, <2>1 DEF Leased
<1> QED
  BY <1>2, <1>3

LEMMA FlightIs ==
  ASSUME NEW w \in InFlight
  PROVE  \E c \in Contexts : \E i \in 1..Len(gpu[c]) : w = gpu[c][i]
  BY DEF InFlight

Begun(s, o, c, k, v, d, w) ==
  [Idle EXCEPT !.step = s, !.op = o, !.ctx = c, !.kind = k, !.tv = v, !.deed = d, !.owed = w]

LEMMA BegunFields ==
  ASSUME NEW s \in Steps, NEW o \in {"submit", "settle", "drop", "view"}, NEW c \in Keys,
         NEW k \in Reading \cup Writing, NEW v \in 0..MaxTicket, NEW d \in Deeds,
         NEW w \in SUBSET (1..MaxTicket)
  PROVE  LET r == Begun(s, o, c, k, v, d, w) IN
         /\ r \in Calls
         /\ r.step = s /\ r.op = o /\ r.ctx = c /\ r.kind = k /\ r.tv = v /\ r.deed = d
         /\ r.owed = w
<1>1. Idle \in Calls
  BY IdleCall
<1>2. d \in 0..MaxDeeds
  BY SettlementAssumption DEF Deeds
<1> QED
  BY <1>1, <1>2 DEF Calls, Begun

LEMMA SubmitBeginStep ==
  ASSUME SettlementOrder, NEW t \in Threads, NEW c \in Contexts, NEW kind \in Reading \cup Writing,
         SubmitBegin(t, c, kind)
  PROVE  /\ Shaped /\ \A u \in Threads : u # t => thread'[u] = thread[u]
         /\ Queues' /\ Recording' /\ Binned' /\ StampsOK' /\ Grows
         /\ Held /\ c \in live /\ thread[t].op = "none"
         /\ UNCHANGED <<live, next, gpu, progress, stamp, promises, view, deed, bin, readyAfter>>
         /\ thread'[t].op = "submit" /\ thread'[t].ctx = c /\ thread'[t].kind = kind
         /\ thread'[t].deed = deed
         /\ thread'[t].step \in {"gate", "submit"}
         /\ kind \in Writing => thread'[t].step = "gate"
         /\ next + Cardinality(Gated) <= MaxTicket
         /\ kind \in Presenting => promises + Cardinality(Owers) < MaxPromises
<1>1. Types /\ Shapes /\ PoolOK
  BY DEF SettlementOrder, Types
<1> DEFINE s == IF kind \in Writing THEN "gate" ELSE "submit"
           r == [Idle EXCEPT !.step = s, !.op = "submit", !.ctx = c, !.kind = kind, !.deed = deed]
<1>2. /\ At(t, "idle") /\ Held /\ c \in live /\ kind \in Kinds[t]
      /\ next + Cardinality({u \in Threads : AtGate(u)}) <= MaxTicket
      /\ kind \in Presenting => promises + Cardinality({u \in Threads : Owing(u)}) < MaxPromises
      /\ thread' = [thread EXCEPT ![t] = r]
      /\ UNCHANGED <<gpuVars, stamp, latchVars, view, poolVars>>
  BY DEF SubmitBegin
<1>3. s \in Steps /\ deed \in Deeds /\ c \in Keys /\ Idle.tv = 0 /\ Idle.owed = {} /\ 0 \in 0..MaxTicket
  BY <1>1, StepNames, SettlementAssumption DEF PoolOK, Keys, Idle
<1>4. Idle \in Calls
  BY IdleCall
<1>5. r = Begun(s, "submit", c, kind, 0, deed, {})
  BY <1>3, <1>4 DEF Calls, Begun
<1>6. s \in {"gate", "submit"} /\ (kind \in Writing => s = "gate") /\ (s = "gate" => kind \in Writing)
  OBVIOUS
<1> HIDE DEF s
<1>7. /\ r \in Calls
      /\ r.step = s /\ r.op = "submit" /\ r.ctx = c /\ r.kind = kind /\ r.tv = 0 /\ r.deed = deed
  <2> HIDE DEF r
  <2> QED
    BY <1>3, <1>5, BegunFields
<1> HIDE DEF r
<1>8. ShapeOf(t, r)
  BY <1>2, <1>3, <1>6, <1>7 DEF ShapeOf
<1>9. thread[t].op = "none"
  BY <1>1, <1>2 DEF Shapes, ShapeOf, At
<1>10. /\ Shaped /\ thread'[t] = r /\ \A u \in Threads : u # t => thread'[u] = thread[u]
       /\ Queues' /\ Recording' /\ Binned' /\ StampsOK' /\ Grows
  BY <1>2, <1>6, <1>7, <1>8, BeginPuts DEF At
<1> QED
  BY <1>2, <1>6, <1>7, <1>9, <1>10 DEF Gated, Owers, gpuVars, latchVars, poolVars

LEMMA SubmitBeginKeeps ==
  ASSUME SettlementOrder, NEW t \in Threads, NEW c \in Contexts, NEW kind \in Reading \cup Writing,
         SubmitBegin(t, c, kind)
  PROVE  SettlementOrder'
<1>1. /\ Types /\ Shapes /\ Leased /\ Awaiting /\ Owed /\ Counted
  BY DEF SettlementOrder
<1>2. /\ Shaped /\ \A u \in Threads : u # t => thread'[u] = thread[u]
      /\ Queues' /\ Recording' /\ Binned' /\ StampsOK' /\ Grows
      /\ Held /\ c \in live /\ thread[t].op = "none"
      /\ UNCHANGED <<live, next, gpu, progress, stamp, promises, view, deed, bin, readyAfter>>
      /\ thread'[t].op = "submit" /\ thread'[t].ctx = c /\ thread'[t].kind = kind
      /\ thread'[t].deed = deed
      /\ thread'[t].step \in {"gate", "submit"}
      /\ next + Cardinality(Gated) <= MaxTicket
      /\ kind \in Presenting => promises + Cardinality(Owers) < MaxPromises
  BY SubmitBeginStep
<1>3. Leased'
  BY <1>1, <1>2, BeginLeases
<1>4. \A u \in Threads : thread'[u].op \in {"settle", "drop"} =>
         SameCall(u) /\ (thread'[u].step = "settled" => thread[u].step = "settled")
  BY <1>2 DEF SameCall
<1>5. Awaiting' /\ Owed'
  BY <1>1, <1>2, <1>4, AwaitingKept, OwedKept
<1>6. Counted'
  <2>1. Gated' \subseteq Gated \cup {t} /\ t \notin Gated
    BY <1>2 DEF Gated, AtGate
  <2>2. /\ kind \in Presenting => Owers' \subseteq Owers \cup {t} /\ t \notin Owers
        /\ kind \notin Presenting => Owers' \subseteq Owers
    BY <1>2 DEF Owers, Owing
  <2>3. /\ Gated \in SUBSET Threads /\ Owers \in SUBSET Threads
        /\ Gated' \in SUBSET Threads /\ Owers' \in SUBSET Threads
    BY DEF Gated, Owers
  <2>4. /\ IsFiniteSet(Gated) /\ IsFiniteSet(Owers)
        /\ Cardinality(Gated) \in Nat /\ Cardinality(Owers) \in Nat
        /\ Cardinality(Gated') \in Nat /\ Cardinality(Owers') \in Nat
    BY <2>3, ThreadsCount
  <2>5. Cardinality(Gated') <= Cardinality(Gated) + 1
    <3>1. /\ IsFiniteSet(Gated \cup {t})
          /\ Cardinality(Gated \cup {t}) = Cardinality(Gated) + 1
      BY <2>1, <2>4, FS_AddElement
    <3> QED
      BY <2>1, <3>1, FS_Subset
  <2>6. Cardinality(Owers') <= IF kind \in Presenting THEN Cardinality(Owers) + 1
                               ELSE Cardinality(Owers)
    <3>1. CASE kind \in Presenting
      <4>1. /\ IsFiniteSet(Owers \cup {t})
            /\ Cardinality(Owers \cup {t}) = Cardinality(Owers) + 1
        BY <2>2, <2>4, <3>1, FS_AddElement
      <4> QED
        BY <2>2, <3>1, <4>1, FS_Subset
    <3>2. CASE kind \notin Presenting
      BY <2>2, <2>4, <3>2, FS_Subset
    <3> QED
      BY <3>1, <3>2
  <2>7. next \in Nat /\ promises \in Nat /\ MaxTicket \in Nat /\ MaxPromises \in Nat
    BY <1>1, SettlementAssumption DEF Types, QueuesOK, LatchOK
  <2>8. next' + Cardinality(Gated') <= MaxTicket + 1
    BY <1>2, <2>4, <2>5, <2>7
  <2>9. promises' + Cardinality(Owers') <= MaxPromises
    <3>1. promises + Cardinality(Owers) <= MaxPromises
      BY <1>1 DEF Counted
    <3>2. kind \in Presenting => promises + Cardinality(Owers) < MaxPromises
      BY <1>2
    <3> QED
      BY <1>2, <2>4, <2>6, <2>7, <3>1, <3>2
  <2>10. \A d \in Deeds : stamp'[d].claims = Cardinality(ViewsOf(d)')
    BY <1>1, <1>2 DEF Counted, ViewsOf
  <2> QED
    BY <2>8, <2>9, <2>10 DEF Counted
<1> QED
  BY <1>2, <1>3, <1>5, <1>6 DEF SettlementOrder, Shaped

(* A begin that takes up no room for submits and promises.                 *)
LEMMA BeginCounts ==
  ASSUME SettlementOrder, NEW t \in Threads, thread'[t].op \notin {"submit"}, Types',
         \A u \in Threads : u # t => thread'[u] = thread[u],
         UNCHANGED <<next, stamp, promises, view>>
  PROVE  Counted'
<1>1. Types /\ Counted
  BY DEF SettlementOrder
<1>2. \A u \in Threads : (AtGate(u)' => AtGate(u)) /\ (Owing(u)' => Owing(u))
  BY DEF AtGate, Owing
<1> QED
  BY <1>1, <1>2, CountedKept

(* What a settle owes: submits in flight that are on the stamp.            *)
LEMMA OwedAreCovered ==
  ASSUME SettlementOrder, bin = "held"
  PROVE  /\ Recorded(deed) \in SUBSET (1..MaxTicket)
         /\ \A k \in Recorded(deed) : k < next
         /\ \A c \in Contexts : \A i \in 1..Len(gpu[c]) : gpu[c][i].ticket \in Recorded(deed) =>
              \/ gpu[c][i].ticket <= stamp[deed].write[c]
              \/ gpu[c][i].ticket <= stamp[deed].reads[c]
<1>1. QueuesOK /\ Queues /\ Recording /\ Binned
  BY DEF SettlementOrder, Types
<1>2. ASSUME NEW k \in Recorded(deed)
      PROVE  k \in 1..MaxTicket /\ k < next
  <2>1. PICK w \in InFlight : k = w.ticket
    BY DEF Recorded
  <2>2. PICK c \in Contexts : \E i \in 1..Len(gpu[c]) : w = gpu[c][i]
    BY FlightIs
  <2>3. PICK i \in 1..Len(gpu[c]) : w = gpu[c][i]
    BY <2>2
  <2> QED
    BY <1>1, <2>1, <2>3, SubmitTypes DEF Queues
<1>3. ASSUME NEW c \in Contexts, NEW i \in 1..Len(gpu[c]), gpu[c][i].ticket \in Recorded(deed)
      PROVE  \/ gpu[c][i].ticket <= stamp[deed].write[c]
             \/ gpu[c][i].ticket <= stamp[deed].reads[c]
  <2>1. ~\E t \in Threads : Stamping(t, c, gpu[c][i])
    BY <1>3 DEF Recorded, Stamping
  <2>2. gpu[c][i].deed = deed
    BY <1>1 DEF Binned
  <2>3. CoveredBy(stamp[gpu[c][i].deed], c, gpu[c][i])
    BY <1>1, <2>1 DEF Recording
  <2> QED
    BY <2>2, <2>3 DEF CoveredBy
<1> QED
  BY <1>2, <1>3

LEMMA SettleBeginStep ==
  ASSUME SettlementOrder, NEW t \in Threads, NEW op \in {"settle", "drop"}, SettleBegin(t, op)
  PROVE  /\ Shaped /\ \A u \in Threads : u # t => thread'[u] = thread[u]
         /\ Queues' /\ Recording' /\ Binned' /\ StampsOK' /\ Grows
         /\ Held /\ thread[t].op = "none"
         /\ op = "drop" => Owned(t) /\ deed < MaxDeeds
         /\ UNCHANGED <<live, next, gpu, progress, stamp, promises, view, deed, bin, readyAfter>>
         /\ thread'[t].op = op /\ thread'[t].deed = deed /\ thread'[t].owed = Recorded(deed)
         /\ thread'[t].step = "settle"
<1>1. Types /\ Shapes /\ PoolOK
  BY DEF SettlementOrder, Types
<1> DEFINE w == Recorded(deed)
           r == [Idle EXCEPT !.step = "settle", !.op = op, !.deed = deed, !.owed = w]
<1>2. /\ At(t, "idle") /\ Held /\ (op = "drop" => Owned(t) /\ deed < MaxDeeds)
      /\ thread' = [thread EXCEPT ![t] = r]
      /\ UNCHANGED <<gpuVars, stamp, latchVars, view, poolVars>>
  BY DEF SettleBegin
<1>3. w \in SUBSET (1..MaxTicket)
  BY <1>2, OwedAreCovered DEF Held
<1>4. /\ "settle" \in Steps /\ deed \in Deeds /\ Idle.tv \in 0..MaxTicket
      /\ Idle.kind \in Reading \cup Writing /\ Idle.ctx \in Keys
      /\ op \in {"submit", "settle", "drop", "view"}
  BY <1>1, StepNames, SettlementAssumption DEF PoolOK, Keys, Idle, Reading
<1>5. Idle \in Calls
  BY IdleCall
<1> HIDE DEF w
<1>6. r = Begun("settle", op, Idle.ctx, Idle.kind, Idle.tv, deed, w)
  BY <1>5 DEF Calls, Begun
<1> HIDE DEF r
<1>7. /\ r \in Calls
      /\ r.step = "settle" /\ r.op = op /\ r.deed = deed /\ r.owed = w
  BY <1>3, <1>4, <1>6, BegunFields
<1>8. ShapeOf(t, r)
  BY <1>4, <1>7 DEF ShapeOf
<1>9. thread[t].op = "none"
  BY <1>1, <1>2 DEF Shapes, ShapeOf, At
<1>10. /\ Shaped /\ thread'[t] = r /\ \A u \in Threads : u # t => thread'[u] = thread[u]
       /\ Queues' /\ Recording' /\ Binned' /\ StampsOK' /\ Grows
  BY <1>2, <1>7, <1>8, BeginPuts DEF At
<1> QED
  BY <1>2, <1>7, <1>9, <1>10 DEF w, gpuVars, latchVars, poolVars

LEMMA SettleBeginKeeps ==
  ASSUME SettlementOrder, NEW t \in Threads, NEW op \in {"settle", "drop"}, SettleBegin(t, op)
  PROVE  SettlementOrder'
<1>1. /\ Types /\ Shapes /\ Leased /\ Awaiting /\ Owed /\ QueuesOK
  BY DEF SettlementOrder, Types
<1>2. /\ Shaped /\ \A u \in Threads : u # t => thread'[u] = thread[u]
      /\ Queues' /\ Recording' /\ Binned' /\ StampsOK' /\ Grows
      /\ Held /\ thread[t].op = "none"
      /\ op = "drop" => Owned(t) /\ deed < MaxDeeds
      /\ UNCHANGED <<live, next, gpu, progress, stamp, promises, view, deed, bin, readyAfter>>
      /\ thread'[t].op = op /\ thread'[t].deed = deed /\ thread'[t].owed = Recorded(deed)
      /\ thread'[t].step = "settle"
  BY SettleBeginStep
<1>3. Leased'
  <2>1. op = "drop" => deed < MaxDeeds /\ \A u \in Threads \ {t} : thread[u].op = "none"
    BY <1>2 DEF Owned
  <2> QED
    BY <1>1, <1>2, <2>1, BeginLeases
<1>4. /\ \A k \in Recorded(deed) : k < next
      /\ \A c \in Contexts : \A i \in 1..Len(gpu[c]) : gpu[c][i].ticket \in Recorded(deed) =>
           \/ gpu[c][i].ticket <= stamp[deed].write[c]
           \/ gpu[c][i].ticket <= stamp[deed].reads[c]
  BY <1>2, OwedAreCovered DEF Held
<1>5. Awaiting'
  <2> SUFFICES ASSUME NEW u \in Threads, thread'[u].op \in {"settle", "drop"},
                      NEW c \in Contexts, NEW i \in 1..Len(gpu[c]),
                      gpu[c][i].ticket \in thread'[u].owed
               PROVE  /\ thread'[u].step # "settled"
                      /\ \/ gpu[c][i].ticket <= stamp[thread'[u].deed].write[c]
                         \/ gpu[c][i].ticket <= stamp[thread'[u].deed].reads[c]
    BY <1>2 DEF Awaiting, Settling
  <2>1. CASE u = t
    BY <1>2, <1>4, <2>1
  <2>2. CASE u # t
    BY <1>1, <1>2, <2>2 DEF Awaiting, Settling
  <2> QED
    BY <2>1, <2>2
<1>6. Owed'
  <2>1. ASSUME NEW u \in Threads, thread'[u].op \in {"settle", "drop"}, NEW k \in thread'[u].owed
        PROVE  k < next
    <3>1. CASE u = t
      BY <1>2, <1>4, <2>1, <3>1
    <3>2. CASE u # t
      BY <1>1, <1>2, <2>1, <3>2 DEF Owed, Settling
    <3> QED
      BY <3>1, <3>2
  <2> QED
    BY <1>2, <2>1 DEF Owed, Settling
<1>7. Counted'
  BY <1>2, BeginCounts DEF Shaped
<1> QED
  BY <1>2, <1>3, <1>5, <1>6, <1>7 DEF SettlementOrder, Shaped

LEMMA ViewBeginStep ==
  ASSUME SettlementOrder, NEW t \in Threads, NEW c \in Contexts, NEW tv \in 1..MaxTicket,
         ViewBegin(t, c, tv)
  PROVE  /\ Shaped /\ \A u \in Threads : u # t => thread'[u] = thread[u]
         /\ Queues' /\ Recording' /\ Binned' /\ StampsOK' /\ Grows
         /\ Held /\ c \in live /\ thread[t].op = "none" /\ view[t] = 0
         /\ UNCHANGED <<live, next, gpu, progress, stamp, promises, view, deed, bin, readyAfter>>
         /\ thread'[t].op = "view" /\ thread'[t].deed = deed /\ thread'[t].ctx = c
         /\ thread'[t].step = "viewwait"
<1>1. Types /\ Shapes /\ PoolOK
  BY DEF SettlementOrder, Types
<1> DEFINE r == [Idle EXCEPT !.step = "viewwait", !.op = "view", !.ctx = c, !.tv = tv,
                             !.deed = deed]
<1>2. /\ At(t, "idle") /\ Held /\ t \in Hosts /\ view[t] = 0 /\ c \in live
      /\ thread' = [thread EXCEPT ![t] = r]
      /\ UNCHANGED <<gpuVars, stamp, latchVars, view, poolVars>>
  BY DEF ViewBegin
<1>3. /\ "viewwait" \in Steps /\ deed \in Deeds /\ Idle.kind \in Reading
      /\ c \in Keys /\ tv \in 0..MaxTicket /\ Idle.owed \in SUBSET (1..MaxTicket)
  BY <1>1, StepNames, SettlementAssumption DEF PoolOK, Keys, Idle, Reading
<1>4. Idle \in Calls
  BY IdleCall
<1>5. r = Begun("viewwait", "view", c, Idle.kind, tv, deed, Idle.owed)
  BY <1>4 DEF Calls, Begun
<1> HIDE DEF r
<1>6. r \in Calls /\ r.step = "viewwait" /\ r.op = "view" /\ r.deed = deed /\ r.ctx = c
  BY <1>3, <1>5, BegunFields
<1>7. ShapeOf(t, r)
  BY <1>2, <1>3, <1>6 DEF ShapeOf
<1>8. thread[t].op = "none"
  BY <1>1, <1>2 DEF Shapes, ShapeOf, At
<1>9. /\ Shaped /\ thread'[t] = r /\ \A u \in Threads : u # t => thread'[u] = thread[u]
      /\ Queues' /\ Recording' /\ Binned' /\ StampsOK' /\ Grows
  BY <1>2, <1>6, <1>7, BeginPuts DEF At
<1> QED
  BY <1>2, <1>6, <1>8, <1>9 DEF gpuVars, latchVars, poolVars

LEMMA ViewBeginKeeps ==
  ASSUME SettlementOrder, NEW t \in Threads, NEW c \in Contexts, NEW tv \in 1..MaxTicket,
         ViewBegin(t, c, tv)
  PROVE  SettlementOrder'
<1>1. /\ Types /\ Shapes /\ Leased /\ Awaiting /\ Owed
  BY DEF SettlementOrder
<1>2. /\ Shaped /\ \A u \in Threads : u # t => thread'[u] = thread[u]
      /\ Queues' /\ Recording' /\ Binned' /\ StampsOK' /\ Grows
      /\ Held /\ c \in live /\ thread[t].op = "none" /\ view[t] = 0
      /\ UNCHANGED <<live, next, gpu, progress, stamp, promises, view, deed, bin, readyAfter>>
      /\ thread'[t].op = "view" /\ thread'[t].deed = deed /\ thread'[t].ctx = c
      /\ thread'[t].step = "viewwait"
  BY ViewBeginStep
<1>3. Leased'
  BY <1>1, <1>2, BeginLeases
<1>4. \A u \in Threads : thread'[u].op \in {"settle", "drop"} =>
         SameCall(u) /\ (thread'[u].step = "settled" => thread[u].step = "settled")
  BY <1>2 DEF SameCall
<1>5. Awaiting' /\ Owed'
  BY <1>1, <1>2, <1>4, AwaitingKept, OwedKept
<1>6. Counted'
  BY <1>2, BeginCounts DEF Shaped
<1> QED
  BY <1>2, <1>3, <1>5, <1>6 DEF SettlementOrder, Shaped

-----------------------------------------------------------------------------
(* The resource goes to the pool and comes back: nobody is using it, and   *)
(* what the GPU still has to do for it is covered by its stamp.            *)
LEMMA ParkedWork ==
  ASSUME SettlementOrder, bin = "held", \A u \in Threads : thread[u].step # "stamp",
         NEW c \in Contexts, NEW i \in 1..Len(gpu[c])
  PROVE  /\ gpu[c][i].ticket <= Merged(stamp[deed])[c]
         /\ KeysOf(Merged(stamp[deed])) # {}
<1> DEFINE w == gpu[c][i]
<1>1. Types /\ Recording /\ Binned /\ deed \in Deeds
  BY DEF SettlementOrder, Types, PoolOK
<1>2. w.deed = deed /\ w.ticket \in Nat \ {0} /\ c \in Keys
  BY <1>1, SubmitTypes DEF Binned, Types
<1>3. CoveredBy(stamp[w.deed], c, w)
  BY <1>1 DEF Recording, Stamping, At
<1> HIDE DEF w
<1>4. w.ticket <= stamp[deed].write[c] \/ w.ticket <= stamp[deed].reads[c]
  BY <1>2, <1>3 DEF CoveredBy
<1>5. stamp[deed].write[c] \in Nat /\ stamp[deed].reads[c] \in Nat
  BY <1>1, <1>2, StampValues DEF Types
<1>6. stamp[deed] \in StampTypes
  BY <1>1 DEF Types, StampsOK
<1>7. /\ Merged(stamp[deed])[c] \in Nat
      /\ stamp[deed].write[c] <= Merged(stamp[deed])[c]
      /\ stamp[deed].reads[c] <= Merged(stamp[deed])[c]
  BY <1>2, <1>6, MergedTables, SettlementAssumption DEF Tables
<1>8. w.ticket <= Merged(stamp[deed])[c]
  BY <1>2, <1>4, <1>5, <1>7
<1>9. c \in KeysOf(Merged(stamp[deed]))
  BY <1>2, <1>7, <1>8 DEF KeysOf
<1> QED
  BY <1>8, <1>9 DEF w

LEMMA ParkKeeps ==
  ASSUME SettlementOrder, NEW t \in Threads, bin = "held", deed < MaxDeeds,
         \A u \in Threads \ {t} : thread[u].op = "none", thread[t].step # "stamp",
         Park(Merged(stamp[deed])), UNCHANGED <<gpuVars, stamp, latchVars, view>>,
         CallsOK' /\ Shapes' /\ Sleepers', thread'[t].op = "none",
         \A u \in Threads : u # t => thread'[u] = thread[u]
  PROVE  SettlementOrder'
<1> DEFINE M == Merged(stamp[deed])
<1>1. /\ Types /\ Shapes /\ Queues /\ Recording /\ Counted /\ PoolOK /\ deed \in Deeds
  BY DEF SettlementOrder, Types, PoolOK
<1>2. deed' = deed + 1 /\ readyAfter' = M /\ bin' = IF KeysOf(M) = {} THEN "ready" ELSE "pending"
  BY DEF Park
<1>3. M \in Tables
  BY <1>1, MergedTables DEF Types, StampsOK
<1> HIDE DEF M
<1>4. StampsOK' /\ Grows
  BY <1>1, SameStamps, SameGrow DEF Types
<1>5. Types'
  <2>1. deed' \in Deeds
    BY <1>1, <1>2, SettlementAssumption DEF Deeds
  <2>2. PoolOK'
    BY <1>1, <1>2, <1>3, <2>1 DEF PoolOK
  <2> QED
    BY <1>1, <1>4, <2>2 DEF Types, QueuesOK, LatchOK, gpuVars, latchVars
<1>6. \A u \in Threads : thread'[u].op = "none"
  OBVIOUS
<1>7. Leased' /\ Awaiting' /\ Owed'
  BY <1>6 DEF Leased, Awaiting, Owed, Settling
<1>8. \A u \in Threads : thread[u].step # "stamp"
  BY <1>1 DEF Shapes, ShapeOf
<1>9. Queues'
  BY <1>1 DEF Queues, gpuVars
<1>10. Recording'
  BY <1>1, <1>4, <1>8, RecordingKept DEF At, gpuVars
<1>11. Binned'
  <2> SUFFICES ASSUME NEW c \in Contexts, NEW i \in 1..Len(gpu[c])
               PROVE  /\ bin' = "pending" /\ gpu[c][i].ticket <= readyAfter'[c]
    BY DEF Binned, gpuVars
  <2> QED
    BY <1>2, <1>8, ParkedWork DEF M
<1>12. Counted'
  <2>1. \A u \in Threads : (AtGate(u)' => AtGate(u)) /\ (Owing(u)' => Owing(u))
    BY <1>6 DEF AtGate, Owing
  <2> QED
    BY <1>1, <1>5, <2>1, CountedKept DEF gpuVars, latchVars
<1> QED
  BY <1>5, <1>7, <1>9, <1>10, <1>11, <1>12 DEF SettlementOrder

LEMMA SettleReturnKeeps ==
  ASSUME SettlementOrder, NEW t \in Threads, SettleReturn(t)
  PROVE  SettlementOrder'
<1>1. Types /\ Shapes /\ Sleepers /\ Leased /\ CallsOK /\ ShapeOf(t, thread[t])
  BY DEF SettlementOrder, Types, Shapes
<1>2. /\ thread[t].step = "settled" /\ Return(t)
      /\ UNCHANGED <<gpuVars, stamp, latchVars, view>>
      /\ IF thread[t].op = "drop" THEN Park(Merged(stamp[deed])) ELSE UNCHANGED poolVars
  BY DEF SettleReturn, At
<1>3. /\ CallsOK' /\ Shapes' /\ Sleepers' /\ thread'[t].op = "none" /\ promises' = promises
      /\ LatchOK' /\ \A u \in Threads : u # t => thread'[u] = thread[u]
  BY <1>1, <1>2, ReturnPuts
<1>4. CASE thread[t].op = "drop"
  <2>1. /\ bin = "held" /\ deed < MaxDeeds
        /\ \A u \in Threads \ {t} : thread[u].op = "none"
    BY <1>1, <1>4 DEF Leased
  <2> QED
    BY <1>2, <1>3, <1>4, <2>1, ParkKeeps
<1>5. CASE thread[t].op # "drop"
  <2>1. UNCHANGED <<gpuVars, stamp, latchVars, view, poolVars>>
    BY <1>2, <1>5
  <2>2. StampsOK' /\ Grows
    BY <1>1, <2>1, SameStamps, SameGrow DEF Types
  <2>3. Types'
    BY <1>1, <1>3, <2>1, <2>2 DEF Types, QueuesOK, PoolOK, gpuVars, poolVars
  <2>4. \A d \in Deeds : stamp'[d].claims = Cardinality(ViewsOf(d)')
    BY <2>1 DEF SettlementOrder, Counted, ViewsOf
  <2>5. UNCHANGED <<live, next, gpu, progress, promises, deed, bin, readyAfter, view>>
    BY <2>1 DEF gpuVars, latchVars, poolVars
  <2> QED
    BY <1>2, <1>3, <2>2, <2>3, <2>4, <2>5, ClaimKeeps
<1> QED
  BY <1>4, <1>5

LEMMA ReleaseKeeps ==
  ASSUME SettlementOrder, NEW t \in Threads, Release(t)
  PROVE  SettlementOrder'
<1>1. Types /\ Shapes /\ Sleepers /\ ShapeOf(t, thread[t])
  BY DEF SettlementOrder, Shapes
<1>2. /\ thread[t].step = "idle" /\ Owned(t) /\ deed < MaxDeeds /\ Park(Merged(stamp[deed]))
      /\ UNCHANGED <<gpuVars, stamp, latchVars, thread, view>>
  BY DEF Release, At
<1>3. bin = "held" /\ \A u \in Threads \ {t} : thread[u].op = "none"
  BY <1>2 DEF Owned
<1>4. thread[t].op = "none"
  BY <1>1, <1>2 DEF ShapeOf
<1>5. CallsOK' /\ Shapes' /\ Sleepers' /\ thread'[t].op = "none"
  BY <1>1, <1>2, <1>4 DEF Types, CallsOK, Shapes, ShapeOf, Sleepers, At, latchVars
<1> QED
  BY <1>2, <1>3, <1>5, ParkKeeps

(* Ready: the contexts have passed everything that the bin entry waits for.*)
LEMMA ReadyIsDone ==
  ASSUME SettlementOrder, bin = "pending", IsReady(readyAfter), NEW c \in Contexts
  PROVE  1..Len(gpu[c]) = {}
<1> SUFFICES ASSUME NEW i \in 1..Len(gpu[c]) PROVE FALSE
  OBVIOUS
<1> DEFINE w == gpu[c][i]
<1>1. Types /\ Queues /\ Binned
  BY DEF SettlementOrder
<1>2. w.ticket \in Nat \ {0} /\ c \in Keys
  BY <1>1, SubmitTypes DEF Types
<1>3. w.ticket <= readyAfter[c] /\ progress[c] < w.ticket /\ c \in live
  BY <1>1 DEF Binned, Queues
<1>4. readyAfter[c] \in Nat /\ progress[c] \in Nat
  BY <1>1, <1>2, SettlementAssumption DEF Types, PoolOK, QueuesOK, Tables
<1> HIDE DEF w
<1>5. c \in KeysOf(readyAfter)
  BY <1>2, <1>3, <1>4 DEF KeysOf
<1>6. ProgressOf(c) >= readyAfter[c]
  BY <1>5 DEF IsReady
<1> QED
  BY <1>2, <1>3, <1>4, <1>6 DEF ProgressOf

(* A step of the pool alone, with nothing in flight for what it hands out. *)
LEMMA PoolKeeps ==
  ASSUME SettlementOrder, bin # "held", \A c \in Contexts : 1..Len(gpu[c]) = {},
         UNCHANGED <<gpuVars, stamp, latchVars, thread, view, deed>>, PoolOK'
  PROVE  SettlementOrder'
<1>1. Types /\ Shapes /\ Sleepers /\ Leased /\ Queues /\ Counted
  BY DEF SettlementOrder
<1>2. \A u \in Threads : thread[u].op = "none"
  BY <1>1 DEF Leased
<1>3. StampsOK'
  BY <1>1, SameStamps DEF Types
<1>4. Types' /\ Shapes' /\ Sleepers'
  <2>1. Types'
    BY <1>1, <1>3 DEF Types, QueuesOK, LatchOK, CallsOK, gpuVars, latchVars
  <2>2. Shapes' /\ Sleepers'
    BY <1>1 DEF Shapes, ShapeOf, Sleepers, At, latchVars
  <2> QED
    BY <2>1, <2>2
<1>5. Leased' /\ Awaiting' /\ Owed'
  BY <1>2 DEF Leased, Awaiting, Owed, Settling
<1>6. Queues' /\ Recording' /\ Binned'
  BY <1>1 DEF Queues, Recording, Binned, gpuVars
<1>7. Counted'
  BY <1>1, <1>4, CountedKept DEF gpuVars, latchVars, AtGate, Owing
<1> QED
  BY <1>4, <1>5, <1>6, <1>7 DEF SettlementOrder

LEMMA DrainReadyKeeps ==
  ASSUME SettlementOrder, DrainReady
  PROVE  SettlementOrder'
<1>1. /\ bin = "pending" /\ IsReady(readyAfter) /\ bin' = "ready"
      /\ UNCHANGED <<gpuVars, stamp, latchVars, thread, view, deed, readyAfter>>
  BY DEF DrainReady
<1>2. \A c \in Contexts : 1..Len(gpu[c]) = {}
  BY <1>1, ReadyIsDone
<1>3. PoolOK'
  BY <1>1 DEF SettlementOrder, Types, PoolOK
<1> QED
  BY <1>1, <1>2, <1>3, PoolKeeps

LEMMA AcquireKeeps ==
  ASSUME SettlementOrder, Acquire
  PROVE  SettlementOrder'
<1>1. /\ bin = "ready" \/ (bin = "pending" /\ IsReady(readyAfter))
      /\ bin' = "held" /\ readyAfter' = Empty
      /\ UNCHANGED <<gpuVars, stamp, latchVars, thread, view, deed>>
  BY DEF Acquire
<1>2. \A c \in Contexts : 1..Len(gpu[c]) = {}
  BY <1>1, ReadyIsDone DEF SettlementOrder, Binned
<1>3. Empty \in Tables
  BY SettlementAssumption DEF Empty, Tables
<1>4. PoolOK'
  BY <1>1, <1>3 DEF SettlementOrder, Types, PoolOK
<1> QED
  BY <1>1, <1>2, <1>4, PoolKeeps

-----------------------------------------------------------------------------
(* Every step keeps the order.                                             *)
Strolls(t) ==
  \/ GateSnapshot(t) \/ BlockNext(t) \/ BlockLock(t) \/ BlockPoll(t) \/ BlockSleep(t)
  \/ BlockWake(t) \/ FoldIn(t) \/ Push(t) \/ Resolve(t) \/ Unpark(t) \/ Notify(t)
  \/ SettleCollect(t) \/ SettleAwait(t)

LEMMA StrollsWalk ==
  ASSUME SettlementOrder, NEW t \in Threads, Strolls(t)
  PROVE  Walk /\ Shaped
<1>1. Types /\ Shapes /\ Sleepers /\ Counted
  BY DEF SettlementOrder
<1>2. CASE GateSnapshot(t)
  BY <1>1, <1>2, GateSnapshotWalks
<1>3. CASE BlockNext(t)
  BY <1>1, <1>3, BlockNextWalks
<1>4. CASE BlockLock(t) \/ BlockPoll(t) \/ BlockSleep(t) \/ BlockWake(t)
  BY <1>1, <1>4, LockWalks
<1>5. CASE FoldIn(t)
  BY <1>1, <1>5, FoldInWalks
<1>6. CASE Push(t)
  BY <1>1, <1>6, PushWalks
<1>7. CASE Resolve(t) \/ Unpark(t)
  BY <1>1, <1>7, ResolveWalks
<1>8. CASE Notify(t)
  BY <1>1, <1>8, NotifyWalks
<1>9. CASE SettleCollect(t) \/ SettleAwait(t)
  BY <1>1, <1>9, SettleWalks
<1> QED
  BY <1>2, <1>3, <1>4, <1>5, <1>6, <1>7, <1>8, <1>9 DEF Strolls

LEMMA StrollsKeep ==
  ASSUME SettlementOrder, NEW t \in Threads, Strolls(t)
  PROVE  SettlementOrder'
<1>1. Walk /\ Shaped
  BY StrollsWalk
<1>2. CASE Push(t)
  <2>1. promises' = promises + 1
    BY <1>2 DEF Push
  <2>2. Owing(t) /\ ~Owing(t)'
    BY <1>2, PushWalks DEF SettlementOrder
  <2> QED
    BY <1>1, <2>1, <2>2, WalkKeeps
<1>3. CASE ~Push(t)
  <2>1. promises' = promises
    BY <1>3 DEF Strolls, GateSnapshot, BlockNext, BlockLock, BlockPoll, BlockSleep, BlockWake,
                FoldIn, Resolve, Unpark, Notify, SettleCollect, SettleAwait, latchVars
  <2> QED
    BY <1>1, <2>1, WalkKeeps
<1> QED
  BY <1>2, <1>3

LEMMA StepKeeps ==
  ASSUME SettlementOrder, NEW t \in Threads, Step(t)
  PROVE  SettlementOrder'
<1>1. CASE Strolls(t)
  BY <1>1, StrollsKeep
<1>2. CASE GateClaims(t)
  BY <1>2, GateClaimsKeeps
<1>3. CASE Submit(t)
  BY <1>3, SubmitKeeps
<1>4. CASE Stamp(t)
  BY <1>4, StampKeeps
<1>5. CASE SettleMeasure(t)
  BY <1>5, SettleMeasureKeeps
<1>6. CASE SettleReturn(t)
  BY <1>6, SettleReturnKeeps
<1>7. CASE ViewWait(t)
  BY <1>7, ViewWaitKeeps
<1>8. CASE ViewEpochs(t)
  BY <1>8, ViewEpochsKeeps
<1>9. CASE ViewClaim(t)
  BY <1>9, ViewClaimKeeps
<1> QED
  BY <1>1, <1>2, <1>3, <1>4, <1>5, <1>6, <1>7, <1>8, <1>9 DEF Step, Strolls

LEMMA CallKeeps ==
  ASSUME SettlementOrder, NEW t \in Threads, Call(t)
  PROVE  SettlementOrder'
<1>1. CASE \E c \in Contexts, kind \in Reading \cup Writing : SubmitBegin(t, c, kind)
  BY <1>1, SubmitBeginKeeps
<1>2. CASE \E op \in {"settle", "drop"} : SettleBegin(t, op)
  BY <1>2, SettleBeginKeeps
<1>3. CASE Release(t)
  BY <1>3, ReleaseKeeps
<1>4. CASE \E c \in Contexts, tv \in 1..MaxTicket : ViewBegin(t, c, tv)
  BY <1>4, ViewBeginKeeps
<1>5. CASE ViewDrop(t)
  BY <1>5, ViewDropKeeps
<1> QED
  BY <1>1, <1>2, <1>3, <1>4, <1>5 DEF Call

LEMMA UnchangedKeeps ==
  ASSUME SettlementOrder, UNCHANGED settlementVars
  PROVE  SettlementOrder'
<1>1. UNCHANGED <<live, next, gpu, progress, stamp, promise, park, waiters, promises, thread, view,
                  deed, bin, readyAfter>>
  BY DEF settlementVars, gpuVars, latchVars, poolVars
<1>2. Types' /\ Shapes' /\ Sleepers'
  BY <1>1 DEF SettlementOrder, Types, QueuesOK, StampsOK, LatchOK, CallsOK, PoolOK, Shapes, ShapeOf,
              Sleepers, At
<1>3. Leased' /\ Queues' /\ Binned' /\ Owed' /\ Awaiting'
  BY <1>1 DEF SettlementOrder, Leased, Queues, Binned, Owed, Awaiting, Settling
<1>4. Recording'
  BY <1>1 DEF SettlementOrder, Recording, Stamping, At, CoveredBy
<1>5. Counted'
  BY <1>1 DEF SettlementOrder, Counted, ViewsOf, Gated, Owers, AtGate, Owing
<1> QED
  BY <1>2, <1>3, <1>4, <1>5 DEF SettlementOrder

LEMMA NextKeeps ==
  ASSUME SettlementOrder, [Next]_settlementVars
  PROVE  SettlementOrder'
<1>1. CASE \E t \in Threads : Step(t) \/ Call(t)
  BY <1>1, StepKeeps, CallKeeps
<1>2. CASE \E c \in Contexts : Complete(c) \/ DestroyContext(c)
  BY <1>2, CompleteKeeps, DestroyKeeps
<1>3. CASE DrainReady
  BY <1>3, DrainReadyKeeps
<1>4. CASE Acquire
  BY <1>4, AcquireKeeps
<1>5. CASE UNCHANGED settlementVars
  BY <1>5, UnchangedKeeps
<1> QED
  BY <1>1, <1>2, <1>3, <1>4, <1>5 DEF Next

LEMMA InitialOrder == Init => SettlementOrder
<1> SUFFICES ASSUME Init PROVE SettlementOrder
  OBVIOUS
<1>1. Empty \in Tables
  BY SettlementAssumption DEF Empty, Tables
<1>2. \A t \in Threads : /\ thread[t] = Idle /\ thread[t].op = "none" /\ thread[t].step = "idle"
                         /\ ShapeOf(t, Idle)
  BY IdleCall DEF Init, Idle
<1>3. StampsOK /\ \A d \in Deeds : stamp[d].claims = 0
  BY <1>1 DEF Init, Fresh, StampsOK, StampTypes
<1>4. CallsOK
  BY IdleCall DEF Init, CallsOK
<1>5. QueuesOK
  BY SettlementAssumption DEF Init, QueuesOK
<1>6. LatchOK
  BY SettlementAssumption DEF Init, LatchOK, Pending, Abandoned
<1>7. PoolOK
  BY <1>1, SettlementAssumption DEF Init, PoolOK, Deeds
<1>8. Shapes /\ Leased /\ Awaiting /\ Owed
  BY <1>2 DEF Shapes, Leased, Awaiting, Owed, Settling
<1>9. Sleepers
  BY DEF Init, Sleepers
<1>10. \A c \in Contexts : 1..Len(gpu[c]) = {} /\ gpu[c] = << >> /\ progress[c] < next
  BY DEF Init
<1>11. Queues /\ Recording /\ Binned
  BY <1>10 DEF Queues, Recording, Binned
<1>12. Counted
  <2>1. \A d \in Deeds : ViewsOf(d) = {}
    BY DEF Init, ViewsOf, Deeds
  <2>2. Gated = {} /\ Owers = {}
    BY <1>2 DEF Gated, Owers, AtGate, Owing
  <2>3. Cardinality({}) = 0
    BY FS_EmptySet
  <2>4. next + Cardinality(Gated) <= MaxTicket + 1 /\ promises + Cardinality(Owers) <= MaxPromises
    <3>1. next = 1 /\ promises = 0
      BY DEF Init
    <3> QED
      BY <2>2, <2>3, <3>1, SettlementAssumption
  <2>5. \A d \in Deeds : stamp[d].claims = Cardinality(ViewsOf(d))
    BY <1>3, <2>1, <2>3
  <2> QED
    BY <2>4, <2>5 DEF Counted
<1> QED
  BY <1>3, <1>4, <1>5, <1>6, <1>7, <1>8, <1>9, <1>11, <1>12 DEF SettlementOrder, Types

LEMMA OrderHolds == Spec => []SettlementOrder
<1>1. SettlementOrder /\ [Next]_settlementVars => SettlementOrder'
  BY NextKeeps
<1> QED
  BY <1>1, InitialOrder, PTL DEF Spec

(* Every variable has its type.  A stamp counts the live views of its      *)
(* resource, and what was begun has room within the bounds on tickets and  *)
(* promises.                                                               *)
THEOREM SettlementTypes == Spec => []TypeOK
<1>1. SettlementOrder => TypeOK
  BY TypesGive DEF SettlementOrder
<1> QED
  BY <1>1, OrderHolds, PTL

(* wait_until_settled and is_settled: a settle that reports Ready has seen *)
(* the end of every submit recorded before it began, on whatever context.  *)
THEOREM SettleSeesTheEnd == Spec => []SettledMeansIdle
<1>1. SettlementOrder => SettledMeansIdle
  <2> SUFFICES ASSUME SettlementOrder, NEW t \in Threads, At(t, "settled"), NEW w \in InFlight,
                      w.ticket \in thread[t].owed
               PROVE  FALSE
    BY DEF SettledMeansIdle
  <2>1. CallsOK /\ ShapeOf(t, thread[t]) /\ Awaiting
    BY DEF SettlementOrder, Types, Shapes
  <2>2. Settling(t)
    BY <2>1, CallFieldTypes DEF ShapeOf, At, Settling, Waiting, Resolving
  <2>3. PICK c \in Contexts : \E i \in 1..Len(gpu[c]) : w = gpu[c][i]
    BY FlightIs
  <2> QED
    BY <2>1, <2>2, <2>3 DEF Awaiting, At
<1> QED
  BY <1>1, OrderHolds, PTL

(* release_buffer, drain_ready and take_ready_or_promote: a resource that  *)
(* the transient pool hands out again is not in use by any submit made     *)
(* under an earlier stamp, although releasing it does not wait.            *)
THEOREM PoolReissuesIdle == Spec => []ReissuedIsIdle
<1>1. SettlementOrder => ReissuedIsIdle
  BY FlightIs DEF SettlementOrder, Binned, ReissuedIsIdle
<1> QED
  BY <1>1, OrderHolds, PTL

-----------------------------------------------------------------------------
(* Host views and writes.  A step is quiet for thread u if it brings u     *)
(* nearer neither to a write nor to a view.                                *)
Quiet(u) ==
  /\ thread'[u].op = "drop" => thread[u].op = "drop"
  /\ thread'[u].step = "submit" /\ thread'[u].kind \in Writing =>
       thread[u].step = "submit" /\ thread[u].kind \in Writing
  /\ thread'[u].step = "viewepochs" =>
       thread[u].step = "viewepochs" /\ thread'[u].epochs = thread[u].epochs
  /\ thread'[u].step = "viewclaim" => thread[u].step = "viewclaim"

LEMMA QuietKeeps ==
  ASSUME ViewOrder, UNCHANGED <<view, deed, bin>>, \A u \in Threads : Quiet(u),
         \A e \in Contexts : \A i \in 1..Len(gpu'[e]) :
           \E j \in 1..Len(gpu[e]) : gpu'[e][i] = gpu[e][j]
  PROVE  ViewOrder'
<1>1. ViewsCurrent'
  BY DEF ViewOrder, ViewsCurrent, Quiet
<1>2. WritesGated'
  BY DEF ViewOrder, WritesGated, Quiet, At
<1>3. ViewsWait'
  <2> SUFFICES ASSUME NEW t \in Threads, NEW c \in Contexts, NEW i \in 1..Len(gpu'[c]),
                      gpu'[c][i].writes
               PROVE  /\ thread'[t].step = "viewepochs" =>
                           gpu'[c][i].ticket <= thread'[t].epochs[c]
                      /\ thread'[t].step # "viewclaim" /\ view'[t] = 0
    BY DEF ViewsWait, At
  <2>1. PICK j \in 1..Len(gpu[c]) : gpu'[c][i] = gpu[c][j]
    OBVIOUS
  <2> QED
    BY <2>1 DEF ViewOrder, ViewsWait, Quiet, At
<1> QED
  BY <1>1, <1>2, <1>3 DEF ViewOrder

(* As it is for a step inside of one call.                                 *)
LEMMA QuietCall ==
  ASSUME ViewOrder, UNCHANGED <<view, deed, bin, gpu>>, NEW t \in Threads, Quiet(t),
         \A u \in Threads : u # t => thread'[u] = thread[u]
  PROVE  ViewOrder'
<1>1. \A u \in Threads : Quiet(u)
  BY DEF Quiet
<1>2. \A e \in Contexts : \A i \in 1..Len(gpu'[e]) : \E j \in 1..Len(gpu[e]) : gpu'[e][i] = gpu[e][j]
  OBVIOUS
<1> QED
  BY <1>1, <1>2, QuietKeeps

LEMMA WalksAreQuiet ==
  ASSUME ViewOrder, Walk, Shaped
  PROVE  ViewOrder'
<1>1. UNCHANGED <<view, deed, bin, gpu>>
  BY DEF Walk, Stride
<1>2. ASSUME NEW u \in Threads PROVE Quiet(u)
  <2>1. /\ thread'[u].op = "none" \/ SameCall(u)
        /\ Unmarked(u) /\ (thread'[u].op = "none" <=> thread'[u].step = "idle")
    BY DEF Walk, Stride, Shaped, Shapes, ShapeOf
  <2> QED
    BY <2>1 DEF Quiet, SameCall, Unmarked, Marked
<1>3. \A e \in Contexts : \A i \in 1..Len(gpu'[e]) : \E j \in 1..Len(gpu[e]) : gpu'[e][i] = gpu[e][j]
  BY <1>1
<1> QED
  BY <1>1, <1>2, <1>3, QuietKeeps

(* Who views the resource writes it alone.                                 *)
LEMMA ViewerWrites ==
  ASSUME SettlementOrder, OneWriter, NEW t \in Threads, t \in Hosts,
         NEW u \in Threads, thread[u].op = "submit", thread[u].kind \in Writing
  PROVE  u = t
<1>1. thread[u].kind \in Kinds[u]
  BY DEF SettlementOrder, Shapes, ShapeOf
<1> QED
  BY <1>1 DEF OneWriter

(* The gate lets a write pass that no view stands against.                 *)
LEMMA GateClaimsGuards ==
  ASSUME SettlementOrder, ViewOrder, NEW t \in Threads, GateClaims(t)
  PROVE  ViewOrder'
<1>1. Types /\ Shapes /\ Sleepers /\ Leased /\ Counted /\ deed \in Deeds
  BY DEF SettlementOrder, Types, PoolOK
<1>2. /\ Stride /\ Shaped
      /\ \A u \in Threads : u # t => thread'[u] = thread[u]
      /\ thread'[t].op \notin {"settle", "drop", "view"}
      /\ \/ thread'[t] = Idle
         \/ /\ stamp[thread[t].deed].claims <= 0 /\ thread[t].op = "submit"
            /\ SameCall(t) /\ thread'[t].step = "submit"
  BY <1>1, GateClaimsStep
<1>3. UNCHANGED <<view, deed, bin, gpu>>
  BY <1>2 DEF Stride
<1>4. CASE thread'[t] = Idle
  <2>1. Quiet(t)
    BY <1>4 DEF Quiet, Idle
  <2> QED
    BY <1>2, <1>3, <2>1, QuietCall
<1>5. CASE stamp[thread[t].deed].claims <= 0 /\ thread[t].op = "submit"
           /\ SameCall(t) /\ thread'[t].step = "submit"
  <2>1. thread[t].deed = deed
    BY <1>1, <1>5 DEF Leased
  <2>2. ViewsOf(deed) = {}
    <3>1. ViewsOf(deed) \in SUBSET Threads
      BY DEF ViewsOf
    <3>2. IsFiniteSet(ViewsOf(deed)) /\ Cardinality(ViewsOf(deed)) \in Nat
      BY <3>1, ThreadsCount
    <3>3. Cardinality(ViewsOf(deed)) <= 0
      BY <1>1, <1>5, <2>1 DEF Counted
    <3> QED
      BY <3>2, <3>3, FS_EmptySet
  <2>3. \A u \in Threads : view[u] = 0
    BY <2>2 DEF ViewOrder, ViewsCurrent, ViewsOf
  <2>4. ViewsCurrent'
    <3>1. \A u \in Threads : view'[u] = 0
      BY <1>3, <2>3
    <3> QED
      BY <3>1 DEF ViewsCurrent
  <2>5. WritesGated'
    BY <1>3, <2>3 DEF WritesGated
  <2>6. ViewsWait'
    BY <1>2, <1>3, <1>5 DEF ViewOrder, ViewsWait, At
  <2> QED
    BY <2>4, <2>5, <2>6 DEF ViewOrder
<1> QED
  BY <1>2, <1>4, <1>5

LEMMA SubmitGuards ==
  ASSUME SettlementOrder, ViewOrder, OneWriter, NEW t \in Threads, Submit(t)
  PROVE  ViewOrder'
<1> DEFINE c == thread[t].ctx
           w == Submitted(t)
<1>1. /\ AtGate(t) /\ thread[t].step = "submit" /\ c \in Contexts
      /\ w \in Submits /\ gpu' = [gpu EXCEPT ![c] = Append(@, w)]
      /\ UNCHANGED <<view, deed, bin>>
      /\ \A u \in Threads : u # t => thread'[u] = thread[u]
      /\ SameCall(t) /\ thread'[t].step = "stamp" /\ thread'[t].tv = next
  BY SubmitStep
<1>2. w.writes <=> thread[t].kind \in Writing
  BY DEF Submitted
<1> HIDE DEF w
<1>3. \A e \in Contexts : \A i \in 1..Len(gpu'[e]) :
        \/ i \in 1..Len(gpu[e]) /\ gpu'[e][i] = gpu[e][i]
        \/ e = c /\ i = Len(gpu[e]) + 1 /\ gpu'[e][i] = w
  BY <1>1, AppendedQueue DEF SettlementOrder, Types
<1>4. ViewsCurrent'
  BY <1>1 DEF ViewOrder, ViewsCurrent, SameCall
<1>5. WritesGated'
  BY <1>1 DEF ViewOrder, WritesGated, At
<1>6. ViewsWait'
  <2> SUFFICES ASSUME NEW u \in Threads, NEW e \in Contexts, NEW i \in 1..Len(gpu'[e]),
                      gpu'[e][i].writes
               PROVE  /\ thread'[u].step = "viewepochs" =>
                           gpu'[e][i].ticket <= thread'[u].epochs[e]
                      /\ thread'[u].step # "viewclaim" /\ view'[u] = 0
    BY DEF ViewsWait, At
  <2>1. CASE i \in 1..Len(gpu[e]) /\ gpu'[e][i] = gpu[e][i]
    BY <1>1, <2>1 DEF ViewOrder, ViewsWait, At
  <2>2. CASE gpu'[e][i] = w
    <3>1. thread[t].op = "submit" /\ thread[t].kind \in Writing
      BY <1>1, <1>2, <2>2 DEF AtGate
    <3>2. view[u] = 0
      BY <1>1, <3>1 DEF ViewOrder, WritesGated, At
    <3>3. thread'[u].step \notin {"viewepochs", "viewclaim"}
      <4>1. CASE u = t
        BY <1>1, <4>1
      <4>2. CASE u # t
        <5> SUFFICES ASSUME thread[u].step \in {"viewepochs", "viewclaim"} PROVE FALSE
          BY <1>1, <4>2
        <5>1. CallsOK /\ ShapeOf(u, thread[u])
          BY DEF SettlementOrder, Types, Shapes
        <5>2. thread[u].op = "view"
          BY <5>1, CallFieldTypes DEF ShapeOf, Waiting, Resolving
        <5>3. u \in Hosts
          BY <5>1, <5>2 DEF ShapeOf
        <5> QED
          BY <3>1, <4>2, <5>3, ViewerWrites
      <4> QED
        BY <4>1, <4>2
    <3> QED
      BY <1>1, <3>2, <3>3
  <2> QED
    BY <1>3, <2>1, <2>2
<1> QED
  BY <1>4, <1>5, <1>6 DEF ViewOrder

(* The epochs that a view waits for cover the writes in flight: the one    *)
(* thread that writes is the viewer, which has recorded its own.           *)
LEMMA ViewWaitGuards ==
  ASSUME SettlementOrder, ViewOrder, OneWriter, NEW t \in Threads, ViewWait(t)
  PROVE  ViewOrder'
<1>1. Types /\ Shapes /\ Sleepers /\ Leased /\ Recording /\ Binned /\ ShapeOf(t, thread[t])
  BY DEF SettlementOrder, Shapes
<1>2. /\ Stride
      /\ \A u \in Threads : u # t => thread'[u] = thread[u]
      /\ thread[t].op = "view" /\ SameCall(t) /\ thread[t].deed \in Deeds
      /\ thread'[t].step = "viewepochs" /\ thread'[t].epochs = stamp[thread[t].deed].write
  BY <1>1, ViewWaitStep
<1>3. UNCHANGED <<view, deed, bin, gpu>>
  BY <1>2 DEF Stride
<1>4. thread[t].step = "viewwait"
  BY DEF ViewWait, At
<1>5. bin = "held" /\ thread[t].deed = deed /\ t \in Hosts
  BY <1>1, <1>2 DEF Leased, ShapeOf
<1>6. ViewsCurrent' /\ WritesGated'
  BY <1>2, <1>3 DEF ViewOrder, ViewsCurrent, WritesGated, SameCall, At
<1>7. ViewsWait'
  <2> SUFFICES ASSUME NEW u \in Threads, NEW c \in Contexts, NEW i \in 1..Len(gpu[c]),
                      gpu[c][i].writes
               PROVE  /\ thread'[u].step = "viewepochs" => gpu[c][i].ticket <= thread'[u].epochs[c]
                      /\ thread'[u].step # "viewclaim" /\ view[u] = 0
    BY <1>3 DEF ViewsWait, At
  <2>1. CASE u # t
    BY <1>2, <2>1 DEF ViewOrder, ViewsWait, At
  <2>2. CASE u = t
    <3>1. view[t] = 0
      BY DEF ViewOrder, ViewsWait
    <3>2. ~\E v \in Threads : Stamping(v, c, gpu[c][i])
      <4> SUFFICES ASSUME NEW v \in Threads, Stamping(v, c, gpu[c][i]) PROVE FALSE
        OBVIOUS
      <4>1. v # t /\ thread[v].step = "stamp" /\ thread[v].kind \in Writing
        BY <1>4 DEF Stamping, At
      <4>2. CallsOK /\ ShapeOf(v, thread[v])
        BY <1>1 DEF Types, Shapes
      <4>3. thread[v].op = "submit"
        BY <4>1, <4>2, CallFieldTypes DEF ShapeOf, Waiting, Resolving
      <4> QED
        BY <1>5, <4>1, <4>3, ViewerWrites
    <3>3. CoveredBy(stamp[gpu[c][i].deed], c, gpu[c][i])
      BY <1>1, <3>2 DEF Recording
    <3>4. gpu[c][i].deed = thread[t].deed
      BY <1>1, <1>5 DEF Binned
    <3>5. gpu[c][i].ticket <= stamp[thread[t].deed].write[c]
      BY <3>3, <3>4 DEF CoveredBy
    <3> QED
      BY <1>2, <2>2, <3>1, <3>5
  <2> QED
    BY <2>1, <2>2
<1> QED
  BY <1>6, <1>7 DEF ViewOrder

(* Epochs that are reached leave no write in flight.                       *)
LEMMA ViewEpochsGuards ==
  ASSUME SettlementOrder, ViewOrder, NEW t \in Threads, ViewEpochs(t)
  PROVE  ViewOrder'
<1>1. Types /\ Shapes /\ Sleepers /\ Queues /\ CallsOK
  BY DEF SettlementOrder, Types
<1>2. /\ Stride
      /\ \A u \in Threads : u # t => thread'[u] = thread[u]
      /\ SameCall(t) /\ thread[t].step = "viewepochs"
      /\ \/ thread'[t].step = "viewclaim" /\ IsReady(thread[t].epochs)
         \/ thread'[t].step = "panicked"
  BY <1>1, ViewEpochsStep
<1>3. UNCHANGED <<view, deed, bin, gpu>>
  BY <1>2 DEF Stride
<1>4. CASE thread'[t].step = "panicked"
  <2>1. Quiet(t)
    BY <1>2, <1>4 DEF Quiet, SameCall
  <2> QED
    BY <1>2, <1>3, <2>1, QuietCall
<1>5. CASE thread'[t].step = "viewclaim" /\ IsReady(thread[t].epochs)
  <2>1. ASSUME NEW c \in Contexts, NEW i \in 1..Len(gpu[c]), gpu[c][i].writes
        PROVE  FALSE
    <3> DEFINE w == gpu[c][i]
               e == thread[t].epochs
    <3>1. w.ticket \in Nat \ {0} /\ c \in Keys
      BY <1>1, SubmitTypes DEF Types
    <3>2. w.ticket <= e[c]
      BY <1>2, <2>1 DEF ViewOrder, ViewsWait, At
    <3>3. c \in live /\ progress[c] < w.ticket
      BY <1>1 DEF Queues
    <3>4. e[c] \in Nat /\ progress[c] \in Nat
      BY <1>1, <3>1, CallFieldTypes, SettlementAssumption DEF Types, QueuesOK, Tables
    <3>5. IsReady(e)
      BY <1>5
    <3> HIDE DEF w, e
    <3>6. c \in KeysOf(e)
      BY <3>1, <3>2, <3>4 DEF KeysOf
    <3>7. ProgressOf(c) >= e[c]
      BY <3>5, <3>6 DEF IsReady
    <3> QED
      BY <3>1, <3>2, <3>3, <3>4, <3>7 DEF ProgressOf
  <2>2. ViewsWait'
    BY <1>3, <2>1 DEF ViewsWait
  <2>3. ViewsCurrent' /\ WritesGated'
    BY <1>2, <1>3, <1>5 DEF ViewOrder, ViewsCurrent, WritesGated, SameCall, At
  <2> QED
    BY <2>2, <2>3 DEF ViewOrder
<1> QED
  BY <1>2, <1>4, <1>5

LEMMA ViewClaimGuards ==
  ASSUME SettlementOrder, ViewOrder, OneWriter, NEW t \in Threads, ViewClaim(t)
  PROVE  ViewOrder'
<1>1. /\ UNCHANGED <<gpu, deed, bin>>
      /\ thread[t].step = "viewclaim" /\ thread[t].op = "view" /\ t \in Hosts
      /\ bin = "held" /\ view'[t] = deed
      /\ \A u \in Threads : u # t => thread'[u] = thread[u] /\ view'[u] = view[u]
      /\ thread'[t].op = "none" /\ thread'[t].step = "idle"
  BY ViewClaimStep
<1>2. ASSUME NEW c \in Contexts, NEW i \in 1..Len(gpu[c]) PROVE ~gpu[c][i].writes
  BY <1>1 DEF ViewOrder, ViewsWait, At
<1>3. ViewsWait'
  BY <1>1, <1>2 DEF ViewsWait
<1>4. WritesGated'
  <2> SUFFICES ASSUME NEW u \in Threads, thread'[u].step = "submit", thread'[u].kind \in Writing
               PROVE  FALSE
    BY DEF WritesGated, At
  <2>1. u # t /\ thread[u].step = "submit" /\ thread[u].kind \in Writing
    BY <1>1
  <2>2. CallsOK /\ ShapeOf(u, thread[u])
    BY DEF SettlementOrder, Types, Shapes
  <2>3. thread[u].op = "submit"
    BY <2>1, <2>2, CallFieldTypes DEF ShapeOf, Waiting, Resolving
  <2> QED
    BY <1>1, <2>1, <2>3, ViewerWrites
<1>5. ViewsCurrent'
  <2>1. \A u \in Threads : view'[u] # 0 => bin' = "held" /\ view'[u] = deed' /\ u \in Hosts
    BY <1>1 DEF ViewOrder, ViewsCurrent
  <2>2. \A u \in Threads : thread'[u].op # "drop"
    <3> SUFFICES ASSUME NEW u \in Threads, u # t, thread[u].op = "drop" PROVE FALSE
      BY <1>1
    <3>1. thread[t].op = "none"
      BY DEF SettlementOrder, Leased
    <3> QED
      BY <1>1, <3>1
  <2> QED
    BY <2>1, <2>2 DEF ViewsCurrent
<1> QED
  BY <1>3, <1>4, <1>5 DEF ViewOrder

LEMMA ViewDropGuards ==
  ASSUME SettlementOrder, ViewOrder, NEW t \in Threads, ViewDrop(t)
  PROVE  ViewOrder'
<1>1. /\ UNCHANGED <<gpu, deed, bin, thread>> /\ view'[t] = 0
      /\ \A u \in Threads : u # t => view'[u] = view[u]
  BY ViewDropStep
<1>2. \A u \in Threads : view'[u] # 0 => view'[u] = view[u]
  BY <1>1
<1>3. \A u \in Threads : view[u] = 0 => view'[u] = 0
  BY <1>1
<1> QED
  BY <1>1, <1>2, <1>3 DEF ViewOrder, ViewsCurrent, WritesGated, ViewsWait, At

(* Who drops the last clone of the parcel has seen its views go.           *)
LEMMA OwnedUnviewed ==
  ASSUME ViewOrder, OneWriter, NEW t \in Threads, Owned(t)
  PROVE  \A u \in Threads : view[u] = 0
  BY DEF Owned, OneWriter, ViewOrder, ViewsCurrent

LEMMA UnviewedIsQuiet ==
  ASSUME ViewOrder, \A u \in Threads : view'[u] = 0, \A u \in Threads : Quiet(u), UNCHANGED gpu
  PROVE  ViewOrder'
<1>1. ViewsCurrent' /\ WritesGated'
  BY DEF ViewsCurrent, WritesGated
<1>2. ViewsWait'
  BY DEF ViewOrder, ViewsWait, Quiet, At
<1> QED
  BY <1>1, <1>2 DEF ViewOrder

LEMMA BeginGuards ==
  ASSUME SettlementOrder, ViewOrder, OneWriter, NEW t \in Threads, Call(t)
  PROVE  ViewOrder'
<1>1. ASSUME NEW c \in Contexts, NEW kind \in Reading \cup Writing, SubmitBegin(t, c, kind)
      PROVE  ViewOrder'
  <2>1. /\ \A u \in Threads : u # t => thread'[u] = thread[u]
        /\ UNCHANGED <<gpu, view, deed, bin>>
        /\ thread'[t].op = "submit" /\ thread'[t].kind = kind
        /\ thread'[t].step \in {"gate", "submit"}
        /\ kind \in Writing => thread'[t].step = "gate"
    BY <1>1, SubmitBeginStep
  <2>2. Quiet(t)
    BY <2>1 DEF Quiet
  <2> QED
    BY <2>1, <2>2, QuietCall
<1>2. ASSUME NEW op \in {"settle", "drop"}, SettleBegin(t, op) PROVE ViewOrder'
  <2>1. /\ \A u \in Threads : u # t => thread'[u] = thread[u]
        /\ op = "drop" => Owned(t) /\ deed < MaxDeeds
        /\ UNCHANGED <<gpu, view, deed, bin>>
        /\ thread'[t].op = op /\ thread'[t].step = "settle"
    BY <1>2, SettleBeginStep
  <2>2. CASE op = "settle"
    <3>1. Quiet(t)
      BY <2>1, <2>2 DEF Quiet
    <3> QED
      BY <2>1, <3>1, QuietCall
  <2>3. CASE op = "drop"
    <3>1. \A u \in Threads : view'[u] = 0
      BY <2>1, <2>3, OwnedUnviewed
    <3>2. ViewsCurrent' /\ WritesGated'
      BY <3>1 DEF ViewsCurrent, WritesGated
    <3>3. ViewsWait'
      BY <2>1 DEF ViewOrder, ViewsWait, At
    <3> QED
      BY <3>2, <3>3 DEF ViewOrder
  <2> QED
    BY <2>2, <2>3
<1>3. ASSUME Release(t) PROVE ViewOrder'
  <2>1. UNCHANGED <<gpu, thread, view>> /\ Owned(t)
    BY <1>3 DEF Release, gpuVars
  <2>2. \A u \in Threads : view'[u] = 0 /\ Quiet(u)
    BY <2>1, OwnedUnviewed DEF Quiet
  <2> QED
    BY <2>1, <2>2, UnviewedIsQuiet
<1>4. ASSUME NEW c \in Contexts, NEW tv \in 1..MaxTicket, ViewBegin(t, c, tv) PROVE ViewOrder'
  <2>1. /\ \A u \in Threads : u # t => thread'[u] = thread[u]
        /\ UNCHANGED <<gpu, view, deed, bin>>
        /\ thread'[t].op = "view" /\ thread'[t].step = "viewwait"
    BY <1>4, ViewBeginStep
  <2>2. Quiet(t)
    BY <2>1 DEF Quiet
  <2> QED
    BY <2>1, <2>2, QuietCall
<1>5. ASSUME ViewDrop(t) PROVE ViewOrder'
  BY <1>5, ViewDropGuards
<1> QED
  BY <1>1, <1>2, <1>3, <1>4, <1>5 DEF Call

LEMMA StampGuards ==
  ASSUME SettlementOrder, ViewOrder, NEW t \in Threads, Stamp(t)
  PROVE  ViewOrder'
<1>1. /\ UNCHANGED <<gpu, view, deed, bin>> /\ thread[t].op = "submit"
      /\ \A u \in Threads : u # t => thread'[u] = thread[u]
      /\ thread'[t].step \in {"idle", "push"}
      /\ thread'[t].op = "none" \/ SameCall(t)
  BY StampStep
<1>2. Quiet(t)
  BY <1>1 DEF Quiet, SameCall
<1> QED
  BY <1>1, <1>2, QuietCall

LEMMA SettleMeasureGuards ==
  ASSUME SettlementOrder, ViewOrder, NEW t \in Threads, SettleMeasure(t)
  PROVE  ViewOrder'
<1>1. /\ Stride /\ SameCall(t) /\ thread'[t].step \in {"settled", "await"}
      /\ \A u \in Threads : u # t => thread'[u] = thread[u]
  BY SettleMeasureStep DEF SettlementOrder
<1>2. Quiet(t) /\ UNCHANGED <<gpu, view, deed, bin>>
  BY <1>1 DEF Quiet, SameCall, Stride
<1> QED
  BY <1>1, <1>2, QuietCall

LEMMA SettleReturnGuards ==
  ASSUME SettlementOrder, ViewOrder, NEW t \in Threads, SettleReturn(t)
  PROVE  ViewOrder'
<1>1. /\ thread[t].step = "settled" /\ Return(t) /\ UNCHANGED <<gpu, view, latchVars>>
      /\ thread[t].op # "drop" => UNCHANGED <<deed, bin>>
  BY DEF SettleReturn, At, gpuVars, poolVars
<1>2. /\ thread'[t].op = "none" /\ thread'[t].step = "idle"
      /\ \A u \in Threads : u # t => thread'[u] = thread[u]
  BY <1>1, ReturnPuts DEF SettlementOrder
<1>3. \A u \in Threads : Quiet(u)
  BY <1>2 DEF Quiet
<1>4. CASE thread[t].op = "drop"
  <2>1. \A u \in Threads : view'[u] = 0
    BY <1>1, <1>4 DEF ViewOrder, ViewsCurrent
  <2> QED
    BY <1>1, <1>3, <2>1, UnviewedIsQuiet
<1>5. CASE thread[t].op # "drop"
  BY <1>1, <1>2, <1>3, <1>5, QuietCall
<1> QED
  BY <1>4, <1>5

LEMMA PoolGuards ==
  ASSUME ViewOrder, DrainReady \/ Acquire
  PROVE  ViewOrder'
<1>1. bin # "held" /\ UNCHANGED <<gpu, thread, view>>
  BY DEF DrainReady, Acquire, gpuVars
<1>2. \A u \in Threads : view'[u] = 0 /\ Quiet(u)
  BY <1>1 DEF ViewOrder, ViewsCurrent, Quiet
<1> QED
  BY <1>1, <1>2, UnviewedIsQuiet

LEMMA GpuGuards ==
  ASSUME SettlementOrder, ViewOrder, NEW c \in Contexts, Complete(c) \/ DestroyContext(c)
  PROVE  ViewOrder'
<1>1. UNCHANGED <<thread, view, deed, bin>>
  BY DEF Complete, DestroyContext, poolVars
<1>2. \A u \in Threads : Quiet(u)
  BY <1>1 DEF Quiet
<1>3. \A e \in Contexts : \A i \in 1..Len(gpu'[e]) : \E j \in 1..Len(gpu[e]) : gpu'[e][i] = gpu[e][j]
  <2>1. CASE Complete(c)
    <3>1. gpu[c] # << >> /\ gpu' = [gpu EXCEPT ![c] = Tail(@)]
      BY <2>1 DEF Complete
    <3> QED
      BY <3>1, ShortenedQueue DEF SettlementOrder, Types
  <2>2. CASE DestroyContext(c)
    BY <2>2 DEF DestroyContext
  <2> QED
    BY <2>1, <2>2
<1> QED
  BY <1>1, <1>2, <1>3, QuietKeeps

LEMMA NextGuards ==
  ASSUME SettlementOrder, SettlementOrder', ViewOrder, OneWriter, [Next]_settlementVars
  PROVE  ViewOrder'
<1>1. ASSUME NEW t \in Threads, Step(t) PROVE ViewOrder'
  <2>1. CASE Strolls(t)
    BY <2>1, StrollsWalk, WalksAreQuiet
  <2>2. CASE GateClaims(t)
    BY <2>2, GateClaimsGuards
  <2>3. CASE Submit(t)
    BY <2>3, SubmitGuards
  <2>4. CASE Stamp(t)
    BY <2>4, StampGuards
  <2>5. CASE SettleMeasure(t)
    BY <2>5, SettleMeasureGuards
  <2>6. CASE SettleReturn(t)
    BY <2>6, SettleReturnGuards
  <2>7. CASE ViewWait(t)
    BY <2>7, ViewWaitGuards
  <2>8. CASE ViewEpochs(t)
    BY <2>8, ViewEpochsGuards
  <2>9. CASE ViewClaim(t)
    BY <2>9, ViewClaimGuards
  <2> QED
    BY <1>1, <2>1, <2>2, <2>3, <2>4, <2>5, <2>6, <2>7, <2>8, <2>9 DEF Step, Strolls
<1>2. ASSUME NEW t \in Threads, Call(t) PROVE ViewOrder'
  BY <1>2, BeginGuards
<1>3. CASE \E c \in Contexts : Complete(c) \/ DestroyContext(c)
  BY <1>3, GpuGuards
<1>4. CASE DrainReady \/ Acquire
  BY <1>4, PoolGuards
<1>5. CASE UNCHANGED settlementVars
  <2>1. UNCHANGED <<gpu, thread, view, deed, bin>>
    BY <1>5 DEF settlementVars, gpuVars, poolVars
  <2> QED
    BY <2>1 DEF ViewOrder, ViewsCurrent, WritesGated, ViewsWait, At
<1> QED
  BY <1>1, <1>2, <1>3, <1>4, <1>5 DEF Next

LEMMA InitialViews == Init => ViewOrder
<1> SUFFICES ASSUME Init PROVE ViewOrder
  OBVIOUS
<1>1. \A t \in Threads : view[t] = 0 /\ thread[t].op = "none"
  BY DEF Init, Idle
<1>2. \A c \in Contexts : 1..Len(gpu[c]) = {}
  BY DEF Init
<1> QED
  BY <1>1, <1>2 DEF ViewOrder, ViewsCurrent, WritesGated, ViewsWait

(* acquire_host_view, wait_ready and the submit gate: while a host view is *)
(* live, no write of the resource is under way on the GPU, provided that   *)
(* the thread that views is the one that writes and that its views go      *)
(* before the last clone of the parcel does.  Without the one a submit     *)
(* that is past the gate, without the other a view of an earlier stamp is  *)
(* not seen.                                                               *)
THEOREM ViewsKeepWritesAway == OneWriter => (Spec => []ViewExcludesWrites)
<1> SUFFICES ASSUME OneWriter PROVE Spec => []ViewExcludesWrites
  OBVIOUS
<1>1. SettlementOrder /\ SettlementOrder' /\ ViewOrder /\ [Next]_settlementVars => ViewOrder'
  BY NextGuards
<1>2. ViewOrder => ViewExcludesWrites
  BY FlightIs DEF ViewOrder, ViewsWait, ViewExcludesWrites
<1> QED
  BY <1>1, <1>2, InitialViews, OrderHolds, PTL DEF Spec
=============================================================================
