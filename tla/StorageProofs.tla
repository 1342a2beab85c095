---------------------------- MODULE StorageProofs ----------------------------
(***************************************************************************)
(* Proofs about what the agents report and how long the hub keeps it: the   *)
(* metric tables implement their abstract history and count no sample       *)
(* twice, the shipping of logs loses no line unseen and ships lines whole   *)
(* and in order, and the purges by age spare the last day.                  *)
(***************************************************************************)
EXTENDS MetricStore, LogShipper, Retention, FiniteSetTheorems, SequenceTheorems,
        WellFoundedInduction, TLAPS

MetricRow == [series : Series, res : Res, ts : Time, of : SUBSET Sample, copy : Nat]

-----------------------------------------------------------------------------
\* The metric tables: the shape of the state.
StoreShape ==
    /\ now \in Time /\ recorded \subseteq Sample
    /\ rows \subseteq MetricRow /\ IsFiniteSet(rows)
    /\ agg \in [pc : {"idle", "read", "bucket", "delete"}, level : 0..2, at : Nat,
                todo : SUBSET MetricRow, del : SUBSET MetricRow]
    /\ purge \in [pc : {"idle", "read", "last", "more"}, level : Res, at : Nat,
                  todo : SUBSET MetricRow, del : SUBSET MetricRow]
    /\ agg.at <= now /\ purge.at <= now

\* What the constants give: arithmetic on durations stays in the naturals.
LEMMA StoreConstants ==
    /\ MaxTime \in Nat /\ Time \subseteq Nat
    /\ \A l \in Res : Keep[l + 1] \in Nat /\ Size[l + 1] \in Nat \ {0}
    /\ \A t \in Time, l \in Res : Truncate(t, l) \in Time
  BY MetricAssumption, NestedBuckets DEF Time, Res

\* Safe is what it says: the least of the retention periods, each less its bucket.
LEMMA SafeAge == Safe \in Nat /\ \A i \in 1..4 : Safe <= Keep[i] - Size[i] + 1
<1> DEFINE k(i) == Keep[i] - Size[i] + 1
           ks == {k(i) : i \in 1..4}
<1>1. \A i \in 1..4 : k(i) \in Nat
  BY MetricAssumption
<1>2. 1 \in 1..4 /\ 2 \in 1..4 /\ 3 \in 1..4 /\ 4 \in 1..4 /\ \A i \in 1..4 : i \in {1, 2, 3, 4}
  OBVIOUS
<1> HIDE DEF k
<1>3. \E i \in 1..4 : \A j \in 1..4 : k(i) <= k(j)
  <2>1. PICK a \in {1, 2} : k(a) <= k(1) /\ k(a) <= k(2)
    BY <1>1, <1>2
  <2>2. PICK b \in {3, 4} : k(b) <= k(3) /\ k(b) <= k(4)
    BY <1>1, <1>2
  <2>3. a \in 1..4 /\ b \in 1..4 /\ k(a) \in Nat /\ k(b) \in Nat
    BY <1>1, <1>2
  <2>4. CASE k(a) <= k(b)
    <3>1. k(a) <= k(3) /\ k(a) <= k(4)
      BY <1>1, <1>2, <2>2, <2>3, <2>4
    <3> QED
      BY <1>2, <2>1, <2>3, <3>1
  <2>5. CASE k(b) <= k(a)
    <3>1. k(b) <= k(1) /\ k(b) <= k(2)
      BY <1>1, <1>2, <2>1, <2>3, <2>5
    <3> QED
      BY <1>2, <2>2, <2>3, <3>1
  <2> QED
    BY <2>3, <2>4, <2>5
<1>4. \E m \in ks : \A i \in 1..4 : m <= k(i)
  BY <1>3
<1>5. Safe = CHOOSE m \in ks : \A i \in 1..4 : m <= k(i)
  BY DEF Safe, k
<1>6. Safe \in ks /\ \A i \in 1..4 : Safe <= k(i)
  BY <1>4, <1>5
<1> QED
  BY <1>1, <1>6 DEF k

LEMMA StoreShapeImplies == StoreShape => StoreTypeOK
  BY DEF StoreShape, StoreTypeOK, MetricRow, Res

LEMMA RestShape ==
    ASSUME NEW t \in Nat
    PROVE  /\ Rest(t).pc = "idle" /\ Rest(t).level = 0 /\ Rest(t).at = t
           /\ Rest(t).todo = {} /\ Rest(t).del = {}
           /\ Rest(t) \in [pc : {"idle"}, level : {0}, at : Nat, todo : {{}}, del : {{}}]
  BY DEF Rest

\* A goroutine that goes on to its next level has dropped the rows of the last one.
LEMMA NextReductionShape ==
    ASSUME StoreShape
    PROVE  /\ NextReduction(agg) \in [pc : {"idle", "read"}, level : 0..2, at : Nat, todo : {{}}, del : {{}}]
           /\ NextReduction(agg).at = agg.at
<1>1. CASE agg.level = 2
  <2>1. NextReduction(agg) = Rest(agg.at) /\ agg.at \in Nat
    BY <1>1 DEF NextReduction, StoreShape
  <2> QED
    BY <2>1, RestShape
<1>2. CASE agg.level # 2
  <2>1. NextReduction(agg) = [agg EXCEPT !.pc = "read", !.level = agg.level + 1, !.todo = {}, !.del = {}]
    BY <1>2 DEF NextReduction
  <2>2. agg.level + 1 \in 0..2
    BY <1>2 DEF StoreShape
  <2> QED
    BY <2>1, <2>2 DEF StoreShape
<1> QED
  BY <1>1, <1>2

LEMMA NextPurgeShape ==
    ASSUME StoreShape
    PROVE  /\ NextPurge(purge) \in [pc : {"idle", "read"}, level : Res, at : Nat,
                                    todo : SUBSET MetricRow, del : SUBSET MetricRow]
           /\ NextPurge(purge).at = purge.at /\ NextPurge(purge).del \subseteq purge.del
<1>1. CASE purge.level = 3
  <2>1. NextPurge(purge) = Rest(purge.at) /\ purge.at \in Nat
    BY <1>1 DEF NextPurge, StoreShape
  <2> QED
    BY <2>1, RestShape DEF Res
<1>2. CASE purge.level # 3
  <2>1. NextPurge(purge) = [purge EXCEPT !.pc = "read", !.level = purge.level + 1]
    BY <1>2 DEF NextPurge
  <2>2. purge.level + 1 \in Res
    BY <1>2 DEF StoreShape, Res
  <2> QED
    BY <2>1, <2>2 DEF StoreShape
<1> QED
  BY <1>1, <1>2

\* The row of an aggregate.
LEMMA AggregateShape ==
    ASSUME StoreShape, NEW r \in agg.todo, NEW recs \in SUBSET agg.todo
    PROVE  /\ Aggregate(recs, r) \in MetricRow
           /\ Aggregate(recs, r).series = r.series /\ Aggregate(recs, r).res = agg.level + 1
           /\ Aggregate(recs, r).ts = Truncate(r.ts, agg.level + 1)
           /\ Aggregate(recs, r).of = UNION {q.of : q \in recs}
<1> DEFINE same == {q \in rows : q.series = r.series /\ q.res = agg.level + 1
                                 /\ q.ts = Truncate(r.ts, agg.level + 1)}
<1>1. IsFiniteSet(same)
  BY FS_Subset DEF StoreShape
<1>2. Cardinality(same) \in Nat
  BY <1>1, FS_CardinalityType
<1>3. agg.level + 1 \in Res /\ r \in MetricRow /\ recs \subseteq MetricRow
  BY DEF StoreShape, Res
<1>4. Truncate(r.ts, agg.level + 1) \in Time
  BY <1>3, StoreConstants DEF MetricRow
<1>5. UNION {q.of : q \in recs} \subseteq Sample
  BY <1>3 DEF MetricRow
<1>6. Aggregate(recs, r) = [series |-> r.series, res |-> agg.level + 1,
                            ts |-> Truncate(r.ts, agg.level + 1),
                            of |-> UNION {q.of : q \in recs}, copy |-> Cardinality(same)]
  BY DEF Aggregate
<1> HIDE DEF same
<1> QED
  BY <1>2, <1>3, <1>4, <1>5, <1>6 DEF MetricRow

-----------------------------------------------------------------------------
\* A goroutine deletes only what it may: the rows of the aggregation goroutine have
\* their aggregate in the tables, unless that one has outlived its own retention, and
\* the rows of the retention goroutine are past theirs.
HasAggregate(r) ==
    \E q \in rows : /\ q.series = r.series /\ q.res = r.res + 1
                    /\ q.ts = Truncate(r.ts, r.res + 1)

AggregatePurged(r) == Truncate(r.ts, r.res + 1) + Keep[r.res + 2] < now

DeletesSafely ==
    /\ \A r \in agg.todo \union agg.del : r.res = agg.level
    /\ \A r \in agg.del : HasAggregate(r) \/ AggregatePurged(r)
    /\ \A r \in purge.del : r.ts + Keep[r.res + 1] < purge.at

StoreInv == StoreShape /\ DeletesSafely

\* A sample in a bucket that is past its retention is older than Safe.
LEMMA Outlived ==
    ASSUME NEW t \in Time, NEW l \in Res, NEW n \in Nat, Truncate(t, l) + Keep[l + 1] < n
    PROVE  t + Safe < n
<1>1. Safe \in Nat /\ Safe <= Keep[l + 1] - Size[l + 1] + 1
  BY SafeAge DEF Res
<1>2. Truncate(t, l) \in Nat /\ t \in Nat /\ t < Truncate(t, l) + Size[l + 1]
  BY NestedBuckets, StoreConstants
<1> QED
  BY <1>1, <1>2, StoreConstants

\* What a row covers, the aggregate of its bucket covers.
LEMMA AggregateCovers ==
    ASSUME NEW r \in MetricRow, r.res \in 0..2, NEW q \in MetricRow, NEW s \in Sample, Covers(r, s),
           q.series = r.series, q.res = r.res + 1, q.ts = Truncate(r.ts, r.res + 1)
    PROVE  Covers(q, s)
  BY NestedBuckets DEF Covers, Sample, MetricRow

\* Steps that leave the tables alone.
LEMMA RowsUntouched ==
    ASSUME StoreInv, UNCHANGED <<rows, recorded>>, now' \in Time, now <= now',
           agg' \in [pc : {"idle", "read", "bucket", "delete"}, level : 0..2, at : Nat,
                     todo : SUBSET MetricRow, del : SUBSET MetricRow],
           purge' \in [pc : {"idle", "read", "last", "more"}, level : Res, at : Nat,
                       todo : SUBSET MetricRow, del : SUBSET MetricRow],
           agg'.at <= now', purge'.at <= now',
           \A r \in agg'.todo \union agg'.del : r.res = agg'.level,
           agg'.del \subseteq agg.del,
           \A r \in purge'.del : r.ts + Keep[r.res + 1] < purge'.at
    PROVE  StoreInv'
<1>1. StoreShape'
  BY DEF StoreInv, StoreShape
<1>2. ASSUME NEW r \in agg'.del PROVE (HasAggregate(r) \/ AggregatePurged(r))'
  <2>1. r \in agg.del /\ (HasAggregate(r) \/ AggregatePurged(r))
    BY DEF StoreInv, DeletesSafely
  <2>2. CASE HasAggregate(r)
    BY <2>2 DEF HasAggregate
  <2>3. CASE AggregatePurged(r)
    <3>1. r \in MetricRow /\ r.res \in 0..2
      BY <2>1 DEF StoreInv, StoreShape, DeletesSafely
    <3>2. r.res + 1 \in Res /\ r.ts \in Time /\ (r.res + 1) + 1 = r.res + 2
      BY <3>1 DEF Res, MetricRow
    <3>3. Truncate(r.ts, r.res + 1) \in Nat /\ Keep[r.res + 2] \in Nat
      BY <3>2, StoreConstants
    <3>4. now \in Nat /\ now' \in Nat
      BY StoreConstants DEF StoreInv, StoreShape
    <3> QED
      BY <2>3, <3>3, <3>4 DEF AggregatePurged
  <2> QED
    BY <2>1, <2>2, <2>3
<1> QED
  BY <1>1, <1>2 DEF StoreInv, DeletesSafely

LEMMA StoreInvInit == StoreInit(Regimes) => StoreInv
<1> SUFFICES ASSUME StoreInit(Regimes) PROVE StoreInv
  OBVIOUS
<1>1. now = 0 /\ rows = {} /\ recorded = {} /\ agg = Rest(0) /\ purge = Rest(0)
  BY DEF StoreInit
<1>2. now \in Time /\ IsFiniteSet(rows)
  BY <1>1, FS_EmptySet, MetricAssumption DEF Time
<1>3. StoreShape
  BY <1>1, <1>2, RestShape DEF StoreShape, Res
<1>4. DeletesSafely
  BY <1>1, RestShape DEF DeletesSafely
<1> QED
  BY <1>3, <1>4 DEF StoreInv

\* IngestMetrics adds a raw row and nothing else.
LEMMA IngestStore ==
    ASSUME StoreInv, IngestMetrics
    PROVE  StoreInv'
<1>1. PICK s \in Sample :
        /\ recorded' = recorded \union {s}
        /\ rows' = rows \union {[series |-> s.series, res |-> 0, ts |-> s.ts, of |-> {s}, copy |-> 0]}
  BY DEF IngestMetrics
<1>2. UNCHANGED <<now, agg, purge>>
  BY DEF IngestMetrics
<1>3. [series |-> s.series, res |-> 0, ts |-> s.ts, of |-> {s}, copy |-> 0] \in MetricRow
  BY DEF MetricRow, Sample, Res
<1>4. IsFiniteSet(rows')
  BY <1>1, FS_AddElement DEF StoreInv, StoreShape
<1>5. StoreShape'
  BY <1>1, <1>2, <1>3, <1>4 DEF StoreInv, StoreShape
<1>6. DeletesSafely'
  BY <1>1, <1>2 DEF StoreInv, DeletesSafely, HasAggregate, AggregatePurged
<1> QED
  BY <1>5, <1>6 DEF StoreInv

LEMMA AggregateStartStore ==
    ASSUME StoreInv, AggregateStart
    PROVE  StoreInv'
<1>1. agg' = [Rest(now) EXCEPT !.pc = "read"] /\ UNCHANGED <<now, rows, recorded, purge>>
  BY DEF AggregateStart
<1>2. now \in Nat
  BY StoreConstants DEF StoreInv, StoreShape
<1>3. /\ agg' \in [pc : {"read"}, level : {0}, at : Nat, todo : {{}}, del : {{}}]
      /\ agg'.at = now
  BY <1>1, <1>2, RestShape
<1> QED
  BY <1>1, <1>2, <1>3, RowsUntouched DEF StoreInv, StoreShape, DeletesSafely

\* A reduction reads rows of its own level.
LEMMA ReadBatchStore ==
    ASSUME StoreInv, ReadBatch
    PROVE  StoreInv'
<1>1. UNCHANGED <<now, rows, recorded, purge>> /\ agg.pc = "read"
  BY DEF ReadBatch
<1>2. CASE agg' = NextReduction(agg)
  BY <1>1, <1>2, NextReductionShape, RowsUntouched DEF StoreInv, StoreShape, DeletesSafely
<1>3. CASE \E b \in Oldest(Reducible) : agg' = [agg EXCEPT !.pc = "bucket", !.todo = b]
  <2>1. PICK b \in Oldest(Reducible) : agg' = [agg EXCEPT !.pc = "bucket", !.todo = b]
    BY <1>3
  <2>2. b \subseteq rows /\ \A r \in b : r.res = agg.level
    BY DEF Oldest, Reducible
  <2>3. /\ agg' \in [pc : {"idle", "read", "bucket", "delete"}, level : 0..2, at : Nat,
                     todo : SUBSET MetricRow, del : SUBSET MetricRow]
        /\ agg'.todo = b /\ agg'.del = agg.del /\ agg'.level = agg.level /\ agg'.at = agg.at
    BY <2>1, <2>2 DEF StoreInv, StoreShape
  <2>4. \A r \in agg'.todo \union agg'.del : r.res = agg'.level
    BY <2>2, <2>3 DEF StoreInv, DeletesSafely
  <2>5. now <= now'
    BY <1>1, StoreConstants DEF StoreInv, StoreShape
  <2> QED
    BY <1>1, <2>3, <2>4, <2>5, RowsUntouched DEF StoreInv, StoreShape, DeletesSafely
<1> QED
  BY <1>2, <1>3 DEF ReadBatch

\* The rows of a bucket come from the batch and share its bucket.
LEMMA BucketRows ==
    ASSUME NEW r \in agg.todo
    PROVE  /\ BucketOf(r) \subseteq agg.todo
           /\ \A q \in BucketOf(r) : /\ q.series = r.series
                                     /\ Truncate(q.ts, agg.level + 1) = Truncate(r.ts, agg.level + 1)
  BY DEF BucketOf

\* A reduction puts the aggregate there, or found one, before it hands the sources to
\* deleteRecords.
LEMMA ReduceStore ==
    ASSUME StoreInv, NEW r \in agg.todo, NEW found \in BOOLEAN, Reduce(r, found),
           found => Existing(r) # {}, UNCHANGED <<now, recorded, purge>>
    PROVE  StoreInv'
<1> DEFINE recs == BucketOf(r)
           a == Aggregate(recs, r)
<1>1. /\ rows' = IF found THEN rows ELSE rows \union {a}
      /\ agg' = [agg EXCEPT !.pc = "delete", !.todo = @ \ recs, !.del = recs]
  BY DEF Reduce
<1>2. recs \subseteq agg.todo /\ \A q \in recs : /\ q.series = r.series
                     /\ Truncate(q.ts, agg.level + 1) = Truncate(r.ts, agg.level + 1)
  BY BucketRows
<1>3. /\ a \in MetricRow /\ a.series = r.series /\ a.res = agg.level + 1
      /\ a.ts = Truncate(r.ts, agg.level + 1)
  BY <1>2, AggregateShape DEF StoreInv
<1> HIDE DEF recs, a
<1>4. rows' \subseteq MetricRow /\ rows \subseteq rows' /\ IsFiniteSet(rows')
  <2>1. CASE found
    BY <1>1, <2>1 DEF StoreInv, StoreShape
  <2>2. CASE ~found
    BY <1>1, <1>3, <2>2, FS_AddElement DEF StoreInv, StoreShape
  <2> QED
    BY <2>1, <2>2
<1>5. /\ agg' \in [pc : {"idle", "read", "bucket", "delete"}, level : 0..2, at : Nat,
                   todo : SUBSET MetricRow, del : SUBSET MetricRow]
      /\ agg'.todo = agg.todo \ recs /\ agg'.del = recs /\ agg'.level = agg.level /\ agg'.at = agg.at
  BY <1>1, <1>2 DEF StoreInv, StoreShape
<1>6. \E q \in rows' : /\ q.series = r.series /\ q.res = agg.level + 1
                       /\ q.ts = Truncate(r.ts, agg.level + 1)
  <2>1. CASE found
    BY <1>4, <2>1 DEF Existing
  <2>2. CASE ~found
    BY <1>1, <1>3, <2>2
  <2> QED
    BY <2>1, <2>2
<1>7. \A q \in recs : q.res = agg.level
  BY <1>2 DEF StoreInv, DeletesSafely
<1>8. \A q \in recs : HasAggregate(q)'
  BY <1>2, <1>6, <1>7 DEF HasAggregate
<1>9. StoreShape'
  BY <1>4, <1>5 DEF StoreInv, StoreShape
<1>10. DeletesSafely'
  BY <1>2, <1>5, <1>7, <1>8 DEF StoreInv, DeletesSafely
<1> QED
  BY <1>9, <1>10 DEF StoreInv

LEMMA ReduceBucketStore ==
    ASSUME StoreInv, ReduceBucket
    PROVE  StoreInv'
<1>1. UNCHANGED <<now, recorded, purge>>
  BY DEF ReduceBucket
<1>2. PICK r \in agg.todo :
        \/ Reduce(r, Existing(r) # {})
        \/ Reduce(r, FALSE)
        \/ agg' = [agg EXCEPT !.todo = @ \ BucketOf(r)] /\ UNCHANGED rows
  BY DEF ReduceBucket
<1>3. CASE Reduce(r, Existing(r) # {})
  BY <1>1, <1>3, ReduceStore
<1>4. CASE Reduce(r, FALSE)
  BY <1>1, <1>4, ReduceStore
<1>5. CASE agg' = [agg EXCEPT !.todo = @ \ BucketOf(r)] /\ UNCHANGED rows
  <2>1. /\ agg' \in [pc : {"idle", "read", "bucket", "delete"}, level : 0..2, at : Nat,
                     todo : SUBSET MetricRow, del : SUBSET MetricRow]
        /\ agg'.todo \subseteq agg.todo /\ agg'.del = agg.del /\ agg'.level = agg.level
        /\ agg'.at = agg.at
    BY <1>5 DEF StoreInv, StoreShape
  <2>2. \A q \in agg'.todo \union agg'.del : q.res = agg'.level
    BY <2>1 DEF StoreInv, DeletesSafely
  <2>3. now <= now'
    BY <1>1, StoreConstants DEF StoreInv, StoreShape
  <2> QED
    BY <1>1, <1>5, <2>1, <2>2, <2>3, RowsUntouched DEF StoreInv, StoreShape, DeletesSafely
<1> QED
  BY <1>2, <1>3, <1>4, <1>5

LEMMA BucketsDoneStore ==
    ASSUME StoreInv, BucketsDone
    PROVE  StoreInv'
<1>1. agg' = NextReduction(agg) /\ UNCHANGED <<now, rows, recorded, purge>>
  BY DEF BucketsDone
<1>2. now <= now'
  BY <1>1, StoreConstants DEF StoreInv, StoreShape
<1> QED
  BY <1>1, <1>2, NextReductionShape, RowsUntouched DEF StoreInv, StoreShape, DeletesSafely

\* A deletion by either goroutine leaves every row that waits for its own deletion
\* with its aggregate, or the aggregate was past its retention.
LEMMA RowGone ==
    ASSUME StoreInv, NEW x \in rows, rows' = rows \ {x}, UNCHANGED now,
           x.res = agg.level \/ x.ts + Keep[x.res + 1] < now,
           NEW r \in agg.del
    PROVE  (HasAggregate(r) \/ AggregatePurged(r))'
<1>1. (HasAggregate(r) \/ AggregatePurged(r)) /\ r.res = agg.level /\ r.res \in 0..2
  BY DEF StoreInv, DeletesSafely, StoreShape
<1>2. CASE AggregatePurged(r)
  BY <1>2 DEF AggregatePurged
<1>3. CASE HasAggregate(r)
  <2>1. PICK q \in rows : /\ q.series = r.series /\ q.res = r.res + 1
                          /\ q.ts = Truncate(r.ts, r.res + 1)
    BY <1>3 DEF HasAggregate
  <2>2. CASE q # x
    BY <2>1, <2>2 DEF HasAggregate
  <2>3. CASE q = x
    <3>1. x.res # agg.level
      BY <1>1, <2>1, <2>3
    <3>2. (r.res + 1) + 1 = r.res + 2
      BY <1>1
    <3>3. q.ts + Keep[(r.res + 1) + 1] < now
      BY <2>1, <2>3, <3>1
    <3> QED
      BY <2>1, <3>2, <3>3 DEF AggregatePurged
  <2> QED
    BY <2>2, <2>3
<1> QED
  BY <1>1, <1>2, <1>3

LEMMA DeleteSourceStore ==
    ASSUME StoreInv, DeleteSource
    PROVE  StoreInv'
<1>1. UNCHANGED <<now, recorded, purge>> /\ now <= now' /\ now \in Nat
  BY StoreConstants DEF DeleteSource, StoreInv, StoreShape
<1>2. CASE agg.del = {}
  <2>1. agg' = [agg EXCEPT !.pc = "bucket"] /\ UNCHANGED rows
    BY <1>2 DEF DeleteSource
  <2>2. /\ agg' \in [pc : {"idle", "read", "bucket", "delete"}, level : 0..2, at : Nat,
                     todo : SUBSET MetricRow, del : SUBSET MetricRow]
        /\ agg'.todo = agg.todo /\ agg'.del = agg.del /\ agg'.level = agg.level
        /\ agg'.at = agg.at
    BY <2>1 DEF StoreInv, StoreShape
  <2> QED
    BY <1>1, <2>1, <2>2, RowsUntouched DEF StoreInv, StoreShape, DeletesSafely
<1>3. CASE agg.del # {}
  <2>1. PICK r \in agg.del : /\ agg' = [agg EXCEPT !.del = @ \ {r}]
                             /\ rows' = rows \ {r} \/ rows' = rows
    BY <1>3 DEF DeleteSource
  <2>2. /\ agg' \in [pc : {"idle", "read", "bucket", "delete"}, level : 0..2, at : Nat,
                     todo : SUBSET MetricRow, del : SUBSET MetricRow]
        /\ agg'.todo = agg.todo /\ agg'.del = agg.del \ {r} /\ agg'.level = agg.level
        /\ agg'.at = agg.at
    BY <2>1 DEF StoreInv, StoreShape
  <2>3. \A q \in agg'.todo \union agg'.del : q.res = agg'.level
    BY <2>2 DEF StoreInv, DeletesSafely
  <2>4. CASE rows' = rows
    BY <1>1, <2>2, <2>3, <2>4, RowsUntouched DEF StoreInv, StoreShape, DeletesSafely
  <2>5. CASE rows' = rows \ {r} /\ r \in rows
    <3>1. IsFiniteSet(rows')
      BY <2>5, FS_RemoveElement DEF StoreInv, StoreShape
    <3>2. StoreShape'
      BY <1>1, <2>2, <2>5, <3>1 DEF StoreInv, StoreShape
    <3>3. r.res = agg.level
      BY DEF StoreInv, DeletesSafely
    <3>4. \A q \in agg'.del : (HasAggregate(q) \/ AggregatePurged(q))'
      BY <1>1, <2>2, <2>5, <3>3, RowGone
    <3>5. DeletesSafely'
      BY <1>1, <2>3, <3>4 DEF StoreInv, DeletesSafely
    <3> QED
      BY <3>2, <3>5 DEF StoreInv
  <2> QED
    BY <2>1, <2>4, <2>5
<1> QED
  BY <1>2, <1>3

LEMMA PurgeStartStore ==
    ASSUME StoreInv, PurgeStart
    PROVE  StoreInv'
<1>1. purge' = [Rest(now) EXCEPT !.pc = "read"] /\ UNCHANGED <<now, rows, recorded, agg>>
  BY DEF PurgeStart
<1>2. now \in Nat
  BY StoreConstants DEF StoreInv, StoreShape
<1>3. /\ purge' \in [pc : {"read"}, level : {0}, at : Nat, todo : {{}}, del : {{}}]
      /\ purge'.at = now
  BY <1>1, <1>2, RestShape
<1>4. purge' \in [pc : {"idle", "read", "last", "more"}, level : Res, at : Nat,
                  todo : SUBSET MetricRow, del : SUBSET MetricRow]
  BY <1>3 DEF Res
<1> QED
  BY <1>1, <1>2, <1>3, <1>4, RowsUntouched DEF StoreInv, StoreShape, DeletesSafely

\* A query of the retention goroutine returns rows past their retention.
LEMMA PurgeReadStore ==
    ASSUME StoreInv, PurgeRead
    PROVE  StoreInv'
<1>0. UNCHANGED <<now, rows, recorded, agg>>
  BY DEF PurgeRead
<1>1. UNCHANGED <<now, rows, recorded, agg>> /\ now <= now'
  BY <1>0, StoreConstants DEF StoreInv, StoreShape
<1>2. CASE purge' = NextPurge(purge)
  <2>1. \A r \in purge'.del : r.ts + Keep[r.res + 1] < purge'.at
    BY <1>2, NextPurgeShape DEF StoreInv, DeletesSafely
  <2> QED
    BY <1>1, <1>2, <2>1, NextPurgeShape, RowsUntouched DEF StoreInv, StoreShape, DeletesSafely
<1>3. CASE \E b \in SUBSET Expired :
             purge' = [purge EXCEPT !.pc = IF Cardinality(b) < PurgeBatch THEN "last" ELSE "more",
                                    !.del = b]
  <2>1. PICK b \in SUBSET Expired, pc \in {"last", "more"} : purge' = [purge EXCEPT !.pc = pc, !.del = b]
    BY <1>3
  <2>2. b \subseteq rows /\ \A r \in b : r.ts + Keep[r.res + 1] < purge.at
    BY DEF Expired
  <2>3. /\ purge' \in [pc : {"idle", "read", "last", "more"}, level : Res, at : Nat,
                       todo : SUBSET MetricRow, del : SUBSET MetricRow]
        /\ purge'.at = purge.at /\ purge'.del = b
    BY <2>1, <2>2 DEF StoreInv, StoreShape
  <2> QED
    BY <1>1, <2>2, <2>3, RowsUntouched DEF StoreInv, StoreShape, DeletesSafely
<1> QED
  BY <1>2, <1>3 DEF PurgeRead

LEMMA PurgeDeleteStore ==
    ASSUME StoreInv, PurgeDelete
    PROVE  StoreInv'
<1>1. UNCHANGED <<now, recorded, agg>> /\ now <= now' /\ now \in Nat
  BY StoreConstants DEF PurgeDelete, StoreInv, StoreShape
<1>2. CASE purge.del = {}
  <2>1. UNCHANGED rows /\ (purge' = NextPurge(purge) \/ purge' = [purge EXCEPT !.pc = "read"])
    BY <1>2 DEF PurgeDelete
  <2>2. /\ purge' \in [pc : {"idle", "read", "last", "more"}, level : Res, at : Nat,
                       todo : SUBSET MetricRow, del : SUBSET MetricRow]
        /\ purge'.at = purge.at /\ purge'.del \subseteq purge.del
    <3>1. CASE purge' = NextPurge(purge)
      BY <3>1, NextPurgeShape DEF StoreInv
    <3>2. CASE purge' = [purge EXCEPT !.pc = "read"]
      BY <3>2 DEF StoreInv, StoreShape
    <3> QED
      BY <2>1, <3>1, <3>2
  <2> QED
    BY <1>1, <1>2, <2>1, <2>2, RowsUntouched DEF StoreInv, StoreShape, DeletesSafely
<1>3. CASE purge.del # {}
  <2>1. PICK r \in purge.del : /\ purge' = [purge EXCEPT !.del = @ \ {r}]
                               /\ rows' = rows \ {r} \/ rows' = rows
    BY <1>3 DEF PurgeDelete
  <2>2. /\ purge' \in [pc : {"idle", "read", "last", "more"}, level : Res, at : Nat,
                       todo : SUBSET MetricRow, del : SUBSET MetricRow]
        /\ purge'.at = purge.at /\ purge'.del = purge.del \ {r}
    BY <2>1 DEF StoreInv, StoreShape
  <2>3. \A q \in purge'.del : q.ts + Keep[q.res + 1] < purge'.at
    BY <2>2 DEF StoreInv, DeletesSafely
  <2>4. CASE rows' = rows
    BY <1>1, <2>2, <2>3, <2>4, RowsUntouched DEF StoreInv, StoreShape, DeletesSafely
  <2>5. CASE rows' = rows \ {r} /\ r \in rows
    <3>1. IsFiniteSet(rows')
      BY <2>5, FS_RemoveElement DEF StoreInv, StoreShape
    <3>2. StoreShape'
      BY <1>1, <2>2, <2>5, <3>1 DEF StoreInv, StoreShape
    <3>3. r.ts + Keep[r.res + 1] < purge.at /\ purge.at <= now /\ purge.at \in Nat
      BY DEF StoreInv, DeletesSafely, StoreShape
    <3>4. r.ts \in Nat /\ Keep[r.res + 1] \in Nat
      BY <2>5, StoreConstants DEF StoreInv, StoreShape, MetricRow
    <3>5. r.ts + Keep[r.res + 1] < now
      BY <1>1, <3>3, <3>4
    <3>6. \A q \in agg'.del : (HasAggregate(q) \/ AggregatePurged(q))'
      BY <1>1, <2>5, <3>5, RowGone
    <3>7. DeletesSafely'
      BY <1>1, <2>3, <3>6 DEF StoreInv, DeletesSafely
    <3> QED
      BY <3>2, <3>7 DEF StoreInv
  <2> QED
    BY <2>1, <2>4, <2>5
<1> QED
  BY <1>2, <1>3

LEMMA StoreCrashStore ==
    ASSUME StoreInv, StoreCrash
    PROVE  StoreInv'
<1>1. agg' = Rest(agg.at) /\ purge' = Rest(purge.at) /\ UNCHANGED <<now, rows, recorded>>
  BY DEF StoreCrash
<1>2. agg.at \in Nat /\ purge.at \in Nat /\ now \in Nat
  BY StoreConstants DEF StoreInv, StoreShape
<1>3. /\ agg' \in [pc : {"idle"}, level : {0}, at : Nat, todo : {{}}, del : {{}}] /\ agg'.at = agg.at
      /\ purge' \in [pc : {"idle"}, level : {0}, at : Nat, todo : {{}}, del : {{}}] /\ purge'.at = purge.at
  BY <1>1, <1>2, RestShape
<1>4. purge' \in [pc : {"idle", "read", "last", "more"}, level : Res, at : Nat,
                  todo : SUBSET MetricRow, del : SUBSET MetricRow]
  BY <1>3 DEF Res
<1> QED
  BY <1>1, <1>2, <1>3, <1>4, RowsUntouched DEF StoreInv, StoreShape, DeletesSafely

LEMMA StoreTickStore ==
    ASSUME StoreInv, StoreTick
    PROVE  StoreInv'
<1>1. now < MaxTime /\ now' = now + 1 /\ UNCHANGED <<rows, recorded, agg, purge>>
  BY DEF StoreTick
<1>2. now' \in Time /\ now <= now' /\ agg.at <= now' /\ purge.at <= now'
  BY <1>1, StoreConstants DEF StoreInv, StoreShape, Time
<1> QED
  BY <1>1, <1>2, RowsUntouched DEF StoreInv, StoreShape, DeletesSafely

LEMMA StoreInvStep == StoreInv /\ [StoreNext]_storeVars => StoreInv'
<1> SUFFICES ASSUME StoreInv, [StoreNext]_storeVars PROVE StoreInv'
  OBVIOUS
<1>1. CASE IngestMetrics
  BY <1>1, IngestStore
<1>2. CASE AggregationStep
  BY <1>2, AggregateStartStore, ReadBatchStore, ReduceBucketStore, BucketsDoneStore, DeleteSourceStore
     DEF AggregationStep
<1>3. CASE PurgeStep
  BY <1>3, PurgeStartStore, PurgeReadStore, PurgeDeleteStore DEF PurgeStep
<1>4. CASE StoreCrash
  BY <1>4, StoreCrashStore
<1>5. CASE StoreTick
  BY <1>5, StoreTickStore
<1>6. CASE UNCHANGED storeVars
  BY <1>6 DEF storeVars, StoreInv, StoreShape, DeletesSafely, HasAggregate, AggregatePurged
<1> QED
  BY <1>1, <1>2, <1>3, <1>4, <1>5, <1>6 DEF StoreNext

\* The variables of the metric tables keep their types (MetricStore), the goroutines'
\* own fields included.
THEOREM StoreTypeCorrect == StoreSpec => []StoreTypeOK
  BY StoreInvInit, StoreInvStep, StoreShapeImplies, PTL DEF StoreSpec, StoreInv

-----------------------------------------------------------------------------
\* The metric tables implement the abstract history.

\* Rows that are only added take no sample away.
LEMMA KeptGrows ==
    ASSUME rows \subseteq rows', UNCHANGED recorded
    PROVE  Kept \subseteq Kept' /\ Kept' \subseteq recorded
  BY DEF Kept, Covers

\* A row that a goroutine deletes takes away nothing but samples that are old enough.
LEMMA KeptLoses ==
    ASSUME StoreInv, NEW x \in rows, rows' = rows \ {x}, UNCHANGED <<now, recorded>>,
           x \in agg.del \union purge.del
    PROVE  Kept \ Kept' \subseteq History!Old
<1> SUFFICES ASSUME NEW s \in Kept, s \notin Kept' PROVE s \in History!Old
  OBVIOUS
<1>1. s \in recorded /\ s \in Sample /\ s.ts \in Time /\ x \in MetricRow /\ now \in Nat
  BY StoreConstants DEF Kept, StoreInv, StoreShape, Sample
<1>2. Covers(x, s) /\ ~ \E q \in rows' : Covers(q, s)
  BY <1>1 DEF Kept, Covers
<1>3. s.ts + Safe < now
  <2>1. CASE x \in purge.del
    <3>1. x.ts + Keep[x.res + 1] < purge.at /\ purge.at <= now /\ purge.at \in Nat
      BY <2>1 DEF StoreInv, DeletesSafely, StoreShape
    <3>2. x.ts = Truncate(s.ts, x.res) /\ x.res \in Res /\ x.ts \in Nat /\ Keep[x.res + 1] \in Nat
      BY <1>1, <1>2, StoreConstants DEF Covers, MetricRow
    <3>3. Truncate(s.ts, x.res) + Keep[x.res + 1] < now
      BY <1>1, <3>1, <3>2
    <3> QED
      BY <1>1, <3>2, <3>3, Outlived
  <2>2. CASE x \in agg.del
    <3>1. x.res \in 0..2 /\ (HasAggregate(x) \/ AggregatePurged(x))
      BY <2>2 DEF StoreInv, DeletesSafely, StoreShape
    <3>2. ~HasAggregate(x)
      <4> SUFFICES ASSUME NEW q \in rows, q.series = x.series, q.res = x.res + 1,
                          q.ts = Truncate(x.ts, x.res + 1)
                   PROVE  FALSE
        BY DEF HasAggregate
      <4>1. q \in MetricRow
        BY DEF StoreInv, StoreShape
      <4>2. Covers(q, s)
        BY <1>1, <1>2, <3>1, <4>1, AggregateCovers
      <4>3. q # x
        BY <3>1
      <4> QED
        BY <1>2, <4>2, <4>3
    <3>3. Truncate(Truncate(s.ts, x.res), x.res + 1) = Truncate(s.ts, x.res + 1)
      BY <1>1, <3>1, NestedBuckets
    <3>4. x.ts = Truncate(s.ts, x.res) /\ x.res + 1 \in Res /\ (x.res + 1) + 1 = x.res + 2
      BY <1>2, <3>1 DEF Covers, Res
    <3>5. Truncate(s.ts, x.res + 1) + Keep[(x.res + 1) + 1] < now
      BY <3>1, <3>2, <3>3, <3>4 DEF AggregatePurged
    <3> QED
      BY <1>1, <3>4, <3>5, Outlived
  <2> QED
    BY <2>1, <2>2
<1> QED
  BY <1>1, <1>3 DEF History!Old, History!Sample, Sample, Time

\* A raw row stands for its own sample and no other.
LEMMA RawCovers ==
    ASSUME NEW s \in Sample, NEW x \in Sample,
           Covers([series |-> s.series, res |-> 0, ts |-> s.ts, of |-> {s}, copy |-> 0], x)
    PROVE  x = s
<1>1. x.series = s.series /\ s.ts = Truncate(x.ts, 0)
  BY DEF Covers
<1>2. s.ts = x.ts
  BY <1>1, NestedBuckets DEF Sample
<1> QED
  BY <1>1, <1>2 DEF Sample

LEMMA IngestRecords ==
    ASSUME StoreInv, IngestMetrics
    PROVE  History!Record
<1>1. PICK s \in Sample \ recorded :
        /\ recorded' = recorded \union {s}
        /\ rows' = rows \union {[series |-> s.series, res |-> 0, ts |-> s.ts, of |-> {s}, copy |-> 0]}
  BY DEF IngestMetrics
<1> DEFINE new == [series |-> s.series, res |-> 0, ts |-> s.ts, of |-> {s}, copy |-> 0]
<1>2. recorded \subseteq Sample
  BY DEF StoreInv, StoreShape
<1>3. Covers(new, s)
  BY NestedBuckets DEF Covers, Sample
<1>4. \A x \in Sample : Covers(new, x) => x = s
  BY RawCovers
<1>5. rows' = rows \union {new}
  BY <1>1
<1> HIDE DEF new
<1>6. \A x \in Sample : ~ (x = s) => ((\E r \in rows' : Covers(r, x)) <=> (\E r \in rows : Covers(r, x)))
  BY <1>4, <1>5
<1>7. s \in Kept' /\ s \notin recorded
  BY <1>1, <1>3, <1>5 DEF Kept, Covers
<1>8. \A x \in Sample : ~ (x = s) => (x \in Kept' <=> x \in Kept)
  BY <1>1, <1>6 DEF Kept, Covers
<1>9. Kept \subseteq Sample /\ Kept' \subseteq Sample
  BY <1>1, <1>2 DEF Kept
<1>10. Kept' = Kept \union {s}
  BY <1>7, <1>8, <1>9
<1>11. s \in History!Sample \ recorded
  BY DEF History!Sample, Sample, Time
<1>12. UNCHANGED now
  BY DEF IngestMetrics
<1> QED
  BY <1>1, <1>10, <1>11, <1>12 DEF History!Record

\* Steps of the goroutines that do not delete.
LEMMA RowsGrow ==
    ASSUME UNCHANGED <<now, recorded>>, rows \subseteq rows'
    PROVE  History!Maintain
  BY KeptGrows DEF History!Maintain

LEMMA DeleteMaintains ==
    ASSUME StoreInv, DeleteSource \/ PurgeDelete
    PROVE  History!Maintain
<1>1. UNCHANGED <<now, recorded>>
  BY DEF DeleteSource, PurgeDelete
<1>2. rows' = rows \/ \E x \in agg.del \union purge.del : rows' = rows \ {x}
  BY DEF DeleteSource, PurgeDelete
<1>3. CASE rows' = rows
  BY <1>1, <1>3, RowsGrow
<1>4. CASE \E x \in rows : x \in agg.del \union purge.del /\ rows' = rows \ {x}
  <2>1. Kept \ Kept' \subseteq History!Old
    BY <1>1, <1>4, KeptLoses
  <2>2. Kept' \subseteq recorded
    BY <1>1 DEF Kept
  <2> QED
    BY <1>1, <2>1, <2>2 DEF History!Maintain
<1> QED
  BY <1>2, <1>3, <1>4

LEMMA StoreImplements ==
    ASSUME StoreInv, [StoreNext]_storeVars
    PROVE  History!Record \/ History!Maintain \/ History!Pass \/ UNCHANGED <<now, recorded, Kept>>
<1>1. CASE IngestMetrics
  BY <1>1, IngestRecords
<1>2. CASE DeleteSource \/ PurgeDelete
  BY <1>2, DeleteMaintains
<1>3. CASE ReduceBucket
  <2>1. UNCHANGED <<now, recorded>> /\ rows \subseteq rows'
    BY <1>3 DEF ReduceBucket, Reduce
  <2> QED
    BY <2>1, RowsGrow
<1>4. CASE AggregateStart \/ ReadBatch \/ BucketsDone \/ PurgeStart \/ PurgeRead \/ StoreCrash
  <2>1. UNCHANGED <<now, recorded, rows>>
    BY <1>4 DEF AggregateStart, ReadBatch, BucketsDone, PurgeStart, PurgeRead, StoreCrash
  <2> QED
    BY <2>1, RowsGrow
<1>5. CASE StoreTick
  <2>1. now < MaxTime /\ now' = now + 1 /\ UNCHANGED <<recorded, rows>>
    BY <1>5 DEF StoreTick
  <2>2. UNCHANGED Kept
    BY <2>1 DEF Kept, Covers
  <2> QED
    BY <2>1, <2>2 DEF History!Pass
<1>6. CASE UNCHANGED storeVars
  BY <1>6 DEF storeVars, Kept, Covers
<1> QED
  BY <1>1, <1>2, <1>3, <1>4, <1>5, <1>6 DEF StoreNext, AggregationStep, PurgeStep

LEMMA HistoryStarts == StoreInit(Regimes) => History!HistoryInit
  BY DEF StoreInit, History!HistoryInit, Kept

\* The metric tables implement the abstract history (Downsampler.downsample saves the
\* aggregate before it deletes the sources; purgeByFilter deletes what is past its
\* retention): however the two goroutines interleave with ingestion, crashes and
\* failing reads, lookups, saves and deletions, a sample vanishes from the tables only
\* when it is older than the shortest retention allows.
THEOREM TablesKeepHistory == StoreSpec => HistoryKept
<1>1. StoreInv /\ [StoreNext]_storeVars
      => [History!Record \/ History!Maintain \/ History!Pass]_<<now, recorded, Kept>>
  BY StoreImplements
<1> QED
  BY <1>1, HistoryStarts, StoreInvInit, StoreInvStep, PTL DEF StoreSpec, HistoryKept, History!HistorySpec

-----------------------------------------------------------------------------
\* No sample is counted twice at one resolution.

\* A row, in the tables or in a batch, averages samples of its own bucket.
OfItsBucket == \A r \in rows \union agg.todo : \A s \in r.of : Covers(r, s)

\* A raw row is its sample.
RawIsSample == \A r \in rows : r.res = 0 =>
                   r = [series |-> r.series, res |-> 0, ts |-> r.ts,
                        of |-> {[series |-> r.series, ts |-> r.ts]}, copy |-> 0]

SameBucket(r, q) == r.series = q.series /\ r.res = q.res /\ r.ts = q.ts

\* Unless the error of a lookup was dropped, a bucket has one row.
OneRowPerBucket ==
    "lookup" \notin spent => \A r \in rows, q \in rows : SameBucket(r, q) => r = q

CountInv == OfItsBucket /\ RawIsSample /\ OneRowPerBucket

LEMMA CountInvImplies == CountInv => CountedOnce
  BY DEF CountInv, OfItsBucket, OneRowPerBucket, SameBucket, CountedOnce, Covers

LEMMA CountInit == StoreInit(Regimes) => CountInv
<1> SUFFICES ASSUME StoreInit(Regimes) PROVE CountInv
  OBVIOUS
<1>1. rows = {} /\ agg.todo = {}
  BY DEF StoreInit, Rest
<1> QED
  BY <1>1 DEF CountInv, OfItsBucket, RawIsSample, OneRowPerBucket

\* Steps that add no row: what is in a batch was in the tables or in a batch before.
LEMMA NoRowAdded ==
    ASSUME CountInv, rows' \subseteq rows, agg'.todo \subseteq rows \union agg.todo, spent \subseteq spent'
    PROVE  CountInv'
<1>1. OfItsBucket'
  BY DEF CountInv, OfItsBucket, Covers
<1>2. RawIsSample'
  BY DEF CountInv, RawIsSample
<1>3. OneRowPerBucket'
  BY DEF CountInv, OneRowPerBucket, SameBucket
<1> QED
  BY <1>1, <1>2, <1>3 DEF CountInv

\* IngestMetrics: a second row for a sample would be the row that is there.
LEMMA IngestCounts ==
    ASSUME StoreInv, CountInv, IngestMetrics
    PROVE  CountInv'
<1>1. PICK s \in Sample :
        rows' = rows \union {[series |-> s.series, res |-> 0, ts |-> s.ts, of |-> {s}, copy |-> 0]}
  BY DEF IngestMetrics
<1> DEFINE new == [series |-> s.series, res |-> 0, ts |-> s.ts, of |-> {s}, copy |-> 0]
<1>2. UNCHANGED <<agg, spent>>
  BY DEF IngestMetrics
<1>3. s = [series |-> s.series, ts |-> s.ts]
  BY DEF Sample
<1>4. new = [series |-> new.series, res |-> 0, ts |-> new.ts,
             of |-> {[series |-> new.series, ts |-> new.ts]}, copy |-> 0]
  BY <1>3
<1>5. \A x \in new.of : Covers(new, x)
  BY NestedBuckets DEF Covers, Sample
<1>6. rows' = rows \union {new} /\ new.res = 0
  BY <1>1
<1> HIDE DEF new
<1>7. OfItsBucket'
  BY <1>2, <1>5, <1>6 DEF CountInv, OfItsBucket, Covers
<1>8. RawIsSample'
  BY <1>4, <1>6 DEF CountInv, RawIsSample
<1>9. ASSUME NEW r \in rows, SameBucket(r, new) PROVE r = new
  <2>1. r.res = 0 /\ r.series = new.series /\ r.ts = new.ts
    BY <1>6, <1>9 DEF SameBucket
  <2>2. r = [series |-> r.series, res |-> 0, ts |-> r.ts,
             of |-> {[series |-> r.series, ts |-> r.ts]}, copy |-> 0]
    BY <2>1 DEF CountInv, RawIsSample
  <2> QED
    BY <1>4, <2>1, <2>2
<1>10. OneRowPerBucket'
  BY <1>2, <1>6, <1>9 DEF CountInv, OneRowPerBucket, SameBucket
<1> QED
  BY <1>7, <1>8, <1>10 DEF CountInv

\* The aggregate of a bucket that has none.
LEMMA ReduceCounts ==
    ASSUME StoreInv, CountInv, NEW r \in agg.todo, NEW found \in BOOLEAN, Reduce(r, found),
           spent \subseteq spent', found \/ Existing(r) = {} \/ "lookup" \in spent'
    PROVE  CountInv'
<1> DEFINE recs == BucketOf(r)
           a == Aggregate(recs, r)
<1>1. /\ rows' = IF found THEN rows ELSE rows \union {a}
      /\ agg' = [agg EXCEPT !.pc = "delete", !.todo = @ \ recs, !.del = recs]
  BY DEF Reduce
<1>2. recs \subseteq agg.todo /\ \A q \in recs : /\ q.series = r.series
                     /\ Truncate(q.ts, agg.level + 1) = Truncate(r.ts, agg.level + 1)
  BY BucketRows
<1>3. /\ a \in MetricRow /\ a.series = r.series /\ a.res = agg.level + 1
      /\ a.ts = Truncate(r.ts, agg.level + 1) /\ a.of = UNION {q.of : q \in recs}
  BY <1>2, AggregateShape DEF StoreInv
<1> HIDE DEF recs, a
<1>4. agg'.todo \subseteq agg.todo
  BY <1>1 DEF StoreInv, StoreShape
<1>5. CASE found
  BY <1>1, <1>4, <1>5, NoRowAdded
<1>6. CASE ~found
  <2>1. rows' = rows \union {a}
    BY <1>1, <1>6
  <2>2. agg.level \in 0..2 /\ agg.todo \subseteq MetricRow /\ \A q \in recs : q.res = agg.level
    BY <1>2 DEF StoreInv, StoreShape, DeletesSafely
  <2>3. ASSUME NEW s \in a.of PROVE Covers(a, s)
    <3>1. PICK q \in recs : s \in q.of
      BY <1>3, <2>3
    <3>2. q \in MetricRow /\ s \in Sample /\ q.res = agg.level
      BY <1>2, <2>2, <3>1 DEF MetricRow
    <3>3. Covers(q, s)
      BY <1>2, <3>1 DEF CountInv, OfItsBucket
    <3>4. a.series = q.series /\ a.res = q.res + 1 /\ a.ts = Truncate(q.ts, q.res + 1)
      BY <1>2, <1>3, <3>1, <3>2
    <3> QED
      BY <1>3, <2>2, <3>2, <3>3, <3>4, AggregateCovers
  <2>4. OfItsBucket'
    BY <1>4, <2>1, <2>3 DEF CountInv, OfItsBucket, Covers
  <2>5. RawIsSample'
    BY <1>3, <2>1, <2>2 DEF CountInv, RawIsSample
  <2>6. "lookup" \notin spent' => \A q \in rows : ~SameBucket(q, a)
    BY <1>3, <1>6 DEF SameBucket, Existing
  <2>7. OneRowPerBucket'
    BY <2>1, <2>6 DEF CountInv, OneRowPerBucket, SameBucket
  <2> QED
    BY <2>4, <2>5, <2>7 DEF CountInv
<1> QED
  BY <1>5, <1>6

LEMMA CountStep == StoreInv /\ CountInv /\ [StoreNext]_storeVars => CountInv'
<1> SUFFICES ASSUME StoreInv, CountInv, [StoreNext]_storeVars PROVE CountInv'
  OBVIOUS
<1>1. CASE IngestMetrics
  BY <1>1, IngestCounts
<1>2. CASE AggregateStart \/ BucketsDone \/ StoreCrash
  <2>1. rows' = rows /\ spent \subseteq spent'
    BY <1>2 DEF AggregateStart, BucketsDone, StoreCrash, Spend
  <2>2. agg'.todo = {}
    <3>1. CASE AggregateStart
      <4>1. agg' = [Rest(now) EXCEPT !.pc = "read"]
        BY <3>1 DEF AggregateStart
      <4> QED
        BY <4>1 DEF Rest
    <3>2. CASE BucketsDone
      BY <3>2, NextReductionShape DEF BucketsDone, StoreInv
    <3>3. CASE StoreCrash
      BY <3>3 DEF StoreCrash, Rest
    <3> QED
      BY <1>2, <3>1, <3>2, <3>3
  <2> QED
    BY <2>1, <2>2, NoRowAdded
<1>3. CASE ReadBatch
  <2>1. rows' = rows /\ spent \subseteq spent'
    BY <1>3 DEF ReadBatch, Spend
  <2>2. CASE agg' = NextReduction(agg)
    BY <2>1, <2>2, NextReductionShape, NoRowAdded DEF StoreInv
  <2>3. CASE \E b \in Oldest(Reducible) : agg' = [agg EXCEPT !.pc = "bucket", !.todo = b]
    <3>1. PICK b \in Oldest(Reducible) : agg' = [agg EXCEPT !.pc = "bucket", !.todo = b]
      BY <2>3
    <3>2. agg'.todo = b
      BY <3>1 DEF StoreInv, StoreShape
    <3>3. b \subseteq rows
      BY DEF Oldest, Reducible
    <3> QED
      BY <2>1, <3>2, <3>3, NoRowAdded
  <2> QED
    BY <1>3, <2>2, <2>3 DEF ReadBatch
<1>4. CASE ReduceBucket
  <2>1. PICK r \in agg.todo :
          \/ Reduce(r, Existing(r) # {}) /\ UNCHANGED spent
          \/ Spend("lookup") /\ Reduce(r, FALSE)
          \/ Spend("save") /\ agg' = [agg EXCEPT !.todo = @ \ BucketOf(r)] /\ UNCHANGED rows
    BY <1>4 DEF ReduceBucket
  <2>2. CASE Reduce(r, Existing(r) # {}) /\ UNCHANGED spent
    BY <2>2, ReduceCounts
  <2>3. CASE Spend("lookup") /\ Reduce(r, FALSE)
    BY <2>3, ReduceCounts DEF Spend
  <2>4. CASE Spend("save") /\ agg' = [agg EXCEPT !.todo = @ \ BucketOf(r)] /\ UNCHANGED rows
    <3>1. agg'.todo \subseteq agg.todo /\ spent \subseteq spent'
      BY <2>4 DEF StoreInv, StoreShape, Spend
    <3> QED
      BY <2>4, <3>1, NoRowAdded
  <2> QED
    BY <2>1, <2>2, <2>3, <2>4
<1>5. CASE DeleteSource
  <2>1. rows' \subseteq rows /\ spent \subseteq spent'
    BY <1>5 DEF DeleteSource, Spend
  <2>2. agg'.todo = agg.todo
    BY <1>5 DEF DeleteSource, StoreInv, StoreShape
  <2> QED
    BY <2>1, <2>2, NoRowAdded
<1>6. CASE PurgeStep \/ StoreTick \/ UNCHANGED storeVars
  <2>1. rows' \subseteq rows /\ spent \subseteq spent' /\ agg' = agg
    BY <1>6 DEF PurgeStep, PurgeStart, PurgeRead, PurgeDelete, StoreTick, storeVars, Spend
  <2> QED
    BY <2>1, NoRowAdded
<1> QED
  BY <1>1, <1>2, <1>3, <1>4, <1>5, <1>6 DEF StoreNext, AggregationStep

\* No sample is counted in two rows of one resolution (Downsampler.downsample looks for
\* an aggregate of the bucket first): a crash or a failed deletion that leaves the
\* sources beside their aggregate does not have them averaged in again, unless the
\* error of that lookup was dropped.
THEOREM CountedOnceAlways == StoreSpec => []CountedOnce
  BY StoreInvInit, StoreInvStep, CountInit, CountStep, CountInvImplies, PTL DEF StoreSpec

-----------------------------------------------------------------------------
\* Log shipping: no line is lost unseen.  What an entry holds does not matter for this,
\* so a sequence is one over its own elements.
AnySeq(s) == s \in Seq({s[i] : i \in DOMAIN s})
InSeq(e, s) == \E i \in DOMAIN s : s[i] = e

LEMMA SeqIsAny ==
    ASSUME NEW S, NEW s \in Seq(S)
    PROVE  AnySeq(s) /\ Len(s) \in Nat /\ DOMAIN s = 1..Len(s)
<1>1. s \in Seq(Range(s)) /\ Len(s) \in Nat /\ DOMAIN s = 1..Len(s)
  BY SeqOfRange, LenProperties
<1>2. Range(s) = {s[i] : i \in DOMAIN s}
  BY DEF Range
<1> QED
  BY <1>1, <1>2 DEF AnySeq

LEMMA EmptyAny == AnySeq(<<>>) /\ Len(<<>>) = 0 /\ \A e : ~InSeq(e, <<>>)
<1>1. <<>> \in Seq({}) /\ Len(<<>>) = 0
  BY EmptySeq
<1>2. DOMAIN <<>> = {}
  BY <1>1, LenProperties
<1> QED
  BY <1>1, <1>2, SeqIsAny DEF InSeq

LEMMA AppendAny ==
    ASSUME NEW s, AnySeq(s), NEW e
    PROVE  /\ AnySeq(Append(s, e)) /\ Len(Append(s, e)) = Len(s) + 1 /\ Len(s) \in Nat
           /\ InSeq(e, Append(s, e)) /\ \A x : InSeq(x, s) => InSeq(x, Append(s, e))
<1> DEFINE S == {s[i] : i \in DOMAIN s} \union {e}
<1>1. s \in Seq(S) /\ e \in S
  BY SeqMonotonic DEF AnySeq
<1> HIDE DEF S
<1> DEFINE t == Append(s, e)
<1>2. /\ t \in Seq(S) /\ Len(t) = Len(s) + 1
      /\ \A i \in 1..Len(s) : t[i] = s[i]
      /\ t[Len(s) + 1] = e
  BY <1>1, AppendProperties
<1>3. Len(s) \in Nat /\ DOMAIN s = 1..Len(s) /\ DOMAIN t = 1..(Len(s) + 1)
  BY <1>1, <1>2, LenProperties
<1>4. AnySeq(t)
  BY <1>2, SeqIsAny
<1> HIDE DEF t
<1>5. InSeq(e, t) /\ \A x : InSeq(x, s) => InSeq(x, t)
  BY <1>2, <1>3 DEF InSeq
<1> QED
  BY <1>2, <1>3, <1>4, <1>5 DEF t

LEMMA ConcatAny ==
    ASSUME NEW s, AnySeq(s), NEW t, AnySeq(t)
    PROVE  /\ AnySeq(s \o t) /\ Len(s \o t) = Len(s) + Len(t) /\ Len(s) \in Nat /\ Len(t) \in Nat
           /\ \A x : InSeq(x, s \o t) <=> (InSeq(x, s) \/ InSeq(x, t))
<1> DEFINE S == {s[i] : i \in DOMAIN s} \union {t[i] : i \in DOMAIN t}
<1>1. s \in Seq(S) /\ t \in Seq(S)
  BY SeqMonotonic DEF AnySeq
<1> HIDE DEF S
<1>2. s \o t \in Seq(S) /\ Len(s \o t) = Len(s) + Len(t)
  BY <1>1, ConcatProperties
<1>3. Len(s) \in Nat /\ Len(t) \in Nat
  BY <1>1, LenProperties
<1>4. AnySeq(s \o t)
  BY <1>2, SeqIsAny
<1>5. Range(s \o t) = Range(s) \union Range(t)
  BY <1>1, RangeConcatenation
<1>6. ASSUME NEW x PROVE InSeq(x, s \o t) <=> (InSeq(x, s) \/ InSeq(x, t))
  BY <1>5 DEF InSeq, Range
<1> QED
  BY <1>2, <1>3, <1>4, <1>6

LEMMA TailAny ==
    ASSUME NEW s, AnySeq(s), s # <<>>
    PROVE  /\ AnySeq(Tail(s)) /\ Len(Tail(s)) = Len(s) - 1 /\ Len(s) \in Nat \ {0}
           /\ \A x : InSeq(x, s) => x = Head(s) \/ InSeq(x, Tail(s))
<1> DEFINE S == {s[i] : i \in DOMAIN s}
<1>1. s \in Seq(S)
  BY DEF AnySeq
<1> HIDE DEF S
<1> DEFINE t == Tail(s)
<1>2. /\ t \in Seq(S) /\ Len(t) = Len(s) - 1
      /\ \A i \in 1..Len(t) : t[i] = s[i + 1]
  BY <1>1, HeadTailProperties
<1>3. /\ Len(s) \in Nat \ {0} /\ DOMAIN s = 1..Len(s) /\ DOMAIN t = 1..Len(t)
  BY <1>1, <1>2, LenProperties, EmptySeq
<1>4. AnySeq(t)
  BY <1>2, SeqIsAny
<1>5. Head(s) = s[1]
  OBVIOUS
<1> HIDE DEF t
<1>6. ASSUME NEW i \in DOMAIN s PROVE s[i] = Head(s) \/ InSeq(s[i], t)
  <2>1. CASE i = 1
    BY <1>5, <2>1
  <2>2. CASE i # 1
    <3>1. i - 1 \in 1..Len(t) /\ (i - 1) + 1 = i
      BY <1>2, <1>3, <2>2
    <3>2. t[i - 1] = s[i]
      BY <1>2, <3>1
    <3> QED
      BY <1>3, <3>1, <3>2 DEF InSeq
  <2> QED
    BY <2>1, <2>2
<1>7. \A x : InSeq(x, s) => x = Head(s) \/ InSeq(x, t)
  BY <1>6 DEF InSeq
<1> QED
  BY <1>2, <1>3, <1>4, <1>7 DEF t

LinesCounted ==
    /\ AnySeq(shipped) /\ AnySeq(buf) /\ AnySeq(raw)
    /\ emitted \in Nat /\ reported \in Nat /\ dropped \in Nat
    /\ emitted = Len(shipped) + Len(buf) + Len(raw) + reported + dropped

\* Where an entry is that was queued or buffered when the context ended.
Held(e) == InSeq(e, shipped) \/ InSeq(e, buf) \/ InSeq(e, raw)

OwedHeld ==
    /\ stopped \in BOOLEAN /\ batcher \in {"run", "drain", "ended"}
    /\ batcher # "run" => stopped
    /\ owed.lines \in Nat
    /\ stopped /\ batcher # "ended" => /\ \A k \in DOMAIN owed.entries : Held(owed.entries[k])
                                       /\ reported + dropped >= owed.lines

ShipInv == LinesCounted /\ OwedHeld /\ DrainedOnStop

LEMMA ShipInvImplies == ShipInv => NothingLostUnseen
<1> SUFFICES ASSUME ShipInv PROVE EveryLineAccounted
  BY DEF ShipInv, NothingLostUnseen
<1>1. AnySeq(shipped \o buf) /\ Len(shipped \o buf) = Len(shipped) + Len(buf)
  BY ConcatAny DEF ShipInv, LinesCounted
<1>2. Len(Entries) = Len(shipped) + Len(buf) + Len(raw)
  BY <1>1, ConcatAny DEF ShipInv, LinesCounted, Entries
<1> QED
  BY <1>2 DEF ShipInv, LinesCounted, EveryLineAccounted

LEMMA ShipInit == LogInit(LogRegimes) => ShipInv
<1> SUFFICES ASSUME LogInit(LogRegimes) PROVE ShipInv
  OBVIOUS
<1>1. /\ raw = <<>> /\ buf = <<>> /\ shipped = <<>>
      /\ emitted = 0 /\ reported = 0 /\ dropped = 0 /\ batcher = "run" /\ stopped = FALSE
  BY DEF LogInit
<1>2. LinesCounted
  BY <1>1, EmptyAny DEF LinesCounted
<1>3. owed.lines = 0
  BY DEF LogInit
<1>4. OwedHeld
  <2>1. stopped = FALSE
    BY <1>1
  <2>2. ~stopped /\ stopped \in BOOLEAN
    BY <2>1
  <2>3. batcher \in {"run", "drain", "ended"} /\ owed.lines \in Nat
    BY <1>1, <1>3
  <2> QED
    BY <1>1, <2>2, <2>3 DEF OwedHeld
<1>5. DrainedOnStop
  BY <1>1 DEF DrainedOnStop
<1> QED
  BY <1>2, <1>4, <1>5 DEF ShipInv

\* Steps that leave the queue, the batches and the end alone.
LEMMA ShipUntouched ==
    ASSUME ShipInv, UNCHANGED <<raw, dropped, emitted, batchVars, stopped, owed>>
    PROVE  ShipInv'
<1>1. UNCHANGED <<raw, dropped, emitted, buf, shipped, reported, batcher, stopped, owed>>
  BY DEF batchVars
<1>2. LinesCounted' /\ DrainedOnStop'
  BY <1>1 DEF ShipInv, LinesCounted, DrainedOnStop
<1>3. OwedHeld'
  BY <1>1 DEF ShipInv, OwedHeld, Held
<1> QED
  BY <1>2, <1>3 DEF ShipInv

\* emit counts a line in one place: the queue or the counter.
LEMMA EmitCounts ==
    ASSUME LinesCounted, NEW e, Emit(e)
    PROVE  /\ emitted' = emitted + 1 /\ AnySeq(raw') /\ dropped' \in Nat
           /\ Len(raw) \in Nat /\ Len(raw') \in Nat
           /\ Len(raw') + dropped' = Len(raw) + dropped + 1 /\ dropped' >= dropped
           /\ \A x : InSeq(x, raw) => InSeq(x, raw')
<1>1. emitted' = emitted + 1
  BY DEF Emit
<1>2. \/ raw' = raw /\ dropped' = dropped + 1
      \/ raw' = Append(raw, e) /\ dropped' = dropped
  BY DEF Emit, Queued
<1>3. AnySeq(raw) /\ dropped \in Nat
  BY DEF LinesCounted
<1>4. Len(raw) \in Nat
  BY <1>3, AppendAny
<1>5. CASE raw' = raw /\ dropped' = dropped + 1
  BY <1>1, <1>3, <1>4, <1>5
<1>6. CASE raw' = Append(raw, e) /\ dropped' = dropped
  <2>1. /\ AnySeq(raw') /\ Len(raw') = Len(raw) + 1
        /\ \A x : InSeq(x, raw) => InSeq(x, raw')
    BY <1>3, <1>6, AppendAny
  <2> QED
    BY <1>1, <1>3, <1>4, <1>6, <2>1
<1> QED
  BY <1>2, <1>5, <1>6

LEMMA EmitShips ==
    ASSUME ShipInv, NEW e, Emit(e), UNCHANGED <<batchVars, stopped, owed>>
    PROVE  ShipInv'
<1>1. UNCHANGED <<buf, shipped, reported, batcher, stopped, owed>>
  BY DEF batchVars
<1>2. LinesCounted
  BY DEF ShipInv
<1>3. /\ emitted' = emitted + 1 /\ AnySeq(raw') /\ dropped' \in Nat
      /\ Len(raw) \in Nat /\ Len(raw') \in Nat
      /\ Len(raw') + dropped' = Len(raw) + dropped + 1 /\ dropped' >= dropped
      /\ \A x : InSeq(x, raw) => InSeq(x, raw')
  BY <1>2, EmitCounts
<1>4. Len(shipped) \in Nat /\ Len(buf) \in Nat
  BY <1>2, SeqIsAny DEF LinesCounted, AnySeq
<1>5. LinesCounted'
  <2>1. /\ AnySeq(shipped') /\ AnySeq(buf') /\ AnySeq(raw')
        /\ emitted' \in Nat /\ reported' \in Nat /\ dropped' \in Nat
    BY <1>1, <1>2, <1>3 DEF LinesCounted
  <2>2. /\ emitted = Len(shipped) + Len(buf) + Len(raw) + reported + dropped
        /\ reported \in Nat /\ dropped \in Nat
    BY <1>2 DEF LinesCounted
  <2>3. emitted' = Len(shipped) + Len(buf) + Len(raw') + reported + dropped'
    <3> DEFINE x == Len(shipped) + Len(buf)  n == Len(raw)  m == Len(raw')
    <3>1. x \in Nat /\ n \in Nat /\ m \in Nat /\ dropped' \in Nat /\ reported \in Nat /\ dropped \in Nat
      BY <1>3, <1>4, <2>2
    <3>2. m + dropped' = n + dropped + 1
      BY <1>3
    <3>3. emitted' = x + n + reported + dropped + 1
      BY <1>3, <2>2
    <3> HIDE DEF x, n, m
    <3>4. x + n + reported + dropped + 1 = x + reported + (n + dropped + 1)
      BY <3>1
    <3>5. x + reported + (m + dropped') = x + m + reported + dropped'
      BY <3>1
    <3>6. emitted' = x + m + reported + dropped'
      BY <3>2, <3>3, <3>4, <3>5, Zenon
    <3> QED
      BY <3>6 DEF x, m
  <2> QED
    BY <1>1, <2>1, <2>3 DEF LinesCounted
<1>6. DrainedOnStop'
  BY <1>1 DEF ShipInv, DrainedOnStop
<1>7. \A x : Held(x) => Held(x)'
  BY <1>1, <1>3 DEF Held
<1>8. reported \in Nat /\ dropped \in Nat
  BY <1>2 DEF LinesCounted
<1>9. OwedHeld'
  <2>1. ASSUME stopped, batcher # "ended" PROVE reported' + dropped' >= owed'.lines
    BY <1>1, <1>3, <1>8, <2>1 DEF ShipInv, OwedHeld
  <2>2. ASSUME stopped, batcher # "ended", NEW k \in DOMAIN owed.entries PROVE Held(owed.entries[k])'
    BY <1>7, <2>2 DEF ShipInv, OwedHeld
  <2>3. /\ stopped' \in BOOLEAN /\ batcher' \in {"run", "drain", "ended"}
        /\ batcher' # "run" => stopped'
        /\ owed'.lines \in Nat
    BY <1>1 DEF ShipInv, OwedHeld
  <2> QED
    BY <1>1, <2>1, <2>2, <2>3 DEF OwedHeld
<1> QED
  BY <1>5, <1>6, <1>9 DEF ShipInv

\* A batch moves on: nothing is emitted, what is held stays held and the counter only
\* moves to what is reported.
LEMMA BatchMoves ==
    ASSUME ShipInv, UNCHANGED <<emitted, stopped, owed>>,
           AnySeq(shipped'), AnySeq(buf'), AnySeq(raw'), reported' \in Nat, dropped' \in Nat,
           reported' + dropped' = reported + dropped,
           Len(shipped') + Len(buf') + Len(raw') = Len(shipped) + Len(buf) + Len(raw),
           \A x : Held(x) => Held(x)',
           batcher # "ended", batcher' \in {"run", "drain"}, batcher' # "run" => stopped
    PROVE  ShipInv'
<1>1. /\ Len(shipped) \in Nat /\ Len(buf) \in Nat /\ Len(raw) \in Nat
      /\ Len(shipped') \in Nat /\ Len(buf') \in Nat /\ Len(raw') \in Nat
  BY SeqIsAny DEF ShipInv, LinesCounted, AnySeq
<1>2. /\ emitted = Len(shipped) + Len(buf) + Len(raw) + reported + dropped
      /\ reported \in Nat /\ dropped \in Nat
  BY DEF ShipInv, LinesCounted
<1>3. emitted' = Len(shipped') + Len(buf') + Len(raw') + reported' + dropped'
  <2> DEFINE held == Len(shipped) + Len(buf) + Len(raw)
  <2>1. held \in Nat /\ held' = held
    BY <1>1
  <2>2. emitted = held + (reported + dropped) /\ emitted' = emitted
    BY <1>1, <1>2
  <2>3. held' + (reported' + dropped') = Len(shipped') + Len(buf') + Len(raw') + reported' + dropped'
    BY <1>1
  <2> HIDE DEF held
  <2> QED
    BY <2>1, <2>2, <2>3
<1>4. LinesCounted'
  BY <1>3 DEF ShipInv, LinesCounted
<1>5. DrainedOnStop'
  BY DEF DrainedOnStop
<1>6. OwedHeld'
  <2>1. ASSUME stopped PROVE reported' + dropped' >= owed.lines
    BY <2>1 DEF ShipInv, OwedHeld
  <2>2. ASSUME stopped, NEW k \in DOMAIN owed.entries PROVE Held(owed.entries[k])'
    BY <2>2 DEF ShipInv, OwedHeld
  <2>3. stopped \in BOOLEAN /\ owed.lines \in Nat
    BY DEF ShipInv, OwedHeld
  <2> QED
    BY <2>1, <2>2, <2>3 DEF OwedHeld
<1> QED
  BY <1>4, <1>5, <1>6 DEF ShipInv

\* flush hands over the buffer it is given and the counter.
LEMMA FlushMoves ==
    ASSUME ShipInv, NEW b, AnySeq(b), Flush(b), dropped' = 0
    PROVE  /\ AnySeq(shipped') /\ Len(shipped') = Len(shipped) + Len(b)
           /\ Len(shipped) \in Nat /\ Len(b) \in Nat
           /\ \A x : (InSeq(x, shipped) \/ InSeq(x, b)) => InSeq(x, shipped')
           /\ AnySeq(buf') /\ Len(buf') = 0
           /\ reported' \in Nat /\ dropped' \in Nat /\ reported' + dropped' = reported + dropped
           /\ reported' >= reported
<1>1. shipped' = shipped \o b /\ reported' = reported + dropped /\ buf' = <<>>
  BY DEF Flush
<1>2. AnySeq(shipped) /\ reported \in Nat /\ dropped \in Nat
  BY DEF ShipInv, LinesCounted
<1>3. /\ AnySeq(shipped') /\ Len(shipped') = Len(shipped) + Len(b)
      /\ Len(shipped) \in Nat /\ Len(b) \in Nat
      /\ \A x : (InSeq(x, shipped) \/ InSeq(x, b)) => InSeq(x, shipped')
  BY <1>1, <1>2, ConcatAny
<1>4. AnySeq(buf') /\ Len(buf') = 0
  BY <1>1, EmptyAny
<1>5. /\ reported' \in Nat /\ dropped' \in Nat /\ reported' + dropped' = reported + dropped
      /\ reported' >= reported
  BY <1>1, <1>2
<1> QED
  BY <1>3, <1>4, <1>5

LEMMA TakeShips ==
    ASSUME ShipInv, Take
    PROVE  ShipInv'
<1> DEFINE b == Append(buf, Head(raw))
<1>1. /\ batcher = "run" /\ raw # <<>> /\ raw' = Tail(raw)
      /\ UNCHANGED <<emitted, batcher, stopped, owed>>
  BY DEF Take
<1>2. \/ Flush(b) /\ dropped' = 0
      \/ buf' = b /\ UNCHANGED <<shipped, reported, dropped>>
  BY DEF Take
<1>3. AnySeq(shipped) /\ AnySeq(buf) /\ AnySeq(raw) /\ reported \in Nat /\ dropped \in Nat
  BY DEF ShipInv, LinesCounted
<1>4. /\ AnySeq(b) /\ Len(b) = Len(buf) + 1 /\ Len(buf) \in Nat
      /\ InSeq(Head(raw), b) /\ \A x : InSeq(x, buf) => InSeq(x, b)
  BY <1>3, AppendAny
<1>5. /\ AnySeq(raw') /\ Len(raw') = Len(raw) - 1 /\ Len(raw) \in Nat \ {0}
      /\ \A x : InSeq(x, raw) => x = Head(raw) \/ InSeq(x, raw')
  BY <1>1, <1>3, TailAny
<1>6. Len(shipped) \in Nat
  BY <1>3, SeqIsAny DEF AnySeq
<1> HIDE DEF b
<1>7. CASE Flush(b) /\ dropped' = 0
  <2>1. /\ AnySeq(shipped') /\ Len(shipped') = Len(shipped) + Len(b)
        /\ \A x : (InSeq(x, shipped) \/ InSeq(x, b)) => InSeq(x, shipped')
        /\ AnySeq(buf') /\ Len(buf') = 0
        /\ reported' \in Nat /\ dropped' \in Nat /\ reported' + dropped' = reported + dropped
    BY <1>4, <1>7, FlushMoves
  <2>2. Len(shipped') + Len(buf') + Len(raw') = Len(shipped) + Len(buf) + Len(raw)
    BY <1>4, <1>5, <1>6, <2>1
  <2>3. \A x : Held(x) => Held(x)'
    BY <1>4, <1>5, <2>1 DEF Held
  <2> QED
    BY <1>1, <1>5, <2>1, <2>2, <2>3, BatchMoves
<1>8. CASE buf' = b /\ UNCHANGED <<shipped, reported, dropped>>
  <2>1. Len(shipped') + Len(buf') + Len(raw') = Len(shipped) + Len(buf) + Len(raw)
    BY <1>4, <1>5, <1>6, <1>8
  <2>2. \A x : Held(x) => Held(x)'
    BY <1>4, <1>5, <1>8 DEF Held
  <2> QED
    BY <1>1, <1>3, <1>4, <1>5, <1>8, <2>1, <2>2, BatchMoves
<1> QED
  BY <1>2, <1>7, <1>8

LEMMA FlushTickShips ==
    ASSUME ShipInv, FlushTick
    PROVE  ShipInv'
<1>1. /\ batcher = "run" /\ UNCHANGED <<emitted, raw, batcher, stopped, owed>>
      /\ Flush(buf) /\ dropped' = 0
  BY DEF FlushTick
<1>2. AnySeq(buf) /\ AnySeq(raw)
  BY DEF ShipInv, LinesCounted
<1>3. /\ AnySeq(shipped') /\ Len(shipped') = Len(shipped) + Len(buf)
      /\ Len(shipped) \in Nat /\ Len(buf) \in Nat
      /\ \A x : (InSeq(x, shipped) \/ InSeq(x, buf)) => InSeq(x, shipped')
      /\ AnySeq(buf') /\ Len(buf') = 0
      /\ reported' \in Nat /\ dropped' \in Nat /\ reported' + dropped' = reported + dropped
  BY <1>1, <1>2, FlushMoves
<1>4. Len(raw) \in Nat
  BY <1>2, SeqIsAny DEF AnySeq
<1>5. Len(shipped') + Len(buf') + Len(raw') = Len(shipped) + Len(buf) + Len(raw)
  BY <1>1, <1>3, <1>4
<1>6. \A x : Held(x) => Held(x)'
  BY <1>1, <1>3 DEF Held
<1> QED
  BY <1>1, <1>2, <1>3, <1>5, <1>6, BatchMoves

\* What is owed is what is buffered and queued at the end of the context.
LEMMA CancelShips ==
    ASSUME ShipInv, Cancel
    PROVE  ShipInv'
<1>1. /\ ~stopped /\ stopped' = TRUE /\ owed' = [entries |-> buf \o raw, lines |-> reported + dropped]
      /\ UNCHANGED <<emitted, raw, dropped, buf, shipped, reported, batcher>>
  BY DEF Cancel, queueVars, batchVars
<1>2. batcher = "run" /\ AnySeq(buf) /\ AnySeq(raw) /\ reported \in Nat /\ dropped \in Nat
  BY <1>1 DEF ShipInv, LinesCounted, OwedHeld
<1>3. LinesCounted' /\ DrainedOnStop'
  BY <1>1, <1>2 DEF ShipInv, LinesCounted, DrainedOnStop
<1>4. owed'.entries = buf \o raw /\ owed'.lines = reported + dropped
  BY <1>1
<1>5. \A x : InSeq(x, buf \o raw) => InSeq(x, buf) \/ InSeq(x, raw)
  BY <1>2, ConcatAny
<1>6. \A k \in DOMAIN owed'.entries : InSeq(owed'.entries[k], buf \o raw)
  BY <1>4 DEF InSeq
<1>7. \A k \in DOMAIN owed'.entries : Held(owed.entries[k])'
  <2> SUFFICES ASSUME NEW k \in DOMAIN owed'.entries PROVE Held(owed.entries[k])'
    OBVIOUS
  <2> DEFINE e == owed'.entries[k]
  <2>1. InSeq(e, buf) \/ InSeq(e, raw)
    BY <1>5, <1>6
  <2>2. buf' = buf /\ raw' = raw
    BY <1>1
  <2>3. InSeq(e, buf') \/ InSeq(e, raw')
    BY <2>1, <2>2
  <2> QED
    BY <2>3 DEF Held
<1>8. OwedHeld'
  <2>1. stopped' /\ stopped' \in BOOLEAN /\ batcher' = "run"
    BY <1>1, <1>2
  <2>2. owed'.lines \in Nat /\ (reported + dropped)' >= owed'.lines
    BY <1>1, <1>2, <1>4
  <2> QED
    BY <1>7, <2>1, <2>2 DEF OwedHeld
<1> QED
  BY <1>3, <1>8 DEF ShipInv

LEMMA StartDrainShips ==
    ASSUME ShipInv, StartDrain
    PROVE  ShipInv'
<1>1. /\ batcher = "run" /\ stopped /\ batcher' = "drain"
      /\ UNCHANGED <<emitted, raw, dropped, buf, shipped, reported, stopped, owed>>
  BY DEF StartDrain, queueVars
<1>2. LinesCounted' /\ DrainedOnStop'
  BY <1>1 DEF ShipInv, LinesCounted, DrainedOnStop
<1>3. OwedHeld'
  BY <1>1 DEF ShipInv, OwedHeld, Held
<1> QED
  BY <1>2, <1>3 DEF ShipInv

\* The last flush comes when the queue is empty.
LEMMA DrainShips ==
    ASSUME ShipInv, Drain
    PROVE  ShipInv'
<1>1. batcher = "drain" /\ stopped /\ UNCHANGED <<emitted, stopped, owed>>
  BY DEF Drain, ShipInv, OwedHeld
<1>2. AnySeq(shipped) /\ AnySeq(buf) /\ AnySeq(raw) /\ reported \in Nat /\ dropped \in Nat
  BY DEF ShipInv, LinesCounted
<1>3. Len(shipped) \in Nat /\ Len(buf) \in Nat /\ Len(raw) \in Nat
  BY <1>2, SeqIsAny DEF AnySeq
<1>4. CASE raw # <<>>
  <2> DEFINE b == Append(buf, Head(raw))
  <2>1. raw' = Tail(raw) /\ buf' = b /\ UNCHANGED <<shipped, reported, dropped, batcher>>
    BY <1>4 DEF Drain
  <2>2. /\ AnySeq(b) /\ Len(b) = Len(buf) + 1
        /\ InSeq(Head(raw), b) /\ \A x : InSeq(x, buf) => InSeq(x, b)
    BY <1>2, AppendAny
  <2>3. /\ AnySeq(raw') /\ Len(raw') = Len(raw) - 1
        /\ \A x : InSeq(x, raw) => x = Head(raw) \/ InSeq(x, raw')
    BY <1>2, <1>4, <2>1, TailAny
  <2> HIDE DEF b
  <2>4. Len(shipped') + Len(buf') + Len(raw') = Len(shipped) + Len(buf) + Len(raw)
    <3>1. Len(shipped') = Len(shipped) /\ Len(buf') = Len(buf) + 1 /\ Len(raw') = Len(raw) - 1
      BY <2>1, <2>2, <2>3
    <3> QED
      BY <1>3, <3>1
  <2>5. \A x : Held(x) => Held(x)'
    BY <2>1, <2>2, <2>3 DEF Held
  <2> QED
    BY <1>1, <1>2, <2>1, <2>2, <2>3, <2>4, <2>5, BatchMoves
<1>5. CASE raw = <<>>
  <2>1. Flush(buf) /\ dropped' = 0 /\ batcher' = "ended" /\ raw' = raw
    BY <1>5 DEF Drain
  <2>2. /\ AnySeq(shipped') /\ Len(shipped') = Len(shipped) + Len(buf)
        /\ \A x : (InSeq(x, shipped) \/ InSeq(x, buf)) => InSeq(x, shipped')
        /\ AnySeq(buf') /\ Len(buf') = 0
        /\ reported' \in Nat /\ dropped' \in Nat /\ reported' + dropped' = reported + dropped
    BY <1>2, <2>1, FlushMoves
  <2>3. emitted = Len(shipped) + Len(buf) + Len(raw) + reported + dropped /\ emitted \in Nat
    BY DEF ShipInv, LinesCounted
  <2>4. emitted' = Len(shipped') + Len(buf') + Len(raw') + reported' + dropped'
    <3>1. Len(raw') = Len(raw) /\ Len(buf') \in Nat /\ Len(shipped') \in Nat
      BY <1>3, <2>1, <2>2
    <3>2. Len(shipped') + Len(buf') + Len(raw') = Len(shipped) + Len(buf) + Len(raw)
      BY <1>3, <2>2, <3>1
    <3> DEFINE held == Len(shipped) + Len(buf) + Len(raw)
    <3>3. held \in Nat /\ held' = held
      BY <1>3, <3>2
    <3>4. emitted = held + (reported + dropped) /\ emitted' = emitted
      BY <1>1, <1>2, <1>3, <2>3
    <3>5. held' + (reported' + dropped') = Len(shipped') + Len(buf') + Len(raw') + reported' + dropped'
      BY <1>3, <2>2, <3>1
    <3>6. reported' + dropped' = reported + dropped
      BY <2>2
    <3> HIDE DEF held
    <3> QED
      BY <3>3, <3>4, <3>5, <3>6
  <2>5. LinesCounted'
    BY <1>1, <1>2, <2>1, <2>2, <2>3, <2>4 DEF LinesCounted
  <2>6. OwedHeld'
    BY <1>1, <2>1 DEF ShipInv, OwedHeld
  <2>7. \A x : ~InSeq(x, raw)
    BY <1>5, EmptyAny
  <2>8. ASSUME NEW k \in DOMAIN owed.entries PROVE InSeq(owed.entries[k], shipped')
    <3>1. Held(owed.entries[k])
      BY <1>1 DEF ShipInv, OwedHeld
    <3> QED
      BY <2>2, <2>7, <3>1 DEF Held
  <2>9. reported' >= owed.lines
    <3>1. reported + dropped >= owed.lines /\ owed.lines \in Nat
      BY <1>1 DEF ShipInv, OwedHeld
    <3>2. reported' = reported + dropped
      BY <2>1 DEF Flush
    <3> QED
      BY <3>1, <3>2
  <2>10. DrainedOnStop'
    BY <1>1, <2>8, <2>9 DEF DrainedOnStop, InSeq
  <2> QED
    BY <2>5, <2>6, <2>10 DEF ShipInv
<1> QED
  BY <1>4, <1>5

LEMMA ShipStep == ShipInv /\ [LogNext]_logVars => ShipInv'
<1> SUFFICES ASSUME ShipInv, [LogNext]_logVars PROVE ShipInv'
  OBVIOUS
<1>1. CASE Poll \/ ReadFile \/ JournalStart \/ JournalSkip \/ JournalEnds
  BY <1>1, ShipUntouched DEF Poll, ReadFile, JournalStart, JournalSkip, JournalEnds, queueVars
<1>2. CASE EmitLine
  <2>1. UNCHANGED <<batchVars, stopped, owed>>
    BY <1>2 DEF EmitLine
  <2>2. UNCHANGED queueVars \/ \E e : Emit(e)
    BY <1>2 DEF EmitLine
  <2> QED
    BY <2>1, <2>2, EmitShips, ShipUntouched DEF queueVars
<1>3. CASE JournalLine
  BY <1>3, EmitShips DEF JournalLine
<1>4. CASE BatchStep
  BY <1>4, TakeShips, FlushTickShips, StartDrainShips, DrainShips DEF BatchStep
<1>5. CASE Write \/ RotateAway \/ Recreate \/ TruncateFile \/ JournalWrite
  BY <1>5, ShipUntouched DEF Write, RotateAway, Recreate, TruncateFile, JournalWrite, queueVars
<1>6. CASE Cancel
  BY <1>6, CancelShips
<1>7. CASE UNCHANGED logVars
  BY <1>7, ShipUntouched DEF logVars, queueVars
<1> QED
  BY <1>1, <1>2, <1>3, <1>4, <1>5, <1>6, <1>7 DEF LogNext, TailerStep, JournalStep, LogWorld

\* No line is lost unseen (Manager.batchLoop, emitFunc): with queue, window and batch of
\* any size, every line emitted is queued, buffered, sent or counted as dropped, and
\* what was held or counted when the context ended has been sent when batchLoop returns.
THEOREM NothingLostUnseenAlways == LogSpec => []NothingLostUnseen
  BY ShipInit, ShipStep, ShipInvImplies, PTL DEF LogSpec

-----------------------------------------------------------------------------
\* Log shipping: lines are shipped whole and in order, whatever is rotated or restarted.
\* In the files the pieces of a line follow each other and lines ascend, from one inode to
\* the next.  Without truncations pending is a slice of the open file.  With truncations
\* that fall between two polls everything the tailer has still to read is later than all
\* it has emitted: what follows its offset, or, when the file was truncated since the last
\* poll, all of it, so that it does not matter where the next poll starts.

\* The shape of the state of log shipping.
Line == {s \in Seq(Piece) : s # <<>> /\ s[Len(s)][2] = 2}
Entry == ({"file"} \X Line) \union ({"journald"} \X (1..MaxJournal))

FileShape ==
    /\ content \in [Inode -> Seq(Piece)] /\ path \in 0..MaxInodes
    /\ writing \in (1..(MaxLines + 1)) \X {1, 2}
    /\ tail \in [pc : {"wait", "read", "emit"}, ino : 0..MaxInodes, offset : Nat, size : Nat,
                 pending : Seq(Piece)]
QueueShape == shipped \in Seq(Entry) /\ buf \in Seq(Entry) /\ raw \in Seq(Entry)
JournalShape == journal \in 0..MaxJournal /\ reader \in 0..(journal + 1)

\* Inodes are used one after the other; the tailer never has a later one open than the
\* one at the path.
InodesInTurn ==
    \E m \in Inode : /\ path \in {0, m} /\ tail.ino <= m
                     /\ \A i \in Inode : IF i < m THEN content[i] # <<>>
                                         ELSE i > m => content[i] = <<>>
                     /\ path = 0 => content[m] # <<>> /\ m < MaxInodes /\ writing[2] = 1

\* The first piece of a line is followed by the second, and that by a first one.
Follows(p, q) == IF p[2] = 1 THEN q = <<p[1], 2>> ELSE q[2] = 1

PiecesFollow ==
    /\ \A i \in Inode : \A j \in 1..Len(content[i]) :
         IF j = 1 THEN content[i][j][2] = 1 ELSE Follows(content[i][j - 1], content[i][j])
    /\ path # 0 => IF content[path] = <<>> THEN writing[2] = 1
                   ELSE Follows(content[path][Len(content[path])], writing)

\* Lines end in the files in the order in which they were written.
LinesAscend ==
    /\ \A i \in Inode : \A j \in 1..Len(content[i]) :
         content[i][j][2] = 2 => content[i][j][1] < writing[1]
    /\ \A i, h \in Inode : \A j \in 1..Len(content[i]), l \in 1..Len(content[h]) :
         (i < h \/ (i = h /\ j < l)) /\ content[i][j][2] = 2 /\ content[h][l][2] = 2 =>
             content[i][j][1] < content[h][l][1]

NothingOpen == tail.ino = 0 => tail.pc = "wait"

FilesInv == InodesInTurn /\ NothingOpen /\ PiecesFollow /\ LinesAscend

\* Without truncations pending is what was read last of the open file, and only a
\* tailer that has emitted nothing starts in the middle of a line.
SliceInv ==
    LET c == content[tail.ino]  p == tail.pending  start == tail.offset - Len(p) IN
    /\ tail.ino = 0 => p = <<>> /\ From("file") = {}
    /\ tail.ino # 0 => /\ tail.offset <= Len(c) /\ start >= 0
                       /\ \A j \in 1..Len(p) : p[j] = c[start + j]
                       /\ start > 0 /\ c[start][2] = 1 => From("file") = {}

\* The lines that were emitted, those that end in pending, and a line later than all.
Emitted == {Last(Entries[k][2])[1] : k \in From("file")}
Pending == {tail.pending[j][1] : j \in {l \in 1..Len(tail.pending) : tail.pending[l][2] = 2}}
Fresh == {n \in Nat : \A m \in Emitted \union Pending : m < n}
FreshFrom == {q \in Inode \X Nat : \A l \in 1..Len(content[q[1]]) :
                                     l > q[2] /\ content[q[1]][l][2] = 2 => content[q[1]][l][1] \in Fresh}

PendingAscends ==
    \A j \in 1..Len(tail.pending) : tail.pending[j][2] = 2 =>
        /\ \A m \in Emitted : m < tail.pending[j][1]
        /\ \A l \in 1..(j - 1) : tail.pending[l][2] = 2 => tail.pending[l][1] < tail.pending[j][1]

\* Where the open file is read next: after what was read, or anywhere, when it was
\* truncated since and all that is in it is fresh.
UnreadIsFresh ==
    /\ writing[1] \in Fresh
    /\ \A i \in Inode : i > tail.ino => <<i, 0>> \in FreshFrom
    /\ tail.pc = "read" => tail.size <= Len(content[tail.ino])
    /\ tail.ino # 0 => \/ <<tail.ino, 0>> \in FreshFrom
                       \/ /\ <<tail.ino, tail.offset>> \in FreshFrom
                          /\ tail.offset <= Len(content[tail.ino])
                          /\ tail.pc # "read" => tail.size <= tail.offset

\* What was emitted of the journal is behind the reader.
JournalInv ==
    \A k \in From("journald") :
        Entries[k][2] <= journal /\ (reader # 0 => Entries[k][2] < reader)

LinesWhole ==
    \A k \in From("file") : \E n \in 1..MaxLines :
        \/ Entries[k][2] = << <<n, 1>>, <<n, 2>> >>
        \/ Entries[k][2] = << <<n, 2>> >> /\ \A l \in From("file") : k <= l
FileAscends == \A k, l \in From("file") : l < k => Last(Entries[l][2])[1] < Last(Entries[k][2])[1]
JournalAscends == \A k, l \in From("journald") : l < k => Entries[l][2] < Entries[k][2]

IntactInv ==
    /\ FileShape /\ QueueShape /\ JournalShape /\ FilesInv /\ JournalInv /\ JournalAscends
    /\ logMay \intersect {"truncate", "torn"} = {} => SliceInv /\ LinesWhole
    /\ "torn" \notin logMay => PendingAscends /\ UnreadIsFresh /\ FileAscends

LEMMA LogBounds ==
    MaxLines \in Nat /\ MaxJournal \in Nat /\ MaxInodes \in Nat \ {0} /\ Inode = 1..MaxInodes
<1> QED
  BY LogAssumption DEF LogAssumption, Inode

LEMMA PieceFacts == ASSUME NEW p \in Piece PROVE p[1] \in 1..MaxLines /\ p[2] \in {1, 2} /\ p = <<p[1], p[2]>>
<1> QED
  BY DEF Piece

\* The line drainNewLines emits next ends with the first newline of pending.
LEMMA FirstLineEnds ==
    ASSUME NEW p \in Seq(Piece)
    PROVE  /\ FirstLine(p) \in 0..Len(p)
           /\ FirstLine(p) = 0 => \A j \in 1..Len(p) : p[j][2] # 2
           /\ FirstLine(p) # 0 => /\ p[FirstLine(p)][2] = 2
                                  /\ \A j \in 1..(FirstLine(p) - 1) : p[j][2] # 2
<1>0. Len(p) \in Nat
  BY LenProperties
<1>1. CASE ~\E k \in 1..Len(p) : p[k][2] = 2
  BY <1>0, <1>1 DEF FirstLine
<1>2. CASE \E k \in 1..Len(p) : p[k][2] = 2
  <2> DEFINE T == {k \in 1..Len(p) : p[k][2] = 2}
  <2>1. T \subseteq Nat /\ T # {}
    BY <1>0, <1>2
  <2>2. PICK k \in T : \A l \in T : <<l, k>> \notin OpToRel(<, Nat)
    <3> HIDE DEF T
    <3> QED
      BY <2>1, NatLessThanWellFounded, WFMin
  <2>3. \A l \in T : ~(l < k)
    BY <2>1, <2>2 DEF OpToRel
  <2>4. k \in 1..Len(p) /\ p[k][2] = 2 /\ \A l \in 1..(k - 1) : p[l][2] # 2
    BY <1>0, <2>3
  <2>5. FirstLine(p) = CHOOSE i \in 1..Len(p) : p[i][2] = 2 /\ \A l \in 1..(i - 1) : p[l][2] # 2
    BY <1>2 DEF FirstLine
  <2>6. /\ FirstLine(p) \in 1..Len(p) /\ p[FirstLine(p)][2] = 2
        /\ \A l \in 1..(FirstLine(p) - 1) : p[l][2] # 2
    BY <2>4, <2>5
  <2> QED
    BY <1>0, <2>6
<1> QED
  BY <1>1, <1>2

LEMMA EntriesSeq == ASSUME QueueShape PROVE Entries \in Seq(Entry)
<1>1. shipped \o buf \in Seq(Entry)
  BY ConcatProperties DEF QueueShape
<1> QED
  BY <1>1, ConcatProperties DEF QueueShape, Entries

\* Moving an entry, or all of a buffer, leaves the order of entries as it is.
LEMMA MovedEntry ==
    ASSUME QueueShape, raw # <<>>
    PROVE  /\ Tail(raw) \in Seq(Entry) /\ Append(buf, Head(raw)) \in Seq(Entry)
           /\ (shipped \o Append(buf, Head(raw))) \o Tail(raw) = Entries
<1>a. shipped \in Seq(Entry) /\ buf \in Seq(Entry) /\ raw \in Seq(Entry)
  BY DEF QueueShape
<1> DEFINE h == Head(raw)  t == Tail(raw)
<1>0. shipped \o buf \in Seq(Entry)
  BY <1>a, ConcatProperties
<1>1. h \in Entry /\ t \in Seq(Entry)
  BY <1>a, HeadTailProperties
<1>2. raw = <<h>> \o t /\ <<h>> \in Seq(Entry)
  <2>1. Len(raw) \in Nat \ {0} /\ 1 \in 1..Len(raw) /\ Len(raw) \in 1..Len(raw)
    BY <1>a, EmptySeq
  <2>2. SubSeq(raw, 1, Len(raw)) = <<raw[1]>> \o SubSeq(raw, 1 + 1, Len(raw))
    BY <1>a, <2>1, SubSeqRecursiveFirst
  <2>3. SubSeq(raw, 1, Len(raw)) = raw /\ t = SubSeq(raw, 2, Len(raw)) /\ h = raw[1]
    BY <1>a, SubSeqFull, TailIsSubSeq
  <2> QED
    BY <1>1, <2>2, <2>3
<1> HIDE DEF h, t
<1>3. Append(buf, h) = buf \o <<h>> /\ Append(buf, h) \in Seq(Entry)
  BY <1>1, <1>a, AppendIsConcat, AppendProperties
<1>4. shipped \o (buf \o <<h>>) = (shipped \o buf) \o <<h>>
  BY <1>2, <1>a, ConcatAssociative
<1>5. ((shipped \o buf) \o <<h>>) \o t = (shipped \o buf) \o (<<h>> \o t)
  BY <1>0, <1>1, <1>2, <1>a, ConcatAssociative
<1> QED
  BY <1>1, <1>2, <1>3, <1>4, <1>5 DEF Entries, h, t

LEMMA BatchKeepsEntries ==
    ASSUME QueueShape, BatchStep
    PROVE  QueueShape' /\ Entries' = Entries
<1>0. shipped \in Seq(Entry) /\ buf \in Seq(Entry) /\ raw \in Seq(Entry) /\ <<>> \in Seq(Entry)
  BY EmptySeq DEF QueueShape
<1>1. CASE Take
  <2> DEFINE b == Append(buf, Head(raw))
  <2>1. raw # <<>> /\ raw' = Tail(raw)
    BY <1>1 DEF Take
  <2>2. b \in Seq(Entry) /\ raw' \in Seq(Entry) /\ (shipped \o b) \o raw' = Entries
    BY <2>1, MovedEntry
  <2>3. CASE Flush(b)
    <3>1. shipped' = shipped \o b /\ buf' = <<>>
      BY <2>3 DEF Flush
    <3> HIDE DEF b
    <3>2. shipped' \in Seq(Entry)
      BY <1>0, <2>2, <3>1, ConcatProperties
    <3>3. shipped' \o <<>> = shipped'
      BY <3>2, ConcatEmptySeq
    <3> QED
      BY <1>0, <2>2, <3>1, <3>2, <3>3 DEF QueueShape, Entries
  <2>4. CASE buf' = b /\ shipped' = shipped
    BY <1>0, <2>2, <2>4 DEF QueueShape, Entries
  <2> QED
    BY <1>1, <2>3, <2>4 DEF Take
<1>2. CASE Flush(buf) /\ raw' = raw
  <2>1. shipped' = shipped \o buf /\ buf' = <<>>
    BY <1>2 DEF Flush
  <2>2. shipped' \in Seq(Entry)
    BY <1>0, <2>1, ConcatProperties
  <2>3. shipped' \o <<>> = shipped'
    BY <2>2, ConcatEmptySeq
  <2> QED
    BY <1>0, <1>2, <2>1, <2>2, <2>3 DEF QueueShape, Entries
<1>3. CASE raw # <<>> /\ raw' = Tail(raw) /\ buf' = Append(buf, Head(raw)) /\ shipped' = shipped
  BY <1>0, <1>3, MovedEntry DEF QueueShape, Entries
<1>4. CASE UNCHANGED <<shipped, buf, raw>>
  BY <1>4 DEF QueueShape, Entries
<1> QED
  BY <1>1, <1>2, <1>3, <1>4 DEF BatchStep, FlushTick, StartDrain, Drain, queueVars

\* emit appends an entry, or does not.
LEMMA EmitAppends ==
    ASSUME QueueShape, NEW e \in Entry, Emit(e), UNCHANGED batchVars
    PROVE  QueueShape' /\ (Entries' = Entries \/ Entries' = Append(Entries, e))
<1>1. shipped' = shipped /\ buf' = buf /\ (raw' = raw \/ raw' = Append(raw, e))
  BY DEF Emit, Queued, batchVars
<1>2. CASE raw' = raw
  BY <1>1, <1>2 DEF QueueShape, Entries
<1>3. CASE raw' = Append(raw, e)
  <2> DEFINE a == shipped \o buf
  <2>1. a \in Seq(Entry) /\ raw \in Seq(Entry) /\ <<e>> \in Seq(Entry)
    BY ConcatProperties DEF QueueShape
  <2>2. Append(raw, e) = raw \o <<e>> /\ Append(raw, e) \in Seq(Entry)
    BY <2>1, AppendIsConcat, AppendProperties
  <2>3. Append(a \o raw, e) = (a \o raw) \o <<e>>
    BY <2>1, ConcatProperties, AppendIsConcat
  <2>4. (a \o raw) \o <<e>> = a \o (raw \o <<e>>)
    BY <2>1, ConcatAssociative
  <2> QED
    BY <1>1, <1>3, <2>1, <2>2, <2>3, <2>4 DEF QueueShape, Entries
<1> QED
  BY <1>1, <1>2, <1>3
LEMMA EmptyLen == Len(<<>>) = 0
<1> QED
  BY EmptySeq

LEMMA TailFacts ==
    ASSUME FileShape
    PROVE  /\ tail.pc \in {"wait", "read", "emit"} /\ tail.ino \in 0..MaxInodes /\ tail.offset \in Nat
           /\ tail.size \in Nat /\ tail.pending \in Seq(Piece) /\ Len(tail.pending) \in Nat
           /\ \A j \in 1..Len(tail.pending) : tail.pending[j] \in Piece
           /\ \A i \in Inode : /\ content[i] \in Seq(Piece) /\ Len(content[i]) \in Nat
                               /\ \A j \in 1..Len(content[i]) : content[i][j] \in Piece
<1>1. /\ tail.pc \in {"wait", "read", "emit"} /\ tail.ino \in 0..MaxInodes /\ tail.offset \in Nat
      /\ tail.size \in Nat /\ tail.pending \in Seq(Piece)
  BY DEF FileShape
<1>2. \A i \in Inode : content[i] \in Seq(Piece)
  BY DEF FileShape
<1> QED
  BY <1>1, <1>2, LenProperties, ElementOfSeq

\* The number of a line in a file is a natural number.
LEMMA PieceNumbers ==
    ASSUME FileShape, NEW i \in Inode, NEW l \in 1..Len(content[i])
    PROVE  content[i][l][1] \in Nat
<1>1. content[i][l] \in Piece
  BY TailFacts
<1>2. content[i][l][1] \in 1..MaxLines
  BY <1>1, PieceFacts
<1> QED
  BY <1>2, LogBounds

\* A piece is written at the end of the file at the path.
LEMMA WriteAppends ==
    ASSUME FileShape, Write
    PROVE  /\ path \in Inode /\ writing \in Piece /\ writing' \in (1..(MaxLines + 1)) \X {1, 2}
           /\ content' \in [Inode -> Seq(Piece)]
           /\ \A i \in Inode : i # path => content'[i] = content[i]
           /\ Len(content'[path]) = Len(content[path]) + 1
           /\ \A j \in 1..Len(content[path]) : content'[path][j] = content[path][j]
           /\ content'[path][Len(content[path]) + 1] = writing
           /\ writing' = IF writing[2] = 1 THEN <<writing[1], 2>> ELSE <<writing[1] + 1, 1>>
           /\ path' = path /\ tail' = tail
<1>1. /\ path # 0 /\ writing[1] <= MaxLines
      /\ content' = [content EXCEPT ![path] = Append(content[path], writing)]
      /\ writing' = IF writing[2] = 1 THEN <<writing[1], 2>> ELSE <<writing[1] + 1, 1>>
      /\ path' = path /\ tail' = tail
  BY DEF Write
<1>2. content \in [Inode -> Seq(Piece)] /\ path \in 0..MaxInodes /\ writing \in (1..(MaxLines + 1)) \X {1, 2}
  BY DEF FileShape
<1>3. path \in Inode
  BY <1>1, <1>2, LogBounds
<1>4. writing \in Piece /\ writing' \in (1..(MaxLines + 1)) \X {1, 2}
  BY <1>1, <1>2, LogBounds DEF Piece
<1>5. /\ Append(content[path], writing) \in Seq(Piece)
      /\ Len(Append(content[path], writing)) = Len(content[path]) + 1
      /\ \A j \in 1..Len(content[path]) : Append(content[path], writing)[j] = content[path][j]
      /\ Append(content[path], writing)[Len(content[path]) + 1] = writing
  BY <1>2, <1>3, <1>4, AppendProperties
<1>6. /\ content' \in [Inode -> Seq(Piece)] /\ content'[path] = Append(content[path], writing)
      /\ \A i \in Inode : i # path => content'[i] = content[i]
  BY <1>1, <1>2, <1>3, <1>5
<1> QED
  BY <1>1, <1>3, <1>4, <1>5, <1>6

LEMMA ClosedShape == Closed \in [pc : {"wait", "read", "emit"}, ino : 0..MaxInodes, offset : Nat, size : Nat,
                                 pending : Seq(Piece)]
<1> QED
  BY LogBounds, EmptySeq DEF Closed

LEMMA OpenedFacts ==
    ASSUME FileShape, NEW i \in Inode, NEW from \in Nat
    PROVE  /\ Opened(i, from) \in [pc : {"wait", "read", "emit"}, ino : 0..MaxInodes, offset : Nat,
                                   size : Nat, pending : Seq(Piece)]
           /\ Opened(i, from).pc = "wait" /\ Opened(i, from).ino = i /\ Opened(i, from).offset = from
           /\ Opened(i, from).size = Len(content[i]) /\ Opened(i, from).pending = <<>>
<1>1. Len(content[i]) \in Nat /\ i \in 0..MaxInodes
  BY TailFacts, LogBounds
<1> QED
  BY <1>1, EmptySeq DEF Opened

\* The inode at a path that was renamed away.
LEMMA NextInodeIs ==
    ASSUME FileShape, InodesInTurn, path = 0
    PROVE  /\ NextInode \in Inode /\ content[NextInode] = <<>> /\ tail.ino < NextInode
           /\ \A i \in Inode : i < NextInode <=> content[i] # <<>>
<1>1. PICK m \in Inode : /\ path \in {0, m} /\ tail.ino <= m
                         /\ \A i \in Inode : IF i < m THEN content[i] # <<>>
                                             ELSE i > m => content[i] = <<>>
                         /\ path = 0 => content[m] # <<>> /\ m < MaxInodes /\ writing[2] = 1
  BY DEF InodesInTurn
<1>2. m \in Nat /\ MaxInodes \in Nat /\ tail.ino \in Nat
  BY LogBounds, TailFacts
<1> DEFINE used == {i \in Inode : content[i] # <<>>}
<1>3. used = 1..m
  BY <1>1, <1>2, LogBounds
<1>4. Cardinality(1..m) = m
  BY <1>2, FS_Interval
<1>5. NextInode = m + 1
  <2>1. NextInode = 1 + Cardinality(used)
    BY DEF NextInode
  <2> HIDE DEF used
  <2> QED
    BY <1>2, <1>3, <1>4, <2>1
<1> QED
  BY <1>1, <1>2, <1>5, LogBounds

\* What Poll does to the tailer.
LEMMA PollOpens ==
    ASSUME FileShape, InodesInTurn, Poll
    PROVE  /\ UNCHANGED <<content, path, writing>> /\ tail.pc = "wait" /\ path \in Inode /\ tail.ino <= path
           /\ \/ tail.ino = 0 /\ tail' = Opened(path, Len(content[path]))
              \/ /\ tail.ino # 0 /\ tail' = Opened(path, 0)
                 /\ path > tail.ino \/ (path = tail.ino /\ Len(content[path]) < tail.size)
              \/ /\ tail.ino # 0 /\ path = tail.ino /\ ~(Len(content[path]) < tail.size)
                 /\ tail' = [tail EXCEPT !.pc = "read", !.size = Len(content[path])]
<1>1. /\ UNCHANGED <<content, path, writing>> /\ tail.pc = "wait"
      /\ \/ tail.ino = 0 /\ path # 0 /\ tail' = Opened(path, Len(content[path]))
         \/ tail.ino # 0 /\ path # 0 /\ (path # tail.ino \/ Shrunk) /\ tail' = Opened(path, 0)
         \/ /\ tail.ino # 0 /\ path = tail.ino /\ ~Shrunk
            /\ tail' = [tail EXCEPT !.pc = "read", !.size = Len(content[path])]
  BY DEF Poll, fileVars, reopenFromStart
<1>2. path # 0 /\ path \in Inode
  BY <1>1, LogBounds DEF FileShape
<1>3. tail.ino <= path
  BY <1>2 DEF InodesInTurn
<1>4. tail.ino \in Nat /\ path \in Nat
  BY <1>2, TailFacts, LogBounds
<1> QED
  BY <1>1, <1>2, <1>3, <1>4 DEF Shrunk

LEMMA PollTail ==
    ASSUME FileShape, InodesInTurn, Poll
    PROVE  /\ tail' \in [pc : {"wait", "read", "emit"}, ino : 0..MaxInodes, offset : Nat, size : Nat,
                         pending : Seq(Piece)]
           /\ tail'.ino \in {tail.ino, path}
<1>1. path \in Inode /\ Len(content[path]) \in Nat
  BY PollOpens, TailFacts
<1>2. CASE tail' = Opened(path, Len(content[path])) \/ tail' = Opened(path, 0)
  BY <1>1, <1>2, OpenedFacts
<1>3. CASE tail' = [tail EXCEPT !.pc = "read", !.size = Len(content[path])]
  BY <1>1, <1>3 DEF FileShape
<1> QED
  BY <1>2, <1>3, PollOpens

\* ReadFile takes what follows the offset.
LEMMA ReadAppends ==
    ASSUME FileShape, tail.ino # 0, ReadFile
    PROVE  LET file == content[tail.ino]  old == tail.pending
               new == IF tail.offset < Len(file) THEN Len(file) - tail.offset ELSE 0 IN
           /\ UNCHANGED <<content, path, writing>> /\ tail.pc = "read" /\ tail'.pc = "emit"
           /\ tail'.ino = tail.ino /\ tail'.size = tail.size
           /\ tail'.offset = IF tail.offset < Len(file) THEN Len(file) ELSE tail.offset
           /\ tail'.pending \in Seq(Piece) /\ Len(tail'.pending) = Len(old) + new
           /\ \A j \in 1..Len(old) : tail'.pending[j] = old[j]
           /\ \A j \in 1..new : tail'.pending[Len(old) + j] = file[tail.offset + j]
           /\ tail' \in [pc : {"wait", "read", "emit"}, ino : 0..MaxInodes, offset : Nat, size : Nat,
                         pending : Seq(Piece)]
<1> DEFINE file == content[tail.ino]  old == tail.pending  slice == SubSeq(file, tail.offset + 1, Len(file))
           new == IF tail.offset < Len(file) THEN Len(file) - tail.offset ELSE 0
<1>1. tail.ino \in Inode
  BY TailFacts, LogBounds
<1>2. /\ Len(file) \in Nat /\ tail.offset \in Nat /\ old \in Seq(Piece) /\ Len(old) \in Nat
      /\ \A j \in 1..Len(file) : file[j] \in Piece
  BY <1>1, TailFacts
<1>3. /\ UNCHANGED <<content, path, writing>> /\ tail.pc = "read"
      /\ tail' = [tail EXCEPT !.pc = "emit", !.pending = old \o slice,
                              !.offset = IF tail.offset < Len(file) THEN Len(file) ELSE tail.offset]
  BY DEF ReadFile, Drained, fileVars
<1>4. \A j \in (tail.offset + 1)..Len(file) : file[j] \in Piece
  BY <1>2
<1>5. /\ slice \in Seq(Piece)
      /\ Len(slice) = IF tail.offset + 1 <= Len(file) THEN Len(file) - (tail.offset + 1) + 1 ELSE 0
      /\ \A j \in 1..(Len(file) - (tail.offset + 1) + 1) : slice[j] = file[(tail.offset + 1) + j - 1]
  <2> HIDE DEF file
  <2>1. tail.offset + 1 \in Int /\ Len(file) \in Int
    BY <1>2
  <2> QED
    BY <1>4, <2>1, SubSeqProperties
<1> HIDE DEF file, old, slice
<1>6. Len(slice) = new /\ \A j \in 1..new : slice[j] = file[tail.offset + j]
  <2>1. Len(slice) = new
    BY <1>2, <1>5
  <2>2. ASSUME NEW j \in 1..new PROVE slice[j] = file[tail.offset + j]
    <3>1. j \in 1..(Len(file) - (tail.offset + 1) + 1)
      BY <1>2
    <3>2. (tail.offset + 1) + j - 1 = tail.offset + j
      BY <1>2, <3>1
    <3> QED
      BY <1>5, <3>1, <3>2
  <2> QED
    BY <2>1, <2>2
<1>7. /\ old \o slice \in Seq(Piece) /\ Len(old \o slice) = Len(old) + new
      /\ \A j \in 1..(Len(old) + new) : (old \o slice)[j] = IF j <= Len(old) THEN old[j] ELSE slice[j - Len(old)]
  <2> HIDE DEF new
  <2>1. /\ old \o slice \in Seq(Piece) /\ Len(old \o slice) = Len(old) + Len(slice)
        /\ \A j \in 1..(Len(old) + Len(slice)) :
              (old \o slice)[j] = IF j <= Len(old) THEN old[j] ELSE slice[j - Len(old)]
    BY <1>2, <1>5, ConcatProperties
  <2>2. Len(slice) = new
    BY <1>6
  <2> QED
    BY <2>1, <2>2
<1>8. new \in Nat
  BY <1>2
<1>9. /\ \A j \in 1..Len(old) : (old \o slice)[j] = old[j]
      /\ \A j \in 1..new : (old \o slice)[Len(old) + j] = file[tail.offset + j]
  <2> HIDE DEF new
  <2>1. ASSUME NEW j \in 1..Len(old) PROVE (old \o slice)[j] = old[j]
    <3>1. j \in 1..(Len(old) + new) /\ j <= Len(old)
      BY <1>2, <1>8
    <3> QED
      BY <1>7, <3>1
  <2>2. ASSUME NEW j \in 1..new PROVE (old \o slice)[Len(old) + j] = file[tail.offset + j]
    <3>1. /\ Len(old) + j \in 1..(Len(old) + new) /\ ~(Len(old) + j <= Len(old))
          /\ Len(old) + j - Len(old) = j
      BY <1>2, <1>8
    <3> QED
      BY <1>6, <1>7, <3>1
  <2> QED
    BY <2>1, <2>2
<1>10. /\ tail'.pc = "emit" /\ tail'.ino = tail.ino /\ tail'.size = tail.size
       /\ tail'.offset = IF tail.offset < Len(file) THEN Len(file) ELSE tail.offset
       /\ tail'.pending = old \o slice
       /\ tail' \in [pc : {"wait", "read", "emit"}, ino : 0..MaxInodes, offset : Nat, size : Nat,
                     pending : Seq(Piece)]
  BY <1>2, <1>3, <1>7 DEF FileShape
<1> HIDE DEF new
<1>11. Len(tail'.pending) = Len(old) + new /\ tail'.pending \in Seq(Piece)
  BY <1>7, <1>10
<1> QED
  BY <1>3, <1>9, <1>10, <1>11 DEF file, old, new

-----------------------------------------------------------------------------
LEMMA EmitLineTail ==
    ASSUME FileShape, EmitLine
    PROVE  LET p == tail.pending  k == FirstLine(p) IN
           /\ UNCHANGED <<content, path, writing, journal, reader, batchVars>> /\ tail.pc = "emit"
           /\ tail'.ino = tail.ino /\ tail'.offset = tail.offset /\ tail'.size = tail.size
           /\ tail' \in [pc : {"wait", "read", "emit"}, ino : 0..MaxInodes, offset : Nat, size : Nat,
                         pending : Seq(Piece)]
           /\ k \in 0..Len(p)
           /\ k = 0 => tail'.pending = p /\ UNCHANGED queueVars /\ tail'.pc = "wait"
           /\ k # 0 => /\ tail'.pc = "emit" /\ Emit(<<"file", SubSeq(p, 1, k)>>)
                       /\ SubSeq(p, 1, k) \in Line /\ Len(SubSeq(p, 1, k)) = k
                       /\ \A j \in 1..k : SubSeq(p, 1, k)[j] = p[j]
                       /\ Len(tail'.pending) = Len(p) - k
                       /\ \A j \in 1..(Len(p) - k) : tail'.pending[j] = p[k + j]
<1> DEFINE p == tail.pending  k == FirstLine(p)  rest == SubSeq(p, k + 1, Len(p))
<1>1. /\ UNCHANGED <<content, path, writing, journal, reader, batchVars>> /\ tail.pc = "emit"
      /\ IF k = 0 THEN tail' = [tail EXCEPT !.pc = "wait"] /\ UNCHANGED queueVars
                  ELSE /\ Emit(<<"file", SubSeq(p, 1, k)>>)
                       /\ tail' = [tail EXCEPT !.pending = rest]
  BY DEF EmitLine, fileVars
<1>2. p \in Seq(Piece) /\ Len(p) \in Nat /\ \A j \in 1..Len(p) : p[j] \in Piece
  BY TailFacts
<1>3. k \in 0..Len(p) /\ (k # 0 => p[k][2] = 2)
  BY <1>2, FirstLineEnds
<1> HIDE DEF p, k
<1>4. /\ rest \in Seq(Piece) /\ Len(rest) = IF k + 1 <= Len(p) THEN Len(p) - (k + 1) + 1 ELSE 0
      /\ \A j \in 1..(Len(p) - (k + 1) + 1) : rest[j] = p[(k + 1) + j - 1]
  <2>1. k + 1 \in Int /\ Len(p) \in Int /\ \A j \in (k + 1)..Len(p) : p[j] \in Piece
    BY <1>2, <1>3
  <2> QED
    BY <2>1, SubSeqProperties
<1>5. ASSUME k # 0
      PROVE  /\ SubSeq(p, 1, k) \in Line /\ Len(SubSeq(p, 1, k)) = k
             /\ \A j \in 1..k : SubSeq(p, 1, k)[j] = p[j]
  <2> DEFINE s == SubSeq(p, 1, k)
  <2>1. k \in Int /\ 1 \in Int /\ 1 <= k /\ \A j \in 1..k : p[j] \in Piece
    BY <1>2, <1>3, <1>5
  <2>2. /\ s \in Seq(Piece) /\ Len(s) = IF 1 <= k THEN k - 1 + 1 ELSE 0
        /\ \A j \in 1..(k - 1 + 1) : s[j] = p[1 + j - 1]
    BY <2>1, SubSeqProperties
  <2> HIDE DEF s
  <2>3. Len(s) = k /\ \A j \in 1..k : s[j] = p[j]
    BY <2>1, <2>2
  <2>4. s # <<>> /\ s[Len(s)][2] = 2
    BY <1>3, <1>5, <2>1, <2>3, EmptySeq
  <2> QED
    BY <2>2, <2>3, <2>4 DEF s, Line
<1> HIDE DEF rest
<1>6. Len(rest) = Len(p) - k /\ \A j \in 1..(Len(p) - k) : rest[j] = p[k + j]
  <2>1. k \in Nat /\ Len(p) \in Nat /\ k <= Len(p)
    BY <1>2, <1>3
  <2>2. Len(p) - (k + 1) + 1 = Len(p) - k
    BY <2>1
  <2>3. Len(rest) = Len(p) - k
    BY <1>4, <2>1
  <2>4. ASSUME NEW j \in 1..(Len(p) - k) PROVE rest[j] = p[k + j]
    <3>1. j \in 1..(Len(p) - (k + 1) + 1)
      BY <2>2
    <3>2. rest[j] = p[(k + 1) + j - 1]
      BY <1>4, <3>1
    <3>3. (k + 1) + j - 1 = k + j
      BY <2>1
    <3> QED
      BY <3>2, <3>3
  <2> QED
    BY <2>3, <2>4
<1>7. CASE k = 0
  BY <1>1, <1>3, <1>7 DEF FileShape, p, k
<1>8. CASE k # 0
  <2>1. /\ tail'.pc = "emit" /\ tail'.ino = tail.ino /\ tail'.offset = tail.offset
        /\ tail'.size = tail.size /\ tail'.pending = rest
        /\ tail' \in [pc : {"wait", "read", "emit"}, ino : 0..MaxInodes, offset : Nat, size : Nat,
                      pending : Seq(Piece)]
    BY <1>1, <1>4, <1>8 DEF FileShape
  <2>2. Len(tail'.pending) = Len(p) - k /\ \A j \in 1..(Len(p) - k) : tail'.pending[j] = p[k + j]
    BY <1>6, <2>1
  <2> QED
    BY <1>1, <1>3, <1>5, <1>8, <2>1, <2>2 DEF p, k
<1> QED
  BY <1>7, <1>8

LEMMA ReaderOpen == ASSUME FileShape, NothingOpen, ReadFile PROVE tail.ino # 0
<1> QED
  BY DEF ReadFile, NothingOpen

\* The file, as a step of the writer, of logrotate or of the tailer leaves it.
LEMMA FilesMove ==
    ASSUME FileShape, InodesInTurn, NothingOpen, [LogNext]_logVars
    PROVE  FileShape'
<1>1. CASE Write
  BY <1>1, WriteAppends DEF FileShape
<1>2. CASE RotateAway
  BY <1>2, LogBounds DEF RotateAway, FileShape
<1>3. CASE Recreate
  <2>1. path' \in 0..MaxInodes /\ content' = content /\ writing' = writing /\ tail' = tail
    BY <1>3, NextInodeIs, LogBounds DEF Recreate
  <2> QED
    BY <2>1 DEF FileShape
<1>4. CASE TruncateFile
  <2>1. content' = [content EXCEPT ![path] = <<>>] /\ UNCHANGED <<path, writing, tail>>
    BY <1>4 DEF TruncateFile
  <2> QED
    BY <2>1, EmptySeq DEF FileShape
<1>5. CASE Poll
  BY <1>5, PollOpens, PollTail DEF FileShape
<1>6. CASE ReadFile
  <2>1. UNCHANGED <<content, path, writing>>
    BY <1>6 DEF ReadFile, fileVars
  <2> QED
    BY <1>6, <2>1, ReadAppends, ReaderOpen DEF FileShape
<1>7. CASE EmitLine
  BY <1>7, EmitLineTail DEF FileShape
<1>8. CASE UNCHANGED <<fileVars, tail>>
  BY <1>8 DEF FileShape, fileVars
<1> QED
  BY <1>1, <1>2, <1>3, <1>4, <1>5, <1>6, <1>7, <1>8
  DEF LogNext, TailerStep, JournalStep, BatchStep, LogWorld, JournalWrite, Cancel, JournalStart, JournalLine,
      JournalSkip, JournalEnds, Take, FlushTick, StartDrain, Drain, logVars

LEMMA JournalMoves ==
    ASSUME JournalShape, [LogNext]_logVars
    PROVE  JournalShape'
<1>0. journal \in Nat /\ reader \in Nat /\ MaxJournal \in Nat
  BY LogBounds DEF JournalShape
<1>1. CASE JournalWrite
  BY <1>0, <1>1 DEF JournalWrite, JournalShape
<1>2. CASE JournalStart \/ JournalLine \/ JournalSkip \/ JournalEnds
  BY <1>0, <1>2 DEF JournalStart, JournalLine, JournalSkip, JournalEnds, JournalShape
<1>3. CASE UNCHANGED <<journal, reader>>
  BY <1>3 DEF JournalShape
<1> QED
  BY <1>1, <1>2, <1>3
  DEF LogNext, TailerStep, Poll, ReadFile, EmitLine, JournalStep, BatchStep, LogWorld, Write, RotateAway,
      Recreate, TruncateFile, Cancel, Take, FlushTick, StartDrain, Drain, logVars

\* Steps that leave the files and what is open alone.
OtherStep == UNCHANGED <<content, path, writing>> /\ tail'.ino = tail.ino

LEMMA WhoMoves ==
    ASSUME FileShape, NothingOpen, [LogNext]_logVars
    PROVE  \/ Write \/ RotateAway \/ Recreate \/ TruncateFile \/ Poll
           \/ ReadFile \/ EmitLine
           \/ UNCHANGED <<content, path, writing, tail>>
<1> QED
  BY DEF LogNext, TailerStep, JournalStep, BatchStep, LogWorld, JournalWrite, Cancel, JournalStart, JournalLine,
      JournalSkip, JournalEnds, Take, FlushTick, StartDrain, Drain, logVars, fileVars

LEMMA OthersStay ==
    ASSUME FileShape, NothingOpen, ReadFile \/ EmitLine \/ UNCHANGED <<content, path, writing, tail>>
    PROVE  OtherStep /\ NothingOpen'
<1>1. CASE ReadFile
  <2>1. tail.ino # 0
    BY <1>1, ReaderOpen
  <2>2. UNCHANGED <<content, path, writing>> /\ tail'.ino = tail.ino
    BY <1>1, <2>1, ReadAppends
  <2> QED
    BY <2>1, <2>2 DEF OtherStep, NothingOpen
<1>2. CASE EmitLine
  <2>1. UNCHANGED <<content, path, writing>> /\ tail'.ino = tail.ino /\ tail.pc = "emit"
    BY <1>2, EmitLineTail
  <2> QED
    BY <2>1 DEF OtherStep, NothingOpen
<1>3. CASE UNCHANGED <<content, path, writing, tail>>
  BY <1>3 DEF OtherStep, NothingOpen
<1> QED
  BY <1>1, <1>2, <1>3

LEMMA TurnMoves ==
    ASSUME FileShape, InodesInTurn, NothingOpen, [LogNext]_logVars
    PROVE  InodesInTurn' /\ NothingOpen'
<1>1. PICK m \in Inode : /\ path \in {0, m} /\ tail.ino <= m
                         /\ \A i \in Inode : IF i < m THEN content[i] # <<>>
                                             ELSE i > m => content[i] = <<>>
                         /\ path = 0 => content[m] # <<>> /\ m < MaxInodes /\ writing[2] = 1
  BY DEF InodesInTurn
<1>2. m \in Nat \ {0} /\ tail.ino \in Nat /\ content \in [Inode -> Seq(Piece)]
  BY LogBounds, TailFacts DEF FileShape
<1>3. CASE Write
  <2>1. /\ path = m /\ path' = path /\ tail' = tail
        /\ \A i \in Inode : i # m => content'[i] = content[i]
    BY <1>1, <1>3, WriteAppends, LogBounds
  <2> QED
    BY <1>1, <1>2, <2>1, LogBounds DEF InodesInTurn, NothingOpen
<1>4. CASE RotateAway
  <2>1. /\ path = m /\ path' = 0 /\ content[m] # <<>> /\ m < MaxInodes /\ writing[2] = 1
        /\ UNCHANGED <<content, writing, tail>>
    BY <1>1, <1>4 DEF RotateAway, BetweenLines
  <2> QED
    BY <1>1, <2>1 DEF InodesInTurn, NothingOpen
<1>5. CASE Recreate
  <2>1. /\ path = 0 /\ path' = NextInode /\ UNCHANGED <<content, writing, tail>>
    BY <1>5 DEF Recreate
  <2>2. /\ NextInode \in Inode /\ tail.ino < NextInode
        /\ \A i \in Inode : i < NextInode <=> content[i] # <<>>
    BY <2>1, NextInodeIs
  <2>3. NextInode \in Nat \ {0}
    BY <2>2, LogBounds
  <2>4. \A i \in Inode : IF i < NextInode THEN content[i] # <<>> ELSE i > NextInode => content[i] = <<>>
    BY <2>2
  <2> HIDE DEF NextInode
  <2> QED
    BY <1>2, <2>1, <2>2, <2>3, <2>4 DEF InodesInTurn, NothingOpen
<1>6. CASE TruncateFile
  <2>1. /\ path = m /\ content' = [content EXCEPT ![path] = <<>>] /\ UNCHANGED <<path, writing, tail>>
    BY <1>1, <1>6 DEF TruncateFile
  <2>2. \A i \in Inode : i # m => content'[i] = content[i]
    BY <1>2, <2>1
  <2> QED
    BY <1>1, <1>2, <2>1, <2>2, LogBounds DEF InodesInTurn, NothingOpen
<1>7. CASE Poll
  <2>1. UNCHANGED <<content, path, writing>> /\ tail'.ino \in {tail.ino, path} /\ path \in Inode
    BY <1>7, PollOpens, PollTail
  <2>2. tail'.ino # 0
    <3>1. path # 0 /\ Len(content[path]) \in Nat /\ 0 \in Nat
      BY <2>1, LogBounds, TailFacts
    <3>2. Opened(path, Len(content[path])).ino = path /\ Opened(path, 0).ino = path
      BY <2>1, <3>1, OpenedFacts
    <3>3. \/ tail' = Opened(path, Len(content[path])) \/ tail' = Opened(path, 0)
          \/ tail.ino # 0 /\ path = tail.ino
      BY <1>7, PollOpens
    <3> QED
      BY <2>1, <3>1, <3>2, <3>3
  <2>3. path = m /\ tail'.ino <= m
    BY <1>1, <1>2, <2>1, LogBounds
  <2> QED
    BY <1>1, <2>1, <2>2, <2>3 DEF InodesInTurn, NothingOpen
<1>8. CASE ReadFile \/ EmitLine \/ UNCHANGED <<content, path, writing, tail>>
  <2>1. OtherStep /\ NothingOpen'
    BY <1>8, OthersStay
  <2> QED
    BY <1>1, <2>1 DEF OtherStep, InodesInTurn
<1> QED
  BY <1>3, <1>4, <1>5, <1>6, <1>7, <1>8, WhoMoves

LEMMA FollowMoves ==
    ASSUME FileShape, InodesInTurn, NothingOpen, PiecesFollow, [LogNext]_logVars
    PROVE  PiecesFollow'
<1>0. content \in [Inode -> Seq(Piece)] /\ writing \in (1..(MaxLines + 1)) \X {1, 2}
  BY DEF FileShape
<1>1. CASE Write
  <2>1. /\ path \in Inode /\ path' = path /\ path # 0
        /\ \A i \in Inode : i # path => content'[i] = content[i]
        /\ Len(content'[path]) = Len(content[path]) + 1
        /\ \A j \in 1..Len(content[path]) : content'[path][j] = content[path][j]
        /\ content'[path][Len(content[path]) + 1] = writing
        /\ writing' = IF writing[2] = 1 THEN <<writing[1], 2>> ELSE <<writing[1] + 1, 1>>
    <3>1. path \in Inode => path # 0
      BY LogBounds
    <3> QED
      BY <1>1, <3>1, WriteAppends
  <2>2. Len(content[path]) \in Nat /\ (content[path] # <<>> => Len(content[path]) # 0)
    BY <1>0, <2>1, EmptySeq, TailFacts
  <2>3. Follows(writing, writing')
    BY <2>1 DEF Follows
  <2>4. IF content[path] = <<>> THEN writing[2] = 1 ELSE Follows(content[path][Len(content[path])], writing)
    BY <2>1 DEF PiecesFollow
  <2>5. \A j \in 1..Len(content[path]) :
          IF j = 1 THEN content[path][j][2] = 1 ELSE Follows(content[path][j - 1], content[path][j])
    BY <2>1 DEF PiecesFollow
  <2>6. ASSUME NEW j \in 1..(Len(content[path]) + 1)
        PROVE  IF j = 1 THEN content'[path][j][2] = 1 ELSE Follows(content'[path][j - 1], content'[path][j])
    <3>1. CASE j \in 1..Len(content[path])
      <4>1. content'[path][j] = content[path][j]
        BY <2>1, <3>1
      <4>2. j # 1 => j - 1 \in 1..Len(content[path])
        BY <2>2, <3>1
      <4>3. j # 1 => content'[path][j - 1] = content[path][j - 1]
        BY <2>1, <4>2
      <4> QED
        BY <2>5, <3>1, <4>1, <4>3
    <3>2. CASE j = Len(content[path]) + 1 /\ j = 1
      <4>1. content[path] = <<>>
        BY <2>2, <3>2
      <4> QED
        BY <2>1, <2>4, <3>2, <4>1
    <3>3. CASE j = Len(content[path]) + 1 /\ j # 1
      <4>1. j - 1 = Len(content[path]) /\ Len(content[path]) \in 1..Len(content[path])
        BY <2>2, <3>3
      <4>2. content[path] # <<>>
        BY <4>1, EmptyLen
      <4>3. content'[path][j - 1] = content[path][Len(content[path])] /\ content'[path][j] = writing
        BY <2>1, <3>3, <4>1
      <4> QED
        BY <2>4, <3>3, <4>2, <4>3
    <3> QED
      BY <2>2, <3>1, <3>2, <3>3
  <2>7. content'[path] # <<>>
    BY <2>1, <2>2, EmptyLen
  <2>8. ASSUME NEW i \in Inode, NEW j \in 1..Len(content'[i])
        PROVE  IF j = 1 THEN content'[i][j][2] = 1 ELSE Follows(content'[i][j - 1], content'[i][j])
    <3>1. CASE i = path
      BY <2>1, <2>6, <3>1
    <3>2. CASE i # path
      BY <2>1, <3>2 DEF PiecesFollow
    <3> QED
      BY <3>1, <3>2
  <2>9. content'[path'][Len(content'[path'])] = writing
    BY <2>1
  <2> QED
    BY <2>1, <2>3, <2>7, <2>8, <2>9 DEF PiecesFollow, Follows
<1>2. CASE RotateAway
  BY <1>2 DEF RotateAway, PiecesFollow, Follows
<1>3. CASE Recreate
  <2>1. /\ path = 0 /\ path' = NextInode /\ UNCHANGED <<content, writing, tail>>
    BY <1>3 DEF Recreate
  <2>2. content[NextInode] = <<>> /\ writing[2] = 1
    BY <2>1, NextInodeIs DEF InodesInTurn
  <2>3. content'[path'] = <<>> /\ writing'[2] = 1
    BY <2>1, <2>2
  <2> QED
    BY <2>1, <2>3 DEF PiecesFollow, Follows
<1>4. CASE TruncateFile
  <2>1. /\ path # 0 /\ content' = [content EXCEPT ![path] = <<>>] /\ UNCHANGED <<path, writing>>
        /\ writing[2] = 1
    BY <1>4 DEF TruncateFile, BetweenLines
  <2>2. path \in Inode
    BY <2>1, LogBounds DEF FileShape
  <2>3. content'[path] = <<>> /\ \A i \in Inode : i # path => content'[i] = content[i]
    BY <1>0, <2>1, <2>2
  <2>4. Len(content'[path]) = 0
    BY <2>3, EmptyLen
  <2>5. ASSUME NEW i \in Inode, NEW j \in 1..Len(content'[i])
        PROVE  IF j = 1 THEN content'[i][j][2] = 1 ELSE Follows(content'[i][j - 1], content'[i][j])
    <3>1. i # path
      BY <2>4
    <3> QED
      BY <2>3, <3>1 DEF PiecesFollow
  <2> QED
    BY <2>1, <2>3, <2>5 DEF PiecesFollow, Follows
<1>5. CASE UNCHANGED <<content, path, writing>>
  BY <1>5 DEF PiecesFollow, Follows
<1> QED
  BY <1>1, <1>2, <1>3, <1>4, <1>5, WhoMoves, OthersStay, PollOpens DEF OtherStep

LEMMA AscendMoves ==
    ASSUME FileShape, InodesInTurn, NothingOpen, LinesAscend, [LogNext]_logVars
    PROVE  LinesAscend'
<1>0. content \in [Inode -> Seq(Piece)] /\ writing \in (1..(MaxLines + 1)) \X {1, 2}
  BY DEF FileShape
<1>1. CASE Write
  <2>1. /\ path \in Inode
        /\ \A i \in Inode : i # path => content'[i] = content[i]
        /\ Len(content'[path]) = Len(content[path]) + 1
        /\ \A j \in 1..Len(content[path]) : content'[path][j] = content[path][j]
        /\ content'[path][Len(content[path]) + 1] = writing
        /\ writing' = IF writing[2] = 1 THEN <<writing[1], 2>> ELSE <<writing[1] + 1, 1>>
    BY <1>1, WriteAppends
  <2> DEFINE n == Len(content[path])
  <2>2. n \in Nat /\ writing[1] \in Nat /\ writing'[1] \in Nat /\ writing[1] <= writing'[1]
    <3>1. n \in Nat
      BY <2>1, TailFacts
    <3>2. writing[1] \in Nat
      BY <1>0, LogBounds
    <3>3. writing'[1] = writing[1] \/ writing'[1] = writing[1] + 1
      BY <2>1
    <3> QED
      BY <3>1, <3>2, <3>3
  <2>3. \A i \in Inode : i > path => content[i] = <<>>
    BY <2>1, LogBounds DEF InodesInTurn
  <2>4. \A i \in Inode : Len(content[i]) \in Nat /\ (i > path => Len(content[i]) = 0)
    BY <2>3, TailFacts, EmptyLen
  <2>5. ASSUME NEW i \in Inode, NEW j \in 1..Len(content'[i])
        PROVE  \/ i = path /\ j = n + 1 /\ content'[i][j] = writing
               \/ j \in 1..Len(content[i]) /\ content'[i][j] = content[i][j]
    BY <2>1, <2>2
  <2>6. \A i \in Inode : \A j \in 1..Len(content[i]) : content[i][j][1] \in Nat
    BY PieceNumbers
  <2> HIDE DEF n
  <2>7. ASSUME NEW i \in Inode, NEW j \in 1..Len(content'[i]), content'[i][j][2] = 2
        PROVE  content'[i][j][1] < writing'[1]
    <3>1. CASE i = path /\ j = n + 1 /\ content'[i][j] = writing
      BY <2>1, <2>2, <2>7, <3>1
    <3>2. CASE j \in 1..Len(content[i]) /\ content'[i][j] = content[i][j]
      <4>1. content[i][j][1] < writing[1]
        BY <2>7, <3>2 DEF LinesAscend
      <4> QED
        BY <2>2, <2>6, <3>2, <4>1
    <3> QED
      BY <2>5, <3>1, <3>2
  <2>8. ASSUME NEW i \in Inode, NEW h \in Inode,
               NEW j \in 1..Len(content'[i]), NEW l \in 1..Len(content'[h]),
               i < h \/ (i = h /\ j < l), content'[i][j][2] = 2, content'[h][l][2] = 2
        PROVE  content'[i][j][1] < content'[h][l][1]
    <3>1. CASE h = path /\ l = n + 1 /\ content'[h][l] = writing
      <4>1. ~(i = path /\ j = n + 1)
        BY <2>2, <2>8, <3>1, LogBounds
      <4>2. j \in 1..Len(content[i]) /\ content'[i][j] = content[i][j]
        BY <2>5, <4>1
      <4> QED
        BY <2>8, <3>1, <4>2 DEF LinesAscend
    <3>2. CASE l \in 1..Len(content[h]) /\ content'[h][l] = content[h][l]
      <4>1. ~(i = path /\ j = n + 1)
        BY <2>2, <2>4, <2>8, <3>2, LogBounds DEF n
      <4>2. j \in 1..Len(content[i]) /\ content'[i][j] = content[i][j]
        BY <2>5, <4>1
      <4> QED
        BY <2>8, <3>2, <4>2 DEF LinesAscend
    <3> QED
      BY <2>5, <3>1, <3>2
  <2> QED
    BY <2>7, <2>8 DEF LinesAscend
<1>2. CASE TruncateFile
  <2>1. content' = [content EXCEPT ![path] = <<>>] /\ writing' = writing
    BY <1>2 DEF TruncateFile
  <2>2. \A i \in Inode : content'[i] = content[i] \/ Len(content'[i]) = 0
    BY <1>0, <2>1, EmptyLen
  <2>3. ASSUME NEW i \in Inode, NEW j \in 1..Len(content'[i])
        PROVE  content'[i] = content[i]
    BY <2>2
  <2> QED
    BY <2>1, <2>3 DEF LinesAscend
<1>3. CASE UNCHANGED <<content, writing>>
  BY <1>3 DEF LinesAscend
<1> QED
  BY <1>1, <1>2, <1>3, WhoMoves, OthersStay, PollOpens DEF OtherStep, RotateAway, Recreate

-----------------------------------------------------------------------------
\* What an entry is, and what one more entry changes.
LEMMA EntryFacts ==
    ASSUME QueueShape
    PROVE  /\ Len(Entries) \in Nat /\ DOMAIN Entries = 1..Len(Entries)
           /\ From("file") \subseteq 1..Len(Entries) /\ From("journald") \subseteq 1..Len(Entries)
           /\ \A k \in From("file") : Entries[k][2] \in Line
           /\ \A k \in From("journald") : Entries[k][2] \in 1..MaxJournal
<1>1. /\ Len(Entries) \in Nat /\ DOMAIN Entries = 1..Len(Entries)
      /\ \A k \in 1..Len(Entries) : Entries[k] \in Entry
  BY EntriesSeq, LenProperties, ElementOfSeq
<1>2. \A e \in Entry : (e[1] = "file" => e[2] \in Line) /\ (e[1] = "journald" => e[2] \in 1..MaxJournal)
  BY DEF Entry
<1> QED
  BY <1>1, <1>2 DEF From

LEMMA LineFacts ==
    ASSUME NEW s \in Line
    PROVE  s \in Seq(Piece) /\ Len(s) \in Nat \ {0} /\ Last(s) = s[Len(s)] /\ Last(s) \in Piece /\ Last(s)[2] = 2
<1>1. s \in Seq(Piece) /\ s # <<>> /\ s[Len(s)][2] = 2
  BY DEF Line
<1>2. Len(s) \in Nat \ {0}
  BY <1>1, EmptySeq
<1>3. s[Len(s)] \in Piece
  BY <1>1, <1>2, ElementOfSeq
<1> QED
  BY <1>1, <1>2, <1>3 DEF Last

LEMMA EmittedNumbers == ASSUME QueueShape PROVE Emitted \subseteq Nat
<1> SUFFICES ASSUME NEW k \in From("file") PROVE Last(Entries[k][2])[1] \in Nat
  BY DEF Emitted
<1>1. Last(Entries[k][2]) \in Piece
  BY EntryFacts, LineFacts
<1> QED
  BY <1>1, PieceFacts, LogBounds

LEMMA EntriesSame ==
    ASSUME Entries' = Entries
    PROVE  /\ From("file")' = From("file") /\ From("journald")' = From("journald") /\ Emitted' = Emitted
           /\ (FileAscends => FileAscends') /\ (JournalAscends => JournalAscends')
           /\ (LinesWhole => LinesWhole') /\ \A k : Entries'[k] = Entries[k]
<1>1. From("file")' = From("file") /\ From("journald")' = From("journald")
  BY DEF From
<1> QED
  BY <1>1 DEF Emitted, FileAscends, JournalAscends, LinesWhole

LEMMA EntriesGrow ==
    ASSUME QueueShape, NEW e \in Entry, Entries' = Append(Entries, e)
    PROVE  /\ \A k \in 1..Len(Entries) : Entries'[k] = Entries[k]
           /\ Entries'[Len(Entries) + 1] = e
           /\ From("file")' = From("file") \union (IF e[1] = "file" THEN {Len(Entries) + 1} ELSE {})
           /\ From("journald")' = From("journald") \union (IF e[1] = "journald" THEN {Len(Entries) + 1} ELSE {})
<1>1. Len(Entries) \in Nat /\ DOMAIN Entries = 1..Len(Entries)
  BY EntryFacts
<1>2. /\ Entries' \in Seq(Entry) /\ Len(Entries') = Len(Entries) + 1
      /\ \A k \in 1..Len(Entries) : Entries'[k] = Entries[k]
      /\ Entries'[Len(Entries) + 1] = e
  BY EntriesSeq, AppendProperties
<1>3. DOMAIN Entries' = 1..(Len(Entries) + 1)
  BY <1>2, LenProperties
<1>4. ASSUME NEW s
      PROVE  {k \in DOMAIN Entries' : Entries'[k][1] = s} =
                 {k \in DOMAIN Entries : Entries[k][1] = s} \union (IF e[1] = s THEN {Len(Entries) + 1} ELSE {})
  BY <1>1, <1>2, <1>3
<1> QED
  BY <1>2, <1>4 DEF From

\* An entry of one source changes nothing for the other.
LEMMA OtherSource ==
    ASSUME QueueShape, NEW e \in Entry, Entries' = Append(Entries, e)
    PROVE  /\ e[1] = "journald" => /\ From("file")' = From("file") /\ Emitted' = Emitted
                                   /\ (FileAscends => FileAscends') /\ (LinesWhole => LinesWhole')
           /\ e[1] = "file" => From("journald")' = From("journald") /\ (JournalAscends => JournalAscends')
<1>1. \A k \in From("file") \union From("journald") : Entries'[k] = Entries[k]
  BY EntryFacts, EntriesGrow
<1>2. ASSUME e[1] = "journald"
      PROVE  /\ From("file")' = From("file") /\ Emitted' = Emitted
             /\ (FileAscends => FileAscends') /\ (LinesWhole => LinesWhole')
  <2>1. From("file")' = From("file")
    BY <1>2, EntriesGrow
  <2>2. Emitted' = Emitted
    BY <1>1, <2>1 DEF Emitted
  <2>3. FileAscends => FileAscends'
    BY <1>1, <2>1 DEF FileAscends
  <2>4. LinesWhole => LinesWhole'
    BY <1>1, <2>1 DEF LinesWhole
  <2> QED
    BY <2>1, <2>2, <2>3, <2>4
<1>3. ASSUME e[1] = "file"
      PROVE  From("journald")' = From("journald") /\ (JournalAscends => JournalAscends')
  <2>1. From("journald")' = From("journald")
    BY <1>3, EntriesGrow
  <2> QED
    BY <1>1, <2>1 DEF JournalAscends
<1> QED
  BY <1>2, <1>3

\* What a step does to the entries: nothing, or one more.
EmitsLine ==
    /\ EmitLine /\ FirstLine(tail.pending) # 0
    /\ Entries' = Append(Entries, <<"file", SubSeq(tail.pending, 1, FirstLine(tail.pending))>>)
EmitsJournal == JournalLine /\ Entries' = Append(Entries, <<"journald", reader>>)

LEMMA EntriesMove ==
    ASSUME FileShape, QueueShape, JournalShape, [LogNext]_logVars
    PROVE  QueueShape' /\ (Entries' = Entries \/ EmitsLine \/ EmitsJournal)
<1>1. CASE EmitLine
  <2> DEFINE k == FirstLine(tail.pending)  e == <<"file", SubSeq(tail.pending, 1, k)>>
  <2>1. CASE k = 0
    <3>1. UNCHANGED <<shipped, buf, raw>>
      BY <1>1, <2>1, EmitLineTail DEF queueVars, batchVars
    <3> QED
      BY <3>1 DEF QueueShape, Entries
  <2>2. CASE k # 0
    <3>1. Emit(e) /\ SubSeq(tail.pending, 1, k) \in Line /\ UNCHANGED batchVars
      BY <1>1, <2>2, EmitLineTail
    <3>2. e \in Entry
      BY <3>1 DEF Entry
    <3> HIDE DEF e
    <3>3. QueueShape' /\ (Entries' = Entries \/ Entries' = Append(Entries, e))
      BY <3>1, <3>2, EmitAppends
    <3> QED
      BY <1>1, <2>2, <3>3 DEF EmitsLine, e
  <2> QED
    BY <2>1, <2>2
<1>2. CASE JournalLine
  <2> DEFINE e == <<"journald", reader>>
  <2>1. Emit(e) /\ reader \in 1..journal /\ UNCHANGED batchVars
    BY <1>2 DEF JournalLine
  <2>2. e \in Entry
    BY <2>1, LogBounds DEF JournalShape, Entry
  <2> HIDE DEF e
  <2>3. QueueShape' /\ (Entries' = Entries \/ Entries' = Append(Entries, e))
    BY <2>1, <2>2, EmitAppends
  <2> QED
    BY <1>2, <2>3 DEF EmitsJournal, e
<1>3. CASE BatchStep
  BY <1>3, BatchKeepsEntries
<1>4. CASE UNCHANGED <<shipped, buf, raw>>
  BY <1>4 DEF QueueShape, Entries
<1> QED
  BY <1>1, <1>2, <1>3, <1>4
  DEF LogNext, TailerStep, Poll, ReadFile, JournalStep, JournalStart, JournalSkip, JournalEnds, LogWorld, Write,
      RotateAway, Recreate, TruncateFile, JournalWrite, Cancel, logVars, queueVars, batchVars

LEMMA LineEntry ==
    ASSUME FileShape, EmitsLine
    PROVE  LET e == <<"file", SubSeq(tail.pending, 1, FirstLine(tail.pending))>> IN
           e \in Entry /\ e[1] = "file" /\ e[2] \in Line
<1>1. SubSeq(tail.pending, 1, FirstLine(tail.pending)) \in Line
  BY EmitLineTail DEF EmitsLine
<1> QED
  BY <1>1 DEF Entry

\* The journal: what was read is behind the reader.
LEMMA JournalStepInv ==
    ASSUME FileShape, QueueShape, JournalShape, JournalInv, JournalAscends, [LogNext]_logVars
    PROVE  JournalInv' /\ JournalAscends'
<1>0. journal \in Nat /\ reader \in 0..(journal + 1) /\ MaxJournal \in Nat
  BY LogBounds DEF JournalShape
<1>1. \A k \in From("journald") : Entries[k][2] \in Nat
  BY EntryFacts, LogBounds
<1>2. CASE EmitsJournal
  <2> DEFINE e == <<"journald", reader>>
  <2>1. /\ reader \in 1..journal /\ reader' = reader + 1 /\ journal' = journal
        /\ Entries' = Append(Entries, e)
    BY <1>2 DEF EmitsJournal, JournalLine
  <2>2. e \in Entry /\ e[1] = "journald" /\ e[2] = reader
    BY <1>0, <2>1 DEF Entry, JournalShape
  <2> HIDE DEF e
  <2>3. /\ \A k \in 1..Len(Entries) : Entries'[k] = Entries[k]
        /\ Entries'[Len(Entries) + 1] = e
        /\ From("journald")' = From("journald") \union {Len(Entries) + 1}
    BY <2>1, <2>2, EntriesGrow
  <2>4. Len(Entries) \in Nat /\ From("journald") \subseteq 1..Len(Entries)
    BY EntryFacts
  <2>5. \A k \in From("journald") : Entries'[k][2] = Entries[k][2] /\ Entries[k][2] < reader
    BY <2>1, <2>3, <2>4 DEF JournalInv
  <2>6. Entries'[Len(Entries) + 1][2] = reader
    BY <2>2, <2>3
  <2>7. JournalInv'
    <3>1. ASSUME NEW k \in From("journald")' PROVE Entries'[k][2] <= journal' /\ Entries'[k][2] < reader'
      <4>1. CASE k \in From("journald")
        <5>1. Entries[k][2] <= journal
          BY <4>1 DEF JournalInv
        <5>2. Entries'[k][2] = Entries[k][2] /\ Entries[k][2] < reader /\ Entries[k][2] \in Nat
          BY <1>1, <2>5, <4>1
        <5> QED
          BY <1>0, <2>1, <5>1, <5>2
      <4>2. CASE k = Len(Entries) + 1
        BY <1>0, <2>1, <2>6, <4>2
      <4> QED
        BY <2>3, <4>1, <4>2
    <3> QED
      BY <3>1 DEF JournalInv
  <2>8. JournalAscends'
    <3>1. ASSUME NEW k \in From("journald")', NEW l \in From("journald")', l < k
          PROVE  Entries'[l][2] < Entries'[k][2]
      <4>1. l \in From("journald")
        BY <2>3, <2>4, <3>1
      <4>2. CASE k \in From("journald")
        BY <2>5, <3>1, <4>1, <4>2 DEF JournalAscends
      <4>3. CASE k = Len(Entries) + 1
        BY <2>5, <2>6, <4>1, <4>3
      <4> QED
        BY <2>3, <4>2, <4>3
    <3> QED
      BY <3>1 DEF JournalAscends
  <2> QED
    BY <2>7, <2>8
<1>3. CASE Entries' = Entries \/ EmitsLine
  <2>1. /\ From("journald")' = From("journald") /\ JournalAscends'
        /\ \A k \in From("journald") : Entries'[k] = Entries[k]
    <3>1. CASE Entries' = Entries
      BY <3>1, EntriesSame
    <3>2. CASE EmitsLine
      <4> DEFINE e == <<"file", SubSeq(tail.pending, 1, FirstLine(tail.pending))>>
      <4>1. e \in Entry /\ e[1] = "file" /\ Entries' = Append(Entries, e)
        BY <3>2, LineEntry DEF EmitsLine
      <4> HIDE DEF e
      <4> QED
        BY <4>1, OtherSource, EntriesGrow, EntryFacts
    <3> QED
      BY <1>3, <3>1, <3>2
  <2>2. /\ journal' \in Nat /\ journal <= journal'
        /\ reader' \in {reader, reader + 1, 0, journal + 1}
        /\ (reader' = reader + 1 => reader # 0 \/ reader' = journal + 1)
    BY <1>0 DEF LogNext, TailerStep, Poll, ReadFile, EmitLine, JournalStep, JournalStart, JournalLine, JournalSkip,
                JournalEnds, BatchStep, Take, FlushTick, StartDrain, Drain, LogWorld, Write, RotateAway, Recreate,
                TruncateFile, JournalWrite, Cancel, logVars
  <2>3. ASSUME NEW k \in From("journald")
        PROVE  Entries[k][2] <= journal' /\ (reader' # 0 => Entries[k][2] < reader')
    BY <1>0, <1>1, <2>2 DEF JournalInv
  <2> QED
    BY <2>1, <2>3 DEF JournalInv
<1> QED
  BY <1>2, <1>3, EntriesMove

\* A line of the file leaves the reader alone, a line of the journal moves it.
LEMMA NoJournalLine == ASSUME FileShape, JournalShape, EmitLine PROVE ~JournalLine
<1>1. reader' = reader /\ reader \in Nat
  BY EmitLineTail, LogBounds DEF JournalShape
<1> QED
  BY <1>1 DEF JournalLine

-----------------------------------------------------------------------------
\* Without truncations: pending is a slice of the open file.
LEMMA SliceKeeps ==
    ASSUME FileShape, SliceInv, From("file")' = From("file"),
           tail'.ino = tail.ino, tail'.offset = tail.offset, tail'.pending = tail.pending,
           tail.ino # 0 => /\ Len(content'[tail.ino]) \in Nat /\ Len(content[tail.ino]) <= Len(content'[tail.ino])
                           /\ \A j \in 1..Len(content[tail.ino]) : content'[tail.ino][j] = content[tail.ino][j]
    PROVE  SliceInv'
<1> DEFINE c == content[tail.ino]  d == content'[tail.ino]  p == tail.pending  start == tail.offset - Len(p)
<1>1. CASE tail.ino = 0
  BY <1>1 DEF SliceInv
<1>2. CASE tail.ino # 0
  <2>0. tail.ino \in Inode
    BY <1>2, TailFacts, LogBounds
  <2>1. tail.offset \in Nat /\ Len(p) \in Nat /\ Len(c) \in Nat
    BY <2>0, TailFacts
  <2>2. /\ tail.offset <= Len(c) /\ start >= 0
        /\ \A j \in 1..Len(p) : p[j] = c[start + j]
        /\ start > 0 /\ c[start][2] = 1 => From("file") = {}
    BY <1>2 DEF SliceInv
  <2>3. Len(d) \in Nat /\ Len(c) <= Len(d) /\ \A j \in 1..Len(c) : d[j] = c[j]
    BY <1>2
  <2> HIDE DEF c, d, p
  <2>4. tail.offset <= Len(d)
    BY <2>1, <2>2, <2>3
  <2>5. ASSUME NEW j \in 1..Len(p) PROVE p[j] = d[start + j]
    <3>1. start + j \in 1..Len(c)
      BY <2>1, <2>2
    <3> QED
      BY <2>2, <2>3, <3>1
  <2>6. ASSUME start > 0, d[start][2] = 1 PROVE From("file") = {}
    <3>1. start \in 1..Len(c)
      BY <2>1, <2>2, <2>6
    <3> QED
      BY <2>2, <2>3, <2>6, <3>1
  <2> QED
    BY <1>2, <2>2, <2>4, <2>5, <2>6 DEF SliceInv, c, d, p
<1> QED
  BY <1>1, <1>2

LEMMA SliceOpens ==
    ASSUME FileShape, SliceInv, NEW i \in Inode, NEW from \in 0..Len(content[i]),
           content' = content, From("file")' = From("file"), tail' = Opened(i, from),
           from = 0 \/ From("file") = {}
    PROVE  SliceInv'
<1>1. from \in Nat /\ Len(content[i]) \in Nat /\ i # 0
  BY TailFacts, LogBounds
<1>2. tail'.ino = i /\ tail'.offset = from /\ tail'.pending = <<>>
  BY <1>1, OpenedFacts
<1>3. Len(tail'.pending) = 0
  BY <1>2, EmptyLen
<1> QED
  BY <1>1, <1>2, <1>3 DEF SliceInv

LEMMA SliceReads ==
    ASSUME FileShape, SliceInv, From("file")' = From("file"), tail.ino # 0, ReadFile
    PROVE  SliceInv'
<1> DEFINE c == content[tail.ino]  p == tail.pending  start == tail.offset - Len(p)
           new == IF tail.offset < Len(c) THEN Len(c) - tail.offset ELSE 0
<1>0. tail.ino \in Inode
  BY TailFacts, LogBounds
<1>1. tail.offset \in Nat /\ Len(p) \in Nat /\ Len(c) \in Nat
  BY <1>0, TailFacts
<1>2. /\ tail.offset <= Len(c) /\ start >= 0
      /\ \A j \in 1..Len(p) : p[j] = c[start + j]
      /\ start > 0 /\ c[start][2] = 1 => From("file") = {}
  BY DEF SliceInv
<1>3. /\ content' = content /\ tail'.ino = tail.ino
      /\ tail'.offset = IF tail.offset < Len(c) THEN Len(c) ELSE tail.offset
      /\ Len(tail'.pending) = Len(p) + new
      /\ \A j \in 1..Len(p) : tail'.pending[j] = p[j]
      /\ \A j \in 1..new : tail'.pending[Len(p) + j] = c[tail.offset + j]
  BY ReadAppends
<1> HIDE DEF c, p
<1>4. tail'.offset = Len(c) /\ new = Len(c) - tail.offset
  BY <1>1, <1>2, <1>3
<1>5. tail'.offset - Len(tail'.pending) = start
  BY <1>1, <1>3, <1>4
<1>6. ASSUME NEW j \in 1..Len(tail'.pending) PROVE tail'.pending[j] = c[start + j]
  <2>1. CASE j <= Len(p)
    BY <1>1, <1>2, <1>3, <1>4, <2>1
  <2>2. CASE j > Len(p)
    <3>1. j - Len(p) \in 1..new
      BY <1>1, <1>3, <1>4, <2>2
    <3>2. Len(p) + (j - Len(p)) = j /\ tail.offset + (j - Len(p)) = start + j
      BY <1>1, <1>4, <1>3
    <3> QED
      BY <1>3, <3>1, <3>2
  <2> QED
    BY <1>1, <1>3, <1>4, <2>1, <2>2
<1> HIDE DEF start, new
<1>7. content'[tail'.ino] = c
  BY <1>3 DEF c
<1>8. tail'.offset <= Len(c) /\ tail'.offset - Len(tail'.pending) >= 0 /\ tail'.ino # 0
  BY <1>1, <1>2, <1>3, <1>4, <1>5
<1>9. \A j \in 1..Len(tail'.pending) :
        tail'.pending[j] = content'[tail'.ino][(tail'.offset - Len(tail'.pending)) + j]
  BY <1>5, <1>6, <1>7
<1>10. tail'.offset - Len(tail'.pending) > 0
         /\ content'[tail'.ino][tail'.offset - Len(tail'.pending)][2] = 1 => From("file")' = {}
  BY <1>2, <1>5, <1>7
<1> QED
  BY <1>7, <1>8, <1>9, <1>10 DEF SliceInv

\* The line at the head of pending is a whole one, or the rest of the one in the middle
\* of which the tailer began.
LEMMA HeadIsWhole ==
    ASSUME FileShape, PiecesFollow, SliceInv, tail.ino # 0,
           NEW s \in Seq(Piece), FirstLine(tail.pending) # 0, Len(s) = FirstLine(tail.pending),
           \A j \in 1..Len(s) : s[j] = tail.pending[j]
    PROVE  \E n \in 1..MaxLines : \/ s = << <<n, 1>>, <<n, 2>> >>
                                  \/ s = << <<n, 2>> >> /\ From("file") = {}
<1> DEFINE c == content[tail.ino]  p == tail.pending  start == tail.offset - Len(p)  k == FirstLine(p)
<1>0. tail.ino \in Inode
  BY TailFacts, LogBounds
<1>1. /\ tail.offset \in Nat /\ Len(p) \in Nat /\ Len(c) \in Nat /\ p \in Seq(Piece)
      /\ \A j \in 1..Len(p) : p[j] \in Piece
  BY <1>0, TailFacts
<1>2. /\ tail.offset <= Len(c) /\ start >= 0
      /\ \A j \in 1..Len(p) : p[j] = c[start + j]
      /\ start > 0 /\ c[start][2] = 1 => From("file") = {}
  BY DEF SliceInv
<1>3. /\ k \in 1..Len(p) /\ p[k][2] = 2 /\ \A j \in 1..(k - 1) : p[j][2] # 2
  BY <1>1, FirstLineEnds
<1>4. \A j \in 1..Len(c) : IF j = 1 THEN c[j][2] = 1 ELSE Follows(c[j - 1], c[j])
  BY <1>0 DEF PiecesFollow
<1>5. Len(s) = k /\ \A j \in 1..k : s[j] = p[j]
  OBVIOUS
<1> HIDE DEF c, p, k
<1>6. start \in Nat /\ start + 1 \in 1..Len(c)
  BY <1>1, <1>2, <1>3
<1>7. CASE k = 1
  <2>1. p[1] = c[start + 1] /\ c[start + 1][2] = 2 /\ p[1] \in Piece
    BY <1>1, <1>2, <1>3, <1>7
  <2>2. start > 0 /\ Follows(c[start], c[start + 1])
    <3>1. start # 0
      BY <1>4, <1>6, <2>1
    <3>2. start + 1 # 1 /\ (start + 1) - 1 = start
      BY <1>6, <3>1
    <3> QED
      BY <1>4, <1>6, <3>1, <3>2
  <2>3. From("file") = {}
    <3>1. c[start][2] = 1
      BY <2>1, <2>2 DEF Follows
    <3> QED
      BY <1>2, <2>2, <3>1
  <2>4. p[1][1] \in 1..MaxLines /\ p[1] = << p[1][1], 2 >>
    BY <1>3, <1>7, <2>1, PieceFacts
  <2>5. s = <<p[1]>>
    BY <1>5, <1>7
  <2> QED
    BY <2>3, <2>4, <2>5
<1>8. CASE k # 1
  <2>1. 1 \in 1..(k - 1) /\ 2 \in 1..Len(p) /\ k \in Nat /\ 1 \in 1..Len(p)
    BY <1>1, <1>3, <1>8
  <2>2. p[1] \in Piece /\ p[1][2] = 1 /\ p[1] = c[start + 1] /\ p[2] = c[start + 2]
    BY <1>1, <1>2, <1>3, <2>1, PieceFacts
  <2>3. Follows(c[start + 1], c[start + 2])
    <3>1. start + 2 \in 1..Len(c) /\ start + 2 # 1 /\ (start + 2) - 1 = start + 1
      BY <1>1, <1>2, <1>6, <2>1
    <3> QED
      BY <1>4, <3>1
  <2>4. p[2] = <<p[1][1], 2>>
    BY <2>2, <2>3 DEF Follows
  <2>5. p[2][2] = 2
    BY <2>4
  <2>6. k = 2
    BY <1>3, <1>8, <2>1, <2>5
  <2>7. p[1][1] \in 1..MaxLines /\ p[1] = <<p[1][1], 1>>
    BY <2>2, PieceFacts
  <2>8. Len(s) = 2 /\ s[1] = p[1] /\ s[2] = p[2]
    BY <1>5, <2>6
  <2>9. s = <<p[1], p[2]>>
    BY <2>8
  <2> QED
    BY <2>4, <2>7, <2>9
<1> QED
  BY <1>7, <1>8

LEMMA SliceEmits ==
    ASSUME FileShape, QueueShape, PiecesFollow, NothingOpen, SliceInv, LinesWhole, EmitLine,
           Entries' = Entries \/ EmitsLine
    PROVE  SliceInv' /\ LinesWhole'
<1> DEFINE c == content[tail.ino]  p == tail.pending  start == tail.offset - Len(p)  k == FirstLine(p)
           s == SubSeq(p, 1, k)
<1>0. tail.ino # 0 /\ tail.ino \in Inode
  BY TailFacts, LogBounds, EmitLineTail DEF NothingOpen
<1>1. /\ tail.offset \in Nat /\ Len(p) \in Nat /\ Len(c) \in Nat /\ p \in Seq(Piece)
  BY <1>0, TailFacts
<1>2. /\ tail.offset <= Len(c) /\ start >= 0
      /\ \A j \in 1..Len(p) : p[j] = c[start + j]
  BY <1>0 DEF SliceInv
<1>3. /\ content' = content /\ tail'.ino = tail.ino /\ tail'.offset = tail.offset
      /\ k \in 0..Len(p)
      /\ k = 0 => tail'.pending = p /\ UNCHANGED queueVars
      /\ k # 0 => /\ s \in Line /\ Len(s) = k /\ \A j \in 1..k : s[j] = p[j]
                  /\ Len(tail'.pending) = Len(p) - k
                  /\ \A j \in 1..(Len(p) - k) : tail'.pending[j] = p[k + j]
  BY EmitLineTail
<1>4. CASE k = 0
  <2>1. Entries' = Entries
    BY <1>4 DEF EmitsLine
  <2>2. From("file")' = From("file") /\ LinesWhole'
    BY <2>1, EntriesSame
  <2> QED
    BY <1>0, <1>1, <1>3, <1>4, <2>2, SliceKeeps
<1>5. CASE k # 0
  <2>1. SliceInv'
    <3>1. p[k][2] = 2
      BY <1>1, <1>5, FirstLineEnds
    <3> HIDE DEF c, p, k, s
    <3>2. k \in 1..Len(p) /\ tail'.offset - Len(tail'.pending) = start + k /\ start \in Nat
      <4>1. k \in 1..Len(p) /\ start \in Nat
        BY <1>1, <1>2, <1>3, <1>5
      <4>2. tail'.offset = tail.offset /\ Len(tail'.pending) = Len(p) - k
        BY <1>3, <1>5
      <4>3. tail.offset - (Len(p) - k) = (tail.offset - Len(p)) + k
        BY <1>1, <4>1
      <4> QED
        BY <4>1, <4>2, <4>3
    <3>3. c[start + k][2] = 2
      BY <1>2, <3>1, <3>2
    <3>4. ASSUME NEW j \in 1..Len(tail'.pending) PROVE tail'.pending[j] = c[(start + k) + j]
      <4>0. j \in 1..(Len(p) - k)
        BY <1>3, <1>5
      <4>1. k + j \in 1..Len(p) /\ start + (k + j) = (start + k) + j
        BY <1>1, <3>2, <4>0
      <4> QED
        <5>1. tail'.pending[j] = p[k + j]
          BY <1>3, <1>5, <4>0
        <5>2. p[k + j] = c[start + (k + j)]
          BY <1>2, <4>1
        <5> QED
          BY <4>1, <5>1, <5>2
    <3> HIDE DEF start
    <3>5. start + k >= 0
      BY <1>1, <3>2
    <3> QED
      <4>1. c' = c /\ tail'.ino = tail.ino /\ tail'.offset = tail.offset
        BY <1>3 DEF c
      <4>2. tail'.offset <= Len(c)
        BY <1>2, <4>1
      <4> DEFINE from == tail'.offset - Len(tail'.pending)
      <4>3. /\ from >= 0 /\ \A j \in 1..Len(tail'.pending) : tail'.pending[j] = c[from + j]
            /\ c[from][2] = 2
        BY <3>2, <3>3, <3>4, <3>5
      <4> QED
        BY <1>0, <4>1, <4>2, <4>3 DEF SliceInv, c
  <2>2. CASE Entries' = Entries
    BY <2>1, <2>2, EntriesSame
  <2>3. CASE EmitsLine
    <3> DEFINE e == <<"file", s>>
    <3>1. e \in Entry /\ e[1] = "file" /\ e[2] = s /\ Entries' = Append(Entries, e)
      BY <2>3, LineEntry DEF EmitsLine
    <3>2. \E n \in 1..MaxLines : \/ s = << <<n, 1>>, <<n, 2>> >>
                                 \/ s = << <<n, 2>> >> /\ From("file") = {}
      <4>1. s \in Seq(Piece)
        BY <1>3, <1>5, LineFacts
      <4> HIDE DEF s
      <4> QED
        BY <1>0, <1>3, <1>5, <4>1, HeadIsWhole
    <3> HIDE DEF e, s, c, p, k
    <3>3. /\ \A i \in 1..Len(Entries) : Entries'[i] = Entries[i]
          /\ Entries'[Len(Entries) + 1] = e
          /\ From("file")' = From("file") \union {Len(Entries) + 1}
      BY <3>1, EntriesGrow
    <3>4. Len(Entries) \in Nat /\ From("file") \subseteq 1..Len(Entries)
      BY EntryFacts
    <3>5. ASSUME NEW i \in From("file")'
          PROVE  \E n \in 1..MaxLines :
                     \/ Entries'[i][2] = << <<n, 1>>, <<n, 2>> >>
                     \/ Entries'[i][2] = << <<n, 2>> >> /\ \A l \in From("file")' : i <= l
      <4>1. CASE i \in From("file")
        <5>1. i \in 1..Len(Entries) /\ Entries'[i] = Entries[i]
          BY <3>3, <3>4, <4>1
        <5>2. PICK n \in 1..MaxLines :
                \/ Entries[i][2] = << <<n, 1>>, <<n, 2>> >>
                \/ Entries[i][2] = << <<n, 2>> >> /\ \A l \in From("file") : i <= l
          BY <4>1 DEF LinesWhole
        <5>3. i <= Len(Entries) + 1
          BY <3>4, <5>1
        <5> QED
          BY <3>3, <5>1, <5>2, <5>3
      <4>2. CASE i = Len(Entries) + 1
        <5>1. Entries'[i][2] = s /\ i <= i
          BY <3>1, <3>3, <3>4, <4>2
        <5>2. From("file") = {} => \A l \in From("file")' : i <= l
          BY <3>3, <4>2, <5>1
        <5> QED
          BY <3>2, <5>1, <5>2
      <4> QED
        BY <3>3, <4>1, <4>2
    <3> QED
      BY <2>1, <3>5 DEF LinesWhole
  <2> QED
    BY <2>2, <2>3
<1> QED
  BY <1>4, <1>5

LEMMA SliceStep ==
    ASSUME FileShape, QueueShape, JournalShape, FilesInv, SliceInv, LinesWhole,
           logMay \intersect {"truncate", "torn"} = {}, [LogNext]_logVars
    PROVE  SliceInv' /\ LinesWhole'
<1>0. InodesInTurn /\ NothingOpen /\ PiecesFollow
  BY DEF FilesInv
<1>1. Entries' = Entries \/ EmitsLine \/ EmitsJournal
  BY EntriesMove
<1>2. CASE EmitLine
  <2>1. Entries' = Entries \/ EmitsLine
    <3>1. EmitsJournal => Entries' = Entries
      BY <1>2, NoJournalLine DEF EmitsJournal
    <3> QED
      BY <1>1, <3>1
  <2> QED
    BY <1>0, <1>2, <2>1, SliceEmits
<1>3. CASE ~EmitLine
  <2>1. From("file")' = From("file") /\ LinesWhole'
    <3>1. CASE Entries' = Entries
      BY <3>1, EntriesSame
    <3>2. CASE EmitsJournal
      <4> DEFINE e == <<"journald", reader>>
      <4>1. e \in Entry /\ e[1] = "journald" /\ Entries' = Append(Entries, e)
        BY <3>2, LogBounds DEF EmitsJournal, JournalLine, JournalShape, Entry
      <4> HIDE DEF e
      <4> QED
        BY <4>1, OtherSource
    <3> QED
      BY <1>1, <1>3, <3>1, <3>2 DEF EmitsLine
  <2>2. CASE ReadFile
    BY <1>0, <2>1, <2>2, SliceReads, ReaderOpen
  <2>3. CASE Poll
    <3>1. /\ content' = content /\ path \in Inode /\ Len(content[path]) \in Nat
      BY <1>0, <2>3, PollOpens, TailFacts
    <3>2. CASE tail.ino = 0 /\ tail' = Opened(path, Len(content[path]))
      <4>1. From("file") = {}
        BY <3>2 DEF SliceInv
      <4> QED
        BY <2>1, <3>1, <3>2, <4>1, SliceOpens
    <3>3. CASE tail' = Opened(path, 0)
      BY <2>1, <3>1, <3>3, SliceOpens
    <3>4. CASE tail' = [tail EXCEPT !.pc = "read", !.size = Len(content[path])]
      <4>1. tail'.ino = tail.ino /\ tail'.offset = tail.offset /\ tail'.pending = tail.pending
        BY <3>4 DEF FileShape
      <4>2. tail.ino # 0 => tail.ino \in Inode
        BY TailFacts, LogBounds
      <4> QED
        BY <2>1, <3>1, <4>1, <4>2, SliceKeeps, TailFacts
    <3> QED
      BY <1>0, <2>3, <3>2, <3>3, <3>4, PollOpens
  <2>4. CASE Write
    <3>1. /\ path \in Inode /\ tail' = tail
          /\ \A i \in Inode : i # path => content'[i] = content[i]
          /\ Len(content'[path]) = Len(content[path]) + 1
          /\ \A j \in 1..Len(content[path]) : content'[path][j] = content[path][j]
      BY <2>4, WriteAppends
    <3>2. tail.ino # 0 => tail.ino \in Inode
      BY TailFacts, LogBounds
    <3>3. \A i \in Inode : /\ Len(content'[i]) \in Nat /\ Len(content[i]) <= Len(content'[i])
                           /\ \A j \in 1..Len(content[i]) : content'[i][j] = content[i][j]
      BY <3>1, TailFacts
    <3> QED
      BY <2>1, <3>1, <3>2, <3>3, SliceKeeps
  <2>5. CASE UNCHANGED <<content, tail>>
    <3>1. tail.ino # 0 => tail.ino \in Inode
      BY TailFacts, LogBounds
    <3> QED
      BY <2>1, <2>5, <3>1, SliceKeeps, TailFacts
  <2> QED
    BY <1>0, <1>3, <2>1, <2>2, <2>3, <2>4, <2>5, WhoMoves DEF RotateAway, Recreate, TruncateFile
<1> QED
  BY <1>2, <1>3

-----------------------------------------------------------------------------
\* The order of the lines, when no truncation falls between a stat and its read.
LEMMA PendingNumbers ==
    ASSUME FileShape
    PROVE  /\ Pending \subseteq Nat
           /\ \A j \in 1..Len(tail.pending) : tail.pending[j][2] = 2 => tail.pending[j][1] \in Pending
<1>1. ASSUME NEW j \in 1..Len(tail.pending) PROVE tail.pending[j][1] \in Nat
  <2>1. tail.pending[j] \in Piece
    BY TailFacts
  <2>2. tail.pending[j][1] \in 1..MaxLines
    BY <2>1, PieceFacts
  <2> QED
    BY <2>2, LogBounds
<1> QED
  BY <1>1 DEF Pending

LEMMA FreshFromIs ==
    ASSUME NEW i \in Inode, NEW j \in Nat
    PROVE  <<i, j>> \in FreshFrom <=>
               \A l \in 1..Len(content[i]) : l > j /\ content[i][l][2] = 2 => content[i][l][1] \in Fresh
<1> QED
  BY DEF FreshFrom

LEMMA FreshFromNext ==
    ASSUME NEW i \in Inode, NEW j \in Nat
    PROVE  <<i, j>> \in FreshFrom' <=>
               \A l \in 1..Len(content'[i]) : l > j /\ content'[i][l][2] = 2 => content'[i][l][1] \in Fresh'
<1> QED
  BY DEF FreshFrom

LEMMA FreshStays ==
    ASSUME Emitted' \union Pending' \subseteq Emitted \union Pending
    PROVE  Fresh \subseteq Fresh'
<1> QED
  BY DEF Fresh

LEMMA FreshFromStays ==
    ASSUME content' = content, Fresh \subseteq Fresh'
    PROVE  FreshFrom \subseteq FreshFrom'
<1> QED
  BY DEF FreshFrom

LEMMA ReadSame ==
    ASSUME Emitted' = Emitted, tail'.pending = tail.pending
    PROVE  Pending' = Pending /\ Fresh' = Fresh /\ (PendingAscends => PendingAscends')
<1>1. Pending' = Pending
  BY DEF Pending
<1>2. Fresh' = Fresh
  BY <1>1 DEF Fresh
<1>3. PendingAscends => PendingAscends'
  BY DEF PendingAscends
<1> QED
  BY <1>1, <1>2, <1>3

LEMMA NothingPending ==
    ASSUME Emitted' = Emitted, tail'.pending = <<>>
    PROVE  Fresh \subseteq Fresh' /\ PendingAscends'
<1>1. Len(tail'.pending) = 0
  BY EmptyLen
<1>2. Pending' = {}
  BY <1>1 DEF Pending
<1>3. PendingAscends'
  BY <1>1 DEF PendingAscends
<1> QED
  BY <1>2, <1>3, FreshStays

\* Nothing more was read, and the tailer stays where it is.
LEMMA UnreadStays ==
    ASSUME UnreadIsFresh, UNCHANGED <<content, writing>>, Fresh \subseteq Fresh',
           tail'.ino = tail.ino, tail'.offset = tail.offset, tail'.size = tail.size,
           tail'.pc = "read" <=> tail.pc = "read"
    PROVE  UnreadIsFresh'
<1>1. FreshFrom \subseteq FreshFrom'
  BY FreshFromStays
<1>2. /\ writing'[1] \in Fresh'
      /\ \A i \in Inode : i > tail'.ino => <<i, 0>> \in FreshFrom'
      /\ tail'.pc = "read" => tail'.size <= Len(content'[tail'.ino])
  BY <1>1 DEF UnreadIsFresh
<1>3. ASSUME tail'.ino # 0
      PROVE  \/ <<tail'.ino, 0>> \in FreshFrom'
             \/ /\ <<tail'.ino, tail'.offset>> \in FreshFrom'
                /\ tail'.offset <= Len(content'[tail'.ino])
                /\ tail'.pc # "read" => tail'.size <= tail'.offset
  BY <1>1, <1>3 DEF UnreadIsFresh
<1> QED
  BY <1>2, <1>3 DEF UnreadIsFresh

\* A file is opened at its start, or at its end, and all of it is fresh.
LEMMA UnreadOpened ==
    ASSUME FileShape, UnreadIsFresh, NEW i \in Inode, NEW from \in Nat, UNCHANGED <<content, writing>>,
           Emitted' = Emitted, tail' = Opened(i, from), i >= tail.ino, <<i, 0>> \in FreshFrom
    PROVE  UnreadIsFresh' /\ PendingAscends'
<1>1. tail'.pc = "wait" /\ tail'.ino = i /\ tail'.pending = <<>>
  BY OpenedFacts
<1>2. Fresh \subseteq Fresh' /\ PendingAscends'
  BY <1>1, NothingPending
<1>3. FreshFrom \subseteq FreshFrom'
  BY <1>2, FreshFromStays
<1>4. \A h \in Inode : h > i => h > tail.ino
  BY TailFacts, LogBounds
<1>5. writing'[1] \in Fresh' /\ \A h \in Inode : h > tail'.ino => <<h, 0>> \in FreshFrom'
  BY <1>1, <1>2, <1>3, <1>4 DEF UnreadIsFresh
<1> QED
  BY <1>1, <1>2, <1>3, <1>5 DEF UnreadIsFresh

LEMMA UnreadWrites ==
    ASSUME FileShape, NothingOpen, UnreadIsFresh, Write, Emitted' = Emitted, Emitted \subseteq Nat
    PROVE  UnreadIsFresh'
<1>1. /\ path \in Inode /\ writing \in Piece /\ tail' = tail
      /\ \A i \in Inode : i # path => content'[i] = content[i]
      /\ Len(content'[path]) = Len(content[path]) + 1
      /\ \A j \in 1..Len(content[path]) : content'[path][j] = content[path][j]
      /\ content'[path][Len(content[path]) + 1] = writing
      /\ writing' = IF writing[2] = 1 THEN <<writing[1], 2>> ELSE <<writing[1] + 1, 1>>
  BY WriteAppends
<1>2. Fresh' = Fresh /\ writing[1] \in Fresh
  BY <1>1, ReadSame DEF UnreadIsFresh
<1>3. \A i \in Inode : Len(content[i]) \in Nat
  BY TailFacts
<1>4. ASSUME NEW i \in Inode, NEW j \in Nat, <<i, j>> \in FreshFrom PROVE <<i, j>> \in FreshFrom'
  <2>1. \A l \in 1..Len(content[i]) : l > j /\ content[i][l][2] = 2 => content[i][l][1] \in Fresh
    BY <1>4, FreshFromIs
  <2>2. ASSUME NEW l \in 1..Len(content'[i])
        PROVE  \/ content'[i][l] = writing
               \/ l \in 1..Len(content[i]) /\ content'[i][l] = content[i][l]
    BY <1>1, <1>3
  <2>3. \A l \in 1..Len(content'[i]) : l > j /\ content'[i][l][2] = 2 => content'[i][l][1] \in Fresh'
    BY <1>2, <2>1, <2>2
  <2> QED
    BY <2>3, FreshFromNext
<1>5. writing'[1] \in Fresh'
  <2>1. writing[1] \in Nat /\ writing'[1] \in {writing[1], writing[1] + 1}
    BY <1>1, PieceFacts, LogBounds
  <2>2. Emitted \union Pending \subseteq Nat
    BY PendingNumbers
  <2>3. \A n \in Nat : n \in Fresh => n + 1 \in Fresh
    BY <2>2 DEF Fresh
  <2> QED
    BY <1>2, <2>1, <2>3
<1>6. \A i \in Inode : i > tail'.ino => <<i, 0>> \in FreshFrom'
  BY <1>1, <1>4 DEF UnreadIsFresh
<1>7. tail.ino # 0 => tail.ino \in Inode /\ tail.offset \in Nat /\ tail.size \in Nat
  BY TailFacts, LogBounds
<1>8. tail.ino # 0 => Len(content[tail.ino]) <= Len(content'[tail.ino]) /\ Len(content'[tail.ino]) \in Nat
  BY <1>1, <1>3, <1>7
<1>9. ASSUME tail.ino # 0
      PROVE  \/ <<tail.ino, 0>> \in FreshFrom'
             \/ /\ <<tail.ino, tail.offset>> \in FreshFrom'
                /\ tail.offset <= Len(content'[tail.ino])
                /\ tail.pc # "read" => tail.size <= tail.offset
  <2>1. CASE <<tail.ino, 0>> \in FreshFrom
    BY <1>4, <1>7, <1>9, <2>1
  <2>2. CASE /\ <<tail.ino, tail.offset>> \in FreshFrom
             /\ tail.offset <= Len(content[tail.ino])
             /\ tail.pc # "read" => tail.size <= tail.offset
    BY <1>3, <1>4, <1>7, <1>8, <1>9, <2>2
  <2> QED
    BY <1>9, <2>1, <2>2 DEF UnreadIsFresh
<1>10. ASSUME tail.pc = "read" PROVE tail.size <= Len(content'[tail.ino])
  <2>1. tail.ino # 0 /\ tail.size <= Len(content[tail.ino])
    BY <1>10 DEF NothingOpen, UnreadIsFresh
  <2> QED
    BY <1>3, <1>7, <1>8, <2>1
<1> QED
  BY <1>1, <1>5, <1>6, <1>9, <1>10 DEF UnreadIsFresh

LEMMA UnreadTruncates ==
    ASSUME FileShape, NothingOpen, UnreadIsFresh, TruncateFile, "torn" \notin logMay, Emitted' = Emitted
    PROVE  UnreadIsFresh'
<1>1. /\ tail.pc = "wait" /\ tail' = tail /\ writing' = writing /\ path # 0
      /\ content' = [content EXCEPT ![path] = <<>>]
  BY DEF TruncateFile
<1>2. path \in Inode /\ content \in [Inode -> Seq(Piece)]
  BY <1>1, LogBounds DEF FileShape
<1>3. content'[path] = <<>> /\ \A i \in Inode : i # path => content'[i] = content[i]
  BY <1>1, <1>2
<1>4. Fresh' = Fresh
  BY <1>1, ReadSame
<1>5. Len(content'[path]) = 0
  BY <1>3, EmptyLen
<1>6. ASSUME NEW j \in Nat PROVE <<path, j>> \in FreshFrom'
  BY <1>2, <1>5, FreshFromNext
<1>7. ASSUME NEW i \in Inode, NEW j \in Nat, <<i, j>> \in FreshFrom PROVE <<i, j>> \in FreshFrom'
  BY <1>3, <1>4, <1>6, <1>7, FreshFromIs, FreshFromNext
<1>8. tail.ino # 0 => tail.ino \in Inode /\ tail.offset \in Nat
  BY TailFacts, LogBounds
<1>9. ASSUME tail.ino # 0
      PROVE  \/ <<tail.ino, 0>> \in FreshFrom'
             \/ /\ <<tail.ino, tail.offset>> \in FreshFrom'
                /\ tail.offset <= Len(content'[tail.ino])
                /\ tail.pc # "read" => tail.size <= tail.offset
  <2>1. CASE tail.ino = path
    BY <1>6, <2>1
  <2>2. CASE tail.ino # path
    BY <1>3, <1>7, <1>8, <1>9, <2>2 DEF UnreadIsFresh
  <2> QED
    BY <2>1, <2>2
<1> QED
  BY <1>1, <1>4, <1>7, <1>9 DEF UnreadIsFresh

LEMMA UnreadPolls ==
    ASSUME FileShape, InodesInTurn, UnreadIsFresh, PendingAscends, Poll, Emitted' = Emitted
    PROVE  UnreadIsFresh' /\ PendingAscends'
<1>1. UNCHANGED <<content, path, writing>> /\ tail.pc = "wait" /\ path \in Inode /\ tail.ino <= path
  BY PollOpens
<1>2. path \in Nat /\ tail.ino \in Nat /\ Len(content[path]) \in Nat /\ tail.offset \in Nat /\ tail.size \in Nat
  BY <1>1, TailFacts, LogBounds
<1>3. path > tail.ino => <<path, 0>> \in FreshFrom
  BY <1>1 DEF UnreadIsFresh
<1>4. CASE tail.ino = 0 /\ tail' = Opened(path, Len(content[path]))
  <2>1. path > tail.ino /\ path >= tail.ino
    BY <1>1, <1>2, <1>4, LogBounds
  <2> QED
    BY <1>1, <1>2, <1>3, <1>4, <2>1, UnreadOpened
<1>5. CASE /\ tail.ino # 0 /\ tail' = Opened(path, 0)
           /\ path > tail.ino \/ (path = tail.ino /\ Len(content[path]) < tail.size)
  <2>1. <<path, 0>> \in FreshFrom
    <3>1. CASE path > tail.ino
      BY <1>3, <3>1
    <3>2. CASE path = tail.ino /\ Len(content[path]) < tail.size
      <4>1. \/ <<tail.ino, 0>> \in FreshFrom
            \/ tail.offset <= Len(content[tail.ino]) /\ tail.size <= tail.offset
        BY <1>1, <1>5 DEF UnreadIsFresh
      <4> QED
        BY <1>2, <3>2, <4>1
    <3> QED
      BY <1>5, <3>1, <3>2
  <2>2. path >= tail.ino
    BY <1>1, <1>2
  <2> QED
    BY <1>1, <1>5, <2>1, <2>2, UnreadOpened
<1>6. CASE /\ tail.ino # 0 /\ path = tail.ino /\ ~(Len(content[path]) < tail.size)
           /\ tail' = [tail EXCEPT !.pc = "read", !.size = Len(content[path])]
  <2>1. /\ tail'.pc = "read" /\ tail'.size = Len(content[path]) /\ tail'.ino = tail.ino
        /\ tail'.offset = tail.offset /\ tail'.pending = tail.pending
    BY <1>6 DEF FileShape
  <2>2. Fresh' = Fresh /\ PendingAscends'
    BY <2>1, ReadSame
  <2>3. FreshFrom \subseteq FreshFrom'
    BY <1>1, <2>2, FreshFromStays
  <2>4. writing'[1] \in Fresh' /\ \A i \in Inode : i > tail'.ino => <<i, 0>> \in FreshFrom'
    BY <1>1, <2>1, <2>2, <2>3 DEF UnreadIsFresh
  <2>5. tail'.size <= Len(content'[tail'.ino])
    BY <1>1, <1>2, <1>6, <2>1
  <2>6. \/ <<tail'.ino, 0>> \in FreshFrom'
        \/ <<tail'.ino, tail'.offset>> \in FreshFrom' /\ tail'.offset <= Len(content'[tail'.ino])
    BY <1>1, <1>6, <2>1, <2>3 DEF UnreadIsFresh
  <2> QED
    BY <2>1, <2>2, <2>4, <2>5, <2>6 DEF UnreadIsFresh
<1> QED
  BY <1>4, <1>5, <1>6, PollOpens

\* drainNewLines reads on: what it reads is later than what was read and what is left
\* is later still.
LEMMA UnreadReads ==
    ASSUME FileShape, NothingOpen, LinesAscend, UnreadIsFresh, PendingAscends, ReadFile,
           Emitted' = Emitted, Emitted \subseteq Nat
    PROVE  UnreadIsFresh' /\ PendingAscends'
<1> DEFINE c == content[tail.ino]  p == tail.pending
           new == IF tail.offset < Len(c) THEN Len(c) - tail.offset ELSE 0
<1>0. tail.ino # 0 /\ tail.ino \in Inode
  BY ReaderOpen, TailFacts, LogBounds
<1>1. tail.offset \in Nat /\ tail.size \in Nat /\ Len(p) \in Nat /\ Len(c) \in Nat
  BY <1>0, TailFacts
<1>2. /\ UNCHANGED <<content, path, writing>> /\ tail.pc = "read" /\ tail'.pc = "emit"
      /\ tail'.ino = tail.ino /\ tail'.size = tail.size
      /\ tail'.offset = IF tail.offset < Len(c) THEN Len(c) ELSE tail.offset
      /\ Len(tail'.pending) = Len(p) + new
      /\ \A j \in 1..Len(p) : tail'.pending[j] = p[j]
      /\ \A j \in 1..new : tail'.pending[Len(p) + j] = c[tail.offset + j]
  BY <1>0, ReadAppends
<1>3. Pending \subseteq Nat /\ \A j \in 1..Len(p) : p[j][2] = 2 => p[j][1] \in Pending
  BY PendingNumbers
<1>4. /\ tail.size <= Len(c)
      /\ \/ <<tail.ino, 0>> \in FreshFrom
         \/ <<tail.ino, tail.offset>> \in FreshFrom /\ tail.offset <= Len(c)
  BY <1>0, <1>2 DEF UnreadIsFresh
<1>5. ASSUME NEW l \in 1..Len(c), l > tail.offset, c[l][2] = 2 PROVE c[l][1] \in Fresh
  <2>1. CASE <<tail.ino, 0>> \in FreshFrom
    <3>1. l > 0
      OBVIOUS
    <3> QED
      BY <1>0, <1>5, <2>1, <3>1, FreshFromIs
  <2>2. CASE <<tail.ino, tail.offset>> \in FreshFrom
    BY <1>0, <1>1, <1>5, <2>2, FreshFromIs
  <2> QED
    BY <1>4, <2>1, <2>2
<1>6. /\ \A l \in 1..Len(c) : c[l][2] = 2 => c[l][1] < writing[1]
      /\ \A l, m \in 1..Len(c) : l < m /\ c[l][2] = 2 /\ c[m][2] = 2 => c[l][1] < c[m][1]
      /\ \A l \in 1..Len(c) : \A i \in Inode : i > tail.ino =>
            \A m \in 1..Len(content[i]) : c[l][2] = 2 /\ content[i][m][2] = 2 => c[l][1] < content[i][m][1]
  <2>1. \A i \in Inode : i > tail.ino => tail.ino < i
    BY <1>0, LogBounds
  <2> QED
    BY <1>0, <2>1 DEF LinesAscend
<1> HIDE DEF c, p
<1>7. ASSUME NEW j \in 1..Len(tail'.pending)
      PROVE  \/ j \in 1..Len(p) /\ tail'.pending[j] = p[j]
             \/ /\ j > Len(p) /\ tail.offset < Len(c)
                /\ \E l \in 1..Len(c) : /\ l = tail.offset + (j - Len(p)) /\ l > tail.offset
                                        /\ tail'.pending[j] = c[l]
  <2>1. CASE j <= Len(p)
    BY <1>1, <1>2, <2>1
  <2>2. CASE j > Len(p)
    <3>1. tail.offset < Len(c) /\ j - Len(p) \in 1..new /\ new = Len(c) - tail.offset
      BY <1>1, <1>2, <2>2
    <3>2. Len(p) + (j - Len(p)) = j
      BY <1>1
    <3>3. tail'.pending[j] = c[tail.offset + (j - Len(p))]
      BY <1>2, <3>1, <3>2
    <3>4. tail.offset + (j - Len(p)) \in 1..Len(c) /\ tail.offset + (j - Len(p)) > tail.offset
      BY <1>1, <3>1
    <3> QED
      BY <2>2, <3>1, <3>3, <3>4
  <2> QED
    BY <1>1, <2>1, <2>2
<1> HIDE DEF new
<1>8. \A m \in Pending' : m \in Pending \/ \E l \in 1..Len(c) : l > tail.offset /\ c[l][2] = 2 /\ m = c[l][1]
  <2> TAKE m \in Pending'
  <2>1. PICK j \in 1..Len(tail'.pending) : tail'.pending[j][2] = 2 /\ m = tail'.pending[j][1]
    BY DEF Pending
  <2>2. CASE j \in 1..Len(p) /\ tail'.pending[j] = p[j]
    BY <1>3, <2>1, <2>2
  <2>3. CASE \E l \in 1..Len(c) : l > tail.offset /\ tail'.pending[j] = c[l]
    BY <2>1, <2>3
  <2> QED
    BY <1>7, <2>2, <2>3
<1>9. PendingAscends'
  <2> SUFFICES ASSUME NEW j \in 1..Len(tail'.pending), tail'.pending[j][2] = 2
               PROVE  /\ \A m \in Emitted : m < tail'.pending[j][1]
                      /\ \A l \in 1..(j - 1) : tail'.pending[l][2] = 2 => tail'.pending[l][1] < tail'.pending[j][1]
    BY DEF PendingAscends
  <2>1. CASE j \in 1..Len(p) /\ tail'.pending[j] = p[j]
    <3>1. \A l \in 1..(j - 1) : l \in 1..Len(p) /\ tail'.pending[l] = p[l]
      BY <1>1, <1>2, <2>1
    <3>2. /\ \A m \in Emitted : m < p[j][1]
          /\ \A l \in 1..(j - 1) : p[l][2] = 2 => p[l][1] < p[j][1]
      BY <2>1 DEF PendingAscends, p
    <3> QED
      BY <2>1, <3>1, <3>2
  <2>2. ASSUME j > Len(p), NEW k \in 1..Len(c), k = tail.offset + (j - Len(p)), k > tail.offset,
               tail'.pending[j] = c[k]
        PROVE  /\ \A m \in Emitted : m < tail'.pending[j][1]
               /\ \A l \in 1..(j - 1) : tail'.pending[l][2] = 2 => tail'.pending[l][1] < tail'.pending[j][1]
    <3>1. c[k][1] \in Fresh
      BY <1>5, <2>2
    <3>2. \A m \in Emitted \union Pending : m < c[k][1]
      BY <3>1 DEF Fresh
    <3>3. ASSUME NEW l \in 1..(j - 1), tail'.pending[l][2] = 2 PROVE tail'.pending[l][1] < c[k][1]
      <4>1. l \in 1..Len(tail'.pending) /\ l < j
        BY <1>1, <1>2
      <4>2. CASE l \in 1..Len(p) /\ tail'.pending[l] = p[l]
        BY <1>3, <3>2, <3>3, <4>2
      <4>3. ASSUME NEW h \in 1..Len(c), h = tail.offset + (l - Len(p)), tail'.pending[l] = c[h]
            PROVE  tail'.pending[l][1] < c[k][1]
        <5>1. h < k
          <6> DEFINE o == tail.offset  q == Len(p)
          <6>1. o \in Nat /\ q \in Nat /\ h = o + (l - q) /\ k = o + (j - q) /\ l \in Int /\ j \in Int /\ l < j
            BY <1>1, <2>2, <4>1, <4>3
          <6> HIDE DEF o, q
          <6> QED
            BY <6>1
        <5> QED
          BY <1>6, <2>2, <3>3, <4>3, <5>1
      <4> QED
        BY <1>7, <4>1, <4>2, <4>3
    <3> QED
      BY <2>2, <3>2, <3>3
  <2> QED
    BY <1>7, <2>1, <2>2
<1>10. ASSUME NEW n \in Fresh, \A l \in 1..Len(c) : c[l][2] = 2 => c[l][1] < n PROVE n \in Fresh'
  BY <1>8, <1>10 DEF Fresh
<1>11. writing'[1] \in Fresh'
  BY <1>2, <1>6, <1>10 DEF UnreadIsFresh
<1>12. ASSUME NEW i \in Inode, i > tail.ino PROVE <<i, 0>> \in FreshFrom'
  <2>1. <<i, 0>> \in FreshFrom
    BY <1>12 DEF UnreadIsFresh
  <2>2. \A l \in 1..Len(content[i]) : l > 0 /\ content[i][l][2] = 2 => content[i][l][1] \in Fresh
    BY <2>1, FreshFromIs
  <2>3. ASSUME NEW l \in 1..Len(content[i]), l > 0, content[i][l][2] = 2 PROVE content[i][l][1] \in Fresh'
    <3>1. content[i][l][1] \in Fresh
      BY <2>2, <2>3
    <3>2. \A h \in 1..Len(c) : c[h][2] = 2 => c[h][1] < content[i][l][1]
      BY <1>6, <1>12, <2>3
    <3> QED
      BY <1>10, <3>1, <3>2
  <2>4. content' = content
    BY <1>2
  <2> QED
    BY <2>3, <2>4, FreshFromNext
<1>13. CASE tail.offset < Len(c)
  <2>1. tail'.offset = Len(c) /\ content'[tail'.ino] = c /\ tail'.ino \in Inode
    BY <1>0, <1>2, <1>13 DEF c
  <2>2. <<tail'.ino, tail'.offset>> \in FreshFrom'
    <3>1. \A l \in 1..Len(c) : ~(l > Len(c))
      BY <1>1
    <3>2. \A l \in 1..Len(content'[tail'.ino]) : ~(l > tail'.offset)
      BY <2>1, <3>1
    <3>3. tail'.offset \in Nat
      BY <1>1, <2>1
    <3> QED
      BY <2>1, <3>2, <3>3 DEF FreshFrom
  <2>3. tail'.offset <= Len(content'[tail'.ino]) /\ tail'.size <= tail'.offset
    BY <1>1, <1>2, <1>4, <2>1
  <2> QED
    BY <1>2, <1>9, <1>11, <1>12, <2>2, <2>3 DEF UnreadIsFresh
<1>14. CASE ~(tail.offset < Len(c))
  <2>1. tail'.offset = tail.offset /\ content'[tail'.ino] = c /\ tail'.ino = tail.ino
    BY <1>2, <1>14 DEF c
  <2>2. Pending' \subseteq Pending
    BY <1>1, <1>8, <1>14
  <2>3. FreshFrom \subseteq FreshFrom'
    BY <1>2, <2>2, FreshStays, FreshFromStays
  <2>4. \/ <<tail'.ino, 0>> \in FreshFrom'
        \/ /\ <<tail'.ino, tail'.offset>> \in FreshFrom'
           /\ tail'.offset <= Len(content'[tail'.ino]) /\ tail'.size <= tail'.offset
    BY <1>1, <1>2, <1>4, <1>14, <2>1, <2>3
  <2> QED
    BY <1>2, <1>9, <1>11, <1>12, <2>4 DEF UnreadIsFresh
<1> QED
  BY <1>13, <1>14

\* The first line of pending is emitted, or dropped.
LEMMA UnreadEmits ==
    ASSUME FileShape, QueueShape, NothingOpen, UnreadIsFresh, PendingAscends, FileAscends, EmitLine,
           Entries' = Entries \/ EmitsLine
    PROVE  UnreadIsFresh' /\ PendingAscends' /\ FileAscends'
<1> DEFINE p == tail.pending  k == FirstLine(p)  s == SubSeq(p, 1, k)
<1>1. /\ UNCHANGED <<content, path, writing>> /\ tail.pc = "emit" /\ tail'.pc # "read"
      /\ tail'.ino = tail.ino /\ tail'.offset = tail.offset /\ tail'.size = tail.size
      /\ k \in 0..Len(p)
      /\ k = 0 => tail'.pending = p
      /\ k # 0 => /\ s \in Line /\ Len(s) = k /\ \A j \in 1..k : s[j] = p[j]
                  /\ Len(tail'.pending) = Len(p) - k
                  /\ \A j \in 1..(Len(p) - k) : tail'.pending[j] = p[k + j]
  BY EmitLineTail
<1>2. Len(p) \in Nat /\ p \in Seq(Piece)
  BY TailFacts
<1>3. CASE k = 0
  <2>1. Entries' = Entries /\ tail'.pending = tail.pending
    BY <1>1, <1>3 DEF EmitsLine
  <2>2. Emitted' = Emitted /\ FileAscends'
    BY <2>1, EntriesSame
  <2> QED
    BY <1>1, <2>1, <2>2, ReadSame, UnreadStays
<1>4. CASE k # 0
  <2>1. p[k][2] = 2
    BY <1>2, <1>4, FirstLineEnds
  <2>2. p[k][1] \in Pending /\ k \in 1..Len(p)
    BY <1>1, <1>2, <1>4, <2>1, PendingNumbers
  <2>3. Emitted' \subseteq Emitted \union {p[k][1]} /\ FileAscends'
    <3>1. CASE Entries' = Entries
      BY <3>1, EntriesSame
    <3>2. CASE EmitsLine
      <4> DEFINE e == <<"file", s>>
      <4>1. e \in Entry /\ e[1] = "file" /\ e[2] = s /\ Entries' = Append(Entries, e)
        BY <3>2, LineEntry DEF EmitsLine
      <4>2. Last(s) = p[k]
        <5>1. s \in Line /\ Len(s) = k /\ s[k] = p[k]
          BY <1>1, <1>4, <2>2
        <5> HIDE DEF s, k, p
        <5> QED
          BY <5>1, LineFacts
      <4> HIDE DEF e, s, p, k
      <4>3. /\ \A i \in 1..Len(Entries) : Entries'[i] = Entries[i]
            /\ Entries'[Len(Entries) + 1] = e
            /\ From("file")' = From("file") \union {Len(Entries) + 1}
        BY <4>1, EntriesGrow
      <4>4. Len(Entries) \in Nat /\ From("file") \subseteq 1..Len(Entries)
        BY EntryFacts
      <4>5. /\ \A i \in From("file") : Entries'[i] = Entries[i]
            /\ Last(Entries'[Len(Entries) + 1][2])[1] = p[k][1]
        BY <4>1, <4>2, <4>3, <4>4
      <4>6. Emitted' \subseteq Emitted \union {p[k][1]}
        BY <4>3, <4>5 DEF Emitted
      <4>7. \A i \in From("file") : Last(Entries[i][2])[1] < p[k][1]
        <5>1. \A m \in Emitted : m < p[k][1]
          BY <2>1, <2>2 DEF PendingAscends, p
        <5> QED
          BY <5>1 DEF Emitted
      <4>8. ASSUME NEW i \in From("file")', NEW l \in From("file")', l < i
            PROVE  Last(Entries'[l][2])[1] < Last(Entries'[i][2])[1]
        <5>1. l \in From("file")
          BY <4>3, <4>4, <4>8
        <5>2. CASE i \in From("file")
          BY <4>5, <4>8, <5>1, <5>2 DEF FileAscends
        <5>3. CASE i = Len(Entries) + 1
          BY <4>5, <4>7, <5>1, <5>3
        <5> QED
          BY <4>3, <5>2, <5>3
      <4>9. FileAscends'
        BY <4>8 DEF FileAscends
      <4> QED
        BY <4>6, <4>9
    <3> QED
      BY <3>1, <3>2
  <2> HIDE DEF k, p, s
  <2>4. ASSUME NEW j \in 1..Len(tail'.pending)
        PROVE  k + j \in 1..Len(p) /\ tail'.pending[j] = p[k + j] /\ j \in 1..(Len(p) - k)
    <3>1. j \in 1..(Len(p) - k)
      BY <1>1, <1>4
    <3> QED
      BY <1>1, <1>2, <1>4, <2>2, <3>1
  <2>5. Pending' \subseteq Pending
    <3> SUFFICES ASSUME NEW j \in 1..Len(tail'.pending), tail'.pending[j][2] = 2
                 PROVE  tail'.pending[j][1] \in Pending
      BY DEF Pending
    <3> QED
      BY <2>4, PendingNumbers DEF p
  <2>6. Emitted' \union Pending' \subseteq Emitted \union Pending
    BY <2>2, <2>3, <2>5
  <2>7. UnreadIsFresh'
    BY <1>1, <2>6, FreshStays, UnreadStays
  <2>8. PendingAscends'
    <3> SUFFICES ASSUME NEW j \in 1..Len(tail'.pending), tail'.pending[j][2] = 2
                 PROVE  /\ \A m \in Emitted' : m < tail'.pending[j][1]
                        /\ \A l \in 1..(j - 1) : tail'.pending[l][2] = 2 => tail'.pending[l][1] < tail'.pending[j][1]
      BY DEF PendingAscends
    <3>1. k + j \in 1..Len(p) /\ tail'.pending[j] = p[k + j] /\ k \in Nat \ {0} /\ k \in 1..((k + j) - 1)
      BY <2>2, <2>4
    <3>2. /\ \A m \in Emitted : m < p[k + j][1]
          /\ \A l \in 1..((k + j) - 1) : p[l][2] = 2 => p[l][1] < p[k + j][1]
      BY <3>1 DEF PendingAscends, p
    <3>3. \A l \in 1..(j - 1) : l \in 1..Len(tail'.pending) /\ k + l \in 1..((k + j) - 1)
      BY <3>1
    <3>4. \A l \in 1..(j - 1) : tail'.pending[l] = p[k + l]
      BY <2>4, <3>3
    <3>5. p[k][1] < p[k + j][1]
      BY <2>1, <3>1, <3>2
    <3>6. \A m \in Emitted' : m < tail'.pending[j][1]
      BY <2>3, <3>1, <3>2, <3>5
    <3>7. ASSUME NEW l \in 1..(j - 1), tail'.pending[l][2] = 2 PROVE tail'.pending[l][1] < tail'.pending[j][1]
      BY <3>1, <3>2, <3>3, <3>4, <3>7
    <3> QED
      BY <3>6, <3>7
  <2> QED
    BY <2>3, <2>7, <2>8
<1> QED
  BY <1>3, <1>4

LEMMA OrderStep ==
    ASSUME FileShape, QueueShape, JournalShape, FilesInv, PendingAscends, UnreadIsFresh, FileAscends,
           "torn" \notin logMay, [LogNext]_logVars
    PROVE  PendingAscends' /\ UnreadIsFresh' /\ FileAscends'
<1>0. InodesInTurn /\ NothingOpen /\ LinesAscend /\ Emitted \subseteq Nat
  BY EmittedNumbers DEF FilesInv
<1>1. Entries' = Entries \/ EmitsLine \/ EmitsJournal
  BY EntriesMove
<1>2. CASE EmitLine
  <2>1. Entries' = Entries \/ EmitsLine
    <3>1. EmitsJournal => Entries' = Entries
      BY <1>2, NoJournalLine DEF EmitsJournal
    <3> QED
      BY <1>1, <3>1
  <2> QED
    BY <1>0, <1>2, <2>1, UnreadEmits
<1>3. CASE ~EmitLine
  <2>1. Emitted' = Emitted /\ FileAscends'
    <3>1. CASE Entries' = Entries
      BY <3>1, EntriesSame
    <3>2. CASE EmitsJournal
      <4> DEFINE e == <<"journald", reader>>
      <4>1. e \in Entry /\ e[1] = "journald" /\ Entries' = Append(Entries, e)
        BY <3>2, LogBounds DEF EmitsJournal, JournalLine, JournalShape, Entry
      <4> HIDE DEF e
      <4> QED
        BY <4>1, OtherSource
    <3> QED
      BY <1>1, <1>3, <3>1, <3>2 DEF EmitsLine
  <2>2. CASE Write
    <3>1. tail' = tail
      BY <2>2, WriteAppends
    <3> QED
      BY <1>0, <2>1, <2>2, <3>1, UnreadWrites, ReadSame
  <2>3. CASE TruncateFile
    <3>1. tail' = tail
      BY <2>3 DEF TruncateFile
    <3> QED
      BY <1>0, <2>1, <2>3, <3>1, UnreadTruncates, ReadSame
  <2>4. CASE Poll
    BY <1>0, <2>1, <2>4, UnreadPolls
  <2>5. CASE ReadFile
    BY <1>0, <2>1, <2>5, UnreadReads
  <2>6. CASE UNCHANGED <<content, writing, tail>>
    <3>1. Fresh' = Fresh /\ PendingAscends'
      BY <2>1, <2>6, ReadSame
    <3> QED
      BY <2>1, <2>6, <3>1, UnreadStays
  <2> QED
    BY <1>0, <1>3, <2>2, <2>3, <2>4, <2>5, <2>6, WhoMoves DEF RotateAway, Recreate
<1> QED
  BY <1>2, <1>3

-----------------------------------------------------------------------------
LEMMA IntactInit == LogInit(LogRegimes) => IntactInv
<1> SUFFICES ASSUME LogInit(LogRegimes) PROVE IntactInv
  OBVIOUS
<1>1. /\ content = [i \in Inode |-> <<>>] /\ path = 1 /\ writing = <<1, 1>> /\ tail = Closed
      /\ journal = 0 /\ reader = 0 /\ raw = <<>> /\ buf = <<>> /\ shipped = <<>>
  BY DEF LogInit
<1>2. /\ tail.pc = "wait" /\ tail.ino = 0 /\ tail.pending = <<>>
      /\ Len(tail.pending) = 0
  BY <1>1, EmptyLen DEF Closed
<1>3. 1 \in Inode /\ \A i \in Inode : content[i] = <<>> /\ Len(content[i]) = 0 /\ i > 0 /\ i >= 1
  BY <1>1, LogBounds, EmptyLen
<1>4. FileShape
  BY <1>1, ClosedShape, EmptySeq, LogBounds DEF FileShape
<1>5. QueueShape /\ JournalShape
  BY <1>1, EmptySeq, LogBounds DEF QueueShape, JournalShape
<1>6. Len(Entries) = 0
  <2>1. shipped \o buf = <<>>
    BY <1>1, ConcatEmptySeq, EmptySeq DEF QueueShape
  <2> QED
    BY <1>1, <2>1, ConcatEmptySeq, EmptySeq, EmptyLen DEF Entries
<1>7. From("file") = {} /\ From("journald") = {} /\ Emitted = {} /\ Pending = {}
  <2>1. From("file") = {} /\ From("journald") = {}
    BY <1>5, <1>6, EntryFacts
  <2> QED
    BY <1>2, <2>1 DEF Emitted, Pending
<1>8. JournalInv /\ JournalAscends /\ LinesWhole /\ FileAscends
  BY <1>7 DEF JournalInv, JournalAscends, LinesWhole, FileAscends
<1>9. FilesInv
  <2>1. InodesInTurn
    BY <1>1, <1>2, <1>3, LogBounds DEF InodesInTurn
  <2>2. PiecesFollow
    BY <1>1, <1>3 DEF PiecesFollow
  <2>3. LinesAscend
    BY <1>3 DEF LinesAscend
  <2> QED
    BY <1>2, <2>1, <2>2, <2>3 DEF FilesInv, NothingOpen
<1>10. SliceInv
  BY <1>2, <1>7 DEF SliceInv
<1>11. PendingAscends
  BY <1>2 DEF PendingAscends
<1>12. UnreadIsFresh
  <2>1. Fresh = Nat
    BY <1>7 DEF Fresh
  <2>2. \A i \in Inode : <<i, 0>> \in FreshFrom
    BY <1>3, FreshFromIs
  <2> QED
    BY <1>1, <1>2, <2>1, <2>2 DEF UnreadIsFresh
<1> QED
  BY <1>4, <1>5, <1>8, <1>9, <1>10, <1>11, <1>12 DEF IntactInv

LEMMA IntactStep == IntactInv /\ [LogNext]_logVars => IntactInv'
<1> SUFFICES ASSUME IntactInv, [LogNext]_logVars PROVE IntactInv'
  OBVIOUS
<1>1. FileShape /\ QueueShape /\ JournalShape /\ FilesInv /\ JournalInv /\ JournalAscends
  BY DEF IntactInv
<1>2. InodesInTurn /\ NothingOpen /\ PiecesFollow /\ LinesAscend
  BY <1>1 DEF FilesInv
<1>3. FileShape' /\ QueueShape' /\ JournalShape'
  BY <1>1, <1>2, FilesMove, EntriesMove, JournalMoves
<1>4. FilesInv'
  BY <1>1, <1>2, TurnMoves, FollowMoves, AscendMoves DEF FilesInv
<1>5. JournalInv' /\ JournalAscends'
  BY <1>1, JournalStepInv
<1>6. logMay' = logMay
  BY DEF LogNext, TailerStep, Poll, ReadFile, EmitLine, JournalStep, JournalStart, JournalLine, JournalSkip,
         JournalEnds, BatchStep, Take, FlushTick, StartDrain, Drain, LogWorld, Write, RotateAway, Recreate,
         TruncateFile, JournalWrite, Cancel, logVars
<1>7. logMay \intersect {"truncate", "torn"} = {} => SliceInv' /\ LinesWhole'
  BY <1>1, SliceStep DEF IntactInv
<1>8. "torn" \notin logMay => PendingAscends' /\ UnreadIsFresh' /\ FileAscends'
  BY <1>1, OrderStep DEF IntactInv
<1> QED
  BY <1>3, <1>4, <1>5, <1>6, <1>7, <1>8 DEF IntactInv

LEMMA IntactImplies == IntactInv => ShippedIntact
<1> QED
  BY DEF IntactInv, ShippedIntact, NoSplicedLine, ShippedInOrder, LinesWhole, FileAscends, JournalAscends

\* Lines are shipped whole, in order and none twice (FileTailer.Run, JournaldReader,
\* Manager.batchLoop), whatever the file does: for any number of lines and inodes and
\* queues of any size, but for what a truncation that cannot be seen does.
THEOREM ShippedIntactAlways == LogSpec => []ShippedIntact
<1> QED
  BY IntactInit, IntactStep, IntactImplies, PTL DEF LogSpec

-----------------------------------------------------------------------------
\* Retention: what the purges delete.

\* A retention or a cap that is resolved is an integer, and a retention of days is at
\* least one unless a fraction was cut.
LEMMA ResolvedSetting ==
    ASSUME NEW s \in Settings
    PROVE  /\ resolveIntSetting(s["days"], DefaultDays) \in Nat
           /\ resolveIntSetting(s["rows"], DefaultRows) \in Nat
           /\ ~CutToZero(s["days"]) => resolveIntSetting(s["days"], DefaultDays) >= 1
<1>1. DefaultDays \in Nat \ {0} /\ DefaultRows \in Nat \ {0}
  BY RetentionAssumption
<1>2. \A v \in {s["days"], s["rows"]} : /\ v.kind = "number" => v.tenths \in Int
                                        /\ v.kind = "numeral" => v.int \in Int
  BY SettingsAssumption
<1>3. ASSUME NEW v \in {s["days"], s["rows"]}, NEW d \in Nat \ {0}
      PROVE  /\ resolveIntSetting(v, d) \in Nat
             /\ ~CutToZero(v) => resolveIntSetting(v, d) >= 1
  <2>1. CASE v.kind = "number" /\ v.tenths > 0
    <3>1. v.tenths \in Nat \ {0} /\ resolveIntSetting(v, d) = v.tenths \div 10
      BY <1>2, <2>1 DEF resolveIntSetting
    <3>2. v.tenths \div 10 \in Nat /\ (v.tenths \notin 1..9 => v.tenths \div 10 >= 1)
      BY <3>1
    <3> QED
      BY <2>1, <3>1, <3>2 DEF CutToZero
  <2>2. CASE ~(v.kind = "number" /\ v.tenths > 0) /\ v.kind = "numeral" /\ v.int > 0
    BY <1>2, <2>2 DEF resolveIntSetting
  <2>3. CASE ~(v.kind = "number" /\ v.tenths > 0) /\ ~(v.kind = "numeral" /\ v.int > 0)
    BY <2>3 DEF resolveIntSetting
  <2> QED
    BY <2>1, <2>2, <2>3
<1> QED
  BY <1>1, <1>3

Sweeper == [pc : {"idle", "audit", "logs", "cap", "results"}, cutoff : Int, del : SUBSET Row,
            more : BOOLEAN, excess : Int]

Cap == resolveIntSetting(setting["rows"], DefaultRows)

KeepShape ==
    /\ day \in 0..Days /\ written \in 0..MaxRowsStored /\ setting \in Settings
    /\ table \in [Table -> SUBSET Row] /\ \A t \in Table : IsFiniteSet(table[t])
    /\ hourly \in Sweeper /\ results \in Sweeper
    /\ hourly.pc # "results" /\ results.pc \in {"idle", "results"}

\* The rows a purge by age is about to delete, and the cutoff of its next page, lie
\* before the day.
AgedOnly ==
    ~CutToZero(setting["days"]) =>
        /\ hourly.pc \in {"audit", "logs"} => \A r \in hourly.del : r.ts < day
        /\ hourly.pc = "logs" => hourly.cutoff < day
        /\ results.pc = "results" => results.cutoff < day /\ \A r \in results.del : r.ts < day

\* While the cap is enforced there are as many rows above it as are still to go, and a
\* page holds no more than those.
ExcessIsReal ==
    hourly.pc = "cap" =>
        /\ IsFiniteSet(hourly.del) /\ Cardinality(hourly.del) <= hourly.excess
        /\ "forget" \notin faulted => Cardinality(table["logs"]) >= Cap + hourly.excess

KeepInv == KeepShape /\ AgedOnly /\ ExcessIsReal

LEMMA AsleepShape ==
    /\ Asleep \in Sweeper /\ Asleep.pc = "idle" /\ Asleep.del = {}
    /\ Asleep = [pc |-> "idle", cutoff |-> 0, del |-> {}, more |-> FALSE, excess |-> 0]
  BY DEF Asleep, Sweeper

LEMMA KeepInvInit == KeepInit(SweepRegimes) => KeepInv
<1> SUFFICES ASSUME KeepInit(SweepRegimes) PROVE KeepInv
  OBVIOUS
<1>1. /\ day = 0 /\ table = [t \in Table |-> {}] /\ written = 0
      /\ setting \in Settings /\ hourly = Asleep /\ results = Asleep
  BY DEF KeepInit
<1>2. \A t \in Table : IsFiniteSet(table[t]) /\ table[t] = {}
  BY <1>1, FS_EmptySet
<1>3. KeepShape
  BY <1>1, <1>2, AsleepShape, RetentionAssumption DEF KeepShape
<1>4. AgedOnly /\ ExcessIsReal
  BY <1>1, AsleepShape DEF AgedOnly, ExcessIsReal
<1> QED
  BY <1>3, <1>4 DEF KeepInv

\* The age cutoff of a purge lies before the day.
LEMMA CutoffBefore ==
    ASSUME KeepShape
    PROVE  AgeCutoff \in Int /\ (~CutToZero(setting["days"]) => AgeCutoff < day)
<1>1. day \in Nat /\ setting \in Settings
  BY RetentionAssumption DEF KeepShape
<1> QED
  BY <1>1, ResolvedSetting DEF AgeCutoff

\* A page is a finite part of what was asked for, of at most the limit.
LEMMA PageShape ==
    ASSUME NEW from, IsFiniteSet(from), NEW limit, NEW b \in Page(from, limit)
    PROVE  b \subseteq from /\ IsFiniteSet(b) /\ Cardinality(b) \in Nat /\ Cardinality(b) <= limit
<1>1. b \subseteq from /\ Cardinality(b) <= limit
  BY DEF Page
<1>2. IsFiniteSet(b)
  BY <1>1, FS_Subset
<1> QED
  BY <1>1, <1>2, FS_CardinalityType

\* Steps in which the rows of logs grow or stay and no sweeper moves.
LEMMA StoreKeeps ==
    ASSUME KeepInv, NEW t \in Table, NEW a \in Agent, Store(t, a)
    PROVE  KeepInv'
<1>1. /\ written < MaxRowsStored /\ written' = written + 1
      /\ UNCHANGED <<day, setting, hourly, results, faulted>>
  BY DEF Store
<1>2. day \in Nat /\ day <= Days /\ written \in Nat /\ Days \in Nat /\ MaxRowsStored \in Nat
  BY RetentionAssumption DEF KeepInv, KeepShape
<1>3. PICK ts \in 0..Days :
        table' = [table EXCEPT ![t] = @ \union {[agent |-> a, ts |-> ts, n |-> written + 1]}]
  <2>1. PICK ts \in IF t = "logs" /\ day > 0 THEN {day - 1, day} ELSE {day} :
          table' = [table EXCEPT ![t] = @ \union {[agent |-> a, ts |-> ts, n |-> written + 1]}]
    BY DEF Store
  <2>2. ts \in 0..Days
    BY <1>2
  <2> QED
    BY <2>1, <2>2
<1> DEFINE r == [agent |-> a, ts |-> ts, n |-> written + 1]
<1>4. r \in Row
  BY <1>1, <1>2 DEF Row
<1> HIDE DEF r
<1>5. table' = [table EXCEPT ![t] = table[t] \union {r}]
  BY <1>3 DEF KeepInv, KeepShape, r
<1>6. table'[t] = table[t] \union {r} /\ \A u \in Table \ {t} : table'[u] = table[u]
  BY <1>5 DEF KeepInv, KeepShape
<1>7. table' \in [Table -> SUBSET Row]
  BY <1>4, <1>5 DEF KeepInv, KeepShape
<1>8. ASSUME NEW u \in Table PROVE IsFiniteSet(table'[u])
  <2>1. IsFiniteSet(table[u])
    BY DEF KeepInv, KeepShape
  <2>2. CASE u = t
    <3>1. IsFiniteSet(table[u] \union {r})
      BY <2>1, FS_AddElement
    <3> QED
      BY <1>6, <2>2, <3>1
  <2>3. CASE u # t
    BY <1>6, <2>1, <2>3
  <2> QED
    BY <2>2, <2>3
<1>9. written' \in 0..MaxRowsStored
  BY <1>1, <1>2
<1>10. KeepShape'
  BY <1>1, <1>7, <1>8, <1>9 DEF KeepInv, KeepShape
<1>11. AgedOnly'
  BY <1>1 DEF KeepInv, AgedOnly
<1>12. Cardinality(table'["logs"]) >= Cardinality(table["logs"])
       /\ Cardinality(table["logs"]) \in Nat /\ Cardinality(table'["logs"]) \in Nat
  <2>1. "logs" \in Table /\ table["logs"] \subseteq table'["logs"]
    BY <1>6 DEF Table
  <2> QED
    BY <1>8, <2>1, FS_Subset, FS_CardinalityType DEF KeepInv, KeepShape
<1>13. Cap' = Cap /\ Cap \in Nat
  BY <1>1, ResolvedSetting DEF Cap, KeepInv, KeepShape
<1>14. ExcessIsReal'
  <2>1. hourly.excess \in Int
    BY DEF KeepInv, KeepShape, Sweeper
  <2> QED
    BY <1>1, <1>12, <1>13, <2>1 DEF KeepInv, ExcessIsReal
<1> QED
  BY <1>10, <1>11, <1>14 DEF KeepInv

LEMMA ForgetKeeps ==
    ASSUME KeepInv, ForgetAgent
    PROVE  KeepInv'
<1>1. "forget" \in faulted' /\ UNCHANGED <<day, written, setting, hourly, results>>
  BY DEF ForgetAgent, Once
<1>2. PICK a \in Agent : table' = [table EXCEPT !["logs"] = {r \in table["logs"] : r.agent # a}]
  BY DEF ForgetAgent, KeepInv, KeepShape, Table
<1>3. /\ table'["logs"] = {r \in table["logs"] : r.agent # a}
      /\ \A u \in Table \ {"logs"} : table'[u] = table[u]
      /\ table' \in [Table -> SUBSET Row]
  BY <1>2 DEF KeepInv, KeepShape, Table
<1>4. ASSUME NEW u \in Table PROVE IsFiniteSet(table'[u])
  <2>1. IsFiniteSet(table[u]) /\ table'[u] \subseteq table[u]
    BY <1>3 DEF KeepInv, KeepShape
  <2> QED
    BY <2>1, FS_Subset
<1>5. KeepShape'
  BY <1>1, <1>3, <1>4 DEF KeepInv, KeepShape
<1>6. AgedOnly' /\ ExcessIsReal'
  BY <1>1 DEF KeepInv, AgedOnly, ExcessIsReal
<1> QED
  BY <1>5, <1>6 DEF KeepInv

LEMMA NextDayKeeps ==
    ASSUME KeepInv, NextDay
    PROVE  KeepInv'
<1>1. /\ day < Days /\ day' = day + 1 /\ hourly.pc = "idle" /\ results.pc = "idle"
      /\ UNCHANGED <<table, written, setting, hourly, results, faulted>>
  BY DEF NextDay
<1>2. day' \in 0..Days
  BY <1>1, RetentionAssumption DEF KeepInv, KeepShape
<1>3. KeepShape'
  BY <1>1, <1>2 DEF KeepInv, KeepShape
<1>4. AgedOnly' /\ ExcessIsReal'
  BY <1>1 DEF AgedOnly, ExcessIsReal
<1> QED
  BY <1>3, <1>4 DEF KeepInv

\* Steps of the hourly goroutine that delete nothing and are not about the cap.
LEMMA HourlyMoves ==
    ASSUME KeepInv, UNCHANGED <<day, table, written, setting, results>>,
           hourly' \in Sweeper, hourly'.pc \in {"idle", "audit", "logs"},
           ~CutToZero(setting["days"]) =>
               /\ hourly'.pc = "logs" => hourly'.cutoff < day
               /\ \A r \in hourly'.del : r.ts < day
    PROVE  KeepInv'
<1>1. KeepShape'
  BY DEF KeepInv, KeepShape
<1>2. AgedOnly' /\ ExcessIsReal'
  BY DEF KeepInv, AgedOnly, ExcessIsReal
<1> QED
  BY <1>1, <1>2 DEF KeepInv

\* The rows of a page by age lie before a cutoff.
LEMMA StalePage ==
    ASSUME KeepShape, NEW t \in Table, NEW c \in Int, NEW limit, NEW b \in Page(Stale(t, c), limit)
    PROVE  b \subseteq Row /\ (c < day => \A r \in b : r.ts < day)
<1>1. b \subseteq Stale(t, c) /\ Stale(t, c) \subseteq Row
  BY DEF Page, Stale, KeepShape
<1>2. ASSUME c < day, NEW r \in b PROVE r.ts < day
  <2>1. r.ts < c /\ r.ts \in Int /\ day \in Int
    BY <1>1, RetentionAssumption DEF Stale, Row, KeepShape
  <2> QED
    BY <1>2, <2>1
<1> QED
  BY <1>1, <1>2

LEMMA AuditPurgeKeeps ==
    ASSUME KeepInv, AuditPurge
    PROVE  KeepInv'
<1>1. UNCHANGED <<day, table, written, setting, results>>
  BY DEF AuditPurge
<1>2. PICK b \in SUBSET Row : /\ hourly' = [Asleep EXCEPT !.pc = "audit", !.del = b]
                              /\ ~CutToZero(setting["days"]) => \A r \in b : r.ts < day
  <2>1. CASE \E b \in Page(Stale("audit_log", AgeCutoff), AuditBatch) :
               hourly' = [Asleep EXCEPT !.pc = "audit", !.del = b]
    <3>1. PICK b \in Page(Stale("audit_log", AgeCutoff), AuditBatch) :
               hourly' = [Asleep EXCEPT !.pc = "audit", !.del = b]
      BY <2>1
    <3>2. KeepShape /\ "audit_log" \in Table
      BY DEF KeepInv, Table
    <3>3. AgeCutoff \in Int /\ (~CutToZero(setting["days"]) => AgeCutoff < day)
      BY <3>2, CutoffBefore
    <3>4. b \in SUBSET Row /\ (AgeCutoff < day => \A r \in b : r.ts < day)
      BY <3>2, <3>3, StalePage
    <3> QED
      BY <3>1, <3>3, <3>4
  <2>2. CASE hourly' = [Asleep EXCEPT !.pc = "audit"]
    <3>1. hourly' = [Asleep EXCEPT !.pc = "audit", !.del = {}]
      BY <2>2, AsleepShape
    <3>2. {} \in SUBSET Row /\ \A r \in {} : r.ts < day
      OBVIOUS
    <3> QED
      BY <3>1, <3>2
  <2> QED
    BY <2>1, <2>2 DEF AuditPurge
<1>3. hourly' \in Sweeper /\ hourly'.pc = "audit" /\ hourly'.del = b
  BY <1>2, AsleepShape DEF Sweeper
<1> QED
  BY <1>1, <1>2, <1>3, HourlyMoves

LEMMA LogsPurgeKeeps ==
    ASSUME KeepInv, LogsPurge
    PROVE  KeepInv'
<1>1. /\ hourly' = [Asleep EXCEPT !.pc = "logs", !.cutoff = AgeCutoff, !.more = TRUE]
      /\ UNCHANGED <<day, table, written, setting, results>>
  BY DEF LogsPurge
<1>2. AgeCutoff \in Int /\ (~CutToZero(setting["days"]) => AgeCutoff < day)
  BY CutoffBefore DEF KeepInv
<1>3. hourly' \in Sweeper /\ hourly'.pc = "logs" /\ hourly'.cutoff = AgeCutoff /\ hourly'.del = {}
  BY <1>1, <1>2, AsleepShape DEF Sweeper
<1> QED
  BY <1>1, <1>2, <1>3, HourlyMoves

LEMMA LogsPageKeeps ==
    ASSUME KeepInv, LogsPage
    PROVE  KeepInv'
<1>1. hourly.pc = "logs" /\ hourly.del = {} /\ UNCHANGED <<day, table, written, setting, results>>
  BY DEF LogsPage
<1>2. hourly.cutoff \in Int /\ (~CutToZero(setting["days"]) => hourly.cutoff < day)
  BY <1>1 DEF KeepInv, KeepShape, Sweeper, AgedOnly
<1>3. CASE \E b \in Page(Stale("logs", hourly.cutoff), LogBatch) :
             hourly' = [hourly EXCEPT !.del = b, !.more = Again(b)]
  <2>1. PICK b \in Page(Stale("logs", hourly.cutoff), LogBatch) :
          hourly' = [hourly EXCEPT !.del = b, !.more = Again(b)]
    BY <1>3
  <2>2. b \subseteq Row /\ (hourly.cutoff < day => \A r \in b : r.ts < day)
    BY <1>2, StalePage DEF KeepInv, Table
  <2>3. Again(b) \in BOOLEAN
    BY DEF Again
  <2>4. /\ hourly' \in Sweeper /\ hourly'.pc = "logs" /\ hourly'.cutoff = hourly.cutoff
        /\ hourly'.del = b
    BY <1>1, <2>1, <2>2, <2>3 DEF KeepInv, KeepShape, Sweeper
  <2> QED
    BY <1>1, <1>2, <2>2, <2>4, HourlyMoves
<1>4. CASE hourly' = [hourly EXCEPT !.more = FALSE]
  <2>1. /\ hourly' \in Sweeper /\ hourly'.pc = "logs" /\ hourly'.cutoff = hourly.cutoff
        /\ hourly'.del = {}
    BY <1>1, <1>4 DEF KeepInv, KeepShape, Sweeper
  <2> QED
    BY <1>1, <1>2, <2>1, HourlyMoves
<1> QED
  BY <1>3, <1>4 DEF LogsPage

\* EnforceMaxRows counts what is over the cap.
LEMMA CapStartKeeps ==
    ASSUME KeepInv, CapStart
    PROVE  KeepInv'
<1>1. UNCHANGED <<day, table, written, setting, results, faulted>>
  BY DEF CapStart
<1>2. CASE Excess <= 0
  <2>1. hourly' = Asleep
    BY <1>2 DEF CapStart
  <2> QED
    BY <1>1, <2>1, AsleepShape, HourlyMoves
<1>3. CASE ~(Excess <= 0)
  <2>1. hourly' = [Asleep EXCEPT !.pc = "cap", !.excess = Excess]
    BY <1>3 DEF CapStart
  <2>2. Cardinality(table["logs"]) \in Nat /\ Cap \in Nat
    BY FS_CardinalityType, ResolvedSetting DEF KeepInv, KeepShape, Table, Cap
  <2>3. Excess \in Nat /\ Cardinality(table["logs"]) >= Cap + Excess
    BY <1>3, <2>2 DEF Excess, Cap
  <2>4. hourly' \in Sweeper /\ hourly'.pc = "cap" /\ hourly'.excess = Excess /\ hourly'.del = {}
    <3>1. Excess \in Int
      BY <2>3
    <3> QED
      BY <2>1, <3>1, AsleepShape DEF Sweeper
  <2>5. KeepShape'
    BY <1>1, <2>4 DEF KeepInv, KeepShape
  <2>6. AgedOnly'
    BY <1>1, <2>4 DEF KeepInv, AgedOnly
  <2>7. Cap' = Cap
    BY <1>1 DEF Cap
  <2>8. ExcessIsReal'
    BY <1>1, <2>3, <2>4, <2>7, FS_EmptySet DEF ExcessIsReal
  <2> QED
    BY <2>5, <2>6, <2>8 DEF KeepInv
<1> QED
  BY <1>2, <1>3

LEMMA CapPageKeeps ==
    ASSUME KeepInv, CapPage
    PROVE  KeepInv'
<1> DEFINE limit == IF hourly.excess < LogBatch THEN hourly.excess ELSE LogBatch
<1>1. hourly.pc = "cap" /\ UNCHANGED <<day, table, written, setting, results, faulted>>
  BY DEF CapPage
<1>2. CASE hourly' = Asleep
  BY <1>1, <1>2, AsleepShape, HourlyMoves
<1>3. CASE \E b \in Page(table["logs"], limit) : hourly' = [hourly EXCEPT !.del = b]
  <2>1. PICK b \in Page(table["logs"], limit) : hourly' = [hourly EXCEPT !.del = b]
    BY <1>3
  <2>2. IsFiniteSet(table["logs"]) /\ table["logs"] \subseteq Row
    BY DEF KeepInv, KeepShape, Table
  <2>3. b \subseteq Row /\ IsFiniteSet(b) /\ Cardinality(b) \in Nat /\ Cardinality(b) <= limit
    BY <2>2, PageShape
  <2>4. Cardinality(b) <= hourly.excess
    BY <2>3, RetentionAssumption DEF KeepInv, KeepShape, Sweeper
  <2>5. /\ hourly' \in Sweeper /\ hourly'.pc = "cap" /\ hourly'.excess = hourly.excess
        /\ hourly'.del = b
    BY <1>1, <2>1, <2>3 DEF KeepInv, KeepShape, Sweeper
  <2>6. KeepShape'
    BY <1>1, <2>5 DEF KeepInv, KeepShape
  <2>7. AgedOnly'
    BY <1>1, <2>5 DEF KeepInv, AgedOnly
  <2>8. ExcessIsReal'
    BY <1>1, <2>3, <2>4, <2>5 DEF KeepInv, ExcessIsReal, Cap
  <2> QED
    BY <2>6, <2>7, <2>8 DEF KeepInv
<1> QED
  BY <1>2, <1>3 DEF CapPage

\* A deletion takes away one row or none.
LEMMA RowDeleted ==
    ASSUME KeepShape, NEW t \in Table, NEW r, DeleteOne(t, r)
    PROVE  /\ table' \in [Table -> SUBSET Row] /\ \A u \in Table : IsFiniteSet(table'[u])
           /\ \A u \in Table : table[u] \ table'[u] \subseteq (IF u = t THEN {r} ELSE {})
           /\ \A u \in Table : /\ Cardinality(table[u]) \in Nat /\ Cardinality(table'[u]) \in Nat
                               /\ Cardinality(table'[u]) >= Cardinality(table[u]) - 1
           /\ "forget" \in faulted' <=> "forget" \in faulted
<1>1. "forget" \in faulted' <=> "forget" \in faulted
  BY DEF DeleteOne, Once
<1>2. CASE table' = table
  BY <1>1, <1>2, FS_CardinalityType DEF KeepShape
<1>3. CASE table' = [table EXCEPT ![t] = @ \ {r}]
  <2>1. /\ table'[t] = table[t] \ {r} /\ \A u \in Table \ {t} : table'[u] = table[u]
        /\ table' \in [Table -> SUBSET Row]
    BY <1>3 DEF KeepShape
  <2>2. ASSUME NEW u \in Table
        PROVE  /\ IsFiniteSet(table'[u]) /\ Cardinality(table[u]) \in Nat
               /\ Cardinality(table'[u]) \in Nat
               /\ Cardinality(table'[u]) >= Cardinality(table[u]) - 1
    <3>1. IsFiniteSet(table[u]) /\ Cardinality(table[u]) \in Nat
      BY FS_CardinalityType DEF KeepShape
    <3>2. CASE u = t
      <4>1. /\ IsFiniteSet(table[u] \ {r})
            /\ Cardinality(table[u] \ {r}) = IF r \in table[u] THEN Cardinality(table[u]) - 1
                                             ELSE Cardinality(table[u])
        BY <3>1, FS_RemoveElement
      <4>2. Cardinality(table[u] \ {r}) \in Nat
        BY <4>1, FS_CardinalityType
      <4> QED
        BY <2>1, <3>1, <3>2, <4>1, <4>2
    <3>3. CASE u # t
      BY <2>1, <3>1, <3>3
    <3> QED
      BY <3>2, <3>3
  <2> QED
    BY <1>1, <2>1, <2>2
<1> QED
  BY <1>2, <1>3 DEF DeleteOne

LEMMA HourlyDeleteKeeps ==
    ASSUME KeepInv, HourlyDelete
    PROVE  KeepInv'
<1> DEFINE t == IF hourly.pc = "audit" THEN "audit_log" ELSE "logs"
<1>1. hourly.pc \in {"audit", "logs", "cap"} /\ UNCHANGED <<day, written, setting, results>>
  BY DEF HourlyDelete
<1>2. PICK r \in hourly.del :
        /\ DeleteOne(t, r)
        /\ hourly' = [hourly EXCEPT !.del = @ \ {r},
                                    !.excess = IF hourly.pc = "cap" THEN @ - 1 ELSE @]
  BY DEF HourlyDelete
<1>3. /\ hourly' \in Sweeper /\ hourly'.pc = hourly.pc /\ hourly'.cutoff = hourly.cutoff
      /\ hourly'.del = hourly.del \ {r}
      /\ hourly'.excess = IF hourly.pc = "cap" THEN hourly.excess - 1 ELSE hourly.excess
      /\ hourly.excess \in Int
  <2>1. hourly.excess \in Int /\ hourly.excess - 1 \in Int
    BY DEF KeepInv, KeepShape, Sweeper
  <2> QED
    BY <1>2, <2>1 DEF KeepInv, KeepShape, Sweeper
<1>4. t \in Table
  BY DEF Table
<1>5. /\ table' \in [Table -> SUBSET Row] /\ \A u \in Table : IsFiniteSet(table'[u])
      /\ \A u \in Table : /\ Cardinality(table[u]) \in Nat /\ Cardinality(table'[u]) \in Nat
                          /\ Cardinality(table'[u]) >= Cardinality(table[u]) - 1
      /\ "forget" \in faulted' <=> "forget" \in faulted
  BY <1>2, <1>4, RowDeleted DEF KeepInv
<1> HIDE DEF t
<1>6. KeepShape'
  BY <1>1, <1>3, <1>5 DEF KeepInv, KeepShape
<1>7. AgedOnly'
  BY <1>1, <1>3 DEF KeepInv, AgedOnly
<1>8. CASE hourly.pc = "cap"
  <2>1. IsFiniteSet(hourly.del) /\ Cardinality(hourly.del) <= hourly.excess
    BY <1>8 DEF KeepInv, ExcessIsReal
  <2>2. /\ IsFiniteSet(hourly.del \ {r}) /\ Cardinality(hourly.del \ {r}) = Cardinality(hourly.del) - 1
        /\ Cardinality(hourly.del) \in Nat
    BY <2>1, FS_RemoveElement, FS_CardinalityType
  <2>3. IsFiniteSet(hourly'.del) /\ Cardinality(hourly'.del) <= hourly'.excess
    BY <1>3, <1>8, <2>1, <2>2
  <2>4. Cap' = Cap /\ Cap \in Nat
    BY <1>1, ResolvedSetting DEF Cap, KeepInv, KeepShape
  <2>5. "forget" \notin faulted => Cardinality(table["logs"]) >= Cap + hourly.excess
    BY <1>8 DEF KeepInv, ExcessIsReal
  <2>6. /\ Cardinality(table["logs"]) \in Nat /\ Cardinality(table'["logs"]) \in Nat
        /\ Cardinality(table'["logs"]) >= Cardinality(table["logs"]) - 1
    BY <1>5 DEF Table
  <2>7. "forget" \notin faulted' => Cardinality(table'["logs"]) >= Cap' + hourly'.excess
    BY <1>3, <1>5, <1>8, <2>4, <2>5, <2>6
  <2> QED
    BY <1>6, <1>7, <2>3, <2>7 DEF KeepInv, ExcessIsReal
<1>9. CASE hourly.pc # "cap"
  BY <1>3, <1>6, <1>7, <1>9 DEF KeepInv, ExcessIsReal
<1> QED
  BY <1>8, <1>9

\* Steps of the check scheduler's purge that delete nothing.
LEMMA ResultsMove ==
    ASSUME KeepInv, UNCHANGED <<day, table, written, setting, hourly>>, faulted \subseteq faulted',
           results' \in Sweeper, results'.pc \in {"idle", "results"},
           ~CutToZero(setting["days"]) /\ results'.pc = "results" =>
               results'.cutoff < day /\ \A r \in results'.del : r.ts < day
    PROVE  KeepInv'
<1>1. KeepShape'
  BY DEF KeepInv, KeepShape
<1>2. AgedOnly'
  BY DEF KeepInv, AgedOnly
<1>3. ExcessIsReal'
  BY DEF KeepInv, ExcessIsReal, Cap
<1> QED
  BY <1>1, <1>2, <1>3 DEF KeepInv

LEMMA ResultsStepKeeps ==
    ASSUME KeepInv, ResultsStep
    PROVE  KeepInv'
<1>1. CASE ResultsPurge
  <2>1. /\ results' = [Asleep EXCEPT !.pc = "results", !.cutoff = AgeCutoff, !.more = TRUE]
        /\ UNCHANGED <<day, table, written, setting, hourly, faulted>>
    BY <1>1 DEF ResultsPurge
  <2>2. AgeCutoff \in Int /\ (~CutToZero(setting["days"]) => AgeCutoff < day)
    BY CutoffBefore DEF KeepInv
  <2>3. results' \in Sweeper /\ results'.pc = "results" /\ results'.cutoff = AgeCutoff /\ results'.del = {}
    BY <2>1, <2>2, AsleepShape DEF Sweeper
  <2> QED
    BY <2>1, <2>2, <2>3, ResultsMove
<1>2. CASE ResultsPage
  <2>1. /\ results.pc = "results" /\ results.del = {}
        /\ UNCHANGED <<day, table, written, setting, hourly>> /\ faulted \subseteq faulted'
    BY <1>2 DEF ResultsPage, Once
  <2>2. results.cutoff \in Int /\ (~CutToZero(setting["days"]) => results.cutoff < day)
    BY <2>1 DEF KeepInv, KeepShape, Sweeper, AgedOnly
  <2>3. CASE \E b \in Page(Stale("check_results", results.cutoff), LogBatch) :
               results' = [results EXCEPT !.del = b, !.more = Again(b)]
    <3>1. PICK b \in Page(Stale("check_results", results.cutoff), LogBatch) :
            results' = [results EXCEPT !.del = b, !.more = Again(b)]
      BY <2>3
    <3>2. b \subseteq Row /\ (results.cutoff < day => \A r \in b : r.ts < day)
      BY <2>2, StalePage DEF KeepInv, Table
    <3>3. Again(b) \in BOOLEAN
      BY DEF Again
    <3>4. /\ results' \in Sweeper /\ results'.pc = "results" /\ results'.cutoff = results.cutoff
          /\ results'.del = b
      BY <2>1, <3>1, <3>2, <3>3 DEF KeepInv, KeepShape, Sweeper
    <3> QED
      BY <2>1, <2>2, <3>2, <3>4, ResultsMove
  <2>4. CASE results' = [results EXCEPT !.more = FALSE]
    <3>1. /\ results' \in Sweeper /\ results'.pc = "results" /\ results'.cutoff = results.cutoff
          /\ results'.del = {}
      BY <2>1, <2>4 DEF KeepInv, KeepShape, Sweeper
    <3> QED
      BY <2>1, <2>2, <3>1, ResultsMove
  <2> QED
    BY <1>2, <2>3, <2>4 DEF ResultsPage
<1>3. CASE ResultsDelete
  <2>1. results.pc = "results" /\ UNCHANGED <<day, written, setting, hourly>>
    BY <1>3 DEF ResultsDelete
  <2>2. PICK r \in results.del : /\ DeleteOne("check_results", r)
                                 /\ results' = [results EXCEPT !.del = @ \ {r}]
    BY <1>3 DEF ResultsDelete
  <2>3. /\ results' \in Sweeper /\ results'.pc = "results" /\ results'.cutoff = results.cutoff
        /\ results'.del = results.del \ {r}
    BY <2>1, <2>2 DEF KeepInv, KeepShape, Sweeper
  <2>4. /\ table' \in [Table -> SUBSET Row] /\ \A u \in Table : IsFiniteSet(table'[u])
        /\ table["logs"] \ table'["logs"] = {}
        /\ "forget" \in faulted' <=> "forget" \in faulted
    BY <2>2, RowDeleted DEF KeepInv, Table
  <2>5. table'["logs"] = table["logs"]
    BY <2>2 DEF DeleteOne, KeepInv, KeepShape, Table
  <2>6. KeepShape'
    BY <2>1, <2>3, <2>4 DEF KeepInv, KeepShape
  <2>7. AgedOnly'
    BY <2>1, <2>3 DEF KeepInv, AgedOnly
  <2>8. ExcessIsReal'
    BY <2>1, <2>4, <2>5 DEF KeepInv, ExcessIsReal, Cap
  <2> QED
    BY <2>6, <2>7, <2>8 DEF KeepInv
<1>4. CASE ResultsDone
  <2>1. results' = Asleep /\ UNCHANGED <<day, table, written, setting, hourly, faulted>>
    BY <1>4 DEF ResultsDone
  <2> QED
    BY <2>1, AsleepShape, ResultsMove
<1> QED
  BY <1>1, <1>2, <1>3, <1>4 DEF ResultsStep

LEMMA KeepInvStep == KeepInv /\ [KeepNext]_keepVars => KeepInv'
<1> SUFFICES ASSUME KeepInv, [KeepNext]_keepVars PROVE KeepInv'
  OBVIOUS
<1>1. CASE \E t \in Table, a \in Agent : Store(t, a)
  BY <1>1, StoreKeeps
<1>2. CASE ForgetAgent
  BY <1>2, ForgetKeeps
<1>3. CASE NextDay
  BY <1>3, NextDayKeeps
<1>4. CASE HourlyStep
  BY <1>4, AuditPurgeKeeps, LogsPurgeKeeps, LogsPageKeeps, CapStartKeeps, CapPageKeeps, HourlyDeleteKeeps
     DEF HourlyStep
<1>5. CASE ResultsStep
  BY <1>5, ResultsStepKeeps
<1>6. CASE UNCHANGED keepVars
  BY <1>6 DEF keepVars, KeepInv, KeepShape, AgedOnly, ExcessIsReal, Cap
<1> QED
  BY <1>1, <1>2, <1>3, <1>4, <1>5, <1>6 DEF KeepNext

\* A step that takes rows away deletes one of a sweeper's page, or forgets an agent.
LEMMA WhoDeletes ==
    ASSUME KeepInv, [KeepNext]_keepVars, faulted' = faulted,
           NEW t \in Table, NEW r \in table[t], r \notin table'[t]
    PROVE  \/ t = "check_results" /\ results.pc = "results" /\ r \in results.del
           \/ t = "audit_log" /\ hourly.pc = "audit" /\ r \in hourly.del
           \/ t = "logs" /\ hourly.pc \in {"logs", "cap"} /\ r \in hourly.del
<1>0. table' # table
  OBVIOUS
<1>1. CASE \E u \in Table, a \in Agent : Store(u, a)
  BY <1>1 DEF Store, KeepInv, KeepShape
<1>2. CASE ForgetAgent
  BY <1>2 DEF ForgetAgent, Once
<1>3. CASE HourlyDelete
  <2> DEFINE u == IF hourly.pc = "audit" THEN "audit_log" ELSE "logs"
  <2>1. PICK x \in hourly.del : DeleteOne(u, x)
    BY <1>3 DEF HourlyDelete
  <2>2. u \in Table
    BY DEF Table
  <2>3. table[t] \ table'[t] \subseteq (IF t = u THEN {x} ELSE {})
    BY <2>1, <2>2, RowDeleted DEF KeepInv
  <2>4. t = u /\ r = x
    BY <2>3
  <2> QED
    BY <1>3, <2>4 DEF HourlyDelete
<1>4. CASE ResultsDelete
  <2>1. results.pc = "results" /\ \E x \in results.del : DeleteOne("check_results", x)
    BY <1>4 DEF ResultsDelete
  <2>2. PICK x \in results.del : DeleteOne("check_results", x)
    BY <2>1
  <2>3. table[t] \ table'[t] \subseteq (IF t = "check_results" THEN {x} ELSE {})
    BY <2>2, RowDeleted DEF KeepInv, Table
  <2> QED
    BY <2>1, <2>3
<1> QED
  BY <1>0, <1>1, <1>2, <1>3, <1>4
     DEF KeepNext, NextDay, HourlyStep, AuditPurge, LogsPurge, LogsPage, CapStart, CapPage, ResultsStep,
         ResultsPurge, ResultsPage, ResultsDone, keepVars

LEMMA LastDaySpared ==
    ASSUME KeepInv, [KeepNext]_keepVars
    PROVE  ~CutToZero(setting["days"]) /\ faulted' = faulted =>
             \A t \in Table : \A r \in table[t] \ table'[t] :
                (t = "logs" => hourly.pc = "logs") => r.ts < day
<1> SUFFICES ASSUME ~CutToZero(setting["days"]), faulted' = faulted,
                    NEW t \in Table, NEW r \in table[t] \ table'[t], t = "logs" => hourly.pc = "logs"
             PROVE  r.ts < day
  OBVIOUS
<1>1. \/ results.pc = "results" /\ r \in results.del
      \/ hourly.pc \in {"audit", "logs"} /\ r \in hourly.del
  BY WhoDeletes
<1> QED
  BY <1>1 DEF KeepInv, AgedOnly

LEMMA CapHolds ==
    ASSUME KeepInv, [KeepNext]_keepVars, hourly.pc = "cap", hourly'.excess < hourly.excess,
           "forget" \notin faulted
    PROVE  Cardinality(table'["logs"]) >= resolveIntSetting(setting["rows"], DefaultRows)
<1>1. hourly.excess \in Int /\ hourly' # hourly
  BY DEF KeepInv, KeepShape, Sweeper
<1>2. CASE HourlyDelete
  <2>1. PICK r \in hourly.del :
          /\ DeleteOne("logs", r)
          /\ hourly' = [hourly EXCEPT !.del = @ \ {r}, !.excess = @ - 1]
    BY <1>2 DEF HourlyDelete
  <2>2. /\ Cardinality(table["logs"]) \in Nat /\ Cardinality(table'["logs"]) \in Nat
        /\ Cardinality(table'["logs"]) >= Cardinality(table["logs"]) - 1
    BY <2>1, RowDeleted DEF KeepInv, Table
  <2>3. /\ IsFiniteSet(hourly.del) /\ Cardinality(hourly.del) <= hourly.excess
        /\ Cardinality(table["logs"]) >= Cap + hourly.excess
    BY DEF KeepInv, ExcessIsReal
  <2>4. Cardinality(hourly.del) \in Nat /\ Cardinality(hourly.del) # 0
    BY <2>1, <2>3, FS_CardinalityType, FS_EmptySet
  <2>5. Cap \in Nat /\ Cap = resolveIntSetting(setting["rows"], DefaultRows)
    BY ResolvedSetting DEF Cap, KeepInv, KeepShape
  <2> QED
    BY <1>1, <2>2, <2>3, <2>4, <2>5
<1>3. CASE CapPage
  <2>1. IF hourly.excess = 0 \/ table["logs"] = {} THEN hourly' = Asleep
        ELSE \E b \in SUBSET table["logs"] : hourly' = [hourly EXCEPT !.del = b]
    BY <1>3 DEF CapPage, Page
  <2>2. UNCHANGED table
    BY <1>3 DEF CapPage
  <2>3. hourly' = Asleep
    BY <1>1, <2>1 DEF KeepInv, KeepShape, Sweeper
  <2>4. /\ Cap \in Nat /\ Cap = resolveIntSetting(setting["rows"], DefaultRows)
        /\ Cardinality(table["logs"]) \in Nat
    BY ResolvedSetting, FS_CardinalityType DEF Cap, KeepInv, KeepShape, Table
  <2>5. Cardinality(table["logs"]) >= Cap + hourly.excess /\ hourly'.excess = 0
    BY <2>3 DEF KeepInv, ExcessIsReal, Asleep
  <2> QED
    BY <1>1, <2>2, <2>4, <2>5
<1> QED
  BY <1>1, <1>2, <1>3
     DEF KeepNext, Store, ForgetAgent, NextDay, HourlyStep, AuditPurge, LogsPurge, LogsPage, CapStart,
         ResultsStep, ResultsPurge, ResultsPage, ResultsDelete, ResultsDone, keepVars

\* Retention spares what it is told to keep (audit.PurgeOld, logs.PurgeOld,
\* logs.EnforceMaxRows, Scheduler.purgeOldResults): a purge by age deletes no row of the
\* last day whatever the setting holds, a fraction below one apart, and the cap, counted
\* once and enforced page by page while lines come in, never trims below itself.
THEOREM RetentionSparesAlways == KeepSpec => RetentionSpares
<1>1. KeepInv /\ [KeepNext]_keepVars =>
        [~CutToZero(setting["days"]) /\ faulted' = faulted =>
         \A t \in Table : \A r \in table[t] \ table'[t] :
            (t = "logs" => hourly.pc = "logs") => r.ts < day]_keepVars
  BY LastDaySpared
<1>2. KeepInv /\ [KeepNext]_keepVars =>
        [hourly.pc = "cap" /\ hourly'.excess < hourly.excess /\ "forget" \notin faulted =>
         Cardinality(table'["logs"]) >= resolveIntSetting(setting["rows"], DefaultRows)]_keepVars
  BY CapHolds
<1> QED
  BY <1>1, <1>2, KeepInvInit, KeepInvStep, PTL DEF KeepSpec, RetentionSpares, LastDayKept, NotBelowCap

=============================================================================
