----------------------------- MODULE MetricStore -----------------------------
(***************************************************************************)
(* The metric tables of the hub: ingestion (internal/hub/metrics/service.go)*)
(* and the two goroutines of the Downsampler (downsampler.go), one reducing *)
(* rows from each resolution to the next one, the other purging old rows.   *)
(* A row is its series (agent and type), its resolution, its timestamp and  *)
(* the samples that were averaged into it; averages themselves are not kept.*)
(* Resolutions 0, 1, 2, 3 are "raw", "1m", "5m" and "1h"; durations are     *)
(* scaled down.  StoreCrash stands for the end of the hub's process and its next *)
(* start.                                                                   *)
(***************************************************************************)
EXTENDS Naturals, FiniteSets, Sequences

CONSTANTS
    Series,      \* pairs of an agent and a metric type
    MaxTime,     \* bound: the end of the clock
    MaxLate,     \* bound: how far a sample's timestamp lies behind the hub's clock
    MaxSamples,  \* bound: samples recorded
    LastSample,  \* bound: the timestamp of the last sample
    MaxLag,      \* bound: how long a cycle of a goroutine lasts
    Size,        \* Size[l + 1]: the bucket of a row of resolution l
    Cutoff,      \* Cutoff[l + 1]: the age at which rows of resolution l are reduced
    Keep,        \* Keep[l + 1]: the age at which rows of resolution l are purged
    PurgePeriod, \* periods of the aggregation ticker in one of the retention ticker
    Batch,       \* rows one reduction reads (500)
    PurgeBatch,  \* rows one purge query returns (200)
    Regimes      \* disturbances: a "read", "lookup", "save" or "delete" that
                 \* fails, a "crash"; each at most once

VARIABLES
    now,
    rows,
    recorded,    \* samples IngestMetrics stored
    agg,         \* the aggregation goroutine
    purge,       \* the retention goroutine
    spent,       \* the disturbances that happened
    may          \* the ones that may: chosen once

storeVars == <<now, rows, recorded, agg, purge, spent, may>>

Res == 0..3
Time == 0..MaxTime
Sample == [series : Series, ts : Time]

\* time.Truncate(bucketDuration).
Truncate(t, l) == (t \div Size[l + 1]) * Size[l + 1]

\* A row of resolution l was made from the bucket that holds the sample.
Covers(r, s) == r.series = s.series /\ r.ts = Truncate(s.ts, r.res)

\* A sample this old may be gone: the smallest of the retention periods, less the
\* length of a row's bucket.
Safe == CHOOSE m \in {Keep[i] - Size[i] + 1 : i \in 1..4} :
            \A i \in 1..4 : m <= Keep[i] - Size[i] + 1

ASSUME MetricAssumption ==
    /\ MaxTime \in Nat /\ MaxLate \in Nat /\ MaxSamples \in Nat /\ MaxLag \in Nat
    /\ Size \in [1..4 -> Nat \ {0}] /\ Size[1] = 1
    /\ Keep \in [1..4 -> Nat] /\ \A i \in 1..4 : Size[i] <= Keep[i]
    /\ Cutoff \in [1..3 -> Nat]
    /\ PurgePeriod \in Nat /\ Batch \in Nat \ {0} /\ PurgeBatch \in Nat \ {0}

\* A bucket of a resolution consists of buckets of the one below.
ASSUME NestedBuckets ==
    /\ \A t \in Time, l \in 0..2 : Truncate(Truncate(t, l), l + 1) = Truncate(t, l + 1)
    /\ \A t \in Time, l \in Res : /\ Truncate(t, l) \in Time /\ Truncate(t, l) <= t
                                  /\ t < Truncate(t, l) + Size[l + 1]
    /\ \A t \in Time : Truncate(t, 0) = t

\* A goroutine that waits for its ticker, which last fired at t.
Rest(t) == [pc |-> "idle", level |-> 0, at |-> t, todo |-> {}, del |-> {}]

StoreInit(regimes) ==
    /\ now = 0 /\ rows = {} /\ recorded = {}
    /\ agg = Rest(0) /\ purge = Rest(0)
    /\ spent = {} /\ may \in regimes

Spend(fault) == fault \in may \ spent /\ spent' = spent \union {fault}

-----------------------------------------------------------------------------
\* IngestMetrics: one raw row per metric, with the agent's timestamp.  A row that
\* cannot be saved is logged and left out.
IngestMetrics ==
    /\ Cardinality(recorded) < MaxSamples
    /\ \E s \in Sample \ recorded :
         /\ s.ts <= now /\ now <= s.ts + MaxLate /\ s.ts <= LastSample
         /\ recorded' = recorded \union {s}
         /\ rows' = rows \union {[series |-> s.series, res |-> 0, ts |-> s.ts, of |-> {s}, copy |-> 0]}
    /\ UNCHANGED <<now, agg, purge, spent, may>>

-----------------------------------------------------------------------------
\* A ticker fires at most once in its period; past the end of the clock it goes on.
Fires(g, period) == g.pc = "idle" /\ (now >= g.at + period \/ now = MaxTime)

\* aggregateMetrics starts with the clock it keeps for its three reductions.
AggregateStart ==
    /\ Fires(agg, 1)
    /\ agg' = [Rest(now) EXCEPT !.pc = "read"]
    /\ UNCHANGED <<now, rows, recorded, purge, spent, may>>

\* The next of the three reductions, or the end of the cycle.
NextReduction(a) ==
    IF a.level = 2 THEN Rest(a.at)
    ELSE [a EXCEPT !.pc = "read", !.level = a.level + 1, !.todo = {}, !.del = {}]

Reducible == {r \in rows : r.res = agg.level /\ r.ts + Cutoff[agg.level + 1] < agg.at}

\* Up to Batch rows, by timestamp.
Oldest(from) ==
    {b \in SUBSET from : /\ Cardinality(b) <= Batch
                         /\ Cardinality(b) < Batch => b = from
                         /\ \A r \in b, q \in from \ b : r.ts <= q.ts}

\* downsample reads its batch of rows older than the cutoff.
ReadBatch ==
    /\ agg.pc = "read"
    /\ \/ Reducible = {} /\ agg' = NextReduction(agg) /\ UNCHANGED spent
       \/ Spend("read") /\ agg' = NextReduction(agg)
       \/ /\ Reducible # {} /\ UNCHANGED spent
          /\ \E b \in Oldest(Reducible) : agg' = [agg EXCEPT !.pc = "bucket", !.todo = b]
    /\ UNCHANGED <<now, rows, recorded, purge, may>>

\* The rows of the batch that fall into one bucket with r.
BucketOf(r) ==
    {q \in agg.todo : q.series = r.series
                      /\ Truncate(q.ts, agg.level + 1) = Truncate(r.ts, agg.level + 1)}

\* Mutant: the lookup compares with the source's timestamp, not with the bucket's.
MutantExisting(r) ==
    {q \in rows : q.series = r.series /\ q.res = agg.level + 1 /\ q.ts = r.ts}

\* Aggregates of the bucket that are there already.
Existing(r) ==
    {q \in rows : /\ q.series = r.series /\ q.res = agg.level + 1
                  /\ q.ts = Truncate(r.ts, agg.level + 1)}

\* The aggregate's row; copy tells apart two rows with one content.
Aggregate(recs, r) ==
    [series |-> r.series, res |-> agg.level + 1, ts |-> Truncate(r.ts, agg.level + 1),
     of |-> UNION {q.of : q \in recs},
     copy |-> Cardinality({q \in rows : q.series = r.series /\ q.res = agg.level + 1
                                        /\ q.ts = Truncate(r.ts, agg.level + 1)})]

\* Mutant: the sources are deleted before the aggregate is saved.
MutantReduce(r, found) ==
    LET recs == BucketOf(r) IN
    /\ rows' = IF found THEN rows ELSE rows \ recs
    /\ agg' = [agg EXCEPT !.pc = "delete", !.todo = @ \ recs, !.del = recs]

\* One bucket: the aggregate is saved unless one is found, then the sources go.
Reduce(r, found) ==
    LET recs == BucketOf(r) IN
    /\ rows' = IF found THEN rows ELSE rows \union {Aggregate(recs, r)}
    /\ agg' = [agg EXCEPT !.pc = "delete", !.todo = @ \ recs, !.del = recs]

\* A bucket of the batch, in any order: map iteration.  The lookup's error is
\* ignored and counts as nothing found; an aggregate that cannot be saved leaves
\* the bucket to the next cycle.
ReduceBucket ==
    /\ agg.pc = "bucket" /\ agg.todo # {}
    /\ \E r \in agg.todo :
         \/ Reduce(r, Existing(r) # {}) /\ UNCHANGED spent
         \/ Spend("lookup") /\ Reduce(r, FALSE)
         \/ /\ Spend("save") /\ Existing(r) = {}
            /\ agg' = [agg EXCEPT !.todo = @ \ BucketOf(r)]
            /\ UNCHANGED rows
    /\ UNCHANGED <<now, recorded, purge, may>>

BucketsDone ==
    /\ agg.pc = "bucket" /\ agg.todo = {}
    /\ agg' = NextReduction(agg)
    /\ UNCHANGED <<now, rows, recorded, purge, spent, may>>

\* deleteRecords, one row at a time; a failure is logged and skipped.
DeleteSource ==
    /\ agg.pc = "delete"
    /\ IF agg.del = {}
       THEN agg' = [agg EXCEPT !.pc = "bucket"] /\ UNCHANGED <<rows, spent>>
       ELSE \E r \in agg.del :
              /\ agg' = [agg EXCEPT !.del = @ \ {r}]
              /\ \/ rows' = rows \ {r} /\ UNCHANGED spent
                 \/ Spend("delete") /\ UNCHANGED rows
    /\ UNCHANGED <<now, recorded, purge, may>>

-----------------------------------------------------------------------------
\* purgeOldData, after the purges of audit_log and logs.
PurgeStart ==
    /\ Fires(purge, PurgePeriod)
    /\ purge' = [Rest(now) EXCEPT !.pc = "read"]
    /\ UNCHANGED <<now, rows, recorded, agg, spent, may>>

\* The rows of one resolution that are past its retention.
Expired == {r \in rows : r.res = purge.level /\ r.ts + Keep[purge.level + 1] < purge.at}

NextPurge(p) ==
    IF p.level = 3 THEN Rest(p.at) ELSE [p EXCEPT !.pc = "read", !.level = p.level + 1]

\* purgeByFilter: a query for at most PurgeBatch rows in no order.
PurgeRead ==
    /\ purge.pc = "read"
    /\ IF Expired = {}
       THEN purge' = NextPurge(purge)
       ELSE \E b \in SUBSET Expired :
              /\ Cardinality(b) <= PurgeBatch
              /\ Cardinality(b) < PurgeBatch => b = Expired
              /\ purge' = [purge EXCEPT !.pc = IF Cardinality(b) < PurgeBatch THEN "last" ELSE "more",
                                        !.del = b]
    /\ UNCHANGED <<now, rows, recorded, agg, spent, may>>

\* A short batch ends the loop, a full one is followed by another query.
PurgeDelete ==
    /\ purge.pc \in {"last", "more"}
    /\ IF purge.del = {}
       THEN /\ purge' = IF purge.pc = "last" THEN NextPurge(purge) ELSE [purge EXCEPT !.pc = "read"]
            /\ UNCHANGED <<rows, spent>>
       ELSE \E r \in purge.del :
              /\ purge' = [purge EXCEPT !.del = @ \ {r}]
              /\ \/ rows' = rows \ {r} /\ UNCHANGED spent
                 \/ Spend("delete") /\ UNCHANGED rows
    /\ UNCHANGED <<now, recorded, agg, may>>

-----------------------------------------------------------------------------
\* The hub ends in the middle of whatever its goroutines do, and starts again.
StoreCrash ==
    /\ Spend("crash")
    /\ agg.pc # "idle" \/ purge.pc # "idle"
    /\ agg' = Rest(agg.at) /\ purge' = Rest(purge.at)
    /\ UNCHANGED <<now, rows, recorded, may>>

StoreTick ==
    /\ now < MaxTime /\ now' = now + 1
    /\ \A g \in {agg, purge} : g.pc # "idle" => now < g.at + MaxLag
    /\ UNCHANGED <<rows, recorded, agg, purge, spent, may>>

AggregationStep == AggregateStart \/ ReadBatch \/ ReduceBucket \/ BucketsDone \/ DeleteSource
PurgeStep == PurgeStart \/ PurgeRead \/ PurgeDelete

StoreNext == IngestMetrics \/ AggregationStep \/ PurgeStep \/ StoreCrash \/ StoreTick

StoreSpec == StoreInit(Regimes) /\ [][StoreNext]_storeVars

\* Both tickers fire again and again and their goroutines run.
StoreFairness ==
    /\ WF_storeVars(AggregationStep)
    /\ WF_storeVars(PurgeStep)
    /\ WF_storeVars(StoreTick)

-----------------------------------------------------------------------------
StoreTypeOK ==
    /\ now \in Time
    /\ rows \subseteq [series : Series, res : Res, ts : Time, of : SUBSET Sample, copy : Nat]
    /\ recorded \subseteq Sample
    /\ \A g \in {agg, purge} : /\ g.level \in Res /\ g.at \in 0..now
                              /\ g.todo \union g.del \subseteq
                                   [series : Series, res : Res, ts : Time, of : SUBSET Sample, copy : Nat]
    /\ agg.pc \in {"idle", "read", "bucket", "delete"} /\ agg.level \in 0..2
    /\ purge.pc \in {"idle", "read", "last", "more"}

\* The samples a reader of the tables can still see something of.
Kept == {s \in recorded : \E r \in rows : Covers(r, s)}

\* The tables keep their promise whatever is reduced, purged or fails: a sample
\* younger than the shortest retention period is represented by some row
\* (downsampler.go saves the aggregate before it deletes the sources).
History == INSTANCE MetricHistory WITH kept <- Kept
HistoryKept == History!HistorySpec

\* No sample is counted in two rows of one resolution, although a crash or a failed
\* deletion leaves sources beside the aggregate they went into (the lookup of an
\* existing aggregate, downsampler.go:160); a lookup whose error is dropped is the
\* one way around it.
CountedOnce ==
    "lookup" \notin spent =>
        \A r \in rows, q \in rows : r # q /\ r.res = q.res => r.of \intersect q.of = {}

\* The batch limit and the order of the batches starve no row: once the clock has
\* stopped and the faults are over, everything old enough ends up reduced.
AllReduced ==
    <>[](\A r \in rows : r.res < 3 => r.ts + Cutoff[r.res + 1] >= MaxTime)

=============================================================================
