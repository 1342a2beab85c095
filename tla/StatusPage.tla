----------------------------- MODULE StatusPage -----------------------------
(***************************************************************************)
(* The public status page (internal/hub/api/public_status.go): what         *)
(* handlePublicStatus tells a visitor of a check, from the scheduler's      *)
(* snapshot and the rows of check_results, and the limiter that counts the  *)
(* visits of an address.  Rows come in the order of time and go by          *)
(* retention; the page asks for a limited number, oldest first.             *)
(***************************************************************************)
EXTENDS Integers, Sequences, FiniteSets, SequencesExt, Functions, Ordering

CONSTANTS
    Visitor,        \* client addresses
    VisitLimit,     \* statusPageRateLimitPerMin
    Minute,         \* the limiter's window
    SweepEvery,     \* calls between two sweeps of the limiter's map (1000)
    MaxVisits,      \* bound: visits
    Day,            \* ticks of a day
    ShowDays,       \* status_page_show_uptime_days, within its limits
    WindowDays,     \* the days of the longest uptime window (30)
    RowLimit,       \* rows computeCheckMetrics asks for (20000)
    MaxRows,        \* bound: results of the check
    EndOfPage,      \* bound: the end of the clock
    PageParts       \* what a behaviour is about: "visits" or "results"

VARIABLES
    about,          \* chosen once
    time,
    hits,           \* ipRateLimiter.hits
    calls,          \* ipRateLimiter.calls
    visits,         \* every visit: who, when, was it allowed
    results,        \* check_results: time and status
    expires         \* is the check's certificate about to expire

pageVars == <<about, time, hits, calls, visits, results, expires>>

ASSUME PageAssumption ==
    /\ VisitLimit \in Nat \ {0} /\ Minute \in Nat \ {0} /\ SweepEvery \in Nat \ {0} /\ MaxVisits \in Nat
    /\ Day \in Nat \ {0} /\ ShowDays \in Nat \ {0} /\ WindowDays \in Nat \ {0} /\ RowLimit \in Nat
    /\ MaxRows \in Nat /\ EndOfPage \in Nat

PageInit(parts) ==
    /\ about \in parts /\ time = 0
    /\ hits = [v \in Visitor |-> <<>>] /\ calls = 0 /\ visits = <<>>
    /\ results = <<>> /\ expires \in IF about = "results" THEN BOOLEAN ELSE {FALSE}

-----------------------------------------------------------------------------
(* The limiter. *)

Recent(stamps) == At(stamps, {i \in DOMAIN stamps : stamps[i] > time - Minute})

\* Every so many calls the addresses whose last visit is older than the window go.
Swept(stamps) == IF stamps # <<>> /\ Last(stamps) < time - Minute THEN <<>> ELSE stamps

\* Allow: the attempt counts whether or not it is allowed.
Visit(v) ==
    /\ about = "visits" /\ Len(visits) < MaxVisits
    /\ calls' = (calls + 1) % SweepEvery
    /\ LET recorded == [hits EXCEPT ![v] = Append(Recent(hits[v]), time)] IN
       hits' = IF calls' = 0 THEN [u \in Visitor |-> Swept(recorded[u])] ELSE recorded
    /\ visits' = Append(visits, [who |-> v, at |-> time, allowed |-> Len(Recent(hits[v])) < VisitLimit])
    /\ UNCHANGED <<about, time, results, expires>>

-----------------------------------------------------------------------------
(* The check. *)

\* A probe's result is stored (CheckScheduler's SaveResult).
StoreResult ==
    /\ about = "results" /\ Len(results) < MaxRows
    /\ \A i \in DOMAIN results : results[i].ts < time
    /\ \E up \in BOOLEAN : results' = Append(results, [ts |-> time, up |-> up])
    /\ UNCHANGED <<about, time, hits, calls, visits, expires>>

\* check_results_retention_days (Retention's ResultsPurge).
PurgeResults ==
    /\ results # <<>> /\ Head(results).ts < time - WindowDays * Day
    /\ results' = Tail(results)
    /\ UNCHANGED <<about, time, hits, calls, visits, expires>>

PageTick ==
    /\ time < EndOfPage /\ time' = time + 1
    /\ UNCHANGED <<about, hits, calls, visits, results, expires>>

PageNext == (\E v \in Visitor : Visit(v)) \/ StoreResult \/ PurgeResults \/ PageTick
PageSpec == PageInit(PageParts) /\ [][PageNext]_pageVars

Since == time - Day * (IF ShowDays < WindowDays THEN WindowDays ELSE ShowDays)
InPeriod == At(results, {i \in DOMAIN results : results[i].ts >= Since})

\* The rows of the query.
Queried == IF Len(InPeriod) > RowLimit THEN SubSeq(InPeriod, 1, RowLimit) ELSE InPeriod

\* How many of the rows since a moment are up, and how many there are.
Share(rows, from) ==
    LET late == {i \in DOMAIN rows : rows[i].ts >= from} IN
    <<Cardinality({i \in late : rows[i].up}), Cardinality(late)>>

\* pctOrFull, as "nothing down": no row counts as full uptime.
Full(share) == share[1] = share[2]

\* The days of the bar: the first is the day ShowDays ago, the last is yesterday.
BarDays == LET first == (time - ShowDays * Day) \div Day IN first..(first + ShowDays - 1)

\* Mutant: a failure counts as a new incident whatever came before it.
MutantNewIncident(rows, i) == ~rows[i].up

\* A row that is down after one that is not, or after none.
NewIncident(rows, i) == ~rows[i].up /\ (i > 1 => rows[i - 1].up)

\* The bucket of a day: uptime and incidents of the rows within the bar.
Bucket(rows, day) ==
    LET of == {i \in DOMAIN rows : rows[i].ts >= time - ShowDays * Day /\ rows[i].ts \div Day = day} IN
    [share |-> <<Cardinality({i \in of : rows[i].up}), Cardinality(of)>>,
     incidents |-> Cardinality({i \in of : NewIncident(rows, i)})]

computeCheckMetrics ==
    [day |-> Share(Queried, time - Day),
     all |-> Share(Queried, time - WindowDays * Day),
     daily |-> [d \in BarDays |-> Bucket(Queried, d)],
     lastIncident |-> LET down == {Queried[i].ts : i \in {j \in DOMAIN Queried : ~Queried[j].up}} IN
                      IF down = {} THEN <<>> ELSE <<CHOOSE t \in down : \A u \in down : u <= t>>]

\* buildCheckStatusItem: the snapshot is the last result.
CheckStatus ==
    IF results = <<>> THEN "unknown"
    ELSE IF ~Last(results).up THEN "down"
    ELSE IF expires THEN "degraded" ELSE "operational"

\* buildAgentStatusItem: what the page makes of an agent's row.
Standing == {"online", "offline", "pending"}
AgentStatus(standing) ==
    CASE standing = "online" -> "operational"
      [] standing = "offline" -> "down"
      [] OTHER -> "unknown"

StatusRank == [operational |-> 0, unknown |-> 1, degraded |-> 2, down |-> 3]

\* overallStatus: the worst of the items, nothing configured is unknown.
overallStatus(items) ==
    IF items = {} THEN "unknown"
    ELSE CHOOSE s \in items : \A i \in items : StatusRank[i] <= StatusRank[s]

\* buildChecksSummary of the weekly report: the share of the results of a period that
\* are up; the query has no order, so beyond its limit it may return any of them.  The
\* slowest result is left out.
buildChecksSummary(from) ==
    LET found == {i \in DOMAIN results : from <= results[i].ts /\ results[i].ts <= time}
        returned == {b \in SUBSET found :
                       Cardinality(b) = IF Cardinality(found) < RowLimit
                                        THEN Cardinality(found) ELSE RowLimit} IN
    {<<Cardinality({i \in b : results[i].up}), Cardinality(b)>> : b \in returned}

-----------------------------------------------------------------------------
\* public_status.go:502-506, "whether ip may make another request under limit hits per
\* window, recording this attempt regardless of the outcome": a visit is refused
\* exactly if that address made as many in the window before it, refused ones
\* included, sweeps that other addresses trigger notwithstanding.
VisitsCounted ==
    \A i \in DOMAIN visits :
        visits[i].allowed <=>
            Cardinality({j \in 1..(i - 1) : visits[j].who = visits[i].who
                                            /\ visits[j].at > visits[i].at - Minute}) < VisitLimit

Outages == {i \in DOMAIN InPeriod : ~InPeriod[i].up /\ (i > 1 => InPeriod[i - 1].up)}

\* The page does not gloss over an outage: while the period has no more rows than the
\* query returns, the last day's figure is full only if no result of it is down, the
\* last incident is the last failure, the incidents of the bar are the outages that
\* began on its days, the weekly report gives the same uptime for the same period, and
\* the banner is "down" exactly if the check or the agent beside it is.
PageTellsTruth ==
    about = "results" /\ Len(InPeriod) <= RowLimit =>
        LET m == computeCheckMetrics
            failures == {i \in DOMAIN results : ~results[i].up} IN
        /\ Full(m.day) <=> \A i \in failures : results[i].ts < time - Day
        /\ m.day[2] <= m.all[2]
        /\ m.lastIncident # <<>> => \E i \in failures : results[i].ts = m.lastIncident[1]
                                       /\ \A j \in failures : j <= i
        /\ SumFunction([d \in BarDays |-> m.daily[d].incidents])
             = Cardinality({i \in Outages : InPeriod[i].ts >= time - ShowDays * Day
                                            /\ InPeriod[i].ts \div Day \in BarDays})
        /\ \A d \in BarDays : m.daily[d].incidents > 0 => ~Full(m.daily[d].share)
        /\ buildChecksSummary(time - WindowDays * Day) = {m.all}
        /\ \A s \in Standing :
             overallStatus({CheckStatus, AgentStatus(s)}) = "down"
                 <=> s = "offline" \/ (results # <<>> /\ ~Last(results).up)

\* What visitors get: their share of requests, and the truth.
PageHolds == VisitsCounted /\ PageTellsTruth
=============================================================================
