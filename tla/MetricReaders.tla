---------------------------- MODULE MetricReaders ----------------------------
(***************************************************************************)
(* What is made of stored metrics and log lines: the verdicts of the alert  *)
(* rules (internal/hub/alerts/engine.go, evaluateRule and the functions     *)
(* below it) and the peaks, vulnerabilities and log volume of the weekly    *)
(* report (internal/hub/report/report.go).  Here the rows carry their data, *)
(* and a reduction of MetricStore does to the data what averageMaps does:   *)
(* numbers are averaged, of strings the last is kept, lists, maps and flags *)
(* are gone.  The rows are those of one agent and one metric type.  "5m"    *)
(* stands for both of the resolutions between "raw" and "1h".               *)
(***************************************************************************)
EXTENDS Integers, Sequences, FiniteSets, SequencesExt, Ordering

CONSTANTS
    MetricTypes,   \* metric types an agent may report: "cpu", "processes", "services",
                   \* "cve_scan", "disk"; "logs" stands for log lines instead
    Percents,      \* values of a reported percentage, also the rules' thresholds
    MaxReports,    \* bound: reports of the agent
    MaxLogLines,   \* bound: log lines of the agent
    EndOfClock,    \* bound: the end of the clock
    FiveMinutes, AnHour,   \* bucket sizes of the two reductions
    MatchWindow,   \* duration of a log_match rule
    ScanCap        \* logMatchScanCap (5000)

VARIABLES
    mtype,         \* the metric type: chosen once
    clock,
    reports,       \* what the agent reported, in order
    table,         \* the rows: timestamp, resolution, data
    lines          \* log lines: timestamp, does the pattern match

readerVars == <<mtype, clock, reports, table, lines>>

ASSUME ReaderAssumption ==
    /\ MaxReports \in Nat /\ MaxLogLines \in Nat /\ EndOfClock \in Nat /\ ScanCap \in Nat
    /\ FiveMinutes \in Nat \ {0} /\ AnHour \in Nat \ {0} /\ AnHour % FiveMinutes = 0
    /\ Percents \subseteq Nat
    /\ MetricTypes \subseteq {"cpu", "processes", "services", "cve_scan", "disk", "logs"}

-----------------------------------------------------------------------------
(* Data: a function from field names to values with their JSON kinds. *)

Number(n) == [kind |-> "number", num |-> n, den |-> 1]
List(elems) == [kind |-> "list", elems |-> elems]

\* What a disk report may list: a mount that is not "/", or "/" after another one.
Mounts ==
    UNION {{<<[root |-> FALSE, used |-> p]>>, <<[root |-> FALSE, used |-> 0], [root |-> TRUE, used |-> p]>>}
             : p \in Percents}

\* The process and the service a rule is about run or not, a scan was possible and
\* found something or not.
Snapshot(type) ==
    CASE type = "cpu" -> {[total_percent |-> Number(p)] : p \in Percents}
      [] type = "processes" -> {[processes |-> List(s)] : s \in {{}, {"target"}}}
      [] type = "services" -> {[services |-> List(s)] : s \in {{}, {"active"}, {"failed"}}}
      [] type = "cve_scan" -> {[available |-> [kind |-> "bool", is |-> b],
                                totals |-> [kind |-> "map", critical |-> Number(p)]]
                                  : b \in BOOLEAN, p \in Percents}
      [] type = "disk" -> {[mounts |-> List(s)] : s \in Mounts}

\* Sums of fractions.
Plus(a, b) == [kind |-> "number", num |-> a.num * b.den + b.num * a.den, den |-> a.den * b.den]

Total(values) ==
    LET upTo[n \in 0..Len(values)] == IF n = 0 THEN Number(0) ELSE Plus(upTo[n - 1], values[n]) IN
    upTo[Len(values)]

\* Mutant: the mean is rounded up to a whole number.
MutantMean(values) == Number((Total(values).num \div (Total(values).den * Len(values))) + 1)

Mean(values) == [Total(values) EXCEPT !.den = @ * Len(values)]

\* averageMaps, for data in the order of the rows.
averageMaps(datas) ==
    LET fields == UNION {DOMAIN datas[i] : i \in DOMAIN datas}
        having(f, kind) == {i \in DOMAIN datas : f \in DOMAIN datas[i] /\ datas[i][f].kind = kind}
        numeric == {f \in fields : having(f, "number") # {}}
        textual == {f \in fields : having(f, "string") # {}} IN
    [f \in numeric \union textual |->
        IF f \in numeric
        THEN LET found == At(datas, having(f, "number")) IN Mean([i \in DOMAIN found |-> found[i][f]])
        ELSE Last(At(datas, having(f, "string")))[f]]

-----------------------------------------------------------------------------
ReaderInit(types) ==
    /\ mtype \in types
    /\ clock = 0 /\ reports = <<>> /\ table = {} /\ lines = <<>>

\* A report is stored as a raw row (IngestMetrics).
ReportMetric ==
    /\ mtype # "logs" /\ Len(reports) < MaxReports /\ \A r \in table : r.res = "raw" => r.ts < clock
    /\ \E s \in Snapshot(mtype) : /\ reports' = Append(reports, s)
                                  /\ table' = table \union {[ts |-> clock, res |-> "raw", data |-> s]}
    /\ UNCHANGED <<mtype, clock, lines>>

\* A log line of the agent is stored.
ReportLine ==
    /\ mtype = "logs" /\ Len(lines) < MaxLogLines
    /\ \E hit \in BOOLEAN : lines' = Append(lines, [ts |-> clock, hit |-> hit])
    /\ UNCHANGED <<mtype, clock, reports, table>>

\* One bucket of one reduction (MetricStore's ReduceBucket and DeleteSource).
ReduceData(from, to, size) ==
    \E r \in table :
      LET start == (r.ts \div size) * size
          recs == {q \in table : q.res = from /\ (q.ts \div size) * size = start /\ q.ts < clock}
          there == \E q \in table : q.res = to /\ q.ts = start
          byTime == Sorted(recs, {p \in recs \X recs : p[1].ts < p[2].ts}) IN
      /\ r.res = from /\ recs # {}
      /\ table' = (table \ recs) \union
                     IF there THEN {}
                     ELSE {[ts |-> start, res |-> to,
                            data |-> averageMaps([i \in DOMAIN byTime |-> byTime[i].data])]}
      /\ UNCHANGED <<mtype, clock, reports, lines>>

ReaderTick ==
    /\ clock < EndOfClock /\ clock' = clock + 1
    /\ UNCHANGED <<mtype, reports, table, lines>>

ReaderNext ==
    \/ ReportMetric \/ ReportLine
    \/ ReduceData("raw", "5m", FiveMinutes) \/ ReduceData("5m", "1h", AnHour)
    \/ ReaderTick

ReaderSpec == ReaderInit(MetricTypes) /\ [][ReaderNext]_readerVars

-----------------------------------------------------------------------------
(* The rules.  A verdict: is there anything to judge, and is it a breach. *)

Unknown == [ok |-> FALSE, breaching |-> FALSE]
Verdict(b) == [ok |-> TRUE, breaching |-> b]

\* latestMetricData: the last row of any resolution.
latestMetricData ==
    {r.data : r \in {q \in table : \A other \in table : other.ts <= q.ts}}

Elems(data, f) == IF f \in DOMAIN data /\ data[f].kind = "list" THEN data[f].elems ELSE {}

\* The process is not in the list; no list is an empty one.
evalProcessDown(data) == Verdict("target" \notin Elems(data, "processes"))

isFailedServiceState(s) == s \in {"failed", "inactive", "dead"}

\* The service is not in the list, or in it with a failed state.
evalServiceFailed(data) ==
    Verdict(\A s \in Elems(data, "services") : isFailedServiceState(s))

checkCondition(value, condition, threshold) ==
    CASE condition = "gt" -> value.num > threshold * value.den
      [] condition = "lt" -> value.num < threshold * value.den
      [] condition = "eq" -> value.num = threshold * value.den
      [] OTHER -> FALSE

\* Nothing to judge without a scan; counts that are no numbers are 0.
evalCveCount(data, condition, threshold) ==
    IF /\ "available" \in DOMAIN data /\ data["available"].kind = "bool" /\ data["available"].is
       /\ "totals" \in DOMAIN data /\ data["totals"].kind = "map"
    THEN Verdict(checkCondition(data["totals"].critical, condition, threshold))
    ELSE Unknown

\* total_percent of cpu, used_percent of memory and disk; "percent" otherwise.
getLatestMetricValue(data, field) ==
    IF field \in DOMAIN data /\ data[field].kind = "number" THEN <<data[field]>>
    ELSE IF "percent" \in DOMAIN data /\ data["percent"].kind = "number" THEN <<data["percent"]>>
    ELSE <<>>

evalThreshold(data, field, condition, threshold) ==
    LET value == getLatestMetricValue(data, field) IN
    IF value = <<>> THEN Unknown ELSE Verdict(checkCondition(value[1], condition, threshold))

\* The rows a query with a limit may return, in no order.
Limited(found) ==
    {b \in SUBSET found : Cardinality(b) = IF Cardinality(found) < ScanCap
                                           THEN Cardinality(found) ELSE ScanCap}

InWindow == {i \in DOMAIN lines : lines[i].ts >= clock - MatchWindow}
Hits(S) == Cardinality({i \in S : lines[i].hit})

\* evalLogMatch: the database finds the lines with a substring; for a pattern the
\* lines of the window are fetched, at most ScanCap of them, and matched one by one.
\* A pattern that does not compile gives no verdict.
evalLogMatch(isRegex, threshold) ==
    {Verdict(Hits(b) >= threshold) :
        b \in Limited(IF isRegex THEN InWindow ELSE {i \in InWindow : lines[i].hit})}

\* What the rules that need a list make of some data.
evaluateRule(data) ==
    CASE mtype = "processes" -> evalProcessDown(data)
      [] mtype = "services" -> evalServiceFailed(data)
      [] OTHER -> Unknown

-----------------------------------------------------------------------------
(* The report. *)

\* queryMetricsWithFallback: "1h" rows, or "raw" ones while there are none.
queryMetricsWithFallback ==
    LET hourly == {r \in table : r.res = "1h"} IN
    IF hourly # {} THEN hourly ELSE {r \in table : r.res = "raw"}

\* maxMetricPercent, over the rows that have the field; 0 without any.
maxMetricPercent(field) ==
    LET values == {<<r.data[field].num, r.data[field].den>> :
                     r \in {q \in queryMetricsWithFallback :
                              field \in DOMAIN q.data /\ q.data[field].kind = "number"}} IN
    IF values = {} THEN <<0, 1>>
    ELSE CHOOSE v \in values : \A w \in values : w[1] * v[2] <= v[1] * w[2]

\* diskPercentFromData: the mount "/", or the first one; 0 without any.
diskPercentFromData(data) ==
    LET mounts == IF "mounts" \in DOMAIN data /\ data["mounts"].kind = "list"
                  THEN data["mounts"].elems ELSE <<>>
        roots == {i \in DOMAIN mounts : mounts[i].root} IN
    CASE mounts = <<>> -> 0
      [] roots # {} -> mounts[CHOOSE i \in roots : \A j \in roots : i <= j].used
      [] OTHER -> Head(mounts).used

maxDiskPercent ==
    LET values == {diskPercentFromData(r.data) : r \in queryMetricsWithFallback} IN
    IF values = {} THEN 0 ELSE CHOOSE v \in values : \A w \in values : w <= v

\* buildResourcePeaks, of this agent.
buildResourcePeaks == [cpu |-> maxMetricPercent("total_percent"), disk |-> maxDiskPercent]

\* buildCVETotals: the counts of the last scan, of a host that could be scanned.
buildCVETotals ==
    {data["totals"].critical.num :
        data \in {d \in latestMetricData :
                    /\ "available" \in DOMAIN d /\ d["available"].kind = "bool" /\ d["available"].is
                    /\ "totals" \in DOMAIN d /\ d["totals"].kind = "map"}}

\* buildLogVolume: the lines of the period; a host without any is left out.
buildLogVolume(from) ==
    LET count == Cardinality({i \in DOMAIN lines : from <= lines[i].ts /\ lines[i].ts <= clock}) IN
    IF count = 0 THEN {} ELSE {count}

-----------------------------------------------------------------------------
\* Verdicts and figures rest on what the agent reported, whatever reductions the rows
\* went through.  A rule that finds a percentage, or a number of vulnerabilities, above
\* or below its threshold does so where the agent reported such a value, and no peak
\* or total of the report exceeds what was reported; a process or a service is
\* running to its rule only where some list showed it running, also when lists are gone.
ReadersInventNothing ==
    \A data \in latestMetricData :
        /\ mtype = "cpu" =>
             /\ \A c \in {"gt", "lt"}, t \in Percents :
                  evalThreshold(data, "total_percent", c, t).breaching =>
                      \E i \in DOMAIN reports : checkCondition(reports[i].total_percent, c, t)
             /\ LET peak == buildResourcePeaks.cpu IN
                peak[1] > 0 => \E i \in DOMAIN reports : reports[i].total_percent.num * peak[2] >= peak[1]
        /\ mtype = "disk" =>
             \E i \in DOMAIN reports : buildResourcePeaks.disk \in {0, diskPercentFromData(reports[i])}
        /\ mtype = "cve_scan" =>
             /\ \A t \in Percents :
                  evalCveCount(data, "gt", t).breaching =>
                      \E i \in DOMAIN reports : evalCveCount(reports[i], "gt", t).breaching
             /\ buildCVETotals \subseteq {reports[i].totals.critical.num :
                                           i \in {j \in DOMAIN reports : reports[j].available.is}}
        /\ mtype \in {"processes", "services"} =>
             (~evaluateRule(data).breaching =>
                  \E i \in DOMAIN reports : ~evaluateRule(reports[i]).breaching)

\* A log_match rule breaches exactly when the window holds as many matching lines
\* as its threshold says, although the query is cut off at the cap
\* (engine.go:731: "reporting exactly logMatchScanCap when the true count is higher
\* is an acceptable tradeoff"); a /regex/ over a window of more lines than the cap
\* is the exception, as the cap then comes before the match.
LogMatchExact ==
    \A isRegex \in BOOLEAN, t \in 1..ScanCap :
        (isRegex => Cardinality(InWindow) <= ScanCap) =>
            \A v \in evalLogMatch(isRegex, t) :
                /\ v.breaching <=> Hits(InWindow) >= t
                /\ v.breaching => \E n \in buildLogVolume(clock - MatchWindow) : n >= t

\* The verdicts of the rules and the figures of the report rest on the data there was.
VerdictsRestOnData == ReadersInventNothing /\ LogMatchExact
=============================================================================
