----------------------------- MODULE FleetReport -----------------------------
(***************************************************************************)
(* The figures that are made of the alert history: the alerts and the       *)
(* uptime of the weekly report (internal/hub/report/report.go) and the      *)
(* uptime of a host on the public status page (computeAgentMetrics of       *)
(* internal/hub/api/public_status.go), with the interval arithmetic of      *)
(* internal/hub/uptime.  Both read the history at one moment and change     *)
(* nothing.  Percentages are left as the downtime they are computed from.   *)
(***************************************************************************)
EXTENDS Integers, Sequences, FiniteSets, SequencesExt, Functions, Ordering

CONSTANTS
    ReportedHost,          \* agents
    Histories,     \* sets of alert rows that may be found: host, rule, fired, resolved
                   \* (0 while the alert is firing)
    Moment,        \* the moment the history is read
    Span,          \* length of the report's period
    DayLength,     \* ticks of a day
    Bars,          \* days of the status page's bar
    LongestDays,   \* days of its longest figure (30)
    AlertLimit     \* rows a query for one host returns (5000)

VARIABLE history   \* the alert rows: chosen once

ASSUME FleetAssumption ==
    /\ Moment \in Nat /\ Span \in Nat \ {0} /\ DayLength \in Nat \ {0}
    /\ Bars \in Nat \ {0} /\ LongestDays \in Nat \ {0} /\ AlertLimit \in Nat
    /\ IsFiniteSet(ReportedHost)
    /\ \A found \in Histories :
         IsFiniteSet(found) /\ found \subseteq [host : ReportedHost, rule : Nat, fired : Nat, resolved : Nat]

FleetInit(histories) == history \in histories

-----------------------------------------------------------------------------
(* internal/hub/uptime. *)

\* Mutant: a merged interval ends where the last one does.
MutantJoin(merged, cur) ==
    IF merged # <<>> /\ cur[1] <= Last(merged)[2]
    THEN Append(Front(merged), <<Last(merged)[1], cur[2]>>)
    ELSE Append(merged, cur)

\* One interval of the sorted ones after the other.
Join(merged, cur) ==
    IF merged # <<>> /\ cur[1] <= Last(merged)[2]
    THEN IF cur[2] > Last(merged)[2]
         THEN Append(Front(merged), <<Last(merged)[1], cur[2]>>) ELSE merged
    ELSE Append(merged, cur)

Joined(sorted) ==
    LET upTo[n \in 0..Len(sorted)] == IF n = 0 THEN <<>> ELSE Join(upTo[n - 1], sorted[n]) IN
    upTo[Len(sorted)]

\* By their beginnings; which of those that begin together comes first does not matter.
BeginsBefore(intervals) ==
    {p \in intervals \X intervals : p[1][1] < p[2][1] \/ (p[1][1] = p[2][1] /\ p[1][2] < p[2][2])}

Merge(intervals) == Joined(Sorted(intervals, BeginsBefore(intervals)))

\* UptimePercent: what the merged intervals cover of a window.
Overlap(iv, from, to) ==
    LET start == IF iv[1] < from THEN from ELSE iv[1]
        end == IF iv[2] > to THEN to ELSE iv[2] IN
    IF end > start THEN end - start ELSE 0

Downtime(merged, from, to) ==
    SumFunction([i \in DOMAIN merged |-> Overlap(merged[i], from, to)])

-----------------------------------------------------------------------------
\* The alerts of a host, the oldest first and no more than the query returns; rows
\* of the same moment come in any order, here in that of the rules and resolutions.
FiredBefore(alerts) ==
    {p \in alerts \X alerts :
       \/ p[1].fired < p[2].fired
       \/ p[1].fired = p[2].fired /\ p[1].rule < p[2].rule
       \/ p[1].fired = p[2].fired /\ p[1].rule = p[2].rule /\ p[1].resolved < p[2].resolved}

AlertsOf(h) ==
    LET found == {a \in history : a.host = h /\ a.fired <= Moment}
        all == Sorted(found, FiredBefore(found)) IN
    IF Len(all) > AlertLimit THEN SubSeq(all, 1, AlertLimit) ELSE all

\* An alert lasts until now while it is not resolved, and never ends before it fired.
EndOf(a) ==
    LET end == IF a.resolved = 0 THEN Moment ELSE a.resolved IN
    IF end < a.fired THEN a.fired ELSE end

\* The alerts of a host that do not end before a moment, and their intervals.
LastingTo(h, from) == At(AlertsOf(h), {i \in DOMAIN AlertsOf(h) : EndOf(AlertsOf(h)[i]) >= from})
Intervals(h, from) ==
    LET rows == LastingTo(h, from) IN {<<rows[i].fired, EndOf(rows[i])>> : i \in DOMAIN rows}

-----------------------------------------------------------------------------
(* The report. *)

PeriodStart == Moment - Span

agentUptimePercent(h) == Downtime(Merge(Intervals(h, PeriodStart)), PeriodStart, Moment)

\* buildFleetSummary: the downtime of all hosts, out of the time of all hosts.
buildFleetSummary ==
    <<SumFunction([h \in ReportedHost |-> agentUptimePercent(h)]), Cardinality(ReportedHost) * Span>>

\* The query's limit of 20000 alerts and the counts by severity are left out.
Fired == {a \in history : PeriodStart <= a.fired /\ a.fired <= Moment}

\* The rules of the alerts fired in the period, by number of firings and then by id;
\* the report shows the first five.
Firings(r) == Cardinality({a \in Fired : a.rule = r})
MoreFirings(rules) ==
    {p \in rules \X rules :
       \/ Firings(p[1]) > Firings(p[2])
       \/ Firings(p[1]) = Firings(p[2]) /\ p[1] < p[2]}

TopRules ==
    LET rules == {a.rule : a \in Fired}
        sorted == Sorted(rules, MoreFirings(rules)) IN
    [i \in DOMAIN sorted |-> <<sorted[i], Firings(sorted[i])>>]

\* The sum and the number of the times to resolution.
TimesToResolve ==
    LET resolved == {a \in Fired : a.resolved > a.fired} IN
    <<SumFunction([a \in resolved |-> a.resolved - a.fired]), Cardinality(resolved)>>

\* buildAlertsSummary.
buildAlertsSummary == [topRules |-> TopRules, resolution |-> TimesToResolve]

\* Build: one section after the other, none of which can fail the report.
Build == [fleet |-> buildFleetSummary, alerts |-> buildAlertsSummary]

-----------------------------------------------------------------------------
(* The status page. *)

\* A bar covers a day from the time of day of the visit on, and is labelled with the
\* date it begins on; the incidents of a bar are the alerts fired on that date.
computeAgentMetrics(h) ==
    LET from == Moment - DayLength * (IF Bars < LongestDays THEN LongestDays ELSE Bars)
        rows == LastingTo(h, from)
        merged == Merge(Intervals(h, from))
        start(d) == Moment - (Bars - d) * DayLength IN
    [day |-> Downtime(merged, Moment - DayLength, Moment),
     longest |-> Downtime(merged, Moment - LongestDays * DayLength, Moment),
     daily |-> [d \in 0..(Bars - 1) |->
                  [down |-> Downtime(merged, start(d), start(d + 1)),
                   incidents |-> Cardinality({i \in DOMAIN rows :
                                    rows[i].fired \div DayLength = start(d) \div DayLength})]],
     lastIncident |-> IF rows = <<>> THEN 0 ELSE Last(rows).fired]

-----------------------------------------------------------------------------
\* The moments of a window at which some alert of a host was firing.
Covered(h, from, to) ==
    Cardinality({t \in from..(to - 1) :
                   \E a \in history : a.host = h /\ a.fired <= t /\ (a.resolved = 0 \/ t < a.resolved)})

\* The arithmetic on any history, alerts that overlap, touch, are open or end before
\* they fired included: while a host has no more alerts than the query returns, the
\* report's downtime and each of the page's is the number of moments of its window at
\* which some alert of the host was firing, so that the two agree and the bars add up;
\* the report's rules come with falling numbers of firings that add up to all of them.
ReportAddsUp ==
    /\ \A h \in {a.host : a \in history} :
         Cardinality({a \in history : a.host = h}) <= AlertLimit =>
             LET m == computeAgentMetrics(h) IN
             /\ agentUptimePercent(h) = Covered(h, PeriodStart, Moment)
             /\ m.day = Covered(h, Moment - DayLength, Moment)
             /\ m.longest = Covered(h, Moment - LongestDays * DayLength, Moment)
             /\ SumFunction([d \in 0..(Bars - 1) |-> m.daily[d].down])
                  = Covered(h, Moment - Bars * DayLength, Moment)
             /\ m.day > 0 => m.lastIncident > 0 \/ \E a \in history : a.host = h /\ a.fired = 0
    /\ Fired # {} =>
       LET rules == Build.alerts.topRules
           resolution == Build.alerts.resolution IN
       /\ SumFunction([i \in DOMAIN rules |-> rules[i][2]]) = Cardinality(Fired)
       /\ \A i \in 1..(Len(rules) - 1) : rules[i][2] >= rules[i + 1][2]
       /\ resolution[2] <= Cardinality(Fired) /\ resolution[1] >= resolution[2]
       /\ Build.fleet[1] <= Build.fleet[2]
=============================================================================
