------------------------------- MODULE Retention -------------------------------
(***************************************************************************)
(* The rows the hub keeps for a time only: log lines (internal/hub/logs),   *)
(* audit entries (internal/hub/audit) and check results                     *)
(* (internal/hub/checks).  One hourly goroutine purges audit_log, then logs *)
(* by age and logs by number (Downsampler.purgeOldData goes on with the     *)
(* metrics, which MetricStore models); the check scheduler's own loop       *)
(* purges check_results.  The clock counts days; the settings are read when *)
(* a purge starts.                                                          *)
(***************************************************************************)
EXTENDS Naturals, Integers, FiniteSets

CONSTANTS
    Agent,
    Days,          \* bound: the clock's last day
    MaxRowsStored, \* bound: rows written
    LogBatch,      \* purgeBatchSize of logs (500) and batchSize of check results (200)
    AuditBatch,    \* rows of the one query for audit entries (5000)
    DefaultDays,   \* the fallbacks of the retention settings
    DefaultRows,   \* the fallback of logs_max_rows
    Settings,      \* what the settings collection may hold under "days" and "rows"
    SweepRegimes   \* sets of collections that are written to and of disturbances: a "delete" or "query" that fails, "forget" (an agent
                   \* is deleted with its rows); each at most once

VARIABLES
    day,
    table,         \* the rows of each collection
    written,       \* rows written so far
    setting,       \* "days" and "rows": what the settings collection holds
    hourly,        \* the goroutine of purgeOldData
    results,       \* the goroutine of the check scheduler
    faulted,       \* the disturbances that happened
    sweepMay       \* the ones that may: chosen once

keepVars == <<day, table, written, setting, hourly, results, faulted, sweepMay>>

Table == {"audit_log", "logs", "check_results"}
Row == [agent : Agent, ts : 0..Days, n : 1..MaxRowsStored]

ASSUME RetentionAssumption ==
    /\ Days \in Nat /\ MaxRowsStored \in Nat /\ DefaultDays \in Nat \ {0} /\ DefaultRows \in Nat \ {0}
    /\ LogBatch \in Nat \ {0} /\ AuditBatch \in Nat \ {0}

\* What a setting holds: nothing, a JSON number in tenths, or a string that is a numeral.
ASSUME SettingsAssumption ==
    \A s \in Settings : \A v \in {s["days"], s["rows"]} :
        /\ v.kind = "number" => v.tenths \in Int
        /\ v.kind = "numeral" => v.int \in Int

\* Mutant: a number is taken whatever its sign.
MutantResolve(v, fallback) ==
    IF v.kind = "number" THEN v.tenths \div 10
    ELSE IF v.kind = "numeral" /\ v.int > 0 THEN v.int
    ELSE fallback

\* resolveIntSetting and resolveRetentionDays: a JSON number is cut to an integer, a
\* string must be a numeral; anything else, and what is not positive, is the default.
resolveIntSetting(v, fallback) ==
    IF v.kind = "number" /\ v.tenths > 0 THEN v.tenths \div 10
    ELSE IF v.kind = "numeral" /\ v.int > 0 THEN v.int
    ELSE fallback

Asleep == [pc |-> "idle", cutoff |-> 0, del |-> {}, more |-> FALSE, excess |-> 0]

KeepInit(regimes) ==
    /\ day = 0 /\ table = [t \in Table |-> {}] /\ written = 0
    /\ setting \in Settings
    /\ hourly = Asleep /\ results = Asleep
    /\ faulted = {} /\ sweepMay \in regimes

Once(fault) ==
    /\ fault \in sweepMay \ faulted /\ faulted' = faulted \union {fault}
    /\ UNCHANGED sweepMay

-----------------------------------------------------------------------------
\* IngestLogs stores a batch in one transaction, an entry that cannot be saved left
\* out; a line carries its own time, or the hub's when it has none.  Audit entries
\* and check results are single rows of now.
Store(t, a) ==
    /\ t \in sweepMay /\ written < MaxRowsStored /\ written' = written + 1
    /\ \E ts \in IF t = "logs" /\ day > 0 THEN {day - 1, day} ELSE {day} :
         table' = [table EXCEPT ![t] = @ \union {[agent |-> a, ts |-> ts, n |-> written + 1]}]
    /\ UNCHANGED <<day, setting, hourly, results, faulted, sweepMay>>

\* The deletion of an agent takes its log lines along (cascade).
ForgetAgent ==
    /\ Once("forget")
    /\ \E a \in Agent : table' = [table EXCEPT !["logs"] = {r \in @ : r.agent # a}]
    /\ UNCHANGED <<day, written, setting, hourly, results>>

NextDay ==
    /\ day < Days /\ day' = day + 1
    /\ hourly.pc = "idle" /\ results.pc = "idle"
    /\ UNCHANGED <<table, written, setting, hourly, results, faulted, sweepMay>>

-----------------------------------------------------------------------------
Stale(t, cutoff) == {r \in table[t] : r.ts < cutoff}

AgeCutoff == day - resolveIntSetting(setting["days"], DefaultDays)

\* What one query of at most limit rows may return.
Page(from, limit) ==
    {b \in SUBSET from : Cardinality(b) <= limit /\ (Cardinality(b) < limit => b = from)}

\* One row of a page; one that cannot be deleted is logged and passed over.
DeleteOne(t, r) ==
    \/ table' = [table EXCEPT ![t] = @ \ {r}] /\ UNCHANGED <<faulted, sweepMay>>
    \/ Once("delete") /\ UNCHANGED table

\* Mutant: a query that fails ends the goroutine.
MutantAuditPurge ==
    /\ hourly.pc = "idle"
    /\ \/ /\ \E b \in Page(Stale("audit_log", AgeCutoff), AuditBatch) :
               hourly' = [Asleep EXCEPT !.pc = "audit", !.del = b]
          /\ UNCHANGED <<faulted, sweepMay>>
       \/ Once("query") /\ hourly' = [Asleep EXCEPT !.pc = "ended"]
    /\ UNCHANGED <<day, table, written, setting, results>>

\* audit.PurgeOld: one page, whatever is left waits for the next hour.
AuditPurge ==
    /\ hourly.pc = "idle"
    /\ \/ /\ \E b \in Page(Stale("audit_log", AgeCutoff), AuditBatch) :
               hourly' = [Asleep EXCEPT !.pc = "audit", !.del = b]
          /\ UNCHANGED <<faulted, sweepMay>>
       \/ Once("query") /\ hourly' = [Asleep EXCEPT !.pc = "audit"]
    /\ UNCHANGED <<day, table, written, setting, results>>

\* logs.PurgeOld starts when audit.PurgeOld has returned.
LogsPurge ==
    /\ hourly.pc = "audit" /\ hourly.del = {}
    /\ hourly' = [Asleep EXCEPT !.pc = "logs", !.cutoff = AgeCutoff, !.more = TRUE]
    /\ UNCHANGED <<day, table, written, setting, results, faulted, sweepMay>>

\* A full page is followed by another query.
Again(b) == Cardinality(b) = LogBatch

LogsPage ==
    /\ hourly.pc = "logs" /\ hourly.more /\ hourly.del = {}
    /\ \/ /\ \E b \in Page(Stale("logs", hourly.cutoff), LogBatch) :
               hourly' = [hourly EXCEPT !.del = b, !.more = Again(b)]
          /\ UNCHANGED <<faulted, sweepMay>>
       \/ Once("query") /\ hourly' = [hourly EXCEPT !.more = FALSE]
    /\ UNCHANGED <<day, table, written, setting, results>>

\* EnforceMaxRows counts the rows over the cap once.
Excess == Cardinality(table["logs"]) - resolveIntSetting(setting["rows"], DefaultRows)

CapStart ==
    /\ hourly.pc = "logs" /\ ~hourly.more /\ hourly.del = {}
    /\ hourly' = IF Excess <= 0 THEN Asleep ELSE [Asleep EXCEPT !.pc = "cap", !.excess = Excess]
    /\ UNCHANGED <<day, table, written, setting, results, faulted, sweepMay>>

\* The oldest rows, at most as many as are still over the cap; none left, or all of
\* them handled, ends the loop.
CapPage ==
    /\ hourly.pc = "cap" /\ hourly.del = {}
    /\ LET limit == IF hourly.excess < LogBatch THEN hourly.excess ELSE LogBatch IN
       IF hourly.excess = 0 \/ table["logs"] = {}
       THEN hourly' = Asleep
       ELSE \E b \in Page(table["logs"], limit) :
              /\ \A r \in b, q \in table["logs"] \ b : r.ts <= q.ts
              /\ hourly' = [hourly EXCEPT !.del = b]
    /\ UNCHANGED <<day, table, written, setting, results, faulted, sweepMay>>

\* A row of a page goes, or is passed over; the cap counts both.
HourlyDelete ==
    /\ hourly.pc \in {"audit", "logs", "cap"}
    /\ \E r \in hourly.del :
         /\ DeleteOne(IF hourly.pc = "audit" THEN "audit_log" ELSE "logs", r)
         /\ hourly' = [hourly EXCEPT !.del = @ \ {r},
                                     !.excess = IF hourly.pc = "cap" THEN @ - 1 ELSE @]
    /\ UNCHANGED <<day, written, setting, results>>

\* purgeOldResults: pages until a short one, as logs.PurgeOld.
ResultsPurge ==
    /\ results.pc = "idle"
    /\ results' = [Asleep EXCEPT !.pc = "results", !.cutoff = AgeCutoff, !.more = TRUE]
    /\ UNCHANGED <<day, table, written, setting, hourly, faulted, sweepMay>>

ResultsPage ==
    /\ results.pc = "results" /\ results.more /\ results.del = {}
    /\ \/ /\ \E b \in Page(Stale("check_results", results.cutoff), LogBatch) :
               results' = [results EXCEPT !.del = b, !.more = Again(b)]
          /\ UNCHANGED <<faulted, sweepMay>>
       \/ Once("query") /\ results' = [results EXCEPT !.more = FALSE]
    /\ UNCHANGED <<day, table, written, setting, hourly>>

ResultsDelete ==
    /\ results.pc = "results"
    /\ \E r \in results.del : /\ DeleteOne("check_results", r)
                              /\ results' = [results EXCEPT !.del = @ \ {r}]
    /\ UNCHANGED <<day, written, setting, hourly>>

ResultsDone ==
    /\ results.pc = "results" /\ ~results.more /\ results.del = {}
    /\ results' = Asleep
    /\ UNCHANGED <<day, table, written, setting, hourly, faulted, sweepMay>>

HourlyStep == AuditPurge \/ LogsPurge \/ LogsPage \/ CapStart \/ CapPage \/ HourlyDelete
ResultsStep == ResultsPurge \/ ResultsPage \/ ResultsDelete \/ ResultsDone

KeepNext ==
    \/ \E t \in Table, a \in Agent : Store(t, a)
    \/ ForgetAgent \/ NextDay
    \/ HourlyStep \/ ResultsStep

\* Both loops' tickers fire every hour.
KeepFairness == WF_keepVars(HourlyStep) /\ WF_keepVars(ResultsStep)

KeepSpec == KeepInit(SweepRegimes) /\ [][KeepNext]_keepVars /\ KeepFairness

-----------------------------------------------------------------------------
\* A setting between 0 and 1 is positive, and cut to 0.
CutToZero(v) == v.kind = "number" /\ v.tenths \in 1..9

\* No purge by age touches a row of the last day, whatever the setting holds:
\* missing, text, zero, negative (resolveIntSetting); a fraction below 1 is the
\* exception, which becomes a retention of no days.
LastDayKept ==
    [][~CutToZero(setting["days"]) /\ faulted' = faulted =>
         \A t \in Table : \A r \in table[t] \ table'[t] :
            (t = "logs" => hourly.pc = "logs") => r.ts < day]_keepVars

\* logs.EnforceMaxRows trims down to the cap and never below it, although it counts
\* the rows once and deletes them page by page while lines come in; the deletion of
\* an agent in the middle is the exception.
NotBelowCap ==
    [][hourly.pc = "cap" /\ hourly'.excess < hourly.excess /\ "forget" \notin faulted =>
         Cardinality(table'["logs"]) >= resolveIntSetting(setting["rows"], DefaultRows)]_keepVars

\* Retention spares what it is told to keep.
RetentionSpares == LastDayKept /\ NotBelowCap

\* Every row past its retention is purged in the end, whatever the size of a page
\* and although deletions and queries fail now and then.
RetentionSettles == <>[](\A t \in Table : Stale(t, AgeCutoff) = {})
=============================================================================
