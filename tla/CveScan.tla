------------------------------- MODULE CveScan -------------------------------
(***************************************************************************)
(* The CVE scan of the agent (internal/agent/collector/cvescan.go): a       *)
(* goroutine scans the host and the images of the running containers with   *)
(* trivy or grype, under one deadline for all of them, and leaves its       *)
(* result for Collect, which runs on the agent's own schedule.              *)
(* A finding keeps what the code looks at: its severity as the scanner      *)
(* wrote it, the key it is known by (id, package and target), and whether a *)
(* fixed version is known.                                                  *)
(***************************************************************************)
EXTENDS Integers, Sequences, FiniteSets, SequencesExt, Functions, Ordering

CONSTANTS
    Image,           \* images of running containers: natural numbers, in their order
    ScannerOutput,   \* findings a scanner may print for a target: sequences
    MaxImages,       \* cve_scan_max_images
    FindingsLimit,   \* cveScanFindingsLimit (200)
    Interval,        \* cve_scan_interval
    HardTimeout,     \* cveScanHardTimeout
    EndOfScans       \* bound: the end of the clock

VARIABLES
    scanEnabled,     \* cve_scan_enabled: chosen once
    tool,            \* is a scanner installed
    containers,      \* the images of the containers that run now: <<S>>, or <<>> if docker does not answer
    moment,          \* the clock
    scan,            \* the goroutine: pc, start, todo, targets, err; due: when the ticker fires next
    lastResult, lastRunAt,
    truth,           \* what the last finished scan had to find: the counts of the targets it visited
    stopping         \* has stopCh been closed

scanVars == <<scanEnabled, tool, containers, moment, scan, lastResult, lastRunAt, truth, stopping>>

CveFinding == [severity : STRING, key : Nat, fixed : BOOLEAN]

ASSUME ScanAssumption ==
    /\ Image \subseteq Nat /\ MaxImages \in Nat \ {0} /\ FindingsLimit \in Nat
    /\ Interval \in Nat \ {0} /\ HardTimeout \in Nat \ {0} /\ EndOfScans \in Nat
    /\ ScannerOutput \subseteq Seq(CveFinding)

Host == -1
Severity == <<"critical", "high", "medium", "low", "unknown">>

normalizeCveSeverity(raw) ==
    CASE raw = "negligible" -> "low"
      [] raw \in ToSet(Severity) -> raw
      [] OTHER -> "unknown"

Rank(severity) == CHOOSE i \in DOMAIN Severity : Severity[i] = severity

\* The first finding of every key, in the order of the report.
dedupeCveFindings(findings) ==
    At(findings, {i \in DOMAIN findings : \A j \in 1..(i - 1) : findings[j].key # findings[i].key})

\* parseTrivyReport, parseGrypeReport.
Parsed(output) == [i \in DOMAIN output |-> [output[i] EXCEPT !.severity = normalizeCveSeverity(@)]]

CountsOf(findings) ==
    [s \in ToSet(Severity) |-> Cardinality({i \in DOMAIN findings : findings[i].severity = s})]

\* By rank, and in the order they came in.
ByRank(findings) ==
    LET rank(i) == Rank(findings[i].severity) IN
    {p \in (DOMAIN findings) \X (DOMAIN findings) :
        rank(p[1]) < rank(p[2]) \/ (rank(p[1]) = rank(p[2]) /\ p[1] < p[2])}

\* A stable sort by rank, of which the report lists the head.
buildCveTarget(ref, findings) ==
    LET unique == dedupeCveFindings(findings)
        order == Sorted(DOMAIN unique, ByRank(unique))
        sorted == [i \in DOMAIN unique |-> unique[order[i]]] IN
    [ref |-> ref, counts |-> CountsOf(unique),
     fixable |-> Cardinality({i \in DOMAIN unique : unique[i].fixed}),
     findings |-> IF Len(sorted) > FindingsLimit THEN SubSeq(sorted, 1, FindingsLimit) ELSE sorted]

aggregateCveTotals(targets) ==
    [s \in ToSet(Severity) |-> SumFunction([i \in DOMAIN targets |-> targets[i].counts[s]])]

notAvailableCvePayload == [available |-> FALSE, err |-> TRUE, targets |-> <<>>, totals |-> aggregateCveTotals(<<>>)]

-----------------------------------------------------------------------------
Resting == [pc |-> "waiting", due |-> 0, start |-> 0, todo |-> <<>>, targets |-> <<>>, err |-> FALSE, seen |-> <<>>]

\* The first scan comes a while after the start; without cve_scan_enabled none does.
ScanInit(enabled) ==
    /\ scanEnabled \in enabled
    /\ tool = TRUE /\ containers = <<>> /\ moment = 0
    /\ scan = IF scanEnabled THEN [Resting EXCEPT !.due = 1] ELSE [Resting EXCEPT !.pc = "none"]
    /\ lastResult = notAvailableCvePayload /\ lastRunAt = 0 /\ truth = <<>>
    /\ stopping = FALSE

Expired == moment - scan.start >= HardTimeout

\* The first run, or the ticker; a tick missed during a scan is delivered after it.
\* The host is scanned with whatever scanner is found.
StartScan ==
    /\ scan.pc = "waiting" /\ moment >= scan.due /\ moment + HardTimeout <= EndOfScans
    /\ scan' = IF tool THEN [scan EXCEPT !.pc = "scanning", !.start = moment, !.todo = <<Host>>]
                       ELSE [scan EXCEPT !.pc = "publishing", !.start = moment]
    /\ UNCHANGED <<scanEnabled, tool, containers, moment, lastResult, lastRunAt, truth, stopping>>

\* Mutant: only the latest error is kept, also when it is none.
MutantRecordErr(err) == err

\* Errors are recorded, the first one stays.
recordErr(err) == scan.err \/ err

\* dockerImages, after the host: no image without an error if docker does not answer.
Images ==
    IF containers = <<>> \/ Expired THEN <<>>
    ELSE LET sorted == SetToSortSeq(containers[1], <) IN
         IF Len(sorted) > MaxImages THEN SubSeq(sorted, 1, MaxImages) ELSE sorted

Following == IF Head(scan.todo) = Host THEN Images ELSE Tail(scan.todo)

\* scanTarget: the scanner prints a report, whatever its exit status; or it fails, is
\* killed at the deadline, or prints what cannot be parsed.
ScanTarget ==
    /\ scan.pc = "scanning"
    /\ \E output \in ScannerOutput, ok \in BOOLEAN :
         LET target == buildCveTarget(Head(scan.todo), Parsed(output)) IN
         /\ ok => ~Expired
         /\ scan' = [scan EXCEPT !.err = recordErr(~ok),
                       !.targets = IF ok THEN Append(@, target) ELSE @,
                       !.seen = Append(@, output),
                       !.todo = Following,
                       !.pc = IF Following = <<>> THEN "publishing" ELSE @]
    /\ UNCHANGED <<scanEnabled, tool, containers, moment, lastResult, lastRunAt, truth, stopping>>

\* runOnce: the result replaces the last one under the mutex, also an empty one.
PublishScan ==
    /\ scan.pc = "publishing"
    /\ lastResult' = IF scan.seen = <<>> THEN notAvailableCvePayload
                     ELSE [available |-> TRUE, err |-> scan.err, targets |-> scan.targets,
                           totals |-> aggregateCveTotals(scan.targets)]
    /\ lastRunAt' = moment
    /\ truth' = scan.seen
    /\ scan' = [Resting EXCEPT !.due = Interval + IF lastRunAt = 0 THEN moment ELSE scan.due]
    /\ UNCHANGED <<scanEnabled, tool, containers, moment, stopping>>

\* Stop ends the goroutine when it next waits; with the ticker due it may still scan.
EndScans ==
    /\ scan.pc = "waiting" /\ stopping
    /\ scan' = [scan EXCEPT !.pc = "none"]
    /\ UNCHANGED <<scanEnabled, tool, containers, moment, lastResult, lastRunAt, truth, stopping>>

StopScans ==
    /\ ~stopping /\ stopping' = TRUE
    /\ UNCHANGED <<scanEnabled, tool, containers, moment, scan, lastResult, lastRunAt, truth>>

\* Time does not pass the deadline while a scanner runs: it is killed then.
ScanTick ==
    /\ moment < EndOfScans /\ ~(scan.pc = "scanning" /\ Expired)
    /\ moment' = moment + 1
    /\ UNCHANGED <<scanEnabled, tool, containers, scan, lastResult, lastRunAt, truth, stopping>>

\* Containers come and go, a scanner is installed or removed.
HostChanges ==
    /\ \/ containers' \in {<<>>} \union {<<S>> : S \in SUBSET Image} /\ UNCHANGED tool
       \/ tool' = ~tool /\ UNCHANGED containers
    /\ UNCHANGED <<scanEnabled, moment, scan, lastResult, lastRunAt, truth, stopping>>

ScanStep == StartScan \/ ScanTarget \/ PublishScan \/ EndScans
ScanNext == ScanStep \/ StopScans \/ ScanTick \/ HostChanges

ScanSpec == ScanInit(BOOLEAN) /\ [][ScanNext]_scanVars

\* Collect: the last result, whatever the goroutine does.
Collect == [result |-> lastResult, stale |-> scanEnabled /\ (lastRunAt = 0 \/ moment - lastRunAt > 2 * Interval)]

-----------------------------------------------------------------------------
Keys(output, severity) ==
    {output[i].key : i \in {j \in DOMAIN output :
        /\ normalizeCveSeverity(output[j].severity) = severity
        /\ \A k \in 1..(j - 1) : output[k].key # output[j].key}}

\* What reaches the alert rules is not short of a finding in silence: a result that
\* carries no error counts every distinct finding of every target the scan visited,
\* each once and under one severity, and a target whose list is cut off lists none
\* that is less severe than one it leaves out (recordErr, dedupeCveFindings,
\* buildCveTarget, aggregateCveTotals).
CompleteOrFlagged ==
    Collect.result.available =>
        /\ ~Collect.result.err =>
              \A s \in ToSet(Severity) :
                 Collect.result.totals[s] = SumFunction([i \in DOMAIN truth |-> Cardinality(Keys(truth[i], s))])
        /\ \A i \in DOMAIN Collect.result.targets :
              LET t == Collect.result.targets[i]
                  listed(s) == Cardinality({j \in DOMAIN t.findings : t.findings[j].severity = s}) IN
              \A s, worse \in ToSet(Severity) :
                 Rank(worse) < Rank(s) /\ listed(s) > 0 => listed(worse) = t.counts[worse]
=============================================================================
