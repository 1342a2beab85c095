------------------------------- MODULE MCStorage -------------------------------
(***************************************************************************)
(* What the agents report and how long the hub keeps it, on small           *)
(* instances: the metric tables, the shipping of logs and the retention of  *)
(* rows.  The three parts share no state; a behaviour is one of a single    *)
(* part, chosen at the start.                                               *)
(***************************************************************************)
EXTENDS MetricStore, LogShipper, Retention

VARIABLE part

\* Raw rows, and buckets of "1m", "5m" and "1h", scaled.
MCSize == <<1, 2, 4, 8>>
MCCutoff == <<1, 2, 3>>
MCKeep == <<3, 8, 8, 9>>

Missing == [kind |-> "missing"]
Number(tenths) == [kind |-> "number", tenths |-> tenths]
Numeral(int) == [kind |-> "numeral", int |-> int]

MCSettings == {[days |-> Missing, rows |-> Missing],
               [days |-> Number(5), rows |-> Number(10)],
               [days |-> Numeral(2), rows |-> Number(-10)],
               [days |-> Number(-10), rows |-> Numeral(1)]}

Init ==
    /\ part \in {"metrics", "logs", "retention"}
    /\ StoreInit(IF part = "metrics" THEN Regimes ELSE {{}})
    /\ LogInit(IF part = "logs" THEN LogRegimes ELSE {{}})
    /\ KeepInit(IF part = "retention" THEN SweepRegimes ELSE {{}})
    /\ part # "retention" => setting = [days |-> Missing, rows |-> Missing]

Next ==
    /\ \/ part = "metrics" /\ StoreNext /\ UNCHANGED <<logVars, keepVars>>
       \/ part = "logs" /\ LogNext /\ UNCHANGED <<storeVars, keepVars>>
       \/ part = "retention" /\ KeepNext /\ UNCHANGED <<storeVars, logVars>>
    /\ UNCHANGED part

\* StoreFairness, LogFairness and KeepFairness, each for its own part.
Fairness ==
    /\ WF_storeVars(part = "metrics" /\ AggregationStep)
    /\ WF_storeVars(part = "metrics" /\ PurgeStep)
    /\ WF_storeVars(part = "metrics" /\ StoreTick)
    /\ WF_logVars(part = "logs" /\ TailerStep) /\ WF_logVars(part = "logs" /\ JournalStep)
    /\ WF_logVars(part = "logs" /\ Take) /\ WF_logVars(part = "logs" /\ FlushTick)
    /\ SF_logVars(part = "logs" /\ StartDrain) /\ WF_logVars(part = "logs" /\ Drain)
    /\ WF_logVars(part = "logs" /\ Recreate) /\ WF_logVars(part = "logs" /\ Write)
    /\ WF_keepVars(part = "retention" /\ HourlyStep)
    /\ WF_keepVars(part = "retention" /\ ResultsStep)

Spec ==
    /\ Init /\ [][Next]_<<storeVars, logVars, keepVars, part>>
    /\ Fairness

-----------------------------------------------------------------------------
\* The background work of all three catches up, whatever the size of a batch and
\* although single operations fail: rows are reduced, lines shipped, old rows purged.
BacklogClears == AllReduced /\ TailerKeepsUp /\ RetentionSettles
=============================================================================
