---------------------------- MODULE MetricHistory ----------------------------
(***************************************************************************)
(* What the metric tables promise, whatever resolution a measurement has    *)
(* been reduced to: a sample that was stored is still represented by some   *)
(* row of its series and of its moment until it is older than Safe.         *)
(***************************************************************************)
EXTENDS Naturals

CONSTANTS Series, MaxTime, Safe

VARIABLES now, recorded, kept

Sample == [series : Series, ts : 0..MaxTime]

Old == {s \in Sample : s.ts + Safe < now}

HistoryInit == now = 0 /\ recorded = {} /\ kept = {}

\* A measurement arrives.
Record == \E s \in Sample \ recorded : /\ recorded' = recorded \union {s}
                                       /\ kept' = kept \union {s}
                                       /\ UNCHANGED now

\* Rows are merged and purged: only old samples may vanish, and a coarser row
\* may come to represent a neighbour again.
Maintain == /\ kept' \subseteq recorded
            /\ kept \ kept' \subseteq Old
            /\ UNCHANGED <<now, recorded>>

Pass == now < MaxTime /\ now' = now + 1 /\ UNCHANGED <<recorded, kept>>

HistorySpec == HistoryInit /\ [][Record \/ Maintain \/ Pass]_<<now, recorded, kept>>
=============================================================================
