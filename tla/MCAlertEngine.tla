--------------------------- MODULE MCAlertEngine ---------------------------
(* Small instances of AlertEngine for TLC. *)
EXTENDS AlertEngine, TLC

MCSeverity == [r \in Rule |-> "warning"]
MCDuration == [r \in Rule |-> 1]
MCEscalationAfter == [r \in Rule |-> 1]
MCNoEscalation == [r \in Rule |-> 0]
MCCovers == [s \in Silence |-> Subject]
MCSymmetry == Permutations(AlertId)
=============================================================================
