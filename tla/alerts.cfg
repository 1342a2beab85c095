SPECIFICATION FairSpec
CONSTANTS
    Rule = {r1}
    Subject = {s1}
    AlertId = {a1, a2, a3}
    Silence = {z1}
    NoAlert = NoAlert
    Covers <- MCCovers
    Severity <- MCSeverity
    Duration <- MCDuration
    EscalationAfter <- MCEscalationAfter
    Cooldown = 2
    Faults = {"rules", "silences", "fire", "refresh", "escalate"}
    MaxClock = 6
    CalmAfter = 3
    MaxLag = 1
    MaxCrashes = 1
INVARIANTS EscalatedOnce AtMostOneFiring
PROPERTIES  BreachGetsNotified ClearGetsResolved
