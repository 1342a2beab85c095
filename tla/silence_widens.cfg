SPECIFICATION ScopeSpec
CONSTANTS
    WatchedAgent = {"a1", "a2"}
    WatchedCheck = {"c1", "c2"}
    Tag = {"t"}
    RuleRows <- MCRules
    SilenceRows <- MCSilences
    TagsAtFirst <- MCTags
    MaxEdits = 0
    EndOfWatch = 2
INVARIANTS CheckSilenceSparesAgents
CHECK_DEADLOCK FALSE
