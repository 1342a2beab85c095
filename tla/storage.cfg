SPECIFICATION Spec
CONSTANTS
    Series = {"cpu"}
    MaxTime = 10
    MaxLate = 1
    MaxSamples = 2
    LastSample = 2
    MaxLag = 0
    Size <- MCSize
    Cutoff <- MCCutoff
    Keep <- MCKeep
    PurgePeriod = 5
    Batch = 1
    PurgeBatch = 1
    Regimes = {{"crash", "delete"}, {"lookup", "save"}, {"read"}}
    MaxLines = 2
    MaxJournal = 2
    MaxInodes = 2
    RawQueueSize = 1
    MaxBatchSize = 2
    MaxPerWindow = 2
    LogRegimes = {{"file", "rotate", "stop"}, {"file", "truncate"}, {"file", "torn"},
                  {"file", "journald"}, {"journald", "end", "stop"}}
    Agent = {a1, a2}
    Days = 2
    MaxRowsStored = 3
    LogBatch = 1
    AuditBatch = 1
    DefaultDays = 1
    DefaultRows = 2
    Settings <- MCSettings
    SweepRegimes = {{"logs", "delete", "query"}, {"logs", "forget"},
                    {"audit_log", "check_results", "delete", "query"}}
INVARIANTS
    CountedOnce
    
    NothingLostUnseen
PROPERTIES
    
    
    BacklogClears
CHECK_DEADLOCK FALSE
