SPECIFICATION Spec
CONSTANTS
    Request = {r1, r2}
    Pump = {p1, p2}
    NoRequest = none
    MaxClock = 1
    MaxAnswers = 1
    Edit = {e1, e2}
    Manual = {m1}
    MaxRunners = 2
    Threshold = 2
    MaxRestarts = 1
    CheckRegimes = {{"edits overlap"}, {"run now", "save error"}, {"read error", "restart"}}
    UpdateRequest = {u1, u2}
    Base = Base
    NoTarget = NoTarget
    MaxConns = 3
    FlowRegimes = {{}, {"overtaking"}, {"late_save"}, {"loss"}}
    MetricTypes = {"cpu", "processes", "services", "cve_scan", "disk", "logs"}
    Percents = {0, 1, 3}
    MaxReports = 3
    MaxLogLines = 3
    EndOfClock = 4
    FiveMinutes = 2
    AnHour = 4
    MatchWindow = 1
    ScanCap = 1
    Histories <- MCHistories
    ReportedHost = {1, 2}
    Moment = 5
    Span = 3
    DayLength = 2
    Bars = 2
    LongestDays = 2
    AlertLimit = 2
    Channel = {push, mail}
    PushChannel = {push}
    Email = {mail}
    Unregistered = {}
    Subscription = {s1, s2}
    MaxPairs = 3
    MaxDispatches = 1
    MaxRequests = 2
    NotifyRegimes = {{"save", "crash"}, {"read", "admin"}}
    Image = {1, 2}
    ScannerOutput <- MCOutput
    MaxImages = 1
    FindingsLimit = 1
    Interval = 2
    HardTimeout = 1
    EndOfScans = 4
    ConfigSources <- MCSources
    Save = {v1, v2}
    MaxFiles = 4
    KeepSettings = {0, 1, 2}
    ScheduleRegimes = {{"saves", "restart"}, {"saves", "overlap"}, {"backups", "admin", "delete"}, {"backups", "create", "restart"}}
    DumpRequest = {"q1", "q2"}
    DumpTarget <- MCTarget
    MaxMs = 1
    DumpRegimes = {{"save"}, {"link"}, {"restart"}}
    Visitor = {w1, w2}
    VisitLimit = 2
    Minute = 2
    SweepEvery = 3
    MaxVisits = 4
    Day = 2
    ShowDays = 2
    WindowDays = 3
    RowLimit = 3
    MaxRows = 4
    EndOfPage = 7
    PageParts = {"visits", "results"}
    WatchedAgent = {"a1", "a2"}
    WatchedCheck = {"c1", "c2"}
    Tag = {"t"}
    RuleRows <- MCRules
    SilenceRows <- MCSilences
    TagsAtFirst <- MCTags
    PageLoad = {g1, g2, g3}
    VersionTTL = 1
    FetchLimit = 1
    MaxReleases = 2
    EndOfReleases = 3
    Container = {i1, i2}
    DigestTTL = 1
    MaxPushes = 2
    MaxCollections = 1
    EndOfImages = 2
    MaxEdits = 1
    EndOfWatch = 2
INVARIANTS
    AnswerIsOwn
    ResponseWakesCaller
    RunnersFollowRow
    StatusIsEarned
    RowTellsOutcome
    VerdictsRestOnData
    
    KeysAgree
    CompleteOrFlagged
    
    
    DumpIsOwn
    
    ScopesHold
    OfferIsRecent
    BadgeIsHonest
PROPERTIES
    EnabledIsProbed
    
    
    NewestBackupsKept
CHECK_DEADLOCK FALSE
