------------------------------ MODULE MCServices ------------------------------
(***************************************************************************)
(* Services of the hub and of the agent that share no state with one       *)
(* another, on small instances.  A behaviour is one of a single part,      *)
(* chosen at the start; the other parts stay in one initial state.         *)
(***************************************************************************)
EXTENDS CommandBroker, CheckScheduler, UpdateFlow, MetricReaders, FleetReport,
        Notifications, CveScan, AgentConfig, Schedules, ThreadDumps, StatusPage, MCRuleScopes,
        LatestVersion, ImageUpdates

VARIABLE part

Part == {"broker", "checks", "updates", "readers", "report", "notify", "scan",
         "config", "schedules", "dumps", "page", "scopes", "versions", "images"}

-----------------------------------------------------------------------------
(* Values of the constants. *)

\* One alert of the first host with one of any host, or with two that are cut off.
Episode(hosts) == [host : hosts, rule : {1, 2}, fired : 0..4, resolved : {0, 1, 3, 5}]
Recurring == {[host |-> 1, rule |-> r, fired |-> 4, resolved |-> 0] : r \in {1, 2}}
MCHistories ==
    {{}} \union {{a, b} : a \in Episode({1}), b \in Episode(ReportedHost)}
         \union {{a} \union Recurring : a \in Episode({1})}

Finding(s, k, f) == [severity |-> s, key |-> k, fixed |-> f]
MCOutput == {<<Finding("low", 1, TRUE), Finding("critical", 2, FALSE), Finding("low", 1, TRUE)>>,
             <<Finding("negligible", 1, FALSE), Finding("odd", 2, TRUE)>>}

MCTarget == [q \in DumpRequest |-> [agent |-> q, pid |-> 1]]

Raw(kinds, values) == [kind : kinds, value : values]
Junk == Raw({"junk"}, {0})
FileRaws(o) ==
    IF Option[o] = "bool" THEN Raw({"bool"}, BOOLEAN) \union Raw({"int"}, {1}) \union Junk
    ELSE Raw({"int", "float", "digits", "duration_text"}, {-1, 0, 5000}) \union Junk
EnvRaws(o) ==
    IF Option[o] = "bool" THEN Raw({"bool_text"}, BOOLEAN) \union Junk
    ELSE Raw({"duration_text"}, {-1, 0, 7200}) \union Raw({"digits"}, {0, 7200}) \union Junk
FlagRaws(o) ==
    IF Option[o] = "bool" THEN Raw({"bool_text"}, BOOLEAN) ELSE Raw({"digits"}, {0, 9000})

\* A source that says nothing, or something of one option.
Maybe(o, raws) == {<<>>} \union {[p \in {o} |-> r] : r \in raws}
MCSources ==
    UNION {[file : Maybe(o, FileRaws(o)), env : Maybe(o, EnvRaws(o)), flag : Maybe(o, FlagRaws(o))]
             : o \in DOMAIN Option}

NoRule == {[about |-> "cpu", agent |-> {}, tags |-> {}, check |-> {}]}
NoSilence == {[agent |-> {}, tags |-> {}, checks |-> {}, starts |-> 0, ends |-> 0]}

-----------------------------------------------------------------------------
\* What a part is given when a behaviour is about it, and when it is not.
Of(p, values, otherwise) == IF part = p THEN values ELSE otherwise

Init ==
    /\ part \in Part
    /\ BrokerInit
    /\ CheckInit(Of("checks", CheckRegimes, {{"read error"}}))
    /\ FlowInit(Of("updates", FlowRegimes, {{}}))
    /\ ReaderInit(Of("readers", MetricTypes, {"cpu"}))
    /\ FleetInit(Of("report", Histories, {{}}))
    /\ NotifyInit(Of("notify", NotifyRegimes, {{}}))
    /\ part # "notify" => \A c \in Channel : channelState[c] = "enabled"
    /\ ScanInit(Of("scan", BOOLEAN, {FALSE}))
    /\ ConfigInit(Of("config", ConfigSources, {[file |-> <<>>, env |-> <<>>, flag |-> <<>>]}))
    /\ ScheduleInit(Of("schedules", ScheduleRegimes, {{}}))
    /\ DumpInit(Of("dumps", DumpRegimes, {{}}))
    /\ part # "dumps" => \A q \in DumpRequest : listed[q] = "jvm"
    /\ PageInit(Of("page", PageParts, {"visits"}))
    /\ ScopeInit(Of("scopes", RuleRows, NoRule), Of("scopes", SilenceRows, NoSilence))
    /\ VersionInit
    /\ ImageInit

Others(p) ==
    /\ p # "broker" => UNCHANGED brokerVars
    /\ p # "checks" => UNCHANGED checkVars
    /\ p # "updates" => UNCHANGED flowVars
    /\ p # "readers" => UNCHANGED readerVars
    /\ p # "notify" => UNCHANGED notifyVars
    /\ p # "scan" => UNCHANGED scanVars
    /\ p # "schedules" => UNCHANGED scheduleVars
    /\ p # "dumps" => UNCHANGED dumpVars
    /\ p # "page" => UNCHANGED pageVars
    /\ p # "scopes" => UNCHANGED scopeVars
    /\ p # "versions" => UNCHANGED versionVars
    /\ p # "images" => UNCHANGED imageVars
    /\ UNCHANGED <<part, history, configVars>>

Next ==
    \/ part = "broker" /\ BrokerNext /\ Others("broker")
    \/ part = "checks" /\ CheckNext /\ Others("checks")
    \/ part = "updates" /\ FlowNext /\ Others("updates")
    \/ part = "readers" /\ ReaderNext /\ Others("readers")
    \/ part = "notify" /\ NotifyNext /\ Others("notify")
    \/ part = "scan" /\ ScanNext /\ Others("scan")
    \/ part = "schedules" /\ ScheduleNext /\ Others("schedules")
    \/ part = "dumps" /\ DumpNext /\ Others("dumps")
    \/ part = "page" /\ PageNext /\ Others("page")
    \/ part = "scopes" /\ ScopeNext /\ Others("scopes")
    \/ part = "versions" /\ VersionNext /\ Others("versions")
    \/ part = "images" /\ ImageNext /\ Others("images")

\* The parts' own fairness, each for its own behaviours.
Fairness ==
    /\ \A e \in Edit : WF_checkVars(part = "checks" /\ EditStep(e))
    /\ \A k \in Runner : WF_checkVars(part = "checks" /\ RunnerStep(k))
    /\ \A w \in Worker : WF_checkVars(part = "checks" /\ RunStep(w))
    /\ \A r \in UpdateRequest : WF_flowVars(part = "updates" /\ HandlerStep(r))
                                /\ WF_flowVars(part = "updates" /\ AgentStep(r))
    /\ \A c \in Conn : WF_flowVars(part = "updates" /\ FlowPumpStep(c))

allVars == <<brokerVars, checkVars, flowVars, readerVars, history, notifyVars, scanVars, configVars,
             scheduleVars, dumpVars, pageVars, scopeVars, versionVars, imageVars,
             part>>

Spec == Init /\ [][Next]_allVars /\ Fairness
=============================================================================
