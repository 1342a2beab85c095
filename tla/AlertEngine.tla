---------------------------- MODULE AlertEngine ----------------------------
(***************************************************************************)
(* The alert evaluation engine of the hub (internal/hub/alerts/engine.go), *)
(* the "alerts" table it writes and the acknowledge/unacknowledge handlers *)
(* (internal/hub/api/alerts_routes.go) that write the same rows.           *)
(*                                                                         *)
(* One goroutine runs evaluation cycles.  updateState holds Engine.mu, but *)
(* the table is shared: each database write and each (slow) notification   *)
(* dispatch is a step of its own, and operators, silences, probe values    *)
(* and process crashes interleave between them.  `pc' names what the       *)
(* goroutine does next and `job' what it holds while doing it.             *)
(*                                                                         *)
(* Time is counted in evaluation intervals (30 s); 0 is Go's zero time.    *)
(***************************************************************************)
EXTENDS Naturals

CONSTANTS
    Rule,             \* alert_rules records
    Subject,          \* agents and checks a rule is evaluated against
    AlertId,          \* ids of "alerts" records
    Silence,          \* ids of "silences" records
    NoAlert,          \* the empty ActiveAlertID
    Covers,           \* Covers[s]: the subjects SilenceMatches{Agent,Check} accepts
    Severity,         \* alert_rules.severity
    Duration,         \* alert_rules.duration, in intervals
    EscalationAfter,  \* alert_rules.escalation_after, in intervals; 0 disables
    Cooldown,         \* Engine.cooldownPeriod, in intervals
    Faults,           \* the database operations that may fail
    MaxClock,         \* bound: the last instant
    CalmAfter,        \* bound: after this instant the environment is quiet
    MaxLag,           \* bound: intervals a cycle may start late
    MaxCrashes        \* bound: process crashes

Key == Rule \X Subject
NoKey == <<"no rule", "no subject">>
FaultKinds == {"rules", "silences", "fire", "refresh", "resolve", "escalate", "seed"}

ASSUME ConstantsAssumption ==
    /\ Severity \in [Rule -> {"warning", "critical"}]
    /\ Duration \in [Rule -> Nat]
    /\ EscalationAfter \in [Rule -> Nat]
    /\ Covers \in [Silence -> SUBSET Subject]
    /\ Cooldown \in Nat
    /\ Faults \subseteq FaultKinds
    /\ MaxClock \in Nat /\ CalmAfter \in Nat /\ CalmAfter < MaxClock
    /\ MaxLag \in Nat /\ MaxCrashes \in Nat
    /\ NoAlert \notin AlertId
    /\ NoKey \notin Key

VARIABLES
    up,        \* the hub process runs
    now,       \* Engine.clock()
    cycleAt,   \* when the running (or last) cycle started
    todo,      \* pairs the running cycle has not evaluated yet
    fetched,   \* the silences evaluate() read at the start of the cycle
    pc,        \* next step of the evaluation goroutine
    job,       \* what updateState holds across its database writes
    states,    \* Engine.states
    alerts,    \* the "alerts" table
    silences,  \* the "silences" table
    probe,     \* what evaluating a pair would find now
    enabled,   \* alert_rules.enabled
    pages,     \* notifications handed to notifyFunc / escalateFunc, per alert
    crashes    \* crashes so far

vars == <<up, now, cycleAt, todo, fetched, pc, job, states, alerts, silences,
          probe, enabled, pages, crashes>>
envVars == <<silences, probe, enabled, crashes>>
cycleVars == <<up, now, cycleAt, fetched>>

-----------------------------------------------------------------------------
(* Data *)

OKState ==
    [state |-> "ok", fired |-> FALSE, firstBreachAt |-> 0, firedAt |-> 0,
     lastNotifiedAt |-> 0, active |-> NoAlert, silenced |-> FALSE]

RuleAgentState ==
    [state : {"ok", "warning", "critical"}, fired : BOOLEAN,
     firstBreachAt : Nat, firedAt : Nat, lastNotifiedAt : Nat,
     active : AlertId \cup {NoAlert}, silenced : BOOLEAN]

FreeRow ==
    [status |-> "free", key |-> NoKey, firedAt |-> 0, silenced |-> FALSE,
     ackedAt |-> 0, escalated |-> FALSE]

AlertRow ==
    [status : {"free", "firing", "resolved"}, key : Key \cup {NoKey},
     firedAt : Nat, silenced : BOOLEAN, ackedAt : Nat, escalated : BOOLEAN]

NoJob == [key |-> NoKey, alert |-> NoAlert, at |-> 0, silenced |-> FALSE,
          escalate |-> FALSE]

Job == [key : Key \cup {NoKey}, alert : AlertId \cup {NoAlert}, at : Nat,
        silenced : BOOLEAN, escalate : BOOLEAN]

Pages == [fires : Nat, last : Nat, escalations : Nat, resolves : Nat]
NoPages == [fires |-> 0, last |-> 0, escalations |-> 0, resolves |-> 0]

Window == [starts : Nat, ends : Nat]
NoWindow == [starts |-> 0, ends |-> 0]

FiringOf(k) == {a \in AlertId : alerts[a].status = "firing" /\ alerts[a].key = k}

Calm == now > CalmAfter
MayFail(op) == op \in Faults /\ ~Calm

-----------------------------------------------------------------------------
(* What updateState decides *)

ActiveSilences ==
    {<<s, silences[s]>> : s \in {t \in Silence : silences[t].ends > now}}

\* A mutant of IsSilenced: the window's first instant is left out.
IsSilencedLate(k) ==
    \E f \in fetched : /\ f[2].starts < now /\ now < f[2].ends
                       /\ k[2] \in Covers[f[1]]

IsSilenced(k) ==
    \E f \in fetched : /\ f[2].starts <= now /\ now < f[2].ends
                       /\ k[2] \in Covers[f[1]]

Tracking(st) == st.state \in {"warning", "critical"}

\* The pair starts a new breach period; nothing fires yet.
BreachStarted(st) ==
    [st EXCEPT !.firstBreachAt = now, !.state = "warning", !.fired = FALSE,
               !.silenced = FALSE]

\* The row fireAlert inserts for a pair.
FiringRow(k) ==
    [status |-> "firing", key |-> k, firedAt |-> now, silenced |-> IsSilenced(k),
     ackedAt |-> 0, escalated |-> FALSE]

\* The pair once fireAlert has returned; a silenced one was never notified.
FiredState(st) ==
    [st EXCEPT !.active = job.alert, !.fired = TRUE, !.firedAt = job.at,
               !.silenced = job.silenced,
               !.lastNotifiedAt = IF job.silenced THEN st.lastNotifiedAt ELSE job.at]

\* A mutant of NotYetFired: the warning/critical state taken for "has fired".
NotYetFiredByState(st, r) == st.state # "critical"
NotYetFired(st, r) == ~st.fired

DurationElapsed(st, r) == now >= st.firstBreachAt + Duration[r]

\* A mutant of RenotifyDue: never-notified is not treated as overdue.
RenotifyLate(st) == now > st.lastNotifiedAt + Cooldown + MaxClock
RenotifyDue(st) ==
    \/ st.silenced
    \/ st.lastNotifiedAt = 0
    \/ now >= st.lastNotifiedAt + Cooldown

\* A mutant of EscalationDue: escalated_at is not consulted.
EscalationAgain(st, row, r) ==
    /\ EscalationAfter[r] > 0
    /\ now >= st.firedAt + EscalationAfter[r]
EscalationDue(st, row, r) ==
    /\ EscalationAfter[r] > 0
    /\ ~row.escalated
    /\ now >= st.firedAt + EscalationAfter[r]

Acknowledged(row) == row.ackedAt # 0

\* A mutant of SeededState: the restored pair is left in the ok state.
SeededOK(k, a) == OKState
\* seedState: what a firing row becomes in memory after a restart.
SeededState(k, a) ==
    [state |-> Severity[k[1]], fired |-> TRUE,
     firstBreachAt |-> alerts[a].firedAt, firedAt |-> alerts[a].firedAt,
     lastNotifiedAt |-> IF alerts[a].silenced THEN 0 ELSE alerts[a].firedAt,
     active |-> a, silenced |-> alerts[a].silenced]

-----------------------------------------------------------------------------
Init ==
    /\ up = TRUE /\ now = 1 /\ cycleAt = 0 /\ todo = {} /\ fetched = {}
    /\ pc = "idle" /\ job = NoJob
    /\ states = [k \in Key |-> OKState]
    /\ alerts = [a \in AlertId |-> FreeRow]
    /\ silences = [s \in Silence |-> NoWindow]
    /\ probe \in [Key -> {"none", "clear", "breach"}]
    /\ enabled = [r \in Rule |-> TRUE]
    /\ pages = [a \in AlertId |-> NoPages]
    /\ crashes = 0

-----------------------------------------------------------------------------
(* The evaluation goroutine *)

\* evaluate: the rules and the silences are read once, at the start.  At the
\* last instant the clock stands still and cycles go on.
StartCycle ==
    /\ up /\ pc = "idle" /\ todo = {} /\ (now > cycleAt \/ now = MaxClock)
    /\ cycleAt' = now
    /\ \/ /\ todo' = {k \in Key : enabled[k[1]]}
          /\ fetched' \in {ActiveSilences} \cup
                          (IF MayFail("silences") THEN {{}} ELSE {})
       \/ MayFail("rules") /\ UNCHANGED <<todo, fetched>>
    /\ UNCHANGED <<up, now, pc, job, states, alerts, pages, envVars>>

Evaluating(k, found) ==
    /\ up /\ pc = "idle" /\ k \in todo /\ probe[k] = found
    /\ todo' = todo \ {k}

\* evaluateRule / evaluateCheckRule: no data, or the subject is not a candidate.
EvalNoData(k) ==
    /\ Evaluating(k, "none")
    /\ UNCHANGED <<cycleVars, pc, job, states, alerts, pages, envVars>>

EvalStillOK(k) ==
    /\ Evaluating(k, "clear") /\ ~Tracking(states[k])
    /\ UNCHANGED <<cycleVars, pc, job, states, alerts, pages, envVars>>

EvalForget(k) ==
    /\ Evaluating(k, "clear") /\ Tracking(states[k]) /\ states[k].active = NoAlert
    /\ states' = [states EXCEPT ![k] = OKState]
    /\ UNCHANGED <<cycleVars, pc, job, alerts, pages, envVars>>

\* resolveAlert: a failed lookup or save is only logged, and updateState then
\* resets the pair all the same.
EvalResolve(k) ==
    /\ Evaluating(k, "clear") /\ Tracking(states[k]) /\ states[k].active # NoAlert
    /\ \/ /\ alerts' = [alerts EXCEPT ![states[k].active].status = "resolved"]
          /\ pc' = "resolve"
          /\ job' = [NoJob EXCEPT !.key = k, !.alert = states[k].active, !.at = now]
          /\ UNCHANGED states
       \/ /\ MayFail("resolve")
          /\ states' = [states EXCEPT ![k] = OKState]
          /\ UNCHANGED <<alerts, pc, job>>
    /\ UNCHANGED <<cycleVars, pages, envVars>>

\* resolveAlert's dispatch, then updateState's reset.
CommitResolve ==
    /\ up /\ pc = "resolve"
    /\ pages' = [pages EXCEPT ![job.alert].resolves = @ + 1]
    /\ states' = [states EXCEPT ![job.key] = OKState]
    /\ pc' = "idle" /\ job' = NoJob
    /\ UNCHANGED <<cycleVars, todo, alerts, envVars>>

EvalFirstBreach(k) ==
    /\ Evaluating(k, "breach") /\ ~Tracking(states[k])
    /\ states' = [states EXCEPT ![k] = BreachStarted(states[k])]
    /\ UNCHANGED <<cycleVars, pc, job, alerts, pages, envVars>>

EvalGrace(k) ==
    /\ Evaluating(k, "breach") /\ Tracking(states[k])
    /\ NotYetFired(states[k], k[1]) /\ ~DurationElapsed(states[k], k[1])
    /\ UNCHANGED <<cycleVars, pc, job, states, alerts, pages, envVars>>

\* Save gives a new record an id that no record has had; ids are interchangeable.
NewId == CHOOSE a \in AlertId : alerts[a].status = "free"

\* fireAlert: the record is inserted; on failure the pair stays unfired and
\* the next cycle tries again.
EvalFire(k) ==
    /\ Evaluating(k, "breach") /\ Tracking(states[k])
    /\ NotYetFired(states[k], k[1]) /\ DurationElapsed(states[k], k[1])
    /\ states' = [states EXCEPT ![k] = [states[k] EXCEPT !.state = Severity[k[1]]]]
    /\ \/ \E a \in AlertId :
            /\ alerts[a].status = "free" /\ a = NewId
            /\ alerts' = [alerts EXCEPT ![a] = FiringRow(k)]
            /\ pc' = "fire"
            /\ job' = [NoJob EXCEPT !.key = k, !.alert = a, !.at = now,
                                    !.silenced = IsSilenced(k)]
       \/ MayFail("fire") /\ UNCHANGED <<alerts, pc, job>>
    /\ UNCHANGED <<cycleVars, pages, envVars>>

Notified(a, t) == [pages EXCEPT ![a].fires = @ + 1, ![a].last = t]

\* fireAlert's dispatch (unless silenced), then updateState's assignments.
CommitFire ==
    /\ up /\ pc = "fire"
    /\ pages' = IF job.silenced THEN pages ELSE Notified(job.alert, job.at)
    /\ states' = [states EXCEPT ![job.key] = FiredState(states[job.key])]
    /\ pc' = "idle" /\ job' = NoJob
    /\ UNCHANGED <<cycleVars, todo, alerts, envVars>>

\* refreshFiringAlert and the decisions taken on the record it returns.  The
\* save only writes the columns that changed, so acknowledged_at is untouched.
EvalRefresh(k) ==
    LET st == states[k]
        a == st.active
        row == alerts[a]
        due == RenotifyDue(st)
        escalate == EscalationDue(st, row, k[1])
    IN
    /\ Evaluating(k, "breach") /\ Tracking(st) /\ ~NotYetFired(st, k[1])
    /\ a # NoAlert
    /\ \/ /\ alerts' = [alerts EXCEPT ![a].silenced = IsSilenced(k)]
          /\ states' = [states EXCEPT ![k].silenced = IsSilenced(k)]
          /\ IF IsSilenced(k) \/ Acknowledged(row) \/ ~(due \/ escalate)
             THEN UNCHANGED <<pc, job>>
             ELSE /\ pc' = IF due THEN "renotify" ELSE "escalate"
                  /\ job' = [NoJob EXCEPT !.key = k, !.alert = a, !.at = now,
                                          !.escalate = escalate]
       \/ MayFail("refresh") /\ UNCHANGED <<alerts, states, pc, job>>
    /\ UNCHANGED <<cycleVars, pages, envVars>>

Renotify ==
    /\ up /\ pc = "renotify"
    /\ pages' = Notified(job.alert, job.at)
    /\ states' = [states EXCEPT ![job.key].lastNotifiedAt = job.at]
    /\ IF job.escalate THEN pc' = "escalate" /\ UNCHANGED job
                       ELSE pc' = "idle" /\ job' = NoJob
    /\ UNCHANGED <<cycleVars, todo, alerts, envVars>>

\* maybeEscalate: escalated_at is saved before the escalation is dispatched.
Escalate ==
    /\ up /\ pc = "escalate"
    /\ \/ /\ alerts' = [alerts EXCEPT ![job.alert].escalated = TRUE]
          /\ pc' = "page" /\ UNCHANGED job
       \/ MayFail("escalate") /\ pc' = "idle" /\ job' = NoJob /\ UNCHANGED alerts
    /\ UNCHANGED <<cycleVars, todo, states, pages, envVars>>

DispatchEscalation ==
    /\ up /\ pc = "page"
    /\ pages' = [pages EXCEPT ![job.alert].escalations = @ + 1]
    /\ pc' = "idle" /\ job' = NoJob
    /\ UNCHANGED <<cycleVars, todo, states, alerts, envVars>>

-----------------------------------------------------------------------------
(* The process *)

Crash ==
    /\ up /\ ~Calm /\ crashes < MaxCrashes
    /\ up' = FALSE /\ crashes' = crashes + 1
    /\ todo' = {} /\ fetched' = {} /\ pc' = "idle" /\ job' = NoJob
    /\ states' = [k \in Key |-> OKState]
    /\ UNCHANGED <<now, cycleAt, alerts, silences, probe, enabled, pages>>

\* Start: seedState.  Several firing rows of one pair come in no fixed order
\* and the last one wins; a failed query leaves the engine with no state.
Restart ==
    /\ ~up /\ up' = TRUE /\ cycleAt' = now
    /\ \/ \E pick \in [Key -> AlertId \cup {NoAlert}] :
            /\ \A k \in Key : IF FiringOf(k) = {} THEN pick[k] = NoAlert
                                                  ELSE pick[k] \in FiringOf(k)
            /\ states' = [k \in Key |-> IF pick[k] = NoAlert THEN OKState
                                        ELSE SeededState(k, pick[k])]
       \/ MayFail("seed") /\ UNCHANGED states
    /\ UNCHANGED <<now, todo, fetched, pc, job, alerts, pages, envVars>>

-----------------------------------------------------------------------------
(* Operators and the environment *)

\* handleAckAlert and handleUnackAlert; neither looks at the alert's status.
Ack(a) ==
    /\ up /\ ~Calm /\ alerts[a].status # "free"
    /\ alerts' = [alerts EXCEPT ![a].ackedAt = now]
    /\ UNCHANGED <<cycleVars, todo, pc, job, states, pages, envVars>>

Unack(a) ==
    /\ up /\ ~Calm /\ alerts[a].status # "free" /\ alerts[a].ackedAt # 0
    /\ alerts' = [alerts EXCEPT ![a].ackedAt = 0]
    /\ UNCHANGED <<cycleVars, todo, pc, job, states, pages, envVars>>

SetSilence(s) ==
    /\ up /\ ~Calm
    /\ \/ \E b \in now..MaxClock, e \in now..MaxClock :
            b < e /\ silences' = [silences EXCEPT ![s] = [starts |-> b, ends |-> e]]
       \/ silences[s] # NoWindow /\ silences' = [silences EXCEPT ![s] = NoWindow]
    /\ UNCHANGED <<cycleVars, todo, pc, job, states, alerts, probe, enabled, pages, crashes>>

SetProbe(k) ==
    /\ ~Calm
    /\ \E v \in {"none", "clear", "breach"} \ {probe[k]} : probe' = [probe EXCEPT ![k] = v]
    /\ UNCHANGED <<cycleVars, todo, pc, job, states, alerts, silences, enabled, pages, crashes>>

ToggleRule(r) ==
    /\ up /\ ~Calm
    /\ enabled' = [enabled EXCEPT ![r] = ~@]
    /\ UNCHANGED <<cycleVars, todo, pc, job, states, alerts, silences, probe, pages, crashes>>

\* Cycles keep up with the clock, to within MaxLag intervals; the hub is up
\* again before the environment goes quiet.
Tick ==
    /\ now < MaxClock
    /\ IF up THEN now < cycleAt + MaxLag ELSE now < CalmAfter
    /\ now' = now + 1
    /\ UNCHANGED <<up, cycleAt, todo, fetched, pc, job, states, alerts, pages, envVars>>

-----------------------------------------------------------------------------
Eval(k) ==
    \/ EvalNoData(k) \/ EvalStillOK(k) \/ EvalForget(k) \/ EvalResolve(k)
    \/ EvalFirstBreach(k) \/ EvalGrace(k) \/ EvalFire(k) \/ EvalRefresh(k)

Engine ==
    \/ StartCycle
    \/ \E k \in Key : Eval(k)
    \/ CommitResolve \/ CommitFire \/ Renotify \/ Escalate \/ DispatchEscalation

Environment ==
    \/ Crash
    \/ \E a \in AlertId : Ack(a) \/ Unack(a)
    \/ \E s \in Silence : SetSilence(s)
    \/ \E k \in Key : SetProbe(k)
    \/ \E r \in Rule : ToggleRule(r)

Next == Engine \/ Restart \/ Environment \/ Tick

Spec == Init /\ [][Next]_vars

\* The ticker fires, the goroutine runs, and a supervisor restarts the hub.
FairSpec == Spec /\ WF_vars(Engine) /\ WF_vars(Restart) /\ WF_vars(Tick)

-----------------------------------------------------------------------------
(* Properties *)

\* Every variable of the engine and of the tables it shares has its type.
TypeOK ==
    /\ up \in BOOLEAN
    /\ now \in Nat /\ cycleAt \in Nat /\ crashes \in Nat
    /\ todo \subseteq Key
    /\ fetched \subseteq (Silence \X Window)
    /\ pc \in {"idle", "fire", "resolve", "renotify", "escalate", "page"}
    /\ job \in Job
    /\ states \in [Key -> RuleAgentState]
    /\ alerts \in [AlertId -> AlertRow]
    /\ silences \in [Silence -> Window]
    /\ probe \in [Key -> {"none", "clear", "breach"}]
    /\ enabled \in [Rule -> BOOLEAN]
    /\ pages \in [AlertId -> Pages]

\* updateState (engine.go:904): "at most one firing alerts record ever exists
\* per (rule_id, subject id) pair at a time", whatever crashes and failed saves
\* happen between inserting a row, remembering it and resolving it.
AtMostOneFiring ==
    \A k \in Key : \A a, b \in FiringOf(k) : a = b

\* The firing rows of a pair as the engine knows them.
Remembered(k) ==
    CASE pc = "fire" /\ job.key = k    -> {job.alert}
      [] pc = "resolve" /\ job.key = k -> {}
      [] OTHER -> IF states[k].fired THEN {states[k].active} ELSE {}

\* The engine's memory and the table tell the same story between two steps:
\* a pair is marked Fired exactly while the row it names is the firing row,
\* except inside fireAlert (row first) and resolveAlert (memory last).
EngineMatchesTable ==
    up => \A k \in Key : FiringOf(k) = Remembered(k)

\* maybeEscalate (engine.go:1013): an escalation is dispatched at most once per
\* firing episode, also across a crash between the save and the dispatch.
EscalatedOnce == \A a \in AlertId : pages[a].escalations <= 1

\* The strengthening of EscalatedOnce: who has been escalated is in the table
\* before the dispatch, and only the evaluation goroutine writes escalated_at.
EscalationTracked ==
    /\ \A a \in AlertId : /\ pages[a].escalations <= 1
                          /\ pages[a].escalations > 0 => alerts[a].escalated
                          /\ alerts[a].status = "free" => ~alerts[a].escalated
    /\ pc = "page" => pages[job.alert].escalations = 0 /\ alerts[job.alert].escalated
    /\ pc = "escalate" => job.escalate
    /\ pc \in {"renotify", "escalate"} /\ job.escalate => ~alerts[job.alert].escalated

\* A job in progress names a pair and a row; it and every remembered
\* ActiveAlertID refer to rows that have been inserted.
JobNamed == pc # "idle" => job.key \in Key /\ job.alert \in AlertId

RowsInserted ==
    /\ pc # "idle" => alerts[job.alert].status # "free"
    /\ \A k \in Key : states[k].active # NoAlert => alerts[states[k].active].status # "free"

\* The strengthening of EngineMatchesTable: Fired, State and ActiveAlertID of
\* one pair agree, and a job in progress is about the pair's own row.
StatesAgree ==
    /\ \A k \in Key : /\ states[k].fired <=> states[k].active # NoAlert
                      /\ states[k].fired => Tracking(states[k])
    /\ pc = "fire" => ~states[job.key].fired /\ Tracking(states[job.key])
    /\ pc \in {"resolve", "renotify", "escalate", "page"} =>
         states[job.key].fired /\ states[job.key].active = job.alert
    /\ ~up => pc = "idle" /\ \A k \in Key : ~states[k].fired

PagedFiring(a) == pages'[a].fires # pages[a].fires
PagedEscalation(a) == pages'[a].escalations # pages[a].escalations

\* An escalation goes out only when the row's own fired_at is at least
\* escalation_after old, also when the timer was rebuilt from the table.
EscalationOnTime ==
    [][\A a \in AlertId : PagedEscalation(a) =>
         now >= alerts[a].firedAt + EscalationAfter[alerts[a].key[1]]]_vars

\* No alert fires before its pair has been breaching for the rule's duration
\* without a clear evaluation in between: the instant of the insert is at
\* least Duration after the breach the engine started to time.
FiresAfterDuration ==
    [][\A k \in Key : FiringOf(k) = {} /\ FiringOf(k)' # {} =>
         /\ probe[k] = "breach"
         /\ now >= states[k].firstBreachAt + Duration[k[1]]]_vars

\* An acknowledgement saved before an evaluation starts keeps that evaluation
\* from re-notifying or escalating the alert (engine.go:1000).
AckSuppresses ==
    [][\A a \in AlertId : PagedFiring(a) \/ PagedEscalation(a) =>
         alerts[a].ackedAt = 0 \/ alerts[a].ackedAt >= job.at]_vars

\* README.md:458: a silence suppresses notifications for the subjects it covers
\* during its window, judged by the silences the cycle itself has read.  (The
\* notice that an alert has been resolved is dispatched in any case.)
SilencedNeverPaged ==
    [][\A a \in AlertId : PagedFiring(a) \/ PagedEscalation(a) =>
         ~ \E f \in fetched : /\ f[2].starts <= job.at /\ job.at < f[2].ends
                              /\ alerts[a].key[2] \in Covers[f[1]]]_vars

\* Nobody is paged, and no alert fired, before it is due or against somebody's word.
PagesAreDue ==
    /\ EscalationOnTime /\ FiresAfterDuration
    /\ AckSuppresses /\ SilencedNeverPaged

Settled(k, found) == Calm /\ up /\ enabled[k[1]] /\ probe[k] = found

\* A breach that lasts is notified: once the environment is quiet, a breaching
\* pair gets a firing row that has been notified, or is silenced or
\* acknowledged; also when the hub crashed after inserting the row and before
\* dispatching it.
BreachGetsNotified ==
    \A k \in Key :
      Settled(k, "breach") ~>
        \E a \in FiringOf(k) : \/ pages[a].fires > 0
                               \/ alerts[a].silenced
                               \/ Acknowledged(alerts[a])

\* A condition that clears for good is resolved: no row of the pair stays
\* "firing" for ever.
ClearGetsResolved ==
    \A k \in Key : Settled(k, "clear") ~> FiringOf(k) = {}
=============================================================================
