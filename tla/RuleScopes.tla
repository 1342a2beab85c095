----------------------------- MODULE RuleScopes -----------------------------
(***************************************************************************)
(* Whom an alert rule judges and whom a silence covers, as agents and      *)
(* checks come and go (internal/hub/alerts/engine.go, evaluateRule,        *)
(* evaluateCheckRule and the matching below them).  An empty scope means   *)
(* everything.  The rows of alert_rules and silences refer to agents and   *)
(* checks by relations without CascadeDelete, which PocketBase empties     *)
(* when the record they point to is deleted.                               *)
(* A condition always has a verdict here; AlertEngine and MetricReaders    *)
(* model the verdicts.                                                     *)
(***************************************************************************)
EXTENDS Naturals, FiniteSets

CONSTANTS
    WatchedAgent, WatchedCheck,   \* records of agents and checks
    Tag,
    RuleRows,        \* alert_rules: about, agent, tags, check; agent and check are sets of at most one
    SilenceRows,     \* silences: agent, tags, checks, starts, ends
    TagsAtFirst,     \* tags of the agents and checks
    MaxEdits,        \* bound: tags edited, agents and checks that change their state
    EndOfWatch       \* bound: the end of the clock

Watched == WatchedAgent \union WatchedCheck

ASSUME ScopeAssumption ==
    /\ WatchedAgent \intersect WatchedCheck = {}
    /\ TagsAtFirst \in [Watched -> SUBSET Tag]
    /\ MaxEdits \in Nat /\ EndOfWatch \in Nat

\* What the relations of the two collections point to.
RuleRow == [about : STRING, agent : SUBSET WatchedAgent, tags : SUBSET Tag,
            check : SUBSET WatchedCheck]
SilenceRow == [agent : SUBSET WatchedAgent, tags : SUBSET Tag, checks : SUBSET WatchedCheck,
               starts : Nat, ends : Nat]

ASSUME RowsAssumption == RuleRows \subseteq RuleRow /\ SilenceRows \subseteq SilenceRow

VARIABLES
    present,         \* the agents and checks there are
    tagsOf,          \* tagsOf[s]: their tags
    active,          \* active[s]: an agent is online, a check is enabled
    rule, silence,   \* the two rows
    written,         \* the rows as an operator wrote them
    edits, instant

scopeVars == <<present, tagsOf, active, rule, silence, written, edits, instant>>

ScopeInit(rules, silences) ==
    /\ present = Watched /\ tagsOf = TagsAtFirst
    /\ active = [s \in Watched |-> TRUE]
    /\ rule \in rules /\ silence \in silences
    /\ written = [rule |-> rule, silence |-> silence]
    /\ edits = 0 /\ instant = 0

\* PocketBase takes a deleted record out of the relations that point to it.
DeleteWatched(s) ==
    /\ s \in present /\ present' = present \ {s}
    /\ rule' = [rule EXCEPT !.agent = @ \ {s}, !.check = @ \ {s}]
    /\ silence' = [silence EXCEPT !.agent = @ \ {s}, !.checks = @ \ {s}]
    /\ UNCHANGED <<tagsOf, active, written, edits, instant>>

EditWatched(s) ==
    /\ s \in present /\ edits < MaxEdits /\ edits' = edits + 1
    /\ \/ tagsOf' = [tagsOf EXCEPT ![s] = Tag \ @] /\ UNCHANGED active
       \/ active' = [active EXCEPT ![s] = ~@] /\ UNCHANGED tagsOf
    /\ UNCHANGED <<present, rule, silence, written, instant>>

ScopeTick ==
    /\ instant < EndOfWatch /\ instant' = instant + 1
    /\ UNCHANGED <<present, tagsOf, active, rule, silence, written, edits>>

ScopeNext == (\E s \in Watched : DeleteWatched(s) \/ EditWatched(s)) \/ ScopeTick
ScopeSpec == ScopeInit(RuleRows, SilenceRows) /\ [][ScopeNext]_scopeVars

-----------------------------------------------------------------------------
(* One evaluation, in the present state. *)

stringSlicesIntersect(a, b) == a \intersect b # {}

\* A rule for an agent applies to that one, a rule with tags to those with one of them.
matchesTargets(a, r) ==
    IF r.agent # {} THEN a \in r.agent
    ELSE r.tags = {} \/ stringSlicesIntersect(r.tags, tagsOf[a])

\* evaluateRule: the one agent whatever its status, or the online ones; a rule about
\* agents that are offline looks at all.
JudgedAgents ==
    LET candidates == IF rule.agent # {} THEN rule.agent \intersect present
                      ELSE {a \in WatchedAgent \intersect present : active[a] \/ rule.about = "agent_offline"} IN
    {a \in candidates : matchesTargets(a, rule)}

\* evaluateCheckRule: the one check, also a disabled one, or all that are enabled.
JudgedChecks ==
    IF rule.check # {} THEN rule.check \intersect present
    ELSE {c \in WatchedCheck \intersect present : active[c]}

Judged == IF rule.about = "check_down" THEN JudgedChecks ELSE JudgedAgents

Global(z) == z.agent = {} /\ z.tags = {} /\ z.checks = {}

\* Mutant: a silence without an agent and tags is a global one.
MutantMatchesAgent(a, z) ==
    \/ z.agent = {} /\ z.tags = {}
    \/ a \in z.agent
    \/ stringSlicesIntersect(z.tags, tagsOf[a])

SilenceMatchesAgent(a, z) ==
    \/ Global(z)
    \/ a \in z.agent
    \/ stringSlicesIntersect(z.tags, tagsOf[a])

SilenceMatchesCheck(c, z) ==
    \/ Global(z)
    \/ c \in z.checks
    \/ stringSlicesIntersect(z.tags, tagsOf[c])

\* activeSilences and the exact comparison of isSilenced and isCheckSilenced.
Running(z) == z.ends > instant /\ z.starts <= instant

Silenced(s) ==
    /\ Running(silence)
    /\ IF s \in WatchedAgent THEN SilenceMatchesAgent(s, silence) ELSE SilenceMatchesCheck(s, silence)

\* handleActiveSilences: what the page of silences lists as covered.
Listed ==
    IF ~Running(silence) THEN {}
    ELSE {a \in WatchedAgent \intersect present : SilenceMatchesAgent(a, silence)}
           \union {c \in WatchedCheck \intersect present : SilenceMatchesCheck(c, silence)}

-----------------------------------------------------------------------------
(* What the rows as written stand for. *)

MeantByRule(s) ==
    LET r == written.rule IN
    IF r.about = "check_down" THEN s \in WatchedCheck /\ (r.check # {} => s \in r.check)
    ELSE s \in WatchedAgent /\ IF r.agent # {} THEN s \in r.agent
                               ELSE r.tags # {} => r.tags \intersect tagsOf[s] # {}

MeantBySilence(s) ==
    LET z == written.silence IN
    z.agent \union z.tags \union z.checks # {} => s \in z.agent \union z.checks \/ z.tags \intersect tagsOf[s] # {}

RuleEmptied == rule.agent \union rule.check # written.rule.agent \union written.rule.check
SilenceEmptied == Global(silence) /\ ~Global(written.silence)

\* Through deletions, edits of tags and changes of state a rule judges only what it
\* was written for, and of that a silence mutes exactly what it was written for, while
\* its window runs, which is also what the page of active silences says; a row whose last
\* name was deleted is the exception (matchesTargets, SilenceMatchesAgent,
\* SilenceMatchesCheck).
ScopesHold ==
    \A s \in Judged :
        /\ RuleEmptied \/ MeantByRule(s)
        /\ SilenceEmptied \/ (Silenced(s) <=> MeantBySilence(s) /\ Running(written.silence))
        /\ Silenced(s) <=> s \in Listed

\* engine.go:456-460, "so a silence scoped only to specific checks (check_ids set,
\* agent_id/tags empty) is not mistaken for a global silence that would also cover
\* every agent": a silence written for checks alone mutes no agent.
CheckSilenceSparesAgents ==
    /\ written.silence.checks # {} /\ written.silence.agent = {} /\ written.silence.tags = {}
    => \A a \in Judged \intersect WatchedAgent : ~Silenced(a)
=============================================================================
