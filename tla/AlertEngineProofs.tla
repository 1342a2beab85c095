------------------------- MODULE AlertEngineProofs -------------------------
(***************************************************************************)
(* Proofs about AlertEngine, for every set of rules, subjects, alert ids   *)
(* and silences, every duration, cooldown and escalation delay, and every  *)
(* bound.                                                                  *)
(***************************************************************************)
EXTENDS AlertEngine, TLAPS

\* Saves of resolveAlert and the query of seedState succeed; every other
\* database operation may fail at any time.
ReliableClosing == "resolve" \notin Faults /\ "seed" \notin Faults

-----------------------------------------------------------------------------
(* Type correctness *)

LEMMA NoAlertFresh == NoAlert \notin AlertId /\ NoKey \notin Key
  BY ConstantsAssumption

LEMMA TypeInit == Init => TypeOK
  <1> SUFFICES ASSUME Init PROVE TypeOK
    OBVIOUS
  <1> USE ConstantsAssumption DEF Init
  <1>1. job \in Job
    BY DEF NoJob, Job
  <1>2. states \in [Key -> RuleAgentState]
    BY DEF OKState, RuleAgentState
  <1>3. alerts \in [AlertId -> AlertRow]
    BY DEF FreeRow, AlertRow
  <1>4. silences \in [Silence -> Window]
    BY DEF NoWindow, Window
  <1>5. pages \in [AlertId -> Pages]
    BY DEF NoPages, Pages
  <1> QED
    BY <1>1, <1>2, <1>3, <1>4, <1>5 DEF TypeOK

\* What the record updates of the engine return.
LEMMA RecordTypes ==
    /\ TypeOK =>
         /\ \A st \in RuleAgentState :
              /\ BreachStarted(st) \in RuleAgentState
              /\ FiredState(st) \in RuleAgentState
         /\ \A k \in Key : FiringRow(k) \in AlertRow
    /\ \A st \in RuleAgentState, r \in Rule :
         [st EXCEPT !.state = Severity[r]] \in RuleAgentState
  <1>1. ASSUME TypeOK, NEW st \in RuleAgentState
        PROVE BreachStarted(st) \in RuleAgentState
    <2>1. now \in Nat
      BY <1>1 DEF TypeOK
    <2> QED
      BY <2>1 DEF BreachStarted, RuleAgentState
  <1>2. ASSUME TypeOK, NEW st \in RuleAgentState
        PROVE FiredState(st) \in RuleAgentState
    <2>1. job \in Job
      BY <1>2 DEF TypeOK
    <2>2. job.alert \in AlertId \cup {NoAlert} /\ job.at \in Nat /\ job.silenced \in BOOLEAN
      BY <2>1 DEF Job
    <2> QED
      BY <2>2 DEF FiredState, RuleAgentState
  <1>3. ASSUME TypeOK, NEW k \in Key PROVE FiringRow(k) \in AlertRow
    <2>1. now \in Nat /\ IsSilenced(k) \in BOOLEAN
      BY <1>3 DEF TypeOK, IsSilenced
    <2> QED
      BY <2>1 DEF FiringRow, AlertRow
  <1>4. ASSUME NEW st \in RuleAgentState, NEW r \in Rule
        PROVE [st EXCEPT !.state = Severity[r]] \in RuleAgentState
    <2>1. Severity[r] \in {"ok", "warning", "critical"}
      BY ConstantsAssumption
    <2> QED
      BY <2>1 DEF RuleAgentState
  <1> QED
    BY <1>1, <1>2, <1>3, <1>4

LEMMA PagesTypes ==
    ASSUME NEW p \in Pages, NEW t \in Nat
    PROVE  /\ [p EXCEPT !.fires = p.fires + 1, !.last = t] \in Pages
           /\ [p EXCEPT !.escalations = p.escalations + 1] \in Pages
           /\ [p EXCEPT !.resolves = p.resolves + 1] \in Pages
  <1>1. p.fires + 1 \in Nat /\ p.escalations + 1 \in Nat /\ p.resolves + 1 \in Nat
    BY DEF Pages
  <1>2. [p EXCEPT !.fires = p.fires + 1, !.last = t] \in Pages
    BY <1>1 DEF Pages
  <1>3. [p EXCEPT !.escalations = p.escalations + 1] \in Pages
    BY <1>1 DEF Pages
  <1>4. [p EXCEPT !.resolves = p.resolves + 1] \in Pages
    BY <1>1 DEF Pages
  <1> QED
    BY <1>2, <1>3, <1>4

LEMMA TypeNext == TypeOK /\ [Next]_vars => TypeOK'
  <1> SUFFICES ASSUME TypeOK, [Next]_vars PROVE TypeOK'
    OBVIOUS
  <1>a. alerts \in [AlertId -> AlertRow]
    BY DEF TypeOK
  <1>b. states \in [Key -> RuleAgentState]
    BY DEF TypeOK
  <1>c. pages \in [AlertId -> Pages]
    BY DEF TypeOK
  <1>d. now \in Nat /\ job \in Job /\ job.at \in Nat /\ job.silenced \in BOOLEAN
        /\ job.alert \in AlertId \cup {NoAlert}
    BY DEF TypeOK, Job
  <1>0. /\ NoJob \in Job /\ OKState \in RuleAgentState
        /\ \A k \in Key, a \in AlertId, t \in Nat, b \in BOOLEAN, c \in BOOLEAN :
             [key |-> k, alert |-> a, at |-> t, silenced |-> b, escalate |-> c] \in Job
    BY DEF NoJob, Job, OKState, RuleAgentState
  <1>e. \A p \in Pages, t \in Nat :
          /\ [p EXCEPT !.fires = p.fires + 1, !.last = t] \in Pages
          /\ [p EXCEPT !.escalations = p.escalations + 1] \in Pages
          /\ [p EXCEPT !.resolves = p.resolves + 1] \in Pages
    BY PagesTypes
  <1>1. CASE StartCycle
    <2>1. ActiveSilences \subseteq Silence \X Window
      BY DEF ActiveSilences, TypeOK
    <2>2. todo' \subseteq Key /\ fetched' \subseteq (Silence \X Window)
      BY <1>1, <2>1 DEF StartCycle, TypeOK
    <2> QED
      BY <1>1, <2>2 DEF StartCycle, envVars, TypeOK
  <1>2. ASSUME NEW k \in Key, Eval(k) PROVE TypeOK'
    <2>1. CASE EvalNoData(k)
      BY <2>1 DEF EvalNoData, Evaluating, cycleVars, envVars, TypeOK
    <2>2. CASE EvalStillOK(k)
      BY <2>2 DEF EvalStillOK, Evaluating, cycleVars, envVars, TypeOK
    <2>3. CASE EvalForget(k)
      BY <1>0, <1>b, <2>3 DEF EvalForget, Evaluating, cycleVars, envVars, TypeOK
    <2>4. CASE EvalResolve(k)
      <3>1. states' \in [Key -> RuleAgentState]
        BY <1>0, <1>b, <2>4 DEF EvalResolve
      <3>2. alerts' \in [AlertId -> AlertRow]
        BY <1>a, <2>4 DEF EvalResolve, AlertRow
      <3>3. job' \in Job
        BY <1>b, <1>d, <2>4 DEF EvalResolve, NoJob, Job, RuleAgentState
      <3> QED
        BY <2>4, <3>1, <3>2, <3>3 DEF EvalResolve, Evaluating, cycleVars, envVars, TypeOK
    <2>5. CASE EvalFirstBreach(k)
      <3>1. states' \in [Key -> RuleAgentState]
        BY <1>b, <2>5, RecordTypes DEF EvalFirstBreach
      <3> QED
        BY <2>5, <3>1 DEF EvalFirstBreach, Evaluating, cycleVars, envVars, TypeOK
    <2>6. CASE EvalGrace(k)
      BY <2>6 DEF EvalGrace, Evaluating, cycleVars, envVars, TypeOK
    <2>7. CASE EvalFire(k)
      <3>1. states' \in [Key -> RuleAgentState]
        BY <1>b, <2>7, RecordTypes DEF EvalFire, Key
      <3>2. IsSilenced(k) \in BOOLEAN
        BY DEF IsSilenced
      <3>3. alerts' \in [AlertId -> AlertRow]
        BY <1>a, <2>7, RecordTypes DEF EvalFire
      <3>4. job' \in Job
        BY <1>d, <2>7, <3>2 DEF EvalFire, NoJob, Job
      <3> QED
        BY <2>7, <3>1, <3>3, <3>4 DEF EvalFire, Evaluating, cycleVars, envVars, TypeOK
    <2>8. CASE EvalRefresh(k)
      <3>1. IsSilenced(k) \in BOOLEAN /\ EscalationDue(states[k], alerts[states[k].active], k[1]) \in BOOLEAN
        BY DEF IsSilenced, EscalationDue
      <3>2. states' \in [Key -> RuleAgentState]
        BY <1>b, <2>8, <3>1 DEF EvalRefresh, RuleAgentState
      <3>3. alerts' \in [AlertId -> AlertRow]
        BY <1>a, <2>8, <3>1 DEF EvalRefresh, AlertRow
      <3>4. job' \in Job
        BY <1>b, <1>d, <2>8, <3>1 DEF EvalRefresh, NoJob, Job, RuleAgentState
      <3>5. pc' \in {"idle", "renotify", "escalate"}
        BY <2>8 DEF EvalRefresh, Evaluating
      <3> QED
        BY <2>8, <3>2, <3>3, <3>4, <3>5 DEF EvalRefresh, Evaluating, cycleVars, envVars, TypeOK
    <2> QED
      BY <1>2, <2>1, <2>2, <2>3, <2>4, <2>5, <2>6, <2>7, <2>8 DEF Eval
  <1>3. CASE CommitResolve
    <2>1. pages' \in [AlertId -> Pages]
      BY <1>c, <1>e, <1>3, <1>d DEF CommitResolve
    <2>2. states' \in [Key -> RuleAgentState]
      BY <1>0, <1>b, <1>3 DEF CommitResolve
    <2> QED
      BY <1>0, <1>3, <2>1, <2>2 DEF CommitResolve, cycleVars, envVars, TypeOK
  <1>4. CASE CommitFire
    <2>1. states' \in [Key -> RuleAgentState]
      BY <1>b, <1>4, RecordTypes DEF CommitFire
    <2>2. pages' \in [AlertId -> Pages]
      BY <1>c, <1>d, <1>e, <1>4 DEF CommitFire, Notified
    <2> QED
      BY <1>0, <1>4, <2>1, <2>2 DEF CommitFire, cycleVars, envVars, TypeOK
  <1>5. CASE Renotify
    <2>1. states' \in [Key -> RuleAgentState]
      <3>1. \A k \in Key, t \in Nat : [states[k] EXCEPT !.lastNotifiedAt = t] \in RuleAgentState
        BY <1>b DEF RuleAgentState
      <3>2. states' = [states EXCEPT ![job.key] = [states[job.key] EXCEPT !.lastNotifiedAt = job.at]]
        BY <1>5 DEF Renotify
      <3> QED
        BY <1>b, <1>d, <3>1, <3>2
    <2>2. pages' \in [AlertId -> Pages]
      BY <1>c, <1>d, <1>e, <1>5 DEF Renotify, Notified
    <2> QED
      BY <1>0, <1>5, <2>1, <2>2 DEF Renotify, cycleVars, envVars, TypeOK
  <1>6. CASE Escalate
    <2>0. \A a \in AlertId : [alerts[a] EXCEPT !.escalated = TRUE] \in AlertRow
      BY <1>a DEF AlertRow
    <2>a. \/ alerts' = [alerts EXCEPT ![job.alert].escalated = TRUE]
          \/ UNCHANGED alerts
      BY <1>6 DEF Escalate
    <2>1. alerts' \in [AlertId -> AlertRow]
      <3>1. CASE UNCHANGED alerts
        BY <3>1, <1>a
      <3>2. CASE alerts' = [alerts EXCEPT ![job.alert].escalated = TRUE]
        BY <3>2, <2>0, <1>a
      <3> QED
        BY <2>a, <3>1, <3>2
    <2> QED
      BY <1>0, <1>6, <2>1 DEF Escalate, cycleVars, envVars, TypeOK
  <1>7. CASE DispatchEscalation
    <2>1. pages' \in [AlertId -> Pages]
      BY <1>c, <1>d, <1>e, <1>7 DEF DispatchEscalation
    <2> QED
      BY <1>0, <1>7, <2>1 DEF DispatchEscalation, cycleVars, envVars, TypeOK
  <1>8. CASE Crash
    <2>1. states' \in [Key -> RuleAgentState]
      BY <1>0, <1>8 DEF Crash
    <2>2. crashes' \in Nat
      <3>1. crashes \in Nat
        BY DEF TypeOK
      <3> QED
        BY <1>8, <3>1 DEF Crash
    <2>4. /\ up' \in BOOLEAN /\ todo' \subseteq Key
          /\ fetched' \subseteq Silence \X Window /\ pc' = "idle" /\ job' = NoJob
      BY <1>8 DEF Crash
    <2>3. UNCHANGED <<now, cycleAt, alerts, silences, probe, enabled, pages>>
      BY <1>8 DEF Crash
    <2> QED
      BY <1>0, <1>8, <2>1, <2>2, <2>3, <2>4 DEF TypeOK
  <1>9. CASE Restart
    <2>1. ASSUME NEW k \in Key, NEW a \in AlertId
          PROVE SeededState(k, a) \in RuleAgentState
      BY <1>a, ConstantsAssumption DEF SeededState, RuleAgentState, AlertRow, Key
    <2>2. states' \in [Key -> RuleAgentState]
      <3>1. CASE UNCHANGED states
        BY <1>b, <3>1
      <3>2. CASE ~ UNCHANGED states
        <4>1. PICK pick \in [Key -> AlertId \cup {NoAlert}] :
                states' = [k \in Key |-> IF pick[k] = NoAlert THEN OKState
                                         ELSE SeededState(k, pick[k])]
          BY <1>9, <3>2 DEF Restart
        <4> QED
          BY <1>0, <2>1, <4>1
      <3> QED
        BY <3>1, <3>2
    <2> QED
      BY <1>9, <2>2 DEF Restart, envVars, TypeOK
  <1>10. ASSUME NEW a \in AlertId, Ack(a) \/ Unack(a) PROVE TypeOK'
    <2>1. alerts' \in [AlertId -> AlertRow]
      BY <1>a, <1>d, <1>10 DEF Ack, Unack, AlertRow
    <2> QED
      BY <1>10, <2>1 DEF Ack, Unack, cycleVars, envVars, TypeOK
  <1>11. ASSUME NEW s \in Silence, SetSilence(s) PROVE TypeOK'
    <2>1. silences' \in [Silence -> Window]
      <3>1. silences \in [Silence -> Window]
        BY DEF TypeOK
      <3>2. \A b, e : b \in now..MaxClock /\ e \in now..MaxClock =>
              [starts |-> b, ends |-> e] \in Window
        BY <1>d, ConstantsAssumption DEF Window
      <3>3. NoWindow \in Window
        BY DEF NoWindow, Window
      <3> QED
        BY <1>11, <3>1, <3>2, <3>3 DEF SetSilence
    <2> QED
      BY <1>11, <2>1 DEF SetSilence, cycleVars, TypeOK
  <1>12. ASSUME NEW k \in Key, SetProbe(k) PROVE TypeOK'
    BY <1>12 DEF SetProbe, cycleVars, TypeOK
  <1>13. ASSUME NEW r \in Rule, ToggleRule(r) PROVE TypeOK'
    BY <1>13 DEF ToggleRule, cycleVars, TypeOK
  <1>14. CASE Tick
    BY <1>14 DEF Tick, envVars, TypeOK
  <1>15. CASE UNCHANGED vars
    BY <1>15 DEF vars, TypeOK
  <1> QED
    BY <1>1, <1>2, <1>3, <1>4, <1>5, <1>6, <1>7, <1>8, <1>9, <1>10, <1>11,
       <1>12, <1>13, <1>14, <1>15 DEF Next, Engine, Environment

\* The engine never leaves its types, for every value of the constants.
THEOREM TypeCorrect == Spec => []TypeOK
  <1>1. Init => TypeOK
    BY TypeInit
  <1>2. TypeOK /\ [Next]_vars => TypeOK'
    BY TypeNext
  <1> QED
    BY <1>1, <1>2, PTL DEF Spec

-----------------------------------------------------------------------------
(* At most one escalation per alert *)

\* The columns the escalation argument depends on are left alone.
EscalationFrame ==
    \A a \in AlertId : /\ alerts'[a].escalated = alerts[a].escalated
                       /\ alerts'[a].status = "free" => alerts[a].status = "free"
                       /\ pages'[a].escalations = pages[a].escalations

LEMMA FrameIdle ==
    ASSUME EscalationTracked, EscalationFrame, pc' = "idle"
    PROVE  JobNamed' /\ EscalationTracked'
  BY DEF EscalationTracked, EscalationFrame, JobNamed

LEMMA FrameSame ==
    ASSUME JobNamed, EscalationTracked, EscalationFrame, pc' = pc, job' = job
    PROVE  JobNamed' /\ EscalationTracked'
  <1>1. JobNamed'
    BY DEF JobNamed
  <1>2. pc = "idle" \/ job.alert \in AlertId
    BY DEF JobNamed
  <1>3. CASE pc = "idle"
    BY <1>1, <1>3, FrameIdle
  <1>4. CASE job.alert \in AlertId
    BY <1>1, <1>4 DEF EscalationTracked, EscalationFrame
  <1> QED
    BY <1>2, <1>3, <1>4

LEMMA RowsInit == Init => RowsInserted
  BY DEF Init, RowsInserted, OKState

LEMMA RowsNext ==
    TypeOK /\ JobNamed /\ RowsInserted /\ [Next]_vars => RowsInserted'
  <1> SUFFICES ASSUME TypeOK, JobNamed, RowsInserted, [Next]_vars
               PROVE  RowsInserted'
    OBVIOUS
  <1>a. alerts \in [AlertId -> AlertRow] /\ states \in [Key -> RuleAgentState]
    BY DEF TypeOK
  <1>b. \A k \in Key : states[k].active \in AlertId \cup {NoAlert}
    BY <1>a DEF RuleAgentState
  <1>c. OKState.active = NoAlert
    BY DEF OKState
  <1> DEFINE Kept == \A a \in AlertId : alerts'[a].status = "free" => alerts[a].status = "free"
             Same == \A k \in Key : states'[k].active \in {states[k].active, NoAlert}
  <1>d. ASSUME Kept, Same, pc' = "idle" PROVE RowsInserted'
    BY <1>b, <1>d, NoAlertFresh DEF RowsInserted
  <1>e. ASSUME Kept, Same, pc' = pc, job' = job PROVE RowsInserted'
    BY <1>b, <1>e, NoAlertFresh DEF RowsInserted, JobNamed
  <1>f. ASSUME Kept, Same, job'.alert \in AlertId, alerts'[job'.alert].status # "free"
        PROVE  RowsInserted'
    BY <1>b, <1>f, NoAlertFresh DEF RowsInserted
  <1>g. (alerts' = alerts => Kept) /\ (states' = states => Same)
    OBVIOUS
  <1> HIDE DEF Kept, Same
  <1>1. CASE StartCycle
    BY <1>1, <1>e, <1>g DEF StartCycle
  <1>2. ASSUME NEW k \in Key, Eval(k) PROVE RowsInserted'
    <2>1. CASE EvalNoData(k) \/ EvalStillOK(k) \/ EvalGrace(k)
      BY <2>1, <1>e, <1>g DEF EvalNoData, EvalStillOK, EvalGrace
    <2>2. CASE EvalForget(k)
      <3>1. Same
        BY <2>2, <1>a, <1>c DEF EvalForget, Same
      <3> QED
        BY <2>2, <3>1, <1>e, <1>g DEF EvalForget
    <2>3. CASE EvalFirstBreach(k)
      <3>1. Same
        BY <2>3, <1>a DEF EvalFirstBreach, BreachStarted, RuleAgentState, Same
      <3> QED
        BY <2>3, <3>1, <1>e, <1>g DEF EvalFirstBreach
    <2>4. CASE EvalResolve(k)
      <3>1. Kept
        BY <2>4, <1>a DEF EvalResolve, AlertRow, Kept
      <3>2. Same
        BY <2>4, <1>a, <1>c DEF EvalResolve, Same
      <3>3. CASE pc' = pc /\ job' = job
        BY <3>1, <3>2, <3>3, <1>e
      <3>4. CASE ~(pc' = pc /\ job' = job)
        <4>1. /\ job'.alert = states[k].active /\ states[k].active # NoAlert
              /\ alerts' = [alerts EXCEPT ![states[k].active].status = "resolved"]
          BY <2>4, <3>4 DEF EvalResolve, NoJob
        <4>2. job'.alert \in AlertId /\ alerts'[job'.alert].status = "resolved"
          BY <4>1, <1>a, <1>b DEF AlertRow
        <4> QED
          BY <3>1, <3>2, <4>2, <1>f
      <3> QED
        BY <3>3, <3>4
    <2>5. CASE EvalFire(k)
      <3>1. Same
        BY <2>5, <1>a DEF EvalFire, RuleAgentState, Same
      <3>2. CASE UNCHANGED <<alerts, pc, job>>
        BY <3>1, <3>2, <1>e, <1>g
      <3>3. CASE ~ UNCHANGED <<alerts, pc, job>>
        <4>1. PICK a \in AlertId : /\ alerts' = [alerts EXCEPT ![a] = FiringRow(k)]
                                   /\ job'.alert = a
          BY <2>5, <3>3 DEF EvalFire, NoJob
        <4>2. Kept /\ alerts'[a].status # "free"
          BY <4>1, <1>a DEF Kept, FiringRow
        <4> QED
          BY <3>1, <4>1, <4>2, <1>f
      <3> QED
        BY <3>2, <3>3
    <2>6. CASE EvalRefresh(k)
      <3>1. Kept
        BY <2>6, <1>a DEF EvalRefresh, AlertRow, Kept
      <3>2. Same
        BY <2>6, <1>a DEF EvalRefresh, RuleAgentState, Same
      <3>3. CASE pc' = pc /\ job' = job
        BY <3>1, <3>2, <3>3, <1>e
      <3>4. CASE ~(pc' = pc /\ job' = job)
        <4>1. job'.alert = states[k].active /\ states[k].active # NoAlert
          BY <2>6, <3>4 DEF EvalRefresh, NoJob
        <4>2. job'.alert \in AlertId /\ alerts'[job'.alert].status # "free"
          BY <4>1, <1>b, <3>1 DEF RowsInserted, Kept
        <4> QED
          BY <3>1, <3>2, <4>2, <1>f
      <3> QED
        BY <3>3, <3>4
    <2> QED
      BY <1>2, <2>1, <2>2, <2>3, <2>4, <2>5, <2>6 DEF Eval
  <1>3. CASE CommitResolve
    <2>1. Same
      BY <1>3, <1>a, <1>c DEF CommitResolve, Same
    <2> QED
      BY <1>3, <2>1, <1>d, <1>g DEF CommitResolve
  <1>4. CASE CommitFire
    <2>1. job.alert \in AlertId /\ alerts[job.alert].status # "free"
      BY <1>4 DEF CommitFire, JobNamed, RowsInserted
    <2>2. \A k \in Key : states'[k].active \in {states[k].active, job.alert}
      BY <1>4, <1>a DEF CommitFire, FiredState, RuleAgentState
    <2>3. pc' = "idle" /\ alerts' = alerts
      BY <1>4 DEF CommitFire
    <2> QED
      BY <2>1, <2>2, <2>3, <1>b, NoAlertFresh DEF RowsInserted
  <1>5. CASE Renotify
    <2>1. Same
      BY <1>5, <1>a DEF Renotify, RuleAgentState, Same
    <2>2. job.alert \in AlertId /\ alerts'[job.alert].status # "free" /\ alerts' = alerts
      BY <1>5 DEF Renotify, JobNamed, RowsInserted
    <2>3. pc' = "idle" \/ job' = job
      BY <1>5 DEF Renotify
    <2> QED
      BY <2>1, <2>2, <2>3, <1>d, <1>f, <1>g
  <1>6. CASE Escalate
    <2>1. Kept
      BY <1>6, <1>a DEF Escalate, AlertRow, Kept
    <2>2. job.alert \in AlertId /\ alerts'[job.alert].status # "free" /\ states' = states
      BY <1>6, <2>1 DEF Escalate, JobNamed, RowsInserted, Kept
    <2>3. pc' = "idle" \/ job' = job
      BY <1>6 DEF Escalate
    <2> QED
      BY <2>1, <2>2, <2>3, <1>d, <1>f, <1>g
  <1>7. CASE DispatchEscalation
    BY <1>7, <1>d, <1>g DEF DispatchEscalation
  <1>8. CASE Crash
    <2>1. Same
      BY <1>8, <1>c DEF Crash, Same
    <2> QED
      BY <1>8, <2>1, <1>d, <1>g DEF Crash
  <1>9. CASE Restart
    <2>1. CASE UNCHANGED states
      BY <1>9, <2>1, <1>e, <1>g DEF Restart
    <2>2. CASE ~ UNCHANGED states
      <3>1. PICK pick \in [Key -> AlertId \cup {NoAlert}] :
              /\ \A k \in Key : IF FiringOf(k) = {} THEN pick[k] = NoAlert
                                                    ELSE pick[k] \in FiringOf(k)
              /\ states' = [k \in Key |-> IF pick[k] = NoAlert THEN OKState
                                          ELSE SeededState(k, pick[k])]
        BY <1>9, <2>2 DEF Restart
      <3>2. \A k \in Key : states'[k].active # NoAlert =>
              alerts[states'[k].active].status = "firing"
        BY <3>1, <1>c DEF SeededState, FiringOf
      <3> QED
        BY <1>9, <3>2 DEF Restart, RowsInserted
    <2> QED
      BY <2>1, <2>2
  <1>10. ASSUME NEW a \in AlertId, Ack(a) \/ Unack(a) PROVE RowsInserted'
    <2>1. Kept
      BY <1>10, <1>a DEF Ack, Unack, AlertRow, Kept
    <2> QED
      BY <1>10, <2>1, <1>e, <1>g DEF Ack, Unack
  <1>11. ASSUME NEW s \in Silence, SetSilence(s) PROVE RowsInserted'
    BY <1>11, <1>e, <1>g DEF SetSilence
  <1>12. ASSUME NEW k \in Key, SetProbe(k) PROVE RowsInserted'
    BY <1>12, <1>e, <1>g DEF SetProbe
  <1>13. ASSUME NEW r \in Rule, ToggleRule(r) PROVE RowsInserted'
    BY <1>13, <1>e, <1>g DEF ToggleRule
  <1>14. CASE Tick
    BY <1>14, <1>e, <1>g DEF Tick
  <1>15. CASE UNCHANGED vars
    BY <1>15, <1>e, <1>g DEF vars
  <1> QED
    BY <1>1, <1>2, <1>3, <1>4, <1>5, <1>6, <1>7, <1>8, <1>9, <1>10, <1>11,
       <1>12, <1>13, <1>14, <1>15 DEF Next, Engine, Environment

LEMMA EscalationInit == Init => JobNamed /\ EscalationTracked
  BY DEF Init, JobNamed, EscalationTracked, FreeRow, NoPages

LEMMA EscalationNext ==
    TypeOK /\ JobNamed /\ RowsInserted /\ EscalationTracked /\ [Next]_vars =>
      JobNamed' /\ EscalationTracked'
  <1> SUFFICES ASSUME TypeOK, JobNamed, RowsInserted, EscalationTracked, [Next]_vars
               PROVE  JobNamed' /\ EscalationTracked'
    OBVIOUS
  <1>a. alerts \in [AlertId -> AlertRow] /\ pages \in [AlertId -> Pages]
    BY DEF TypeOK
  <1>b. ASSUME UNCHANGED <<alerts, pages>> PROVE EscalationFrame
    BY <1>b DEF EscalationFrame
  <1>c. job.at \in Nat /\ job.escalate \in BOOLEAN
    BY DEF TypeOK, Job
  <1>1. CASE StartCycle
    BY <1>1, <1>b, FrameSame DEF StartCycle
  <1>2. ASSUME NEW k \in Key, Eval(k) PROVE JobNamed' /\ EscalationTracked'
    <2>1. CASE EvalNoData(k) \/ EvalStillOK(k) \/ EvalForget(k) \/ EvalFirstBreach(k) \/ EvalGrace(k)
      BY <2>1, <1>b, FrameSame
         DEF EvalNoData, EvalStillOK, EvalForget, EvalFirstBreach, EvalGrace
    <2>2. CASE EvalResolve(k)
      <3>1. EscalationFrame
        BY <1>a, <2>2 DEF EvalResolve, EscalationFrame, AlertRow
      <3>2. CASE pc' = "resolve"
        <4>1. /\ states[k].active # NoAlert
              /\ \/ job'.key = k /\ job'.alert = states[k].active
                 \/ pc' = pc
          BY <2>2 DEF EvalResolve, NoJob
        <4>2. pc = "idle"
          BY <2>2 DEF EvalResolve, Evaluating
        <4>3. states[k].active \in AlertId \cup {NoAlert}
          BY DEF TypeOK, RuleAgentState
        <4>4. JobNamed'
          BY <3>2, <4>1, <4>2, <4>3 DEF JobNamed
        <4> QED
          BY <3>1, <3>2, <4>4 DEF EscalationTracked, EscalationFrame
      <3>3. CASE pc' # "resolve"
        <4>1. pc' = pc /\ job' = job
          BY <2>2, <3>3 DEF EvalResolve
        <4> QED
          BY <3>1, <4>1, FrameSame
      <3> QED
        BY <3>2, <3>3
    <2>3. CASE EvalFire(k)
      <3>1. CASE pc' = "fire"
        <4>1. PICK a \in AlertId : /\ alerts[a].status = "free"
                                   /\ alerts' = [alerts EXCEPT ![a] = FiringRow(k)]
                                   /\ job'.key = k /\ job'.alert = a
          <5>1. pc = "idle"
            BY <2>3 DEF EvalFire, Evaluating
          <5> QED
            BY <2>3, <3>1, <5>1 DEF EvalFire, NoJob
        <4>2. EscalationFrame
          <5>1. ~alerts[a].escalated /\ alerts[a].escalated \in BOOLEAN
            BY <1>a, <4>1 DEF EscalationTracked, AlertRow
          <5>2. pages' = pages
            BY <2>3 DEF EvalFire
          <5> QED
            BY <1>a, <4>1, <5>1, <5>2 DEF EscalationFrame, FiringRow, AlertRow
        <4>3. JobNamed'
          BY <4>1 DEF JobNamed
        <4> QED
          BY <3>1, <4>2, <4>3 DEF EscalationTracked, EscalationFrame
      <3>2. CASE pc' # "fire"
        BY <2>3, <3>2, <1>b, FrameSame DEF EvalFire
      <3> QED
        BY <3>1, <3>2
    <2>4. CASE EvalRefresh(k)
      <3>1. EscalationFrame
        BY <1>a, <2>4 DEF EvalRefresh, EscalationFrame, AlertRow
      <3>2. states[k].active \in AlertId
        <4>1. states[k].active \in AlertId \cup {NoAlert} /\ states[k].active # NoAlert
          BY <2>4 DEF EvalRefresh, TypeOK, RuleAgentState
        <4> QED
          BY <4>1
      <3>3. CASE pc' = pc /\ job' = job
        BY <3>1, <3>3, FrameSame
      <3>4. CASE ~(pc' = pc /\ job' = job)
        <4> DEFINE escalate == EscalationDue(states[k], alerts[states[k].active], k[1])
        <4>1. /\ pc' = "renotify" \/ (pc' = "escalate" /\ escalate)
              /\ job'.key = k /\ job'.alert = states[k].active /\ job'.escalate = escalate
          BY <2>4, <3>4 DEF EvalRefresh, NoJob
        <4>2. escalate => ~alerts[states[k].active].escalated
          BY DEF EscalationDue
        <4>3. JobNamed'
          BY <3>2, <4>1 DEF JobNamed
        <4> QED
          BY <3>1, <3>2, <4>1, <4>2, <4>3 DEF EscalationTracked, EscalationFrame
      <3> QED
        BY <3>3, <3>4
    <2> QED
      BY <1>2, <2>1, <2>2, <2>3, <2>4 DEF Eval
  <1>3. CASE CommitResolve
    <2>1. EscalationFrame
      BY <1>3, <1>a DEF CommitResolve, EscalationFrame, Pages
    <2> QED
      BY <1>3, <2>1, FrameIdle DEF CommitResolve
  <1>4. CASE CommitFire
    <2>1. EscalationFrame
      BY <1>4, <1>a DEF CommitFire, Notified, EscalationFrame, Pages
    <2> QED
      BY <1>4, <2>1, FrameIdle DEF CommitFire
  <1>5. CASE Renotify
    <2>1. EscalationFrame
      BY <1>5, <1>a DEF Renotify, Notified, EscalationFrame, Pages
    <2>2. CASE job.escalate
      <3>1. pc' = "escalate" /\ job' = job /\ pc = "renotify"
        BY <1>5, <2>2 DEF Renotify
      <3>2. job.alert \in AlertId /\ JobNamed'
        BY <3>1 DEF JobNamed
      <3> QED
        BY <2>1, <2>2, <3>1, <3>2 DEF EscalationTracked, EscalationFrame
    <2>3. CASE ~job.escalate
      BY <1>5, <2>1, <2>3, FrameIdle DEF Renotify
    <2> QED
      BY <2>2, <2>3
  <1>6. CASE Escalate
    <2>1. CASE pc' = "page"
      <3>1. /\ pc = "escalate" /\ job' = job /\ UNCHANGED pages
            /\ alerts' = [alerts EXCEPT ![job.alert].escalated = TRUE]
        BY <1>6, <2>1 DEF Escalate
      <3>2. job.alert \in AlertId /\ JobNamed'
        BY <3>1 DEF JobNamed
      <3>3. job.escalate /\ ~alerts[job.alert].escalated
        BY <3>1 DEF EscalationTracked
      <3>4. pages[job.alert].escalations = 0
        BY <1>a, <3>2, <3>3 DEF EscalationTracked, Pages
      <3>5. \A a \in AlertId :
              /\ alerts'[a].status = alerts[a].status
              /\ alerts'[a].escalated = IF a = job.alert THEN TRUE ELSE alerts[a].escalated
        BY <1>a, <3>1 DEF AlertRow
      <3>6. alerts[job.alert].status # "free"
        BY <3>1 DEF RowsInserted
      <3> QED
        BY <2>1, <3>1, <3>2, <3>4, <3>5, <3>6 DEF EscalationTracked
    <2>2. CASE pc' # "page"
      <3>1. pc' = "idle" /\ UNCHANGED <<alerts, pages>>
        BY <1>6, <2>2 DEF Escalate
      <3> QED
        BY <3>1, <1>b, FrameIdle
    <2> QED
      BY <2>1, <2>2
  <1>7. CASE DispatchEscalation
    <2>1. pc = "page" /\ job.alert \in AlertId /\ pc' = "idle" /\ UNCHANGED alerts
      BY <1>7 DEF DispatchEscalation, JobNamed
    <2>2. pages[job.alert].escalations = 0 /\ alerts[job.alert].escalated
      BY <2>1 DEF EscalationTracked
    <2>3. \A a \in AlertId : pages'[a].escalations =
            IF a = job.alert THEN pages[a].escalations + 1 ELSE pages[a].escalations
      BY <1>7, <1>a DEF DispatchEscalation, Pages
    <2> QED
      BY <2>1, <2>2, <2>3 DEF EscalationTracked, JobNamed
  <1>8. CASE Crash
    BY <1>8, <1>b, FrameIdle DEF Crash
  <1>9. CASE Restart
    BY <1>9, <1>b, FrameSame DEF Restart
  <1>10. ASSUME NEW a \in AlertId, Ack(a) \/ Unack(a) PROVE JobNamed' /\ EscalationTracked'
    <2>1. EscalationFrame
      BY <1>10, <1>a DEF Ack, Unack, EscalationFrame, AlertRow
    <2> QED
      BY <1>10, <2>1, FrameSame DEF Ack, Unack
  <1>11. ASSUME NEW s \in Silence, SetSilence(s) PROVE JobNamed' /\ EscalationTracked'
    BY <1>11, <1>b, FrameSame DEF SetSilence
  <1>12. ASSUME NEW k \in Key, SetProbe(k) PROVE JobNamed' /\ EscalationTracked'
    BY <1>12, <1>b, FrameSame DEF SetProbe
  <1>13. ASSUME NEW r \in Rule, ToggleRule(r) PROVE JobNamed' /\ EscalationTracked'
    BY <1>13, <1>b, FrameSame DEF ToggleRule
  <1>14. CASE Tick
    BY <1>14, <1>b, FrameSame DEF Tick
  <1>15. CASE UNCHANGED vars
    BY <1>15, <1>b, FrameSame DEF vars
  <1> QED
    BY <1>1, <1>2, <1>3, <1>4, <1>5, <1>6, <1>7, <1>8, <1>9, <1>10, <1>11,
       <1>12, <1>13, <1>14, <1>15 DEF Next, Engine, Environment

\* maybeEscalate dispatches at most one escalation per alert: whichever saves
\* fail, wherever the process crashes, however often it restarts.
THEOREM EscalatesAtMostOnce == Spec => []EscalatedOnce
  <1> DEFINE EInv == TypeOK /\ JobNamed /\ RowsInserted /\ EscalationTracked
  <1>1. Init => EInv
    BY TypeInit, RowsInit, EscalationInit
  <1>2. EInv /\ [Next]_vars => EInv'
    BY TypeNext, RowsNext, EscalationNext
  <1>3. EInv => EscalatedOnce
    BY DEF EscalationTracked, EscalatedOnce
  <1> QED
    BY <1>1, <1>2, <1>3, PTL DEF Spec

-----------------------------------------------------------------------------
(* At most one firing row per pair *)

LEMMA RememberedCases ==
    ASSUME NEW k \in Key
    PROVE  /\ pc = "fire" /\ job.key = k => Remembered(k) = {job.alert}
           /\ pc = "resolve" /\ job.key = k => Remembered(k) = {}
           /\ ~(pc \in {"fire", "resolve"} /\ job.key = k) =>
                Remembered(k) = IF states[k].fired THEN {states[k].active} ELSE {}
  BY DEF Remembered

LEMMA RememberedCasesNext ==
    ASSUME NEW k \in Key
    PROVE  /\ pc' = "fire" /\ job'.key = k => Remembered(k)' = {job'.alert}
           /\ pc' = "resolve" /\ job'.key = k => Remembered(k)' = {}
           /\ ~(pc' \in {"fire", "resolve"} /\ job'.key = k) =>
                Remembered(k)' = IF states'[k].fired THEN {states'[k].active} ELSE {}
  BY DEF Remembered

\* Which rows are firing, and for whom, does not change.
FiringFrame ==
    \A a \in AlertId : /\ alerts'[a].status = "firing" <=> alerts[a].status = "firing"
                       /\ alerts'[a].status = "firing" => alerts'[a].key = alerts[a].key

LEMMA FiringKept == ASSUME FiringFrame PROVE \A k \in Key : FiringOf(k)' = FiringOf(k)
  BY DEF FiringFrame, FiringOf

\* A step that leaves the firing rows and each pair's Fired and ActiveAlertID
\* alone, outside fireAlert and resolveAlert.
LEMMA NeutralStep ==
    ASSUME StatesAgree, EngineMatchesTable, AtMostOneFiring, FiringFrame, up' = up,
           up \/ (pc' = "idle" /\ states' = states),
           \A k \in Key : /\ states'[k].fired = states[k].fired
                          /\ states'[k].active = states[k].active
                          /\ states'[k].fired => Tracking(states'[k]),
           \/ pc' = pc /\ job' = job /\ (pc = "idle" \/ states' = states)
           \/ pc \notin {"fire", "resolve"} /\ pc' = "idle"
           \/ /\ pc \notin {"fire", "resolve"} /\ pc' \in {"renotify", "escalate", "page"}
              /\ states'[job'.key].fired /\ states'[job'.key].active = job'.alert
    PROVE  StatesAgree' /\ EngineMatchesTable' /\ AtMostOneFiring'
  <1>1. AtMostOneFiring'
    BY FiringKept DEF AtMostOneFiring
  <1>2. StatesAgree'
    BY DEF StatesAgree
  <1>3. ASSUME up, NEW k \in Key PROVE FiringOf(k)' = Remembered(k)'
    <2>1. FiringOf(k)' = Remembered(k)
      BY <1>3, FiringKept DEF EngineMatchesTable
    <2> QED
      BY <2>1, RememberedCases, RememberedCasesNext
  <1> QED
    BY <1>1, <1>2, <1>3 DEF EngineMatchesTable

LEMMA MatchInit == Init => StatesAgree /\ EngineMatchesTable /\ AtMostOneFiring
  <1> SUFFICES ASSUME Init PROVE StatesAgree /\ EngineMatchesTable /\ AtMostOneFiring
    OBVIOUS
  <1>1. StatesAgree
    BY DEF Init, StatesAgree, OKState
  <1>2. \A k \in Key : FiringOf(k) = {}
    BY DEF Init, FiringOf, FreeRow
  <1>3. \A k \in Key : Remembered(k) = {}
    BY RememberedCases DEF Init, OKState
  <1> QED
    BY <1>1, <1>2, <1>3 DEF EngineMatchesTable, AtMostOneFiring

\* Matching the table bounds the firing rows.
LEMMA MatchMeansOne ==
    ASSUME EngineMatchesTable', up' PROVE AtMostOneFiring'
  <1> SUFFICES ASSUME NEW k \in Key, NEW a \in FiringOf(k)', NEW b \in FiringOf(k)'
               PROVE  a = b
    BY DEF AtMostOneFiring
  <1>1. FiringOf(k)' = Remembered(k)'
    BY DEF EngineMatchesTable
  <1>2. \A x, y \in Remembered(k)' : x = y
    BY RememberedCasesNext
  <1> QED
    BY <1>1, <1>2

LEMMA MatchNext ==
    ASSUME ReliableClosing, TypeOK, JobNamed, StatesAgree, EngineMatchesTable,
           AtMostOneFiring, [Next]_vars
    PROVE  StatesAgree' /\ EngineMatchesTable' /\ AtMostOneFiring'
  <1> DEFINE Goal == StatesAgree' /\ EngineMatchesTable' /\ AtMostOneFiring'
  <1>a. alerts \in [AlertId -> AlertRow] /\ states \in [Key -> RuleAgentState]
    BY DEF TypeOK
  <1>b. \A k \in Key : states[k].active \in AlertId \cup {NoAlert} /\ states[k].fired \in BOOLEAN
    BY <1>a DEF RuleAgentState
  <1>c. UNCHANGED alerts => FiringFrame
    BY DEF FiringFrame
  <1>d. \A k \in Key : states[k].fired => Tracking(states[k])
    BY DEF StatesAgree
  <1>e. OKState.fired = FALSE /\ OKState.active = NoAlert
    BY DEF OKState
  <1>f. ASSUME UNCHANGED <<up, alerts, states, pc, job>> PROVE Goal
    <2>1. up \/ pc' = "idle"
      BY <1>f DEF StatesAgree
    <2> QED
      BY <1>c, <1>d, <1>f, <2>1, NeutralStep
  <1> HIDE DEF Goal
  <1>1. CASE StartCycle
    BY <1>1, <1>f DEF StartCycle, Goal
  <1>2. ASSUME NEW k \in Key, Eval(k) PROVE Goal
    <2>a. up /\ pc = "idle" /\ up' = up
      BY <1>2 DEF Eval, EvalNoData, EvalStillOK, EvalForget, EvalResolve, EvalFirstBreach,
         EvalGrace, EvalFire, EvalRefresh, Evaluating, cycleVars
    <2>b. FiringOf(k) = IF states[k].fired THEN {states[k].active} ELSE {}
      BY <2>a, RememberedCases DEF EngineMatchesTable
    <2>1. CASE EvalNoData(k) \/ EvalStillOK(k) \/ EvalGrace(k)
      BY <2>1, <1>f DEF EvalNoData, EvalStillOK, EvalGrace, cycleVars
    <2>2. CASE EvalForget(k)
      <3>1. states[k].fired = FALSE /\ states[k].active = NoAlert
        BY <1>b, <2>2 DEF EvalForget, StatesAgree
      <3>2. states' = [states EXCEPT ![k] = OKState] /\ UNCHANGED <<alerts, pc, job>>
        BY <2>2 DEF EvalForget
      <3>3. \A l \in Key : /\ states'[l].fired = states[l].fired
                           /\ states'[l].active = states[l].active
                           /\ states'[l].fired => Tracking(states'[l])
        <4>1. \A l \in Key : states'[l] = IF l = k THEN OKState ELSE states[l]
          BY <1>a, <3>2
        <4> QED
          BY <1>d, <1>e, <3>1, <4>1
      <3> QED
        BY <1>c, <2>a, <3>2, <3>3, NeutralStep DEF Goal
    <2>3. CASE EvalFirstBreach(k)
      <3>1. ~states[k].fired
        BY <2>3, <1>d DEF EvalFirstBreach
      <3>2. states' = [states EXCEPT ![k] = BreachStarted(states[k])] /\ UNCHANGED <<alerts, pc, job>>
        BY <2>3 DEF EvalFirstBreach
      <3>3. \A l \in Key : /\ states'[l].fired = states[l].fired
                           /\ states'[l].active = states[l].active
                           /\ states'[l].fired => Tracking(states'[l])
        BY <1>a, <1>b, <1>d, <3>1, <3>2 DEF BreachStarted, RuleAgentState
      <3> QED
        BY <1>c, <2>a, <3>2, <3>3, NeutralStep DEF Goal
    <2>4. CASE EvalResolve(k)
      <3>1. /\ alerts' = [alerts EXCEPT ![states[k].active].status = "resolved"]
            /\ pc' = "resolve" /\ job'.key = k /\ job'.alert = states[k].active
            /\ states' = states /\ states[k].active # NoAlert
        BY <2>4 DEF EvalResolve, ReliableClosing, MayFail, NoJob
      <3>2. states[k].fired
        BY <3>1 DEF StatesAgree
      <3>3. FiringOf(k) = {states[k].active}
        BY <2>b, <3>2
      <3>4. states[k].active \in AlertId /\ alerts[states[k].active].key = k
        BY <3>3 DEF FiringOf
      <3>5. \A a \in AlertId : /\ alerts'[a].key = alerts[a].key
                               /\ alerts'[a].status = IF a = states[k].active THEN "resolved"
                                                      ELSE alerts[a].status
        BY <1>a, <3>1, <3>4 DEF AlertRow
      <3>6. FiringOf(k)' = {}
        BY <3>3, <3>5 DEF FiringOf
      <3>7. \A l \in Key : l # k => FiringOf(l)' = FiringOf(l)
        BY <3>4, <3>5 DEF FiringOf
      <3>8. EngineMatchesTable'
        <4>1. ASSUME NEW l \in Key PROVE FiringOf(l)' = Remembered(l)'
          <5>1. CASE l = k
            BY <3>1, <3>6, <5>1, RememberedCasesNext
          <5>2. CASE l # k
            BY <2>a, <3>1, <3>7, <5>2, RememberedCases, RememberedCasesNext DEF EngineMatchesTable
          <5> QED
            BY <5>1, <5>2
        <4> QED
          BY <4>1 DEF EngineMatchesTable
      <3>9. StatesAgree'
        BY <2>a, <3>1, <3>2 DEF StatesAgree
      <3> QED
        BY <2>a, <3>8, <3>9, MatchMeansOne DEF Goal
    <2>5. CASE EvalFire(k)
      <3>1. ~states[k].fired /\ Tracking(states[k])
        BY <2>5 DEF EvalFire, NotYetFired
      <3>2. /\ states' = [states EXCEPT ![k] = [states[k] EXCEPT !.state = Severity[k[1]]]]
            /\ Severity[k[1]] \in {"warning", "critical"}
        BY <2>5, ConstantsAssumption DEF EvalFire, Key
      <3>3. \A l \in Key : /\ states'[l].fired = states[l].fired
                           /\ states'[l].active = states[l].active
                           /\ states'[l].fired => Tracking(states'[l])
        BY <1>a, <1>b, <1>d, <3>1, <3>2 DEF RuleAgentState
      <3>4. CASE UNCHANGED <<alerts, pc, job>>
        BY <1>c, <2>a, <3>3, <3>4, NeutralStep DEF Goal
      <3>5. CASE ~ UNCHANGED <<alerts, pc, job>>
        <4>1. PICK a \in AlertId : /\ alerts[a].status = "free"
                                   /\ alerts' = [alerts EXCEPT ![a] = FiringRow(k)]
                                   /\ pc' = "fire" /\ job'.key = k /\ job'.alert = a
          BY <2>5, <3>5 DEF EvalFire, NoJob
        <4>2. FiringOf(k)' = {a}
          <5>1. FiringOf(k) = {}
            BY <2>b, <3>1
          <5> QED
            BY <1>a, <4>1, <5>1 DEF FiringOf, FiringRow
        <4>3. \A l \in Key : l # k => FiringOf(l)' = FiringOf(l)
          BY <1>a, <4>1 DEF FiringOf, FiringRow
        <4>4. EngineMatchesTable'
          <5>1. ASSUME NEW l \in Key PROVE FiringOf(l)' = Remembered(l)'
            <6>1. CASE l = k
              BY <4>1, <4>2, <6>1, RememberedCasesNext
            <6>2. CASE l # k
              <7>1. FiringOf(l)' = IF states[l].fired THEN {states[l].active} ELSE {}
                BY <2>a, <4>3, <6>2, RememberedCases DEF EngineMatchesTable
              <7>2. Remembered(l)' = IF states'[l].fired THEN {states'[l].active} ELSE {}
                BY <4>1, <6>2, RememberedCasesNext
              <7> QED
                BY <3>3, <7>1, <7>2
            <6> QED
              BY <6>1, <6>2
          <5> QED
            BY <5>1 DEF EngineMatchesTable
        <4>5. StatesAgree'
          <5>1. Tracking(states'[k]) /\ ~states'[k].fired
            BY <1>a, <3>1, <3>2, <3>3 DEF Tracking, RuleAgentState
          <5> QED
            BY <2>a, <3>3, <4>1, <5>1 DEF StatesAgree
        <4> QED
          BY <2>a, <4>4, <4>5, MatchMeansOne DEF Goal
      <3> QED
        BY <3>4, <3>5
    <2>6. CASE EvalRefresh(k)
      <3>1. states[k].fired /\ states[k].active \in AlertId
        BY <1>b, <2>6 DEF EvalRefresh, NotYetFired
      <3>2. FiringFrame
        BY <1>a, <2>6 DEF EvalRefresh, FiringFrame, AlertRow
      <3>3. \A l \in Key : /\ states'[l].fired = states[l].fired
                           /\ states'[l].active = states[l].active
                           /\ states'[l].state = states[l].state
        BY <1>a, <2>6 DEF EvalRefresh, RuleAgentState
      <3>4. \A l \in Key : states'[l].fired => Tracking(states'[l])
        BY <1>d, <3>3 DEF Tracking
      <3>5. CASE pc' = pc /\ job' = job
        BY <2>a, <3>2, <3>3, <3>4, <3>5, NeutralStep DEF Goal
      <3>6. CASE ~(pc' = pc /\ job' = job)
        <4>1. pc' \in {"renotify", "escalate"} /\ job'.key = k /\ job'.alert = states[k].active
          BY <2>6, <3>6 DEF EvalRefresh, NoJob
        <4>2. states'[job'.key].fired /\ states'[job'.key].active = job'.alert
          BY <3>1, <3>3, <4>1
        <4> QED
          BY <2>a, <3>2, <3>3, <3>4, <4>1, <4>2, NeutralStep DEF Goal
      <3> QED
        BY <3>5, <3>6
    <2> QED
      BY <1>2, <2>1, <2>2, <2>3, <2>4, <2>5, <2>6 DEF Eval
  <1>3. CASE CommitResolve
    <2>1. /\ up /\ up' = up /\ pc = "resolve" /\ pc' = "idle" /\ alerts' = alerts
          /\ job.key \in Key /\ states' = [states EXCEPT ![job.key] = OKState]
      BY <1>3 DEF CommitResolve, JobNamed, cycleVars
    <2>2. \A l \in Key : states'[l] = IF l = job.key THEN OKState ELSE states[l]
      BY <1>a, <2>1
    <2>3. EngineMatchesTable'
      <3>1. \A l \in Key : FiringOf(l)' = FiringOf(l)
        BY <1>c, <2>1, FiringKept
      <3>2. ASSUME NEW l \in Key PROVE FiringOf(l)' = Remembered(l)'
        <4>1. FiringOf(l)' = Remembered(l)
          BY <2>1, <3>1 DEF EngineMatchesTable
        <4>2. Remembered(l)' = IF states'[l].fired THEN {states'[l].active} ELSE {}
          BY <2>1, RememberedCasesNext
        <4>3. CASE l = job.key
          BY <1>e, <2>1, <2>2, <4>1, <4>2, <4>3, RememberedCases
        <4>4. CASE l # job.key
          BY <2>1, <2>2, <4>1, <4>2, <4>4, RememberedCases
        <4> QED
          BY <4>3, <4>4
      <3> QED
        BY <3>2 DEF EngineMatchesTable
    <2>4. StatesAgree'
      BY <1>e, <2>1, <2>2 DEF StatesAgree
    <2> QED
      BY <2>1, <2>3, <2>4, MatchMeansOne DEF Goal
  <1>4. CASE CommitFire
    <2>1. /\ up /\ up' = up /\ pc = "fire" /\ pc' = "idle" /\ alerts' = alerts
          /\ job.key \in Key /\ job.alert \in AlertId
          /\ states' = [states EXCEPT ![job.key] = FiredState(states[job.key])]
      BY <1>4 DEF CommitFire, JobNamed, cycleVars
    <2>2. \A l \in Key : l # job.key => states'[l] = states[l]
      BY <1>a, <2>1
    <2>3. /\ states'[job.key].fired /\ states'[job.key].active = job.alert
          /\ states'[job.key].state = states[job.key].state
      BY <1>a, <2>1 DEF FiredState, RuleAgentState
    <2>4. EngineMatchesTable'
      <3>1. \A l \in Key : FiringOf(l)' = FiringOf(l)
        BY <1>c, <2>1, FiringKept
      <3>2. ASSUME NEW l \in Key PROVE FiringOf(l)' = Remembered(l)'
        BY <2>1, <2>2, <2>3, <3>1, RememberedCases, RememberedCasesNext DEF EngineMatchesTable
      <3> QED
        BY <3>2 DEF EngineMatchesTable
    <2>5. StatesAgree'
      BY <2>1, <2>2, <2>3, NoAlertFresh DEF StatesAgree, Tracking
    <2> QED
      BY <2>1, <2>4, <2>5, MatchMeansOne DEF Goal
  <1>5. CASE Renotify
    <2>1. /\ up /\ up' = up /\ pc = "renotify" /\ alerts' = alerts /\ job.key \in Key
          /\ states' = [states EXCEPT ![job.key].lastNotifiedAt = job.at]
          /\ pc' = "idle" \/ (pc' = "escalate" /\ job' = job)
      BY <1>5 DEF Renotify, JobNamed, cycleVars
    <2>2. \A l \in Key : /\ states'[l].fired = states[l].fired
                         /\ states'[l].active = states[l].active
                         /\ states'[l].state = states[l].state
      BY <1>a, <2>1 DEF RuleAgentState
    <2>3. \A l \in Key : states'[l].fired => Tracking(states'[l])
      BY <1>d, <2>2 DEF Tracking
    <2>4. states'[job.key].fired /\ states'[job.key].active = job.alert
      BY <2>1, <2>2 DEF StatesAgree
    <2> QED
      BY <1>c, <2>1, <2>2, <2>3, <2>4, NeutralStep DEF Goal
  <1>6. CASE Escalate
    <2>1. /\ up /\ up' = up /\ pc = "escalate" /\ states' = states
          /\ pc' = "idle" \/ (pc' = "page" /\ job' = job)
      BY <1>6 DEF Escalate, cycleVars
    <2>2. FiringFrame
      BY <1>a, <1>6 DEF Escalate, FiringFrame, AlertRow
    <2>3. states[job.key].fired /\ states[job.key].active = job.alert
      BY <2>1 DEF StatesAgree
    <2> QED
      BY <1>d, <2>1, <2>2, <2>3, NeutralStep DEF Goal
  <1>7. CASE DispatchEscalation
    <2>1. /\ up /\ up' = up /\ pc = "page" /\ states' = states /\ alerts' = alerts
          /\ pc' = "idle"
      BY <1>7 DEF DispatchEscalation, cycleVars
    <2> QED
      BY <1>c, <1>d, <2>1, NeutralStep DEF Goal
  <1>8. CASE Crash
    <2>1. ~up' /\ pc' = "idle" /\ alerts' = alerts /\ states' = [k \in Key |-> OKState]
      BY <1>8 DEF Crash
    <2>2. AtMostOneFiring'
      BY <1>c, <2>1, FiringKept DEF AtMostOneFiring
    <2>3. StatesAgree'
      BY <1>e, <2>1 DEF StatesAgree
    <2> QED
      BY <2>1, <2>2, <2>3 DEF Goal, EngineMatchesTable
  <1>9. CASE Restart
    <2>1. /\ up' /\ ~up /\ pc' = pc /\ pc = "idle" /\ alerts' = alerts
      BY <1>9 DEF Restart, StatesAgree
    <2>2. PICK pick \in [Key -> AlertId \cup {NoAlert}] :
              /\ \A k \in Key : IF FiringOf(k) = {} THEN pick[k] = NoAlert
                                                    ELSE pick[k] \in FiringOf(k)
              /\ states' = [k \in Key |-> IF pick[k] = NoAlert THEN OKState
                                          ELSE SeededState(k, pick[k])]
      BY <1>9 DEF Restart, ReliableClosing, MayFail
    <2>3. \A k \in Key : Severity[k[1]] \in {"warning", "critical"}
      BY ConstantsAssumption DEF Key
    <2>4. \A k \in Key : /\ states'[k].active = pick[k]
                         /\ states'[k].fired <=> pick[k] # NoAlert
                         /\ states'[k].fired => Tracking(states'[k])
      BY <1>e, <2>2, <2>3 DEF SeededState, Tracking
    <2>5. EngineMatchesTable'
      <3>1. \A l \in Key : FiringOf(l)' = FiringOf(l)
        BY <1>c, <2>1, FiringKept
      <3>2. ASSUME NEW l \in Key PROVE FiringOf(l)' = Remembered(l)'
        <4>1. Remembered(l)' = IF pick[l] = NoAlert THEN {} ELSE {pick[l]}
          BY <2>1, <2>4, RememberedCasesNext
        <4>2. CASE FiringOf(l) = {}
          BY <2>2, <3>1, <4>1, <4>2
        <4>3. CASE FiringOf(l) # {}
          <5>1. pick[l] \in FiringOf(l) /\ pick[l] # NoAlert
            BY <2>2, <4>3, NoAlertFresh DEF FiringOf
          <5>2. FiringOf(l) = {pick[l]}
            BY <5>1 DEF AtMostOneFiring
          <5> QED
            BY <3>1, <4>1, <5>1, <5>2
        <4> QED
          BY <4>2, <4>3
      <3> QED
        BY <3>2 DEF EngineMatchesTable
    <2>6. StatesAgree'
      BY <2>1, <2>4 DEF StatesAgree
    <2> QED
      BY <2>1, <2>5, <2>6, MatchMeansOne DEF Goal
  <1>10. ASSUME NEW a \in AlertId, Ack(a) \/ Unack(a) PROVE Goal
    <2>1. FiringFrame
      BY <1>a, <1>10 DEF Ack, Unack, FiringFrame, AlertRow
    <2>2. up /\ UNCHANGED <<up, states, pc, job>>
      BY <1>10 DEF Ack, Unack, cycleVars
    <2> QED
      BY <1>d, <2>1, <2>2, NeutralStep DEF Goal
  <1>11. ASSUME NEW s \in Silence, SetSilence(s) PROVE Goal
    BY <1>11, <1>f DEF SetSilence, cycleVars
  <1>12. ASSUME NEW k \in Key, SetProbe(k) PROVE Goal
    BY <1>12, <1>f DEF SetProbe, cycleVars
  <1>13. ASSUME NEW r \in Rule, ToggleRule(r) PROVE Goal
    BY <1>13, <1>f DEF ToggleRule, cycleVars
  <1>14. CASE Tick
    BY <1>14, <1>f DEF Tick, Goal
  <1>15. CASE UNCHANGED vars
    BY <1>15, <1>f DEF vars, Goal
  <1>16. Goal
    BY <1>1, <1>2, <1>3, <1>4, <1>5, <1>6, <1>7, <1>8, <1>9, <1>10, <1>11,
       <1>12, <1>13, <1>14, <1>15 DEF Next, Engine, Environment, Goal
  <1> QED
    BY <1>16 DEF Goal

\* The inductive invariant holds, so at most one firing row exists per pair
\* and the engine's memory matches the table, provided resolveAlert's save and
\* seedState's query never fail.  Crashes, failed inserts, refreshes and
\* escalations are all allowed.
THEOREM OneFiringRow == ReliableClosing => (Spec => [](AtMostOneFiring /\ EngineMatchesTable))
  <1> SUFFICES ASSUME ReliableClosing PROVE Spec => [](AtMostOneFiring /\ EngineMatchesTable)
    OBVIOUS
  <1> DEFINE MInv == /\ TypeOK /\ JobNamed /\ RowsInserted /\ EscalationTracked
                     /\ StatesAgree /\ EngineMatchesTable /\ AtMostOneFiring
  <1>1. Init => MInv
    BY TypeInit, RowsInit, EscalationInit, MatchInit
  <1>2. MInv /\ [Next]_vars => MInv'
    BY TypeNext, RowsNext, EscalationNext, MatchNext
  <1> QED
    BY <1>1, <1>2, PTL DEF Spec
-----------------------------------------------------------------------------
(* Nobody is paged before it is due *)

\* A page is on its way: the job will reach somebody, or it is the firing itself.
Paging == pc \in {"renotify", "escalate", "page"} \/ (pc = "fire" /\ ~job.silenced)
Escalating == pc \in {"escalate", "page"} \/ (pc = "renotify" /\ job.escalate)

\* A pair's own row carries its key and the time it fired.
OwnRow == \A k \in Key : states[k].active # NoAlert =>
              /\ alerts[states[k].active].key = k
              /\ alerts[states[k].active].firedAt = states[k].firedAt

\* What a job was decided on still holds of its row: it was neither acknowledged nor
\* silenced when the decision was taken, and an escalation was due.
NotAcked == alerts[job.alert].ackedAt = 0 \/ alerts[job.alert].ackedAt >= job.at
NotSilenced == ~ \E f \in fetched : /\ f[2].starts <= job.at /\ job.at < f[2].ends
                                    /\ job.key[2] \in Covers[f[1]]
JobDue ==
    pc # "idle" =>
        /\ job.at <= now /\ alerts[job.alert].key = job.key
        /\ pc = "fire" => alerts[job.alert].firedAt = job.at
        /\ Paging => NotAcked /\ NotSilenced
        /\ Escalating => job.at >= alerts[job.alert].firedAt + EscalationAfter[job.key[1]]

DueInv == OwnRow /\ JobDue

\* The rows that were inserted keep their key and time; operators may acknowledge now.
RowFrame ==
    \A a \in AlertId : alerts[a].status # "free" =>
        /\ alerts'[a].key = alerts[a].key /\ alerts'[a].firedAt = alerts[a].firedAt
        /\ alerts'[a].ackedAt \in {alerts[a].ackedAt, 0, now}

StateFrame ==
    \A k \in Key : states'[k].active = NoAlert \/ (/\ states'[k].active = states[k].active
                                                   /\ states'[k].firedAt = states[k].firedAt)

LEMMA DueInit == Init => DueInv
<1> SUFFICES ASSUME Init PROVE DueInv
  OBVIOUS
<1>1. \A k \in Key : states[k].active = NoAlert
  BY DEF Init, OKState
<1>2. pc = "idle"
  BY DEF Init
<1> QED
  BY <1>1, <1>2 DEF DueInv, OwnRow, JobDue

LEMMA OwnRowFrame ==
    ASSUME TypeOK, RowsInserted, OwnRow, RowFrame, StateFrame
    PROVE  OwnRow'
<1> SUFFICES ASSUME NEW k \in Key, states'[k].active # NoAlert
             PROVE  /\ alerts'[states'[k].active].key = k
                    /\ alerts'[states'[k].active].firedAt = states'[k].firedAt
  BY DEF OwnRow
<1>1. states'[k].active = states[k].active /\ states'[k].firedAt = states[k].firedAt
  BY DEF StateFrame
<1>2. states[k].active \in AlertId /\ alerts[states[k].active].status # "free"
  BY <1>1 DEF TypeOK, RuleAgentState, RowsInserted
<1> QED
  BY <1>1, <1>2 DEF OwnRow, RowFrame

\* A job that goes on about the same row.
LEMMA JobDueFrame ==
    ASSUME TypeOK, JobNamed, RowsInserted, JobDue, RowFrame, now' \in Nat, now <= now',
           \/ pc' = "idle"
           \/ /\ pc # "idle" /\ job' = job /\ fetched' = fetched
              /\ pc' = "fire" => pc = "fire"
              /\ (Paging' => Paging) /\ (Escalating' => Escalating)
    PROVE  JobDue'
<1>1. CASE pc' = "idle"
  BY <1>1 DEF JobDue
<1>2. CASE pc' # "idle"
  <2>1. /\ pc # "idle" /\ job' = job /\ fetched' = fetched /\ (pc' = "fire" => pc = "fire")
        /\ (Paging' => Paging) /\ (Escalating' => Escalating)
    BY <1>2
  <2>2. job.alert \in AlertId /\ alerts[job.alert].status # "free" /\ job.at \in Nat /\ now \in Nat
    BY <2>1 DEF JobNamed, RowsInserted, TypeOK, Job
  <2>3. /\ alerts'[job.alert].key = alerts[job.alert].key
        /\ alerts'[job.alert].firedAt = alerts[job.alert].firedAt
        /\ alerts'[job.alert].ackedAt \in {alerts[job.alert].ackedAt, 0, now}
    BY <2>2 DEF RowFrame
  <2>4. job.at <= now'
    BY <2>1, <2>2 DEF JobDue
  <2>5. NotAcked => NotAcked'
    BY <2>1, <2>2, <2>3 DEF NotAcked, JobDue
  <2>6. NotSilenced => NotSilenced'
    BY <2>1 DEF NotSilenced
  <2> QED
    BY <2>1, <2>3, <2>4, <2>5, <2>6 DEF JobDue
<1> QED
  BY <1>1, <1>2

\* EvalFire: the new row is neither acknowledged nor, if it is to be dispatched, silenced.
LEMMA FireDue ==
    ASSUME TypeOK, JobNamed, RowsInserted, DueInv, NEW k \in Key, EvalFire(k)
    PROVE  DueInv'
<1>1. /\ up /\ pc = "idle" /\ UNCHANGED <<now, fetched>>
      /\ states' = [states EXCEPT ![k] = [states[k] EXCEPT !.state = Severity[k[1]]]]
  BY DEF EvalFire, Evaluating, cycleVars
<1>2. StateFrame
  <2>1. /\ states'[k] = [states[k] EXCEPT !.state = Severity[k[1]]]
        /\ \A j \in Key \ {k} : states'[j] = states[j]
    BY <1>1 DEF TypeOK
  <2>2. states'[k].active = states[k].active /\ states'[k].firedAt = states[k].firedAt
    BY <2>1 DEF TypeOK, RuleAgentState
  <2> QED
    BY <2>1, <2>2 DEF StateFrame
<1>3. CASE UNCHANGED <<alerts, pc, job>>
  <2>1. RowFrame
    BY <1>3 DEF RowFrame
  <2>2. OwnRow'
    BY <1>2, <2>1, OwnRowFrame DEF DueInv
  <2> QED
    BY <1>1, <1>3, <2>2 DEF DueInv, JobDue
<1>4. CASE \E a \in AlertId :
            /\ alerts[a].status = "free"
            /\ alerts' = [alerts EXCEPT ![a] = FiringRow(k)]
            /\ pc' = "fire"
            /\ job' = [NoJob EXCEPT !.key = k, !.alert = a, !.at = now,
                                    !.silenced = IsSilenced(k)]
  <2>1. PICK a \in AlertId :
            /\ alerts[a].status = "free"
            /\ alerts' = [alerts EXCEPT ![a] = FiringRow(k)]
            /\ pc' = "fire"
            /\ job' = [NoJob EXCEPT !.key = k, !.alert = a, !.at = now,
                                    !.silenced = IsSilenced(k)]
    BY <1>4
  <2>2. alerts'[a] = FiringRow(k) /\ \A b \in AlertId \ {a} : alerts'[b] = alerts[b]
    BY <2>1 DEF TypeOK
  <2>3. RowFrame
    BY <2>1, <2>2 DEF RowFrame
  <2>4. OwnRow'
    BY <1>2, <2>3, OwnRowFrame DEF DueInv
  <2>5. job'.key = k /\ job'.alert = a /\ job'.at = now /\ job'.silenced = IsSilenced(k)
    BY <2>1 DEF NoJob
  <2>6. alerts'[a].key = k /\ alerts'[a].firedAt = now /\ alerts'[a].ackedAt = 0
    BY <2>2 DEF FiringRow
  <2>7. ~job'.silenced => NotSilenced'
    BY <1>1, <2>5 DEF IsSilenced, NotSilenced
  <2>8. NotAcked'
    BY <2>5, <2>6 DEF NotAcked
  <2>9. ~Escalating'
    BY <2>1 DEF Escalating
  <2>10. job'.at <= now'
    BY <1>1, <2>5 DEF TypeOK
  <2>11. Paging' => ~job'.silenced
    BY <2>1 DEF Paging
  <2> QED
    BY <1>1, <2>4, <2>5, <2>6, <2>7, <2>8, <2>9, <2>10, <2>11 DEF DueInv, JobDue
<1> QED
  BY <1>3, <1>4 DEF EvalFire

\* EvalRefresh: a re-notification or escalation is decided on the row as it is now.
LEMMA RefreshDue ==
    ASSUME TypeOK, JobNamed, RowsInserted, DueInv, NEW k \in Key, EvalRefresh(k)
    PROVE  DueInv'
<1> DEFINE a == states[k].active
           due == RenotifyDue(states[k])
           escalate == EscalationDue(states[k], alerts[a], k[1])
<1>1. pc = "idle" /\ a # NoAlert /\ UNCHANGED <<now, fetched>>
  BY DEF EvalRefresh, Evaluating, cycleVars
<1>2. a \in AlertId /\ alerts[a].key = k /\ alerts[a].firedAt = states[k].firedAt
  BY <1>1 DEF TypeOK, RuleAgentState, DueInv, OwnRow
<1>3. CASE UNCHANGED <<alerts, states, pc, job>>
  BY <1>1, <1>3 DEF DueInv, OwnRow, JobDue
<1>4. CASE /\ alerts' = [alerts EXCEPT ![a].silenced = IsSilenced(k)]
           /\ states' = [states EXCEPT ![k].silenced = IsSilenced(k)]
           /\ IF IsSilenced(k) \/ Acknowledged(alerts[a]) \/ ~(due \/ escalate)
              THEN UNCHANGED <<pc, job>>
              ELSE /\ pc' = IF due THEN "renotify" ELSE "escalate"
                   /\ job' = [NoJob EXCEPT !.key = k, !.alert = a, !.at = now,
                                           !.escalate = escalate]
  <2>1. StateFrame
    <3>1. \A j \in Key : states'[j].active = states[j].active /\ states'[j].firedAt = states[j].firedAt
      BY <1>4 DEF TypeOK, RuleAgentState
    <3> QED
      BY <3>1 DEF StateFrame
  <2>2. \A b \in AlertId : /\ alerts'[b].key = alerts[b].key /\ alerts'[b].firedAt = alerts[b].firedAt
                           /\ alerts'[b].ackedAt = alerts[b].ackedAt
    BY <1>4 DEF TypeOK, AlertRow
  <2>3. OwnRow'
    BY <2>1, <2>2, OwnRowFrame DEF DueInv, RowFrame
  <2>4. CASE UNCHANGED <<pc, job>>
    BY <1>1, <2>3, <2>4 DEF DueInv, JobDue
  <2>5. CASE /\ ~IsSilenced(k) /\ ~Acknowledged(alerts[a]) /\ (due \/ escalate)
             /\ pc' = IF due THEN "renotify" ELSE "escalate"
             /\ job' = [NoJob EXCEPT !.key = k, !.alert = a, !.at = now,
                                     !.escalate = escalate]
    <3>1. /\ job'.key = k /\ job'.alert = a /\ job'.at = now /\ job'.escalate = escalate
          /\ pc' \in {"renotify", "escalate"} /\ (pc' = "escalate" => escalate)
      BY <2>5 DEF NoJob
    <3>2. NotSilenced'
      BY <1>1, <2>5, <3>1 DEF IsSilenced, NotSilenced
    <3>3. NotAcked'
      BY <1>2, <2>2, <2>5, <3>1 DEF NotAcked, Acknowledged
    <3>4. Escalating' => escalate
      BY <3>1 DEF Escalating
    <3>5. escalate => now >= alerts'[a].firedAt + EscalationAfter[k[1]]
      BY <1>2, <2>2 DEF EscalationDue
    <3>6. job'.at <= now' /\ alerts'[job'.alert].key = job'.key
      BY <1>1, <1>2, <2>2, <3>1 DEF TypeOK
    <3> HIDE DEF escalate, a
    <3> QED
      BY <2>3, <3>1, <3>2, <3>3, <3>4, <3>5, <3>6 DEF DueInv, JobDue
  <2> QED
    BY <1>4, <2>4, <2>5
<1> QED
  BY <1>3, <1>4 DEF EvalRefresh

LEMMA ResolveDue ==
    ASSUME TypeOK, JobNamed, RowsInserted, DueInv, NEW k \in Key, EvalResolve(k)
    PROVE  DueInv'
<1> DEFINE a == states[k].active
<1>1. pc = "idle" /\ a # NoAlert /\ UNCHANGED <<now, fetched>>
  BY DEF EvalResolve, Evaluating, cycleVars
<1>2. a \in AlertId /\ alerts[a].key = k
  BY <1>1 DEF TypeOK, RuleAgentState, DueInv, OwnRow
<1>3. CASE /\ alerts' = [alerts EXCEPT ![a].status = "resolved"]
           /\ pc' = "resolve" /\ UNCHANGED states
           /\ job' = [NoJob EXCEPT !.key = k, !.alert = a, !.at = now]
  <2>1. \A b \in AlertId : /\ alerts'[b].key = alerts[b].key /\ alerts'[b].firedAt = alerts[b].firedAt
                           /\ alerts'[b].ackedAt = alerts[b].ackedAt
    BY <1>3 DEF TypeOK, AlertRow
  <2>2. OwnRow'
    BY <1>3, <2>1, OwnRowFrame DEF DueInv, RowFrame, StateFrame
  <2>3. job'.key = k /\ job'.alert = a /\ job'.at = now
    BY <1>3 DEF NoJob
  <2>4. job'.at <= now' /\ alerts'[job'.alert].key = job'.key
    BY <1>1, <1>2, <2>1, <2>3 DEF TypeOK
  <2>5. ~Paging' /\ ~Escalating' /\ pc' # "fire"
    BY <1>3 DEF Paging, Escalating
  <2> QED
    BY <2>2, <2>4, <2>5 DEF DueInv, JobDue
<1>4. CASE states' = [states EXCEPT ![k] = OKState] /\ UNCHANGED <<alerts, pc, job>>
  <2>1. StateFrame
    BY <1>4 DEF StateFrame, TypeOK, OKState
  <2>2. OwnRow'
    BY <1>4, <2>1, OwnRowFrame DEF DueInv, RowFrame
  <2> QED
    BY <1>1, <1>4, <2>2 DEF DueInv, JobDue
<1> QED
  BY <1>3, <1>4 DEF EvalResolve

\* CommitFire and Restart are where a pair comes to know its row.
LEMMA CommitFireDue ==
    ASSUME TypeOK, JobNamed, RowsInserted, DueInv, CommitFire
    PROVE  DueInv'
<1>1. /\ pc = "fire" /\ pc' = "idle" /\ UNCHANGED alerts
      /\ states' = [states EXCEPT ![job.key] = FiredState(states[job.key])]
  BY DEF CommitFire
<1>2. job.key \in Key /\ alerts[job.alert].key = job.key /\ alerts[job.alert].firedAt = job.at
  BY <1>1 DEF JobNamed, DueInv, JobDue
<1>3. /\ states'[job.key] = FiredState(states[job.key])
      /\ \A j \in Key \ {job.key} : states'[j] = states[j]
  BY <1>1, <1>2 DEF TypeOK
<1>4. states'[job.key].active = job.alert /\ states'[job.key].firedAt = job.at
  BY <1>2, <1>3 DEF FiredState, TypeOK, RuleAgentState
<1>5. OwnRow'
  BY <1>1, <1>2, <1>3, <1>4 DEF DueInv, OwnRow
<1> QED
  BY <1>1, <1>5 DEF DueInv, JobDue

LEMMA RestartDue ==
    ASSUME TypeOK, JobNamed, RowsInserted, DueInv, Restart, pc = "idle"
    PROVE  DueInv'
<1>1. UNCHANGED <<now, pc, job, alerts>>
  BY DEF Restart
<1>2. CASE UNCHANGED states
  BY <1>1, <1>2 DEF DueInv, OwnRow, JobDue
<1>3. CASE \E pick \in [Key -> AlertId \cup {NoAlert}] :
            /\ \A k \in Key : IF FiringOf(k) = {} THEN pick[k] = NoAlert
                                                  ELSE pick[k] \in FiringOf(k)
            /\ states' = [k \in Key |-> IF pick[k] = NoAlert THEN OKState
                                        ELSE SeededState(k, pick[k])]
  <2>1. PICK pick \in [Key -> AlertId \cup {NoAlert}] :
            /\ \A k \in Key : IF FiringOf(k) = {} THEN pick[k] = NoAlert
                                                  ELSE pick[k] \in FiringOf(k)
            /\ states' = [k \in Key |-> IF pick[k] = NoAlert THEN OKState
                                        ELSE SeededState(k, pick[k])]
    BY <1>3
  <2>2. ASSUME NEW k \in Key, states'[k].active # NoAlert
        PROVE  /\ alerts[states'[k].active].key = k
               /\ alerts[states'[k].active].firedAt = states'[k].firedAt
    <3>1. states'[k] = IF pick[k] = NoAlert THEN OKState ELSE SeededState(k, pick[k])
      BY <2>1
    <3>2. pick[k] # NoAlert
      BY <2>2, <3>1 DEF OKState
    <3>3. pick[k] \in FiringOf(k)
      BY <2>1, <3>2
    <3>4. states'[k].active = pick[k] /\ states'[k].firedAt = alerts[pick[k]].firedAt
      BY <3>1, <3>2 DEF SeededState
    <3> QED
      BY <3>3, <3>4 DEF FiringOf
  <2>3. OwnRow'
    BY <1>1, <2>2 DEF OwnRow
  <2> QED
    BY <1>1, <2>3 DEF DueInv, JobDue
<1> QED
  BY <1>2, <1>3 DEF Restart
\* The process is down only between two jobs.
DownIdle == ~up => pc = "idle"

LEMMA DownInit == Init => DownIdle
  BY DEF Init, DownIdle

LEMMA DownNext == DownIdle /\ [Next]_vars => DownIdle'
<1> SUFFICES ASSUME DownIdle, [Next]_vars PROVE DownIdle'
  OBVIOUS
<1>1. CASE Engine
  <2>1. ASSUME NEW k \in Key, Eval(k) PROVE up' = up /\ up
    BY <2>1 DEF Eval, Evaluating, EvalNoData, EvalStillOK, EvalForget, EvalResolve,
       EvalFirstBreach, EvalGrace, EvalFire, EvalRefresh, cycleVars
  <2>2. CASE StartCycle \/ CommitResolve \/ CommitFire \/ Renotify \/ Escalate
             \/ DispatchEscalation
    <3>1. up' = up /\ up
      BY <2>2 DEF StartCycle, CommitResolve, CommitFire, Renotify, Escalate,
         DispatchEscalation, cycleVars
    <3> QED
      BY <3>1 DEF DownIdle
  <2> QED
    BY <1>1, <2>1, <2>2 DEF Engine, DownIdle
<1>2. CASE Restart
  BY <1>2 DEF Restart, DownIdle
<1>3. CASE Environment
  <2>1. (up' = up /\ pc' = pc) \/ pc' = "idle"
    BY <1>3 DEF Environment, Crash, Ack, Unack, SetSilence, SetProbe, ToggleRule, cycleVars
  <2> QED
    BY <2>1 DEF DownIdle
<1>4. CASE Tick
  BY <1>4 DEF Tick, DownIdle
<1>5. CASE UNCHANGED vars
  BY <1>5 DEF vars, DownIdle
<1> QED
  BY <1>1, <1>2, <1>3, <1>4, <1>5 DEF Next

\* The steps that leave the table's keys and times alone and start no job.
LEMMA QuietDue ==
    ASSUME TypeOK, JobNamed, RowsInserted, DueInv, RowFrame, StateFrame,
           now' \in Nat, now <= now',
           \/ pc' = "idle"
           \/ /\ pc # "idle" /\ job' = job /\ fetched' = fetched
              /\ (pc' = "fire" => pc = "fire")
              /\ (Paging' => Paging) /\ (Escalating' => Escalating)
    PROVE  DueInv'
<1>1. OwnRow'
  BY OwnRowFrame DEF DueInv
<1>2. JobDue'
  BY JobDueFrame DEF DueInv
<1> QED
  BY <1>1, <1>2 DEF DueInv

LEMMA DueNext ==
    TypeOK /\ JobNamed /\ RowsInserted /\ DownIdle /\ DueInv /\ [Next]_vars => DueInv'
<1> SUFFICES ASSUME TypeOK, JobNamed, RowsInserted, DownIdle, DueInv, [Next]_vars
             PROVE  DueInv'
  OBVIOUS
<1>a. now \in Nat /\ now <= now
  BY DEF TypeOK
<1>b. alerts' = alerts => RowFrame
  BY DEF RowFrame
<1>c. states' = states => StateFrame
  BY DEF StateFrame
<1>d. OKState.active = NoAlert
  BY DEF OKState
<1>e. ASSUME NEW k \in Key, states' = [states EXCEPT ![k] = OKState] PROVE StateFrame
  BY <1>d, <1>e DEF StateFrame, TypeOK
<1>f. UNCHANGED <<pc, job>> => (Paging' = Paging /\ Escalating' = Escalating)
  BY DEF Paging, Escalating
<1>1. CASE StartCycle
  <2>1. pc' = "idle" /\ UNCHANGED <<now, alerts, states>>
    BY <1>1 DEF StartCycle
  <2> QED
    BY <1>a, <1>b, <1>c, <2>1, QuietDue
<1>2. ASSUME NEW k \in Key, EvalNoData(k) \/ EvalStillOK(k) \/ EvalGrace(k) PROVE DueInv'
  <2>1. pc' = "idle" /\ UNCHANGED <<now, alerts, states>>
    BY <1>2 DEF EvalNoData, EvalStillOK, EvalGrace, Evaluating, cycleVars
  <2> QED
    BY <1>a, <1>b, <1>c, <2>1, QuietDue
<1>3. ASSUME NEW k \in Key, EvalForget(k) PROVE DueInv'
  <2>1. pc' = "idle" /\ UNCHANGED <<now, alerts>> /\ states' = [states EXCEPT ![k] = OKState]
    BY <1>3 DEF EvalForget, Evaluating, cycleVars
  <2> QED
    BY <1>a, <1>b, <1>e, <2>1, QuietDue
<1>4. ASSUME NEW k \in Key, EvalFirstBreach(k) PROVE DueInv'
  <2>1. /\ pc' = "idle" /\ UNCHANGED <<now, alerts>>
        /\ states' = [states EXCEPT ![k] = BreachStarted(states[k])]
    BY <1>4 DEF EvalFirstBreach, Evaluating, cycleVars
  <2>2. /\ states'[k] = BreachStarted(states[k])
        /\ \A j \in Key \ {k} : states'[j] = states[j]
    BY <2>1 DEF TypeOK
  <2>3. states'[k].active = states[k].active /\ states'[k].firedAt = states[k].firedAt
    BY <2>2 DEF BreachStarted, TypeOK, RuleAgentState
  <2>4. StateFrame
    BY <2>2, <2>3 DEF StateFrame
  <2> QED
    BY <1>a, <1>b, <2>1, <2>4, QuietDue
<1>5. CASE CommitResolve
  <2>1. /\ pc = "resolve" /\ pc' = "idle" /\ UNCHANGED <<now, alerts>>
        /\ states' = [states EXCEPT ![job.key] = OKState]
    BY <1>5 DEF CommitResolve, cycleVars
  <2>2. job.key \in Key
    BY <2>1 DEF JobNamed
  <2>3. StateFrame
    BY <1>e, <2>1, <2>2
  <2> QED
    BY <1>a, <1>b, <2>1, <2>3, QuietDue
<1>6. CASE Renotify
  <2>1. /\ pc = "renotify" /\ UNCHANGED <<now, alerts, fetched>>
        /\ states' = [states EXCEPT ![job.key].lastNotifiedAt = job.at]
        /\ pc' = "idle" \/ (pc' = "escalate" /\ job' = job /\ job.escalate)
    BY <1>6 DEF Renotify, cycleVars
  <2>2. \A j \in Key : states'[j].active = states[j].active /\ states'[j].firedAt = states[j].firedAt
    BY <2>1 DEF TypeOK, RuleAgentState
  <2>3. StateFrame
    BY <2>2 DEF StateFrame
  <2>4. Paging /\ (pc' = "escalate" => Escalating)
    BY <2>1 DEF Paging, Escalating
  <2> QED
    BY <1>a, <1>b, <2>1, <2>3, <2>4, QuietDue
<1>7. CASE Escalate
  <2>1. /\ pc = "escalate" /\ UNCHANGED <<now, states, fetched>>
        /\ pc' = "idle" \/ (pc' = "page" /\ job' = job)
    BY <1>7 DEF Escalate, cycleVars
  <2>2. alerts' = alerts \/ alerts' = [alerts EXCEPT ![job.alert].escalated = TRUE]
    BY <1>7 DEF Escalate
  <2>3. RowFrame
    BY <2>2 DEF RowFrame, TypeOK, AlertRow
  <2>4. Paging /\ Escalating
    BY <2>1 DEF Paging, Escalating
  <2> QED
    BY <1>a, <1>c, <2>1, <2>3, <2>4, QuietDue
<1>8. CASE DispatchEscalation
  <2>1. pc' = "idle" /\ UNCHANGED <<now, alerts, states>>
    BY <1>8 DEF DispatchEscalation, cycleVars
  <2> QED
    BY <1>a, <1>b, <1>c, <2>1, QuietDue
<1>9. CASE Crash
  <2>1. pc' = "idle" /\ UNCHANGED <<now, alerts>> /\ states' = [k \in Key |-> OKState]
    BY <1>9 DEF Crash
  <2>2. StateFrame
    BY <1>d, <2>1 DEF StateFrame
  <2> QED
    BY <1>a, <1>b, <2>1, <2>2, QuietDue
<1>10. ASSUME NEW a \in AlertId, Ack(a) \/ Unack(a) PROVE DueInv'
  <2>1. UNCHANGED <<now, states, pc, job, fetched>>
    BY <1>10 DEF Ack, Unack, cycleVars
  <2>2. \/ alerts' = [alerts EXCEPT ![a].ackedAt = now]
        \/ alerts' = [alerts EXCEPT ![a].ackedAt = 0]
    BY <1>10 DEF Ack, Unack
  <2>3. RowFrame
    BY <2>2 DEF RowFrame, TypeOK, AlertRow
  <2> QED
    BY <1>a, <1>c, <1>f, <2>1, <2>3, QuietDue
<1>11. CASE \/ \E s \in Silence : SetSilence(s)
            \/ \E k \in Key : SetProbe(k)
            \/ \E r \in Rule : ToggleRule(r)
  <2>1. UNCHANGED <<now, states, alerts, pc, job, fetched>>
    BY <1>11 DEF SetSilence, SetProbe, ToggleRule, cycleVars
  <2> QED
    BY <1>a, <1>b, <1>c, <1>f, <2>1, QuietDue
<1>12. CASE Tick
  <2>1. UNCHANGED <<states, alerts, pc, job, fetched>> /\ now' = now + 1
    BY <1>12 DEF Tick
  <2>2. now' \in Nat /\ now <= now'
    BY <1>a, <2>1
  <2> QED
    BY <1>b, <1>c, <1>f, <2>1, <2>2, QuietDue
<1>13. CASE UNCHANGED vars
  <2>1. UNCHANGED <<now, states, alerts, pc, job, fetched>>
    BY <1>13 DEF vars
  <2> QED
    BY <1>a, <1>b, <1>c, <1>f, <2>1, QuietDue
<1>14. CASE Restart
  BY <1>14, RestartDue DEF Restart, DownIdle
<1>15. CASE CommitFire
  BY <1>15, CommitFireDue
<1>16. ASSUME NEW k \in Key, EvalFire(k) \/ EvalRefresh(k) \/ EvalResolve(k) PROVE DueInv'
  BY <1>16, FireDue, RefreshDue, ResolveDue
<1>17. ASSUME NEW k \in Key, Eval(k) PROVE DueInv'
  BY <1>2, <1>3, <1>4, <1>16, <1>17 DEF Eval
<1>18. CASE Engine
  BY <1>1, <1>5, <1>6, <1>7, <1>8, <1>15, <1>17, <1>18 DEF Engine
<1>19. CASE Environment
  BY <1>9, <1>10, <1>11, <1>19 DEF Environment
<1> QED
  BY <1>12, <1>13, <1>14, <1>18, <1>19 DEF Next

\* Only three steps page: a firing goes out when it is dispatched or repeated, an
\* escalation when it is dispatched, each for the row of the job.
LEMMA WhoPages ==
    ASSUME TypeOK, JobNamed, [Next]_vars, NEW a \in AlertId
    PROVE  /\ PagedFiring(a) => a = job.alert /\ pc # "idle" /\ Paging
           /\ PagedEscalation(a) => a = job.alert /\ pc = "page"
<1>1. CASE UNCHANGED pages
  BY <1>1 DEF PagedFiring, PagedEscalation
<1>2. CASE CommitResolve
  <2>1. pages' = [pages EXCEPT ![job.alert].resolves = @ + 1]
    BY <1>2 DEF CommitResolve
  <2>2. pages'[a].fires = pages[a].fires /\ pages'[a].escalations = pages[a].escalations
    BY <2>1 DEF TypeOK, Pages
  <2> QED
    BY <2>2 DEF PagedFiring, PagedEscalation
<1>3. CASE CommitFire \/ Renotify
  <2>1. CASE pages' = pages
    BY <2>1 DEF PagedFiring, PagedEscalation
  <2>2. CASE pages' # pages
    <3>1. pages' = Notified(job.alert, job.at) /\ pc # "idle" /\ Paging
      BY <1>3, <2>2 DEF CommitFire, Renotify, Paging
    <3>2. pages'[a].escalations = pages[a].escalations
      BY <3>1 DEF Notified, TypeOK, Pages
    <3>3. a # job.alert => pages'[a] = pages[a]
      BY <3>1 DEF Notified, TypeOK
    <3> QED
      BY <3>1, <3>2, <3>3 DEF PagedFiring, PagedEscalation
  <2> QED
    BY <2>1, <2>2
<1>4. CASE DispatchEscalation
  <2>1. pc = "page" /\ pages' = [pages EXCEPT ![job.alert].escalations = @ + 1]
    BY <1>4 DEF DispatchEscalation
  <2>2. pages'[a].fires = pages[a].fires
    BY <2>1 DEF TypeOK, Pages
  <2>3. a # job.alert => pages'[a] = pages[a]
    BY <2>1 DEF TypeOK
  <2> QED
    BY <2>1, <2>2, <2>3 DEF PagedFiring, PagedEscalation
<1>5. CASE UNCHANGED vars
  BY <1>1, <1>5 DEF vars
<1>6. CASE StartCycle \/ Escalate \/ Restart \/ Tick
  BY <1>1, <1>6 DEF StartCycle, Escalate, Restart, Tick
<1>7. ASSUME NEW k \in Key, Eval(k) PROVE UNCHANGED pages
  BY <1>7 DEF Eval, EvalNoData, EvalStillOK, EvalForget, EvalResolve, EvalFirstBreach,
     EvalGrace, EvalFire, EvalRefresh
<1>8. CASE Environment
  <2>1. UNCHANGED pages
    BY <1>8 DEF Environment, Crash, Ack, Unack, SetSilence, SetProbe, ToggleRule
  <2> QED
    BY <1>1, <2>1
<1> QED
  BY <1>1, <1>2, <1>3, <1>4, <1>5, <1>6, <1>7, <1>8 DEF Next, Engine

\* Only fireAlert makes a row of a pair firing.
LEMMA WhoFires ==
    ASSUME TypeOK, JobNamed, [Next]_vars, NEW k \in Key, FiringOf(k) = {}, FiringOf(k)' # {}
    PROVE  EvalFire(k)
<1>1. PICK a \in AlertId : /\ alerts'[a].status = "firing" /\ alerts'[a].key = k
                           /\ ~(alerts[a].status = "firing" /\ alerts[a].key = k)
  BY DEF FiringOf
<1> DEFINE Same == /\ alerts'[a].key = alerts[a].key
                   /\ alerts'[a].status \in {alerts[a].status, "resolved"}
<1>2. ~Same
  BY <1>1
<1>3. UNCHANGED alerts => Same
  OBVIOUS
<1>4. ASSUME NEW j \in Key, EvalResolve(j) \/ EvalRefresh(j) PROVE FALSE
  <2>1. \/ alerts' = alerts
        \/ alerts' = [alerts EXCEPT ![states[j].active].status = "resolved"]
        \/ alerts' = [alerts EXCEPT ![states[j].active].silenced = IsSilenced(j)]
    BY <1>4 DEF EvalResolve, EvalRefresh
  <2>2. Same
    BY <2>1 DEF TypeOK, AlertRow
  <2> QED
    BY <1>2, <2>2
<1>5. ASSUME Escalate PROVE FALSE
  <2>1. alerts' = alerts \/ alerts' = [alerts EXCEPT ![job.alert].escalated = TRUE]
    BY <1>5 DEF Escalate
  <2>2. Same
    BY <2>1 DEF TypeOK, AlertRow
  <2> QED
    BY <1>2, <2>2
<1>6. ASSUME NEW b \in AlertId, Ack(b) \/ Unack(b) PROVE FALSE
  <2>1. \/ alerts' = [alerts EXCEPT ![b].ackedAt = now]
        \/ alerts' = [alerts EXCEPT ![b].ackedAt = 0]
    BY <1>6 DEF Ack, Unack
  <2>2. Same
    BY <2>1 DEF TypeOK, AlertRow
  <2> QED
    BY <1>2, <2>2
<1>7. ASSUME NEW j \in Key, EvalFire(j) PROVE j = k
  <2>1. alerts' # alerts
    BY <1>2, <1>3
  <2>2. PICK b \in AlertId : alerts' = [alerts EXCEPT ![b] = FiringRow(j)]
    BY <1>7, <2>1 DEF EvalFire
  <2>3. alerts'[a] = FiringRow(j)
    BY <1>2, <2>2 DEF TypeOK
  <2> QED
    BY <1>1, <2>3 DEF FiringRow
<1>8. ASSUME NEW j \in Key, Eval(j) PROVE EvalFire(k)
  <2>1. alerts' # alerts
    BY <1>2, <1>3
  <2>2. EvalFire(j) \/ EvalResolve(j) \/ EvalRefresh(j)
    BY <1>8, <2>1 DEF Eval, EvalNoData, EvalStillOK, EvalForget, EvalFirstBreach, EvalGrace
  <2> QED
    BY <1>4, <1>7, <2>2
<1>9. CASE Engine
  <2>1. alerts' # alerts
    BY <1>2, <1>3
  <2>2. Escalate \/ \E j \in Key : Eval(j)
    BY <1>9, <2>1 DEF Engine, StartCycle, CommitResolve, CommitFire, Renotify, DispatchEscalation
  <2> QED
    BY <1>5, <1>8, <2>2
<1>10. CASE Environment
  <2>1. alerts' # alerts
    BY <1>2, <1>3
  <2> QED
    BY <1>6, <1>10, <2>1 DEF Environment, Crash, SetSilence, SetProbe, ToggleRule
<1>11. CASE Restart \/ Tick \/ UNCHANGED vars
  <2>1. alerts' # alerts
    BY <1>2, <1>3
  <2> QED
    BY <1>11, <2>1 DEF Restart, Tick, vars
<1> QED
  BY <1>9, <1>10, <1>11 DEF Next

\* Nobody is paged before it is due: updateState fires a pair only after the rule's
\* duration, maybeEscalate escalates only escalation_after past the row's fired_at, and
\* no page goes out for an alert that was acknowledged or silenced when the evaluation
\* decided, whatever happened between the decision and the dispatch and whichever
\* crashes, failed saves and restarts came before.
THEOREM PagesAreDueAlways == Spec => PagesAreDue
<1> DEFINE PInv == /\ TypeOK /\ JobNamed /\ RowsInserted /\ EscalationTracked
                   /\ DownIdle /\ DueInv
<1>1. Init => PInv
  BY TypeInit, RowsInit, EscalationInit, DownInit, DueInit
<1>2. PInv /\ [Next]_vars => PInv'
  BY TypeNext, RowsNext, EscalationNext, DownNext, DueNext
<1>3. ASSUME PInv, [Next]_vars, NEW a \in AlertId, PagedFiring(a) \/ PagedEscalation(a)
      PROVE  /\ a = job.alert /\ NotAcked /\ NotSilenced /\ alerts[a].key = job.key
             /\ PagedEscalation(a) =>
                    now >= alerts[a].firedAt + EscalationAfter[alerts[a].key[1]]
  <2>1. a = job.alert /\ pc # "idle" /\ Paging /\ (PagedEscalation(a) => pc = "page")
    BY <1>3, WhoPages DEF Paging
  <2>2. NotAcked /\ NotSilenced /\ alerts[a].key = job.key /\ job.at <= now
    BY <1>3, <2>1 DEF DueInv, JobDue
  <2>3. PagedEscalation(a) => job.at >= alerts[a].firedAt + EscalationAfter[job.key[1]]
    BY <1>3, <2>1 DEF DueInv, JobDue, Escalating
  <2>4. job.at \in Nat /\ now \in Nat /\ alerts[a].firedAt \in Nat
    BY <1>3 DEF TypeOK, Job, AlertRow
  <2>5. job.key[1] \in Rule /\ EscalationAfter[job.key[1]] \in Nat
    BY <1>3, <2>1, ConstantsAssumption DEF JobNamed, Key
  <2> QED
    BY <2>1, <2>2, <2>3, <2>4, <2>5
<1>4. PInv /\ [Next]_vars =>
        [\A a \in AlertId : PagedEscalation(a) =>
           now >= alerts[a].firedAt + EscalationAfter[alerts[a].key[1]]]_vars
  BY <1>3
<1>5. PInv /\ [Next]_vars =>
        [\A k \in Key : FiringOf(k) = {} /\ FiringOf(k)' # {} =>
           /\ probe[k] = "breach"
           /\ now >= states[k].firstBreachAt + Duration[k[1]]]_vars
  <2> SUFFICES ASSUME PInv, [Next]_vars, NEW k \in Key, FiringOf(k) = {}, FiringOf(k)' # {}
               PROVE  probe[k] = "breach" /\ now >= states[k].firstBreachAt + Duration[k[1]]
    OBVIOUS
  <2>1. EvalFire(k)
    BY WhoFires
  <2> QED
    BY <2>1 DEF EvalFire, Evaluating, DurationElapsed
<1>6. PInv /\ [Next]_vars =>
        [\A a \in AlertId : PagedFiring(a) \/ PagedEscalation(a) =>
           alerts[a].ackedAt = 0 \/ alerts[a].ackedAt >= job.at]_vars
  BY <1>3 DEF NotAcked
<1>7. PInv /\ [Next]_vars =>
        [\A a \in AlertId : PagedFiring(a) \/ PagedEscalation(a) =>
           ~ \E f \in fetched : /\ f[2].starts <= job.at /\ job.at < f[2].ends
                                /\ alerts[a].key[2] \in Covers[f[1]]]_vars
  BY <1>3 DEF NotSilenced
<1> HIDE DEF PInv
<1> QED
  BY <1>1, <1>2, <1>4, <1>5, <1>6, <1>7, PTL
     DEF Spec, PagesAreDue, EscalationOnTime, FiresAfterDuration, AckSuppresses, SilencedNeverPaged
=============================================================================
