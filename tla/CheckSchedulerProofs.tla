------------------------ MODULE CheckSchedulerProofs ------------------------
(***************************************************************************)
(* The check scheduler for any number of edits, runners and "run now"      *)
(* requests and any threshold: what probes a check follows its row, and    *)
(* its status is earned by its probes.                                     *)
(***************************************************************************)
EXTENDS CheckScheduler, TLAPS

-----------------------------------------------------------------------------
\* Every variable of the scheduler has its type, and a run that is past its probe
\* has a result to record.
CheckTypeOK ==
    /\ checkMay \subseteq CheckDisturbances
    /\ check \in {"enabled", "disabled", "absent"}
    /\ cancels \in Runner \union {NoRunner}
    /\ runner \in [Runner -> {"none", "loading", "waiting", "running", "ended"}]
    /\ cancelled \in [Runner -> BOOLEAN]
    /\ edit \in [Edit -> {"idle", "reloading", "deleting", "rereading", "starting"}]
    /\ taken \in [Edit -> Runner \union {NoRunner}]
    /\ probe \in [Worker -> {"idle", "probing", "debounced", "saved"}]
    /\ out \in [Worker -> ResultRow \union {NoRow}]
    /\ \A w \in Worker : probe[w] \in {"debounced", "saved"} => out[w] \in ResultRow
    /\ fails \in 0..Threshold /\ streak \in 0..Threshold
    /\ latest \in ResultRow \union {NoRow}
    /\ rows \in Seq(ResultRow) /\ Len(rows) <= 2
    /\ restarts \in Nat

\* A runner is in RunOnce exactly while its probe is under way.
RunningIsProbing == \A k \in Runner : runner[k] = "running" <=> probe[k] # "idle"

\* A hook holds a runner only before it has cancelled it.
TakenIsPending == \A e \in Edit : taken[e] # NoRunner => edit[e] \in {"reloading", "deleting"}

\* With one hook at a time: a hook past stopRunner's critical section has left the map
\* empty, one about to start a runner has read the present row, and one of a deletion
\* finds the row gone.
OneHook ==
    "edits overlap" \notin checkMay =>
        /\ \A e, f \in Edit : edit[e] # "idle" /\ edit[f] # "idle" => e = f
        /\ \A e \in Edit :
             /\ edit[e] \in {"rereading", "starting"} \/ taken[e] # NoRunner => cancels = NoRunner
             /\ edit[e] = "starting" => check = "enabled"
             /\ edit[e] = "deleting" => check = "absent"
        /\ HooksDone /\ check = "disabled" => cancels = NoRunner

RunnersInv == NoStrayRunner /\ RunningIsProbing /\ TakenIsPending /\ OneHook

-----------------------------------------------------------------------------
\* The bounds as the steps use them.
LEMMA Constants ==
    /\ Threshold \in Nat /\ Threshold > 0 /\ MaxRunners \in Nat /\ MaxRunners > 0
    /\ 1 \in Runner /\ NoRunner \notin Runner
    /\ \A k \in Runner : k \notin Manual
    /\ \A k \in Runner : k \in Worker
  BY CheckAssumption DEF Runner, NoRunner, Worker

LEMMA CountedType ==
    ASSUME NEW n \in 0..Threshold, NEW success \in BOOLEAN
    PROVE  Counted(n, success) \in 0..Threshold
  BY Constants DEF Counted

LEMMA StatusType ==
    ASSUME NEW prev \in Status \union {""}, NEW n, NEW success \in BOOLEAN
    PROVE  nextDebouncedState(prev, n, success) \in Status
  BY DEF nextDebouncedState, Status

\* Only the runner whose RunOnce returns goes on.
LEMMA ReturnFacts ==
    ASSUME CheckTypeOK, NEW w \in Worker, Return(w)
    PROVE  /\ runner' \in [Runner -> {"none", "loading", "waiting", "running", "ended"}]
           /\ \A k \in Runner : runner'[k] = IF k = w THEN "loading" ELSE runner[k]
  BY DEF Return, CheckTypeOK

LEMMA RowsType ==
    ASSUME rows \in Seq(ResultRow), NEW o \in ResultRow,
           rows' = IF rows = <<>> THEN <<o>> ELSE <<rows[Len(rows)], o>>
    PROVE  /\ rows' \in Seq(ResultRow) /\ Len(rows') <= 2 /\ Len(rows') > 0
           /\ rows'[Len(rows')] = o
           /\ Len(rows') = 2 => rows # <<>> /\ rows'[1] = rows[Len(rows)] /\ rows'[2] = o
<1>1. CASE rows = <<>>
  BY <1>1
<1>2. CASE rows # <<>>
  <2>1. rows[Len(rows)] \in ResultRow
    BY <1>2
  <2> QED
    BY <1>2, <2>1
<1> QED
  BY <1>1, <1>2

LEMMA CheckTypeStep == CheckTypeOK /\ [CheckNext]_checkVars => CheckTypeOK'
<1> SUFFICES ASSUME CheckTypeOK, [CheckNext]_checkVars PROVE CheckTypeOK'
  OBVIOUS
<1> USE Constants
<1>1. ASSUME NEW e \in Edit, NEW to \in {"enabled", "disabled", "absent"}, Commit(e, to)
      PROVE  CheckTypeOK'
  <2>0. <<>> \in Seq(ResultRow) /\ Len(<<>>) <= 2
    OBVIOUS
  <2>1. rows' \in Seq(ResultRow) /\ Len(rows') <= 2
    <3>1. CASE to = "absent"
      BY <1>1, <2>0, <3>1 DEF Commit
    <3>2. CASE to # "absent"
      BY <1>1, <3>2 DEF Commit, CheckTypeOK
    <3> QED
      BY <3>1, <3>2
  <2> QED
    BY <1>1, <2>1 DEF Commit, CheckTypeOK
<1>2. ASSUME NEW e \in Edit, EditStep(e) PROVE CheckTypeOK'
  <2>1. CASE StopTake(e)
    BY <2>1 DEF StopTake, resultVars, CheckTypeOK
  <2>2. CASE StopCancel(e)
    BY <2>2 DEF StopCancel, resultVars, CheckTypeOK
  <2>3. CASE Reread(e)
    BY <2>3 DEF Reread, resultVars, CheckTypeOK
  <2>4. CASE StartRunner(e)
    BY <2>4 DEF StartRunner, resultVars, CheckTypeOK
  <2> QED
    BY <1>2, <2>1, <2>2, <2>3, <2>4 DEF EditStep
<1>3. ASSUME NEW k \in Runner, RunnerStep(k) PROVE CheckTypeOK'
  <2>1. CASE LoadCheck(k) \/ Cancelled(k)
    BY <2>1 DEF LoadCheck, Cancelled, resultVars, CheckTypeOK
  <2>2. CASE ProbeTick(k)
    BY <2>2 DEF ProbeTick, Begin, resultVars, CheckTypeOK
  <2> QED
    BY <1>3, <2>1, <2>2 DEF RunnerStep
<1>4. ASSUME NEW m \in Manual, RunNow(m) PROVE CheckTypeOK'
  BY <1>4 DEF RunNow, Begin, runnerVars, CheckTypeOK, Worker
<1>5. ASSUME NEW w \in Worker, Debounce(w) PROVE CheckTypeOK'
  <2>1. PICK success \in BOOLEAN :
          /\ fails' = Counted(fails, success)
          /\ streak' = Counted(streak, success)
          /\ out' = [out EXCEPT ![w] = [status |-> nextDebouncedState(latest.status, fails, success),
                                        ok |-> success, streak |-> streak']]
    BY <1>5 DEF Debounce
  <2>2. fails' \in 0..Threshold /\ streak' \in 0..Threshold
    BY <2>1, CountedType DEF CheckTypeOK
  <2>3. latest.status \in Status \union {""}
    <3>1. CASE latest \in ResultRow
      BY <3>1 DEF ResultRow
    <3>2. CASE latest = NoRow
      BY <3>2 DEF NoRow
    <3> QED
      BY <3>1, <3>2 DEF CheckTypeOK
  <2>4. [status |-> nextDebouncedState(latest.status, fails, success),
         ok |-> success, streak |-> streak'] \in ResultRow
    BY <2>2, <2>3, StatusType DEF ResultRow
  <2> QED
    BY <1>5, <2>1, <2>2, <2>4 DEF Debounce, runnerVars, CheckTypeOK
<1>6. ASSUME NEW w \in Worker, SaveResult(w) PROVE CheckTypeOK'
  <2>1. CASE rows' = IF rows = <<>> THEN <<out[w]>> ELSE <<rows[Len(rows)], out[w]>>
    <3>1. out[w] \in ResultRow
      BY <1>6 DEF SaveResult, CheckTypeOK
    <3>2. rows' \in Seq(ResultRow) /\ Len(rows') <= 2
      BY <2>1, <3>1, RowsType DEF CheckTypeOK
    <3>3. /\ runner' \in [Runner -> {"none", "loading", "waiting", "running", "ended"}]
          /\ out' \in [Worker -> ResultRow \union {NoRow}]
          /\ probe' \in [Worker -> {"idle", "probing", "debounced", "saved"}]
          /\ \A v \in Worker : probe'[v] \in {"debounced", "saved"} =>
                probe[v] \in {"debounced", "saved"} /\ out'[v] = out[v]
      <4>1. CASE probe' = [probe EXCEPT ![w] = "saved"] /\ UNCHANGED <<out, runner>>
        <5>1. probe[w] = "debounced"
          BY <1>6 DEF SaveResult
        <5> QED
          BY <4>1, <5>1 DEF CheckTypeOK
      <4>2. CASE probe' = [probe EXCEPT ![w] = "idle"] /\ out' = [out EXCEPT ![w] = NoRow] /\ Return(w)
        <5>1. runner' \in [Runner -> {"none", "loading", "waiting", "running", "ended"}]
          BY <4>2, ReturnFacts
        <5> QED
          BY <4>2, <5>1 DEF CheckTypeOK
      <4> QED
        BY <1>6, <4>1, <4>2 DEF SaveResult
    <3>4. \A v \in Worker : probe'[v] \in {"debounced", "saved"} => out'[v] \in ResultRow
      BY <3>3 DEF CheckTypeOK
    <3> QED
      BY <1>6, <3>2, <3>3, <3>4 DEF SaveResult, CheckTypeOK
  <2>2. CASE UNCHANGED rows /\ Return(w) /\ probe' = [probe EXCEPT ![w] = "idle"]
             /\ out' = [out EXCEPT ![w] = NoRow]
    BY <1>6, <2>2, ReturnFacts DEF SaveResult, CheckTypeOK
  <2> QED
    BY <1>6, <2>1, <2>2 DEF SaveResult
<1>7. ASSUME NEW w \in Worker, Publish(w) PROVE CheckTypeOK'
  BY <1>7, ReturnFacts DEF Publish, CheckTypeOK
<1>8. CASE RestartScheduler
  BY <1>8 DEF RestartScheduler, CheckTypeOK
<1>9. CASE UNCHANGED checkVars
  BY <1>9 DEF checkVars, CheckTypeOK
<1> QED
  BY <1>1, <1>2, <1>3, <1>4, <1>5, <1>6, <1>7, <1>8, <1>9 DEF CheckNext, RunStep

LEMMA CheckTypeInit == CheckInit(CheckRegimes) => CheckTypeOK
  BY Constants, CheckAssumption DEF CheckInit, CheckTypeOK, Runner

\* Every variable of the scheduler keeps its type, whatever edits, runs and restarts
\* interleave.
THEOREM CheckTypeCorrect == CheckSpec => []CheckTypeOK
  BY CheckTypeInit, CheckTypeStep, PTL DEF CheckSpec
-----------------------------------------------------------------------------
\* What probes a check follows its row.

LEMMA CommitRunners ==
    ASSUME CheckTypeOK, RunnersInv, NEW e \in Edit, NEW to \in {"enabled", "disabled", "absent"},
           Commit(e, to)
    PROVE  RunnersInv'
<1>1. /\ edit[e] = "idle" /\ cancels' = cancels /\ runner' = runner /\ cancelled' = cancelled
      /\ taken' = taken /\ probe' = probe /\ checkMay' = checkMay /\ check' = to
      /\ edit' = [edit EXCEPT ![e] = IF to = "absent" THEN "deleting" ELSE "reloading"]
  BY DEF Commit
<1>2. edit'[e] = (IF to = "absent" THEN "deleting" ELSE "reloading")
      /\ \A f \in Edit \ {e} : edit'[f] = edit[f]
  BY <1>1 DEF CheckTypeOK
<1>3. NoStrayRunner' /\ RunningIsProbing'
  BY <1>1 DEF RunnersInv, NoStrayRunner, RunningIsProbing, Live
<1>4. TakenIsPending'
  BY <1>1, <1>2 DEF RunnersInv, TakenIsPending
<1>5. OneHook'
  <2> SUFFICES ASSUME "edits overlap" \notin checkMay PROVE OneHook'
    BY <1>1 DEF OneHook
  <2>1. \A f \in Edit : edit[f] = "idle"
    BY DEF Commit
  <2>2. \A f \in Edit : taken[f] = NoRunner
    BY <2>1 DEF RunnersInv, TakenIsPending
  <2>3. ~HooksDone'
    BY <1>2 DEF HooksDone
  <2>4. \A f \in Edit : edit'[f] # "idle" => f = e
    BY <1>2, <2>1
  <2>5. \A f \in Edit : /\ edit'[f] \in {"idle", "deleting", "reloading"} /\ taken'[f] = NoRunner
                        /\ edit'[f] = "deleting" => check' = "absent"
    <3> SUFFICES ASSUME NEW f \in Edit
                 PROVE  /\ edit'[f] \in {"idle", "deleting", "reloading"} /\ taken'[f] = NoRunner
                        /\ edit'[f] = "deleting" => check' = "absent"
      OBVIOUS
    <3>1. taken'[f] = NoRunner
      BY <1>1, <2>2
    <3>2. CASE f = e
      <4>1. edit'[f] = IF to = "absent" THEN "deleting" ELSE "reloading"
        BY <1>2, <3>2
      <4>2. check' = to
        BY <1>1
      <4>3. CASE to = "absent"
        BY <4>1, <4>2, <4>3, <3>1
      <4>4. CASE to # "absent"
        BY <4>1, <4>2, <4>4, <3>1
      <4> QED
        BY <4>3, <4>4
    <3>3. CASE f # e
      BY <1>2, <2>1, <3>1, <3>3
    <3> QED
      BY <3>2, <3>3
  <2> QED
    BY <2>3, <2>4, <2>5 DEF OneHook
<1> QED
  BY <1>3, <1>4, <1>5 DEF RunnersInv

LEMMA StopTakeRunners ==
    ASSUME CheckTypeOK, RunnersInv, NEW e \in Edit, StopTake(e)
    PROVE  RunnersInv'
<1>1. /\ edit[e] \in {"reloading", "deleting"} /\ taken[e] = NoRunner
      /\ taken' = [taken EXCEPT ![e] = cancels] /\ cancels' = NoRunner
      /\ edit' = [edit EXCEPT ![e] = IF cancels # NoRunner THEN @
                                     ELSE IF @ = "deleting" THEN "idle" ELSE "rereading"]
      /\ runner' = runner /\ cancelled' = cancelled /\ probe' = probe
      /\ checkMay' = checkMay /\ check' = check
  BY DEF StopTake, resultVars
<1>2. /\ taken'[e] = cancels /\ \A f \in Edit \ {e} : taken'[f] = taken[f] /\ edit'[f] = edit[f]
      /\ cancels # NoRunner => edit'[e] = edit[e]
      /\ cancels = NoRunner => edit'[e] = IF edit[e] = "deleting" THEN "idle" ELSE "rereading"
  BY <1>1 DEF CheckTypeOK
<1>3. NoStrayRunner'
  BY <1>1, <1>2, Constants DEF RunnersInv, NoStrayRunner, Live
<1>4. RunningIsProbing' /\ TakenIsPending'
  BY <1>1, <1>2 DEF RunnersInv, RunningIsProbing, TakenIsPending
<1>5. OneHook'
  <2> SUFFICES ASSUME "edits overlap" \notin checkMay PROVE OneHook'
    BY <1>1 DEF OneHook
  <2>1. \A f \in Edit : edit[f] # "idle" => f = e
    BY <1>1 DEF RunnersInv, OneHook
  <2>2. \A f \in Edit : edit'[f] # "idle" => f = e
    BY <1>2, <2>1
  <2>3. \A f \in Edit : /\ edit'[f] # "starting"
                        /\ edit'[f] = "deleting" => check' = "absent"
    <3> SUFFICES ASSUME NEW f \in Edit
                 PROVE  /\ edit'[f] # "starting"
                        /\ edit'[f] = "deleting" => check' = "absent"
      OBVIOUS
    <3>1. CASE f = e
      <4>1. edit'[f] \in {edit[e], "idle", "rereading"}
        BY <1>2, <3>1
      <4>2. edit[e] \in {"reloading", "deleting"} /\ check' = check
        BY <1>1
      <4>3. edit[e] = "deleting" => check = "absent"
        BY DEF RunnersInv, OneHook
      <4> QED
        BY <4>1, <4>2, <4>3
    <3>2. CASE f # e
      BY <1>2, <2>1, <3>2
    <3> QED
      BY <3>1, <3>2
  <2> QED
    BY <1>1, <2>2, <2>3 DEF OneHook
<1> QED
  BY <1>3, <1>4, <1>5 DEF RunnersInv

LEMMA StopCancelRunners ==
    ASSUME CheckTypeOK, RunnersInv, NEW e \in Edit, StopCancel(e)
    PROVE  RunnersInv'
<1>1. /\ taken[e] # NoRunner
      /\ cancelled' = [cancelled EXCEPT ![taken[e]] = TRUE]
      /\ taken' = [taken EXCEPT ![e] = NoRunner]
      /\ edit' = [edit EXCEPT ![e] = IF @ = "deleting" THEN "idle" ELSE "rereading"]
      /\ runner' = runner /\ cancels' = cancels /\ probe' = probe
      /\ checkMay' = checkMay /\ check' = check
  BY DEF StopCancel, resultVars
<1>2. /\ taken'[e] = NoRunner /\ \A f \in Edit \ {e} : taken'[f] = taken[f] /\ edit'[f] = edit[f]
      /\ edit'[e] = IF edit[e] = "deleting" THEN "idle" ELSE "rereading"
      /\ cancelled'[taken[e]] = TRUE /\ taken[e] \in Runner
      /\ \A k \in Runner : k # taken[e] => cancelled'[k] = cancelled[k]
  BY <1>1 DEF CheckTypeOK
<1>3. NoStrayRunner'
  BY <1>1, <1>2 DEF RunnersInv, NoStrayRunner, Live
<1>4. RunningIsProbing' /\ TakenIsPending'
  BY <1>1, <1>2 DEF RunnersInv, RunningIsProbing, TakenIsPending
<1>5. OneHook'
  <2> SUFFICES ASSUME "edits overlap" \notin checkMay PROVE OneHook'
    BY <1>1 DEF OneHook
  <2>1. edit[e] \in {"reloading", "deleting"} /\ cancels = NoRunner
    BY <1>1 DEF RunnersInv, TakenIsPending, OneHook
  <2>2. \A f \in Edit : edit[f] # "idle" => f = e
    BY <2>1 DEF RunnersInv, OneHook
  <2>3. \A f \in Edit : /\ edit'[f] # "idle" => f = e
                        /\ edit'[f] \in {"idle", "rereading"}
    BY <1>2, <2>1, <2>2
  <2> QED
    BY <1>1, <2>1, <2>3 DEF OneHook
<1> QED
  BY <1>3, <1>4, <1>5 DEF RunnersInv

LEMMA RereadRunners ==
    ASSUME CheckTypeOK, RunnersInv, NEW e \in Edit, Reread(e)
    PROVE  RunnersInv'
<1>1. /\ edit[e] = "rereading" /\ check' = check /\ checkMay' = checkMay /\ cancels' = cancels
      /\ runner' = runner /\ cancelled' = cancelled /\ taken' = taken /\ probe' = probe
  BY DEF Reread, resultVars
<1>2. /\ \A f \in Edit \ {e} : edit'[f] = edit[f]
      /\ edit'[e] \in {"idle", "starting"}
      /\ edit'[e] = "starting" => check = "enabled"
  BY DEF Reread, CheckTypeOK
<1>3. NoStrayRunner' /\ RunningIsProbing'
  BY <1>1 DEF RunnersInv, NoStrayRunner, RunningIsProbing, Live
<1>4. TakenIsPending'
  BY <1>1, <1>2 DEF RunnersInv, TakenIsPending
<1>5. OneHook'
  BY <1>1, <1>2 DEF RunnersInv, OneHook, HooksDone
<1> QED
  BY <1>3, <1>4, <1>5 DEF RunnersInv

LEMMA StartRunnerRunners ==
    ASSUME CheckTypeOK, RunnersInv, NEW e \in Edit, StartRunner(e)
    PROVE  RunnersInv'
<1>1. /\ edit[e] = "starting" /\ check' = check /\ checkMay' = checkMay
      /\ taken' = taken /\ probe' = probe
      /\ edit' = [edit EXCEPT ![e] = "idle"]
  BY DEF StartRunner, resultVars
<1>2. edit'[e] = "idle" /\ \A f \in Edit \ {e} : edit'[f] = edit[f]
  BY <1>1 DEF CheckTypeOK
<1>3. TakenIsPending'
  BY <1>1, <1>2 DEF RunnersInv, TakenIsPending
<1>4. CASE UNCHANGED <<cancels, runner, cancelled>>
  <2>1. NoStrayRunner' /\ RunningIsProbing'
    BY <1>1, <1>4 DEF RunnersInv, NoStrayRunner, RunningIsProbing, Live
  <2>2. OneHook'
    BY <1>1, <1>2, <1>4 DEF RunnersInv, OneHook, HooksDone
  <2> QED
    BY <1>3, <2>1, <2>2 DEF RunnersInv
<1>5. ASSUME NEW k \in Runner, cancels = NoRunner, ~Live(k), cancels' = k,
             runner' = [runner EXCEPT ![k] = "loading"],
             cancelled' = [cancelled EXCEPT ![k] = FALSE]
      PROVE  RunnersInv'
  <2>1. /\ runner'[k] = "loading"
        /\ \A j \in Runner \ {k} : runner'[j] = runner[j] /\ cancelled'[j] = cancelled[j]
    BY <1>5 DEF CheckTypeOK
  <2>2. NoStrayRunner'
    BY <1>1, <1>5, <2>1, Constants DEF RunnersInv, NoStrayRunner, Live
  <2>3. RunningIsProbing'
    BY <1>1, <1>5, <2>1 DEF RunnersInv, RunningIsProbing, Live
  <2>4. OneHook'
    <3> SUFFICES ASSUME "edits overlap" \notin checkMay PROVE OneHook'
      BY <1>1 DEF OneHook
    <3>1. \A f \in Edit : edit'[f] = "idle" /\ check = "enabled"
      BY <1>1, <1>2 DEF RunnersInv, OneHook
    <3>2. \A f \in Edit : taken[f] = NoRunner
      BY <1>1, <3>1, <1>3 DEF TakenIsPending
    <3> QED
      BY <1>1, <3>1, <3>2 DEF OneHook
  <2> QED
    BY <1>3, <2>2, <2>3, <2>4 DEF RunnersInv
<1> QED
  BY <1>4, <1>5 DEF StartRunner

\* A step of a run or of a runner neither revives a runner nor touches the map.
LEMMA RunsRunners ==
    ASSUME CheckTypeOK, RunnersInv,
           UNCHANGED <<checkMay, check, cancels, cancelled, edit, taken>>,
           RunningIsProbing', \A k \in Runner : Live(k)' => Live(k)
    PROVE  RunnersInv'
<1>1. NoStrayRunner'
  BY DEF RunnersInv, NoStrayRunner
<1>2. TakenIsPending' /\ OneHook'
  BY DEF RunnersInv, TakenIsPending, OneHook, HooksDone
<1> QED
  BY <1>1, <1>2 DEF RunnersInv

LEMMA RunnersStep == CheckTypeOK /\ RunnersInv /\ [CheckNext]_checkVars => RunnersInv'
<1> SUFFICES ASSUME CheckTypeOK, RunnersInv, [CheckNext]_checkVars PROVE RunnersInv'
  OBVIOUS
<1>1. ASSUME NEW e \in Edit, EditStep(e) PROVE RunnersInv'
  BY <1>1, StopTakeRunners, StopCancelRunners, RereadRunners, StartRunnerRunners DEF EditStep
<1>2. ASSUME NEW e \in Edit, NEW to \in {"enabled", "disabled", "absent"}, Commit(e, to)
      PROVE  RunnersInv'
  BY <1>2, CommitRunners
<1>3. ASSUME NEW k \in Runner, RunnerStep(k) PROVE RunnersInv'
  <2>1. /\ UNCHANGED <<checkMay, check, cancels, cancelled, edit, taken>> /\ Live(k)
        /\ \A j \in Runner \ {k} : runner'[j] = runner[j] /\ probe'[j] = probe[j]
        /\ runner'[k] = "running" <=> probe'[k] # "idle"
    <3>1. CASE LoadCheck(k)
      BY <3>1 DEF LoadCheck, resultVars, CheckTypeOK, Live, RunnersInv, RunningIsProbing
    <3>2. CASE Cancelled(k)
      BY <3>2 DEF Cancelled, resultVars, CheckTypeOK, Live, RunnersInv, RunningIsProbing
    <3>3. CASE ProbeTick(k)
      BY <3>3, Constants DEF ProbeTick, Begin, resultVars, CheckTypeOK, Live, RunnersInv, RunningIsProbing
    <3> QED
      BY <1>3, <3>1, <3>2, <3>3 DEF RunnerStep
  <2>2. RunningIsProbing'
    BY <2>1 DEF RunnersInv, RunningIsProbing
  <2>3. \A j \in Runner : Live(j)' => Live(j)
    BY <2>1 DEF Live
  <2> QED
    BY <2>1, <2>2, <2>3, RunsRunners
<1>4. ASSUME NEW m \in Manual, RunNow(m) PROVE RunnersInv'
  <2>1. UNCHANGED runnerVars /\ \A k \in Runner : probe'[k] = probe[k]
    <3>1. UNCHANGED runnerVars /\ probe' = [probe EXCEPT ![m] = "probing"]
      BY <1>4 DEF RunNow, Begin
    <3>2. ASSUME NEW k \in Runner PROVE probe'[k] = probe[k]
      <4>1. k \in Worker /\ k # m
        BY Constants
      <4> QED
        BY <3>1, <4>1 DEF CheckTypeOK
    <3> QED
      BY <3>1, <3>2
  <2>2. RunningIsProbing' /\ \A k \in Runner : Live(k)' => Live(k)
    BY <2>1 DEF RunnersInv, RunningIsProbing, Live, runnerVars
  <2> QED
    BY <2>1, <2>2, RunsRunners DEF runnerVars
<1>5. ASSUME NEW w \in Worker, RunStep(w) PROVE RunnersInv'
  <2>1. /\ UNCHANGED <<checkMay, check, cancels, cancelled, edit, taken>>
        /\ \A v \in Worker : probe'[v] = IF v = w THEN probe'[w] ELSE probe[v]
        /\ probe[w] # "idle"
        /\ \/ probe'[w] # "idle" /\ runner' = runner
           \/ probe'[w] = "idle" /\ Return(w)
    <3>1. CASE Debounce(w)
      BY <3>1 DEF Debounce, runnerVars, CheckTypeOK
    <3>2. CASE SaveResult(w)
      BY <3>2 DEF SaveResult, CheckTypeOK
    <3>3. CASE Publish(w)
      BY <3>3 DEF Publish, CheckTypeOK
    <3> QED
      BY <1>5, <3>1, <3>2, <3>3 DEF RunStep
  <2>2. \A k \in Runner : runner'[k] = IF k = w /\ probe'[w] = "idle" THEN "loading" ELSE runner[k]
    BY <2>1, ReturnFacts
  <2>3. RunningIsProbing' /\ \A k \in Runner : Live(k)' => Live(k)
    BY <2>1, <2>2, Constants DEF RunnersInv, RunningIsProbing, Live
  <2> QED
    BY <2>1, <2>3, RunsRunners
<1>6. CASE RestartScheduler
  <2>1. NoStrayRunner'
    BY <1>6, Constants DEF RestartScheduler, NoStrayRunner, Live
  <2>2. RunningIsProbing' /\ TakenIsPending'
    BY <1>6, Constants DEF RestartScheduler, RunningIsProbing, TakenIsPending
  <2>3. OneHook'
    BY <1>6 DEF RestartScheduler, OneHook, HooksDone
  <2> QED
    BY <2>1, <2>2, <2>3 DEF RunnersInv
<1>7. CASE UNCHANGED checkVars
  BY <1>7, RunsRunners DEF checkVars, RunnersInv, RunningIsProbing, Live
<1> QED
  BY <1>1, <1>2, <1>3, <1>4, <1>5, <1>6, <1>7 DEF CheckNext

LEMMA RunnersInit == CheckInit(CheckRegimes) => RunnersInv
<1> SUFFICES ASSUME CheckInit(CheckRegimes) PROVE RunnersInv
  OBVIOUS
<1>1. NoStrayRunner /\ RunningIsProbing
  BY Constants DEF CheckInit, NoStrayRunner, RunningIsProbing, Live
<1>2. TakenIsPending /\ OneHook
  BY DEF CheckInit, TakenIsPending, OneHook, HooksDone
<1> QED
  BY <1>1, <1>2 DEF RunnersInv

LEMMA RunnersInvImplies == CheckTypeOK /\ RunnersInv => RunnersFollowRow
<1> SUFFICES ASSUME CheckTypeOK, RunnersInv PROVE DisabledIsStopped
  BY DEF RunnersInv, RunnersFollowRow
<1> SUFFICES ASSUME "edits overlap" \notin checkMay, HooksDone, check = "disabled",
                    NEW k \in Runner, Live(k)
             PROVE  cancelled[k]
  BY DEF DisabledIsStopped
<1>1. cancels = NoRunner /\ \A e \in Edit : taken[e] = NoRunner
  BY DEF RunnersInv, OneHook, TakenIsPending, HooksDone
<1> QED
  BY <1>1, Constants DEF RunnersInv, NoStrayRunner

\* What probes a check follows its row (Scheduler.reloadOne, stopRunner, runLoop): however
\* many edits, deletions and restarts interleave, no runner that nobody can stop is
\* left, and with edits one after the other a disabled check is not probed.
THEOREM RunnersFollowRowAlways == CheckSpec => []RunnersFollowRow
  BY CheckTypeInit, CheckTypeStep, RunnersInit, RunnersStep, RunnersInvImplies, PTL DEF CheckSpec
-----------------------------------------------------------------------------
\* A check's status is earned by its probes.

\* The counter that debounce looks at never exceeds the streak it stands for: a
\* restart forgets failures, nothing invents them.
FailsAreReal == fails <= streak

Solo == "runs overlap" \notin checkMay
NothingSaved == \A w \in Worker : probe[w] # "saved"

\* With one run at a time, between a save and the next the snapshot is the last row,
\* if there is a snapshot; without restarts there is one as soon as there is a row.
SnapshotFollows ==
    Solo => /\ \A v, w \in Worker : probe[v] # "idle" /\ probe[w] # "idle" => v = w
            /\ \A w \in Worker : probe[w] = "saved" /\ check # "absent" =>
                  rows # <<>> /\ rows[Len(rows)] = out[w]
            /\ NothingSaved /\ check # "absent" /\ latest # NoRow =>
                  rows # <<>> /\ rows[Len(rows)] = latest
            /\ NothingSaved /\ check # "absent" /\ rows # <<>> /\ "restart" \notin checkMay =>
                  latest # NoRow

\* What a result that waits to be saved says of the snapshot it was derived from.
DerivedFrom(w) ==
    /\ out[w].status = "down" => out[w].streak >= Threshold \/ latest.status = "down"
    /\ out[w].status = "up" => out[w].ok \/ latest.status # "down"

ResultsDerive == Solo => \A w \in Worker : probe[w] = "debounced" => DerivedFrom(w)

StatusInv ==
    FailsAreReal /\ SnapshotFollows /\ ResultsDerive /\ FlipNeedsStreak /\ UpNeedsSuccess

LEMMA StatusOf ==
    /\ NoRow.status = ""
    /\ \A o \in ResultRow : o.status \in {"up", "down"} /\ o # NoRow
<1>1. NoRow.status = ""
  BY DEF NoRow
<1>2. ASSUME NEW o \in ResultRow PROVE o.status \in {"up", "down"} /\ o # NoRow
  <2>1. o.status \in {"up", "down"}
    BY DEF ResultRow, Status
  <2>2. o.status # NoRow.status
    BY <1>1, <2>1
  <2> QED
    BY <2>1, <2>2
<1> QED
  BY <1>1, <1>2

\* One more attempt counts the same way in both counters.
LEMMA CountedMonotone ==
    ASSUME NEW m \in 0..Threshold, NEW n \in 0..Threshold, m <= n, NEW success \in BOOLEAN
    PROVE  /\ Counted(m, success) <= Counted(n, success)
           /\ ~success /\ m + 1 >= Threshold => Counted(n, success) >= Threshold
  BY Constants DEF Counted

LEMMA StatusInit == CheckInit(CheckRegimes) => StatusInv
<1> SUFFICES ASSUME CheckInit(CheckRegimes) PROVE StatusInv
  OBVIOUS
<1>1. /\ \A w \in Worker : probe[w] = "idle"
      /\ fails = 0 /\ streak = 0 /\ rows = <<>> /\ latest = NoRow
  BY DEF CheckInit
<1>2. Len(rows) = 0
  BY <1>1
<1>3. FailsAreReal
  BY <1>1 DEF FailsAreReal
<1>4. SnapshotFollows
  BY <1>1 DEF SnapshotFollows, NothingSaved
<1>5. ResultsDerive
  BY <1>1 DEF ResultsDerive
<1>6. FlipNeedsStreak /\ UpNeedsSuccess
  BY <1>2 DEF FlipNeedsStreak, UpNeedsSuccess
<1> QED
  BY <1>3, <1>4, <1>5, <1>6 DEF StatusInv

\* Steps that leave the results alone.
LEMMA StatusUntouched ==
    ASSUME StatusInv, UNCHANGED <<checkMay, check, out, fails, latest, rows, streak>>,
           \A w \in Worker : probe'[w] = probe[w] \/ (probe[w] = "idle" /\ probe'[w] = "probing"),
           Solo => \A v, w \in Worker : probe'[v] # "idle" /\ probe'[w] # "idle" => v = w
    PROVE  StatusInv'
<1>1. FailsAreReal' /\ FlipNeedsStreak' /\ UpNeedsSuccess'
  BY DEF StatusInv, FailsAreReal, FlipNeedsStreak, UpNeedsSuccess
<1>2. Solo' <=> Solo
  BY DEF Solo
<1>3. NothingSaved' <=> NothingSaved
  BY DEF NothingSaved
<1>4. SnapshotFollows'
  BY <1>2, <1>3 DEF StatusInv, SnapshotFollows
<1>5. ResultsDerive'
  BY <1>2 DEF StatusInv, ResultsDerive, DerivedFrom
<1> QED
  BY <1>1, <1>4, <1>5 DEF StatusInv

\* RunOnce begins only while no other run is under way, unless runs overlap.
LEMMA BeginStatus ==
    ASSUME CheckTypeOK, StatusInv, NEW w \in Worker, Begin(w), UNCHANGED <<checkMay, check>>
    PROVE  StatusInv'
<1>1. probe[w] = "idle" /\ probe' = [probe EXCEPT ![w] = "probing"]
      /\ UNCHANGED <<out, fails, latest, rows, streak>>
  BY DEF Begin
<1>2. probe'[w] = "probing" /\ \A v \in Worker \ {w} : probe'[v] = probe[v]
  BY <1>1 DEF CheckTypeOK
<1>3. Solo => \A v \in Worker : probe[v] = "idle"
  BY DEF Begin, Solo
<1> QED
  BY <1>1, <1>2, <1>3, StatusUntouched

LEMMA DebounceStatus ==
    ASSUME CheckTypeOK, StatusInv, NEW w \in Worker, Debounce(w)
    PROVE  StatusInv'
<1>1. PICK success \in BOOLEAN :
        /\ fails' = Counted(fails, success)
        /\ streak' = Counted(streak, success)
        /\ out' = [out EXCEPT ![w] = [status |-> nextDebouncedState(latest.status, fails, success),
                                      ok |-> success, streak |-> streak']]
  BY DEF Debounce
<1>2. /\ probe[w] = "probing" /\ probe' = [probe EXCEPT ![w] = "debounced"]
      /\ UNCHANGED <<checkMay, check, latest, rows>>
  BY DEF Debounce, runnerVars
<1>3. /\ probe'[w] = "debounced" /\ \A v \in Worker \ {w} : probe'[v] = probe[v] /\ out'[v] = out[v]
      /\ out'[w].status = nextDebouncedState(latest.status, fails, success)
      /\ out'[w].ok = success /\ out'[w].streak = streak'
  BY <1>1, <1>2 DEF CheckTypeOK
<1>4. FailsAreReal'
  BY <1>1, CountedMonotone DEF StatusInv, FailsAreReal, CheckTypeOK
<1>5. FlipNeedsStreak' /\ UpNeedsSuccess'
  BY <1>2 DEF StatusInv, FlipNeedsStreak, UpNeedsSuccess
<1>6. Solo' = Solo /\ NothingSaved' = NothingSaved
  BY <1>2, <1>3 DEF Solo, NothingSaved
<1>7. SnapshotFollows'
  BY <1>2, <1>3, <1>6 DEF StatusInv, SnapshotFollows
<1>8. DerivedFrom(w)'
  <2>1. CASE success
    BY <1>3, <2>1 DEF nextDebouncedState, DerivedFrom
  <2>2. CASE ~success /\ fails + 1 >= Threshold
    <3>1. streak' >= Threshold
      BY <1>1, <2>2, CountedMonotone DEF StatusInv, FailsAreReal, CheckTypeOK
    <3>2. out'[w].status = "down"
      BY <1>3, <2>2 DEF nextDebouncedState
    <3> QED
      BY <1>3, <3>1, <3>2 DEF DerivedFrom
  <2>3. CASE ~success /\ ~(fails + 1 >= Threshold)
    <3>1. out'[w].status = IF latest.status = "" THEN "up" ELSE latest.status
      BY <1>3, <2>3 DEF nextDebouncedState
    <3> QED
      BY <1>2, <3>1 DEF DerivedFrom
  <2> QED
    BY <2>1, <2>2, <2>3
<1>9. ResultsDerive'
  BY <1>2, <1>3, <1>6, <1>8 DEF StatusInv, ResultsDerive, DerivedFrom
<1> QED
  BY <1>4, <1>5, <1>7, <1>9 DEF StatusInv

\* A result that is stored: with one run at a time the row before it is the snapshot
\* it was derived from.
LEMMA SavedStatus ==
    ASSUME CheckTypeOK, StatusInv, NEW w \in Worker, probe[w] = "debounced", check # "absent",
           rows' = IF rows = <<>> THEN <<out[w]>> ELSE <<rows[Len(rows)], out[w]>>,
           probe' = [probe EXCEPT ![w] = "saved"],
           UNCHANGED <<checkMay, check, out, fails, latest, streak>>
    PROVE  StatusInv'
<1>1. out[w] \in ResultRow
  BY DEF CheckTypeOK
<1>2. /\ rows' \in Seq(ResultRow) /\ Len(rows') > 0 /\ rows'[Len(rows')] = out[w]
      /\ Len(rows') = 2 => rows # <<>> /\ rows'[1] = rows[Len(rows)] /\ rows'[2] = out[w]
  BY <1>1, RowsType DEF CheckTypeOK
<1>3. probe'[w] = "saved" /\ \A v \in Worker \ {w} : probe'[v] = probe[v]
  BY DEF CheckTypeOK
<1>4. Solo' = Solo /\ ~NothingSaved'
  BY <1>3 DEF Solo, NothingSaved
<1>5. ASSUME Solo PROVE \A v \in Worker \ {w} : probe[v] = "idle"
  BY <1>5 DEF StatusInv, SnapshotFollows
<1>6. SnapshotFollows'
  BY <1>2, <1>3, <1>4, <1>5 DEF SnapshotFollows
<1>7. ResultsDerive'
  BY <1>3, <1>4 DEF StatusInv, ResultsDerive, DerivedFrom
<1>8. ASSUME Solo, rows # <<>>
      PROVE  /\ latest # NoRow => rows[Len(rows)] = latest
             /\ "restart" \notin checkMay => latest # NoRow
  <2>1. NothingSaved
    BY <1>5, <1>8 DEF NothingSaved
  <2> QED
    BY <1>8, <2>1 DEF StatusInv, SnapshotFollows
<1>9. ASSUME Solo PROVE DerivedFrom(w)
  BY <1>9 DEF StatusInv, ResultsDerive
<1>10. FlipNeedsStreak'
  <2> SUFFICES ASSUME Solo, Len(rows') = 2, rows'[1].status = "up", rows'[2].status = "down"
               PROVE  rows'[2].streak >= Threshold
    BY DEF FlipNeedsStreak, Solo
  <2>1. rows # <<>> /\ rows[Len(rows)].status = "up" /\ out[w].status = "down"
    BY <1>2
  <2>2. latest.status # "down"
    BY <1>8, <2>1, StatusOf
  <2> QED
    BY <1>2, <1>9, <2>1, <2>2 DEF DerivedFrom
<1>11. UpNeedsSuccess'
  <2> SUFFICES ASSUME checkMay \intersect {"runs overlap", "restart"} = {}, Len(rows') = 2,
                      rows'[1].status = "down", rows'[2].status = "up"
               PROVE  rows'[2].ok
    BY DEF UpNeedsSuccess
  <2>1. Solo /\ "restart" \notin checkMay
    BY DEF Solo
  <2>2. rows # <<>> /\ rows[Len(rows)].status = "down" /\ out[w].status = "up"
    BY <1>2
  <2>3. latest.status = "down"
    BY <1>8, <2>1, <2>2
  <2> QED
    BY <1>2, <1>9, <2>1, <2>2, <2>3 DEF DerivedFrom
<1>12. FailsAreReal'
  BY DEF StatusInv, FailsAreReal
<1> QED
  BY <1>6, <1>7, <1>10, <1>11, <1>12 DEF StatusInv

\* A run ends, its result dropped or published.
LEMMA EndedStatus ==
    ASSUME CheckTypeOK, StatusInv, NEW w \in Worker,
           probe' = [probe EXCEPT ![w] = "idle"], out' = [out EXCEPT ![w] = NoRow],
           UNCHANGED <<checkMay, check, fails, rows, streak>>,
           \/ probe[w] = "debounced" /\ latest' = latest
           \/ probe[w] = "saved" /\ latest' = out[w]
    PROVE  StatusInv'
<1>1. probe'[w] = "idle" /\ \A v \in Worker \ {w} : probe'[v] = probe[v] /\ out'[v] = out[v]
  BY DEF CheckTypeOK
<1>2. Solo' = Solo
  BY DEF Solo
<1>3. ASSUME Solo PROVE \A v \in Worker : v # w => probe[v] = "idle"
  BY <1>3 DEF StatusInv, SnapshotFollows
<1>4. ResultsDerive'
  BY <1>1, <1>2, <1>3 DEF ResultsDerive
<1>5. SnapshotFollows'
  <2> SUFFICES ASSUME Solo PROVE SnapshotFollows'
    BY <1>2 DEF SnapshotFollows
  <2>1. \A v \in Worker : probe'[v] = "idle"
    BY <1>1, <1>3
  <2>2. CASE probe[w] = "debounced" /\ latest' = latest
    <3>1. NothingSaved
      BY <1>3, <2>2 DEF NothingSaved
    <3> QED
      BY <2>1, <2>2, <3>1 DEF StatusInv, SnapshotFollows
  <2>3. CASE probe[w] = "saved" /\ latest' = out[w]
    <3>1. latest' # NoRow
      BY <2>3, StatusOf DEF CheckTypeOK
    <3>2. check # "absent" => rows # <<>> /\ rows[Len(rows)] = latest'
      BY <2>3 DEF StatusInv, SnapshotFollows
    <3> QED
      BY <2>1, <3>1, <3>2 DEF SnapshotFollows
  <2> QED
    BY <2>2, <2>3
<1>6. FailsAreReal' /\ FlipNeedsStreak' /\ UpNeedsSuccess'
  BY DEF StatusInv, FailsAreReal, FlipNeedsStreak, UpNeedsSuccess
<1> QED
  BY <1>4, <1>5, <1>6 DEF StatusInv

LEMMA CommitStatus ==
    ASSUME CheckTypeOK, StatusInv, NEW e \in Edit, NEW to \in {"enabled", "disabled", "absent"},
           Commit(e, to)
    PROVE  StatusInv'
<1>1. /\ UNCHANGED <<checkMay, probe, out, fails, latest, streak>> /\ check # "absent" /\ check' = to
      /\ rows' = IF to = "absent" THEN <<>> ELSE rows
  BY DEF Commit
<1>2. Solo' = Solo /\ NothingSaved' = NothingSaved
  BY <1>1 DEF Solo, NothingSaved
<1>3. FailsAreReal' /\ ResultsDerive'
  BY <1>1, <1>2 DEF StatusInv, FailsAreReal, ResultsDerive, DerivedFrom
<1>4. CASE to = "absent"
  <2>1. FlipNeedsStreak' /\ UpNeedsSuccess'
    BY <1>1, <1>4 DEF FlipNeedsStreak, UpNeedsSuccess
  <2>2. SnapshotFollows'
    BY <1>1, <1>2, <1>4 DEF StatusInv, SnapshotFollows
  <2> QED
    BY <1>3, <2>1, <2>2 DEF StatusInv
<1>5. CASE to # "absent"
  <2>1. FlipNeedsStreak' /\ UpNeedsSuccess'
    BY <1>1, <1>5 DEF StatusInv, FlipNeedsStreak, UpNeedsSuccess
  <2>2. SnapshotFollows'
    BY <1>1, <1>2, <1>5 DEF StatusInv, SnapshotFollows
  <2> QED
    BY <1>3, <2>1, <2>2 DEF StatusInv
<1> QED
  BY <1>4, <1>5

LEMMA RestartStatus ==
    ASSUME CheckTypeOK, StatusInv, RestartScheduler
    PROVE  StatusInv'
<1>1. /\ UNCHANGED <<checkMay, check, rows, streak>> /\ fails' = 0 /\ latest' = NoRow
      /\ "restart" \in checkMay
      /\ \A w \in Worker : probe'[w] = "idle"
  BY DEF RestartScheduler
<1>2. FailsAreReal'
  BY <1>1 DEF FailsAreReal, CheckTypeOK
<1>3. SnapshotFollows' /\ ResultsDerive'
  BY <1>1 DEF SnapshotFollows, ResultsDerive
<1>4. FlipNeedsStreak' /\ UpNeedsSuccess'
  BY <1>1 DEF StatusInv, FlipNeedsStreak, UpNeedsSuccess
<1> QED
  BY <1>2, <1>3, <1>4 DEF StatusInv

LEMMA StatusStep == CheckTypeOK /\ StatusInv /\ [CheckNext]_checkVars => StatusInv'
<1> SUFFICES ASSUME CheckTypeOK, StatusInv, [CheckNext]_checkVars PROVE StatusInv'
  OBVIOUS
<1>0. ASSUME UNCHANGED <<checkMay, check, resultVars>> PROVE StatusInv'
  <2>1. Solo => \A v, w \in Worker : probe'[v] # "idle" /\ probe'[w] # "idle" => v = w
    BY <1>0 DEF StatusInv, SnapshotFollows, resultVars
  <2> QED
    BY <1>0, <2>1, StatusUntouched DEF resultVars
<1>1. ASSUME NEW e \in Edit, EditStep(e) PROVE StatusInv'
  BY <1>0, <1>1 DEF EditStep, StopTake, StopCancel, Reread, StartRunner
<1>2. ASSUME NEW e \in Edit, NEW to \in {"enabled", "disabled", "absent"}, Commit(e, to)
      PROVE  StatusInv'
  BY <1>2, CommitStatus
<1>3. ASSUME NEW k \in Runner, RunnerStep(k) PROVE StatusInv'
  <2>1. CASE LoadCheck(k) \/ Cancelled(k)
    BY <1>0, <2>1 DEF LoadCheck, Cancelled
  <2>2. CASE ProbeTick(k)
    BY <1>0, <2>2, BeginStatus, Constants DEF ProbeTick
  <2> QED
    BY <1>3, <2>1, <2>2 DEF RunnerStep
<1>4. ASSUME NEW m \in Manual, RunNow(m) PROVE StatusInv'
  BY <1>4, BeginStatus DEF RunNow, Worker, runnerVars
<1>5. ASSUME NEW w \in Worker, RunStep(w) PROVE StatusInv'
  <2>1. CASE Debounce(w)
    BY <2>1, DebounceStatus
  <2>2. CASE SaveResult(w)
    BY <2>2, SavedStatus, EndedStatus DEF SaveResult
  <2>3. CASE Publish(w)
    BY <2>3, EndedStatus DEF Publish
  <2> QED
    BY <1>5, <2>1, <2>2, <2>3 DEF RunStep
<1>6. CASE RestartScheduler
  BY <1>6, RestartStatus
<1>7. CASE UNCHANGED checkVars
  BY <1>0, <1>7 DEF checkVars, resultVars
<1> QED
  BY <1>1, <1>2, <1>3, <1>4, <1>5, <1>6, <1>7 DEF CheckNext

LEMMA StatusInvImplies == CheckTypeOK /\ StatusInv => StatusIsEarned
<1> SUFFICES ASSUME CheckTypeOK, StatusInv PROVE SnapshotMirrors
  BY DEF StatusInv, StatusIsEarned
<1>1. RunsDone => NothingSaved
  BY DEF RunsDone, NothingSaved
<1> QED
  BY <1>1 DEF StatusInv, SnapshotFollows, SnapshotMirrors, Solo

\* A check's status is earned by its probes (Scheduler.debounce, RunOnce), for every
\* threshold and however many requests ask for runs: the flip to down ends a streak of
\* that many failures, restarts and failed saves included; only a success flips it
\* back; and the snapshot mirrors the last stored row.
THEOREM StatusIsEarnedAlways == CheckSpec => []StatusIsEarned
  BY CheckTypeInit, CheckTypeStep, StatusInit, StatusStep, StatusInvImplies, PTL DEF CheckSpec
=============================================================================
