--------------------------- MODULE CheckScheduler ---------------------------
(***************************************************************************)
(* The scheduler of black-box checks (internal/hub/checks/scheduler.go)    *)
(* for one check: the runner goroutines and the map of their cancel        *)
(* functions, the hooks that reload a runner when the check is edited, and *)
(* RunOnce, which a runner and the "run now" endpoint may execute at once. *)
(* The failure counter is kept up to the threshold it is compared with.    *)
(***************************************************************************)
EXTENDS Naturals, Sequences

CONSTANTS
    Edit,          \* requests that edit or delete the check
    Manual,        \* "run now" requests
    MaxRunners,    \* bound: runner goroutines that exist at once
    Threshold,     \* failures_before_down
    MaxRestarts,   \* bound: hub restarts
    CheckRegimes        \* sets of the disturbances that may happen together

\* An edit begins while the hook of another runs; somebody asks for a run now; a run
\* begins while another is under way; a read of a check that exists fails; a save of
\* a result fails; the hub restarts.
CheckDisturbances ==
    {"edits overlap", "run now", "runs overlap", "read error", "save error", "restart"}

ASSUME CheckAssumption ==
    /\ MaxRunners \in Nat \ {0} /\ Threshold \in Nat \ {0} /\ MaxRestarts \in Nat
    /\ CheckRegimes \subseteq SUBSET CheckDisturbances
    /\ (Edit \union Manual) \intersect Nat = {}

Runner == 1..MaxRunners
NoRunner == 0
Worker == Runner \union Manual
Status == {"up", "down"}
ResultRow == [status : Status, ok : BOOLEAN, streak : 0..Threshold]
NoRow == [status |-> "", ok |-> FALSE, streak |-> 0]

VARIABLES
    checkMay,        \* the disturbances of this behaviour
    check,      \* the row of checks: "enabled", "disabled" or "absent"
    cancels,    \* the runner whose cancel function Scheduler.cancels holds
    runner,     \* runner[k]: where the goroutine is
    cancelled,  \* cancelled[k]: has its context been cancelled
    edit,       \* edit[e]: where the hook of a request is
    taken,      \* taken[e]: the runner stopRunner took out of cancels
    probe,      \* probe[w]: where a worker's RunOnce is
    out,        \* out[w]: the result it is about to record
    fails,      \* Scheduler.consecutiveFails
    latest,     \* Scheduler.latest
    rows,       \* the two rows of check_results persisted last
    streak,     \* how many of the latest attempts failed in a row
    restarts

checkVars == <<checkMay, check, cancels, runner, cancelled, edit, taken, probe, out, fails, latest, rows, streak, restarts>>
runnerVars == <<checkMay, check, cancels, runner, cancelled, edit, taken>>
resultVars == <<probe, out, fails, latest, rows, streak>>

Live(k) == runner[k] \notin {"none", "ended"}

CheckInit(regimes) ==
    /\ checkMay \in regimes
    /\ check = "enabled" /\ cancels = 1
    /\ runner = [k \in Runner |-> IF k = 1 THEN "loading" ELSE "none"]
    /\ cancelled = [k \in Runner |-> FALSE]
    /\ edit = [e \in Edit |-> "idle"]
    /\ taken = [e \in Edit |-> NoRunner]
    /\ probe = [w \in Worker |-> "idle"]
    /\ out = [w \in Worker |-> NoRow]
    /\ fails = 0 /\ latest = NoRow /\ rows = <<>> /\ streak = 0
    /\ restarts = 0

-----------------------------------------------------------------------------
\* Editing the check: the row is committed, then the request's own goroutine runs
\* the hook: reloadOne, or stopRunner after a delete, which takes the results along.
Commit(e, to) ==
    /\ edit[e] = "idle" /\ check # "absent"
    /\ "edits overlap" \in checkMay \/ \A f \in Edit : edit[f] = "idle"
    /\ check' = to
    /\ edit' = [edit EXCEPT ![e] = IF to = "absent" THEN "deleting" ELSE "reloading"]
    /\ rows' = IF to = "absent" THEN <<>> ELSE rows
    /\ UNCHANGED <<checkMay, cancels, runner, cancelled, taken, probe, out, fails, latest, streak, restarts>>

\* Mutant: stopRunner leaves the cancel function in the map.
MutantStopTake(e) ==
    /\ edit[e] \in {"reloading", "deleting"} /\ taken[e] = NoRunner
    /\ taken' = [taken EXCEPT ![e] = cancels]
    /\ edit' = [edit EXCEPT ![e] = IF cancels # NoRunner THEN @
                                   ELSE IF @ = "deleting" THEN "idle" ELSE "rereading"]
    /\ UNCHANGED <<checkMay, check, cancels, runner, cancelled, resultVars, restarts>>

\* stopRunner under the mutex.
StopTake(e) ==
    /\ edit[e] \in {"reloading", "deleting"} /\ taken[e] = NoRunner
    /\ taken' = [taken EXCEPT ![e] = cancels]
    /\ cancels' = NoRunner
    /\ edit' = [edit EXCEPT ![e] = IF cancels # NoRunner THEN @
                                   ELSE IF @ = "deleting" THEN "idle" ELSE "rereading"]
    /\ UNCHANGED <<checkMay, check, runner, cancelled, resultVars, restarts>>

\* stopRunner calls cancel after the unlock.
StopCancel(e) ==
    /\ taken[e] # NoRunner
    /\ cancelled' = [cancelled EXCEPT ![taken[e]] = TRUE]
    /\ taken' = [taken EXCEPT ![e] = NoRunner]
    /\ edit' = [edit EXCEPT ![e] = IF @ = "deleting" THEN "idle" ELSE "rereading"]
    /\ UNCHANGED <<checkMay, check, cancels, runner, resultVars, restarts>>

\* Mutant: a runner is started whether or not the check is enabled.
MutantReread(e) ==
    /\ edit[e] = "rereading"
    /\ edit' = [edit EXCEPT ![e] = IF check = "absent" THEN "idle" ELSE "starting"]
    /\ UNCHANGED <<checkMay, check, cancels, runner, cancelled, taken, resultVars, restarts>>

\* A check that is gone, disabled or unreadable gets no runner.
Reread(e) ==
    /\ edit[e] = "rereading"
    /\ \/ check = "enabled" /\ edit' = [edit EXCEPT ![e] = "starting"]
       \/ /\ check # "enabled" \/ "read error" \in checkMay
          /\ edit' = [edit EXCEPT ![e] = "idle"]
    /\ UNCHANGED <<checkMay, check, cancels, runner, cancelled, taken, resultVars, restarts>>

\* A runner that is there already stays.
StartRunner(e) ==
    /\ edit[e] = "starting"
    /\ \/ cancels # NoRunner /\ UNCHANGED <<cancels, runner, cancelled>>
       \/ /\ cancels = NoRunner
          /\ \E k \in Runner :
                /\ ~Live(k) /\ \A f \in Edit : taken[f] # k
                /\ cancels' = k
                /\ runner' = [runner EXCEPT ![k] = "loading"]
                /\ cancelled' = [cancelled EXCEPT ![k] = FALSE]
    /\ edit' = [edit EXCEPT ![e] = "idle"]
    /\ UNCHANGED <<checkMay, check, taken, resultVars, restarts>>

-----------------------------------------------------------------------------
\* runLoop reads the check for its interval, and ends if that fails.
LoadCheck(k) ==
    /\ runner[k] = "loading"
    /\ \/ check # "absent" /\ runner' = [runner EXCEPT ![k] = "waiting"]
       \/ /\ check = "absent" \/ "read error" \in checkMay
          /\ runner' = [runner EXCEPT ![k] = "ended"]
    /\ UNCHANGED <<checkMay, check, cancels, cancelled, edit, taken, resultVars, restarts>>

\* The context is done; with the timer due as well, select may take either.
Cancelled(k) ==
    /\ runner[k] = "waiting" /\ cancelled[k]
    /\ runner' = [runner EXCEPT ![k] = "ended"]
    /\ UNCHANGED <<checkMay, check, cancels, cancelled, edit, taken, resultVars, restarts>>

\* RunOnce reads the check and starts the probe.
Begin(w) ==
    /\ probe[w] = "idle"
    /\ "runs overlap" \in checkMay \/ \A v \in Worker : probe[v] = "idle"
    /\ probe' = [probe EXCEPT ![w] = "probing"]
    /\ UNCHANGED <<out, fails, latest, rows, streak, restarts>>

ProbeTick(k) ==
    /\ runner[k] = "waiting"
    /\ \/ /\ check # "absent" /\ Begin(k)
          /\ runner' = [runner EXCEPT ![k] = "running"]
       \/ /\ check = "absent" \/ "read error" \in checkMay
          /\ runner' = [runner EXCEPT ![k] = "loading"]
          /\ UNCHANGED <<resultVars, restarts>>
    /\ UNCHANGED <<checkMay, check, cancels, cancelled, edit, taken>>

RunNow(m) ==
    /\ "run now" \in checkMay /\ check # "absent" /\ Begin(m)
    /\ UNCHANGED runnerVars

\* Mutant of nextDebouncedState: one failure too few.
MutantEarlyState(prev, count, success) ==
    IF success THEN "up" ELSE IF count + 2 >= Threshold THEN "down"
    ELSE IF prev = "" THEN "up" ELSE prev

nextDebouncedState(prev, count, success) ==
    IF success THEN "up" ELSE IF count + 1 >= Threshold THEN "down"
    ELSE IF prev = "" THEN "up" ELSE prev

Counted(count, success) ==
    IF success THEN 0 ELSE IF count < Threshold THEN count + 1 ELSE count

\* The probe ends and debounce turns it into a status, under the mutex.
Debounce(w) ==
    /\ probe[w] = "probing"
    /\ \E success \in BOOLEAN :
          /\ fails' = Counted(fails, success)
          /\ streak' = Counted(streak, success)
          /\ out' = [out EXCEPT ![w] = [status |-> nextDebouncedState(latest.status, fails, success),
                                        ok |-> success, streak |-> streak']]
    /\ probe' = [probe EXCEPT ![w] = "debounced"]
    /\ UNCHANGED <<runnerVars, latest, rows, restarts>>

\* The runner goes round its loop again when RunOnce returns.
Return(w) ==
    runner' = [k \in Runner |-> IF k = w THEN "loading" ELSE runner[k]]

SaveResult(w) ==
    /\ probe[w] = "debounced"
    /\ \/ /\ check # "absent"
          /\ rows' = IF rows = <<>> THEN <<out[w]>> ELSE <<rows[Len(rows)], out[w]>>
          /\ probe' = [probe EXCEPT ![w] = "saved"]
          /\ UNCHANGED <<out, runner>>
       \/ /\ check = "absent" \/ "save error" \in checkMay
          /\ probe' = [probe EXCEPT ![w] = "idle"]
          /\ out' = [out EXCEPT ![w] = NoRow]
          /\ Return(w) /\ UNCHANGED rows
    /\ UNCHANGED <<checkMay, check, cancels, cancelled, edit, taken, fails, latest, streak, restarts>>

\* The snapshot is replaced, under the mutex.
Publish(w) ==
    /\ probe[w] = "saved"
    /\ latest' = out[w]
    /\ probe' = [probe EXCEPT ![w] = "idle"]
    /\ out' = [out EXCEPT ![w] = NoRow]
    /\ Return(w)
    /\ UNCHANGED <<checkMay, check, cancels, cancelled, edit, taken, fails, rows, streak, restarts>>

\* The hub restarts: reloadAll starts a runner for an enabled check.
RestartScheduler ==
    /\ "restart" \in checkMay /\ restarts < MaxRestarts /\ restarts' = restarts + 1
    /\ cancels' = IF check = "enabled" THEN 1 ELSE NoRunner
    /\ runner' = [k \in Runner |-> IF k = 1 /\ check = "enabled" THEN "loading" ELSE "none"]
    /\ cancelled' = [k \in Runner |-> FALSE]
    /\ edit' = [e \in Edit |-> "idle"]
    /\ taken' = [e \in Edit |-> NoRunner]
    /\ probe' = [w \in Worker |-> "idle"]
    /\ out' = [w \in Worker |-> NoRow]
    /\ fails' = 0 /\ latest' = NoRow
    /\ UNCHANGED <<checkMay, check, rows, streak>>

-----------------------------------------------------------------------------
EditStep(e) == StopTake(e) \/ StopCancel(e) \/ Reread(e) \/ StartRunner(e)
RunStep(w) == Debounce(w) \/ SaveResult(w) \/ Publish(w)
RunnerStep(k) == LoadCheck(k) \/ Cancelled(k) \/ ProbeTick(k)

CheckNext ==
    \/ \E e \in Edit : EditStep(e) \/ \E to \in {"enabled", "disabled", "absent"} : Commit(e, to)
    \/ \E k \in Runner : RunnerStep(k)
    \/ \E w \in Worker : RunStep(w)
    \/ \E m \in Manual : RunNow(m)
    \/ RestartScheduler

\* Goroutines run, timers fire and probes end by their timeout.
CheckFairness ==
    /\ \A e \in Edit : WF_checkVars(EditStep(e))
    /\ \A k \in Runner : WF_checkVars(RunnerStep(k))
    /\ \A w \in Worker : WF_checkVars(RunStep(w))

CheckSpec == CheckInit(CheckRegimes) /\ [][CheckNext]_checkVars /\ CheckFairness

-----------------------------------------------------------------------------
HooksDone == \A e \in Edit : edit[e] = "idle"
RunsDone == \A w \in Worker : probe[w] = "idle"

\* However reloads interleave, no runner escapes: one that is live and not
\* cancelled is the one in cancels, or a stopRunner is about to cancel it.
NoStrayRunner ==
    \A k \in Runner : Live(k) /\ ~cancelled[k] => cancels = k \/ \E e \in Edit : taken[e] = k

\* scheduler.go:135-138, reloadOne "starts a fresh one only if the check still
\* exists and is enabled": unless edits overlapped, once the hooks are done a
\* disabled check is not probed any more.
DisabledIsStopped ==
    "edits overlap" \notin checkMay /\ HooksDone /\ check = "disabled" =>
        \A k \in Runner : Live(k) => cancelled[k]

\* What probes a check follows its row.
RunnersFollowRow == NoStrayRunner /\ DisabledIsStopped

\* README.md:540, "Consecutive failed attempts required before the check flips to
\* down": unless runs overlap, a row that flips the check to down ends a streak of
\* that many failures, hub restarts and failed saves notwithstanding.
FlipNeedsStreak ==
    "runs overlap" \notin checkMay /\ Len(rows) = 2 /\ rows[1].status = "up" /\ rows[2].status = "down" =>
        rows[2].streak >= Threshold

\* README.md:540, "a single success flips it back to up": unless runs overlap or the
\* hub restarts, nothing but a success turns a check that is down up again.
UpNeedsSuccess ==
    /\ checkMay \intersect {"runs overlap", "restart"} = {}
    /\ Len(rows) = 2 /\ rows[1].status = "down" /\ rows[2].status = "up"
    => rows[2].ok

\* scheduler.go:14-16, the snapshot "always mirrors the most recently persisted
\* check_results row for that check", unless runs overlap, when no run is under
\* way and one has been published since the hub started.
SnapshotMirrors ==
    "runs overlap" \notin checkMay /\ RunsDone /\ check # "absent" /\ latest # NoRow =>
        rows # <<>> /\ latest = rows[Len(rows)]

\* A check's status is earned by its probes, and what is shown is what was stored.
StatusIsEarned == FlipNeedsStreak /\ UpNeedsSuccess /\ SnapshotMirrors

\* scheduler.go:26, "Scheduler runs one goroutine per enabled checks record": unless
\* a read of it failed, a check that stays enabled, and is not edited for ever, keeps
\* being probed.
EnabledIsProbed ==
    "read error" \notin checkMay /\ <>[](check = "enabled" /\ HooksDone) =>
        []<>(\E w \in Worker : probe[w] = "probing")
=============================================================================
