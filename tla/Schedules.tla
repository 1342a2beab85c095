------------------------------ MODULE Schedules ------------------------------
(***************************************************************************)
(* The two cron jobs of the hub: the weekly report, registered again after *)
(* every save of one of its settings (internal/hub/report/report.go), and  *)
(* the backup, registered when the hub starts (internal/hub/backup).       *)
(* A save runs its hook in the goroutine of its own request; the settings  *)
(* page saves all four settings of the report at once.  Cron().Remove and  *)
(* Cron().MustAdd are atomic each.                                         *)
(***************************************************************************)
EXTENDS Naturals, Integers, Sequences, FiniteSets, SequencesExt

CONSTANTS
    Save,              \* requests that save a setting of the report
    MaxFiles,          \* bound: backups ever made
    KeepSettings,      \* backup_keep, as LoadSettings reads it
    ScheduleRegimes    \* what happens together: "saves" of settings that may "overlap", "backups",
                       \* and once each a hub "restart", an "admin" who makes or deletes a backup,
                       \* "create" or "delete" of a backup that fails

VARIABLES
    reportSetting,     \* report_enabled and report_cron: the rows' values
    hook,              \* hook[s]: where the hook of a save is, and what it has read
    reportJob,         \* the job's schedule: <<cron>>, or <<>>
    backupSetting,     \* backups_enabled and backup_keep
    backupJob,         \* what Register captured: <<keep>>, or <<>>
    files,             \* the files of the backups directory: their times, all distinct
    made,              \* how many there ever were
    prune,             \* runBackup: "idle", "listing", "deleting"; the names to remove
    meddled,           \* did the admin delete a file since it was listed
    scheduleHad, scheduleMay    \* the disturbances that happened, and those that may: chosen once

reportVars == <<reportSetting, hook, reportJob>>
backupVars == <<backupSetting, backupJob, files, made, prune, meddled>>
regimeVars == <<scheduleHad, scheduleMay>>
scheduleVars == <<reportVars, backupVars, regimeVars>>

ASSUME ScheduleAssumption == MaxFiles \in Nat /\ KeepSettings \subseteq Int

DefaultCron == "default"
NoHook == [pc |-> "idle", enabled |-> FALSE, cron |-> DefaultCron]
NoPrune == [pc |-> "idle", todo |-> <<>>]

\* report_enabled is a JSON boolean or counts as false; report_cron a schedule, one
\* that does not parse, or not set.
EnabledRow == {"true", "false", "junk"}
CronRow == {"", "daily", "bad"}

LoadEnabled(row) == row = "true"
LoadCron(row) == IF row = "" THEN DefaultCron ELSE row

\* cron.NewSchedule refuses the expression: the default takes its place.
Schedule(cron) == IF cron = "bad" THEN DefaultCron ELSE cron

JobFor(enabled, cron) == IF enabled THEN <<Schedule(cron)>> ELSE <<>>

\* backup.Register.
RegisterBackup == IF backupSetting.enabled THEN <<backupSetting.keep>> ELSE <<>>

ScheduleInit(regimes) ==
    /\ reportSetting = [enabled |-> "true", cron |-> ""]
    /\ hook = [s \in Save |-> NoHook]
    /\ reportJob = <<DefaultCron>>
    /\ files = {} /\ made = 0 /\ prune = NoPrune /\ meddled = FALSE
    /\ scheduleHad = {} /\ scheduleMay \in regimes
    /\ backupSetting \in IF "backups" \in scheduleMay THEN [enabled : BOOLEAN, keep : KeepSettings]
                         ELSE {[enabled |-> FALSE, keep |-> 0]}
    /\ backupJob = RegisterBackup

Disturb(d) == d \in scheduleMay \ scheduleHad /\ scheduleHad' = scheduleHad \union {d} /\ UNCHANGED scheduleMay

-----------------------------------------------------------------------------
(* The report.                                                             *)

\* A setting is committed, then its hook begins.
SaveSetting(s) ==
    /\ "saves" \in scheduleMay /\ hook[s].pc = "idle"
    /\ "overlap" \in scheduleMay \/ \A t \in Save : hook[t].pc = "idle"
    /\ \/ \E e \in EnabledRow : reportSetting' = [reportSetting EXCEPT !.enabled = e]
       \/ \E c \in CronRow : reportSetting' = [reportSetting EXCEPT !.cron = c]
    /\ hook' = [hook EXCEPT ![s].pc = "enabled"]
    /\ UNCHANGED <<reportJob, backupVars, regimeVars>>

\* LoadSettings, a query for each setting.
LoadSettings(s) ==
    /\ \/ /\ hook[s].pc = "enabled"
          /\ hook' = [hook EXCEPT ![s].pc = "cron", ![s].enabled = LoadEnabled(reportSetting.enabled)]
       \/ /\ hook[s].pc = "cron"
          /\ hook' = [hook EXCEPT ![s].pc = "remove", ![s].cron = LoadCron(reportSetting.cron)]
    /\ UNCHANGED <<reportSetting, reportJob, backupVars, regimeVars>>

\* Mutant: a report that is switched off keeps its job.
MutantRemoveJob(s) ==
    /\ hook[s].pc = "remove"
    /\ reportJob' = IF hook[s].enabled THEN <<>> ELSE reportJob
    /\ hook' = [hook EXCEPT ![s] = IF hook[s].enabled THEN [hook[s] EXCEPT !.pc = "add"] ELSE NoHook]
    /\ UNCHANGED <<reportSetting, backupVars, regimeVars>>

RemoveJob(s) ==
    /\ hook[s].pc = "remove"
    /\ reportJob' = <<>>
    /\ hook' = [hook EXCEPT ![s] = IF hook[s].enabled THEN [hook[s] EXCEPT !.pc = "add"] ELSE NoHook]
    /\ UNCHANGED <<reportSetting, backupVars, regimeVars>>

\* MustAdd replaces a job of the same id.
AddJob(s) ==
    /\ hook[s].pc = "add"
    /\ reportJob' = JobFor(TRUE, hook[s].cron)
    /\ hook' = [hook EXCEPT ![s] = NoHook]
    /\ UNCHANGED <<reportSetting, backupVars, regimeVars>>

-----------------------------------------------------------------------------
(* Backups.                                                                *)

\* runBackup: a new archive, or an error and nothing more.
RunBackup ==
    /\ backupJob # <<>> /\ prune.pc = "idle" /\ made < MaxFiles
    /\ \/ /\ files' = files \union {made + 1} /\ made' = made + 1
          /\ prune' = [NoPrune EXCEPT !.pc = "listing"] /\ UNCHANGED regimeVars
       \/ Disturb("create") /\ UNCHANGED <<files, made, prune>>
    /\ UNCHANGED <<reportVars, backupSetting, backupJob, meddled>>

\* Sorted, the newest first.
Newest(S) == [i \in 1..Cardinality(S) |-> CHOOSE f \in S : Cardinality({g \in S : g > f}) = i - 1]

\* Mutant: the oldest are kept.
MutantPruning(S, keep) ==
    IF keep <= 0 \/ Cardinality(S) <= keep THEN <<>>
    ELSE SubSeq(SetToSortSeq(S, <), keep + 1, Cardinality(S))

selectBackupsForPruning(S, keep) ==
    IF keep <= 0 \/ Cardinality(S) <= keep THEN <<>>
    ELSE SubSeq(Newest(S), keep + 1, Cardinality(S))

\* pruneBackups lists every file of the directory, whoever made it.
ListBackups ==
    /\ prune.pc = "listing"
    /\ prune' = [pc |-> "deleting", todo |-> selectBackupsForPruning(files, backupJob[1])]
    /\ meddled' = FALSE
    /\ UNCHANGED <<reportVars, backupSetting, backupJob, files, made, regimeVars>>

\* One of them is deleted; an error is passed over.
DeleteBackup ==
    /\ prune.pc = "deleting" /\ prune.todo # <<>>
    /\ \/ files' = files \ {Head(prune.todo)} /\ UNCHANGED regimeVars
       \/ Disturb("delete") /\ UNCHANGED files
    /\ prune' = [prune EXCEPT !.todo = Tail(@)]
    /\ UNCHANGED <<reportVars, backupSetting, backupJob, made, meddled>>

BackupReturns ==
    /\ prune.pc = "deleting" /\ prune.todo = <<>>
    /\ prune' = NoPrune
    /\ UNCHANGED <<reportVars, backupSetting, backupJob, files, made, meddled, regimeVars>>

\* The admin makes or deletes a backup, or changes the settings, which count from the
\* next start on.
AdminBackups ==
    /\ Disturb("admin")
    /\ \/ made < MaxFiles /\ files' = files \union {made + 1} /\ made' = made + 1
          /\ UNCHANGED <<backupSetting, meddled>>
       \/ \E f \in files : files' = files \ {f} /\ meddled' = TRUE /\ UNCHANGED <<made, backupSetting>>
       \/ backupSetting' \in [enabled : BOOLEAN, keep : KeepSettings] /\ UNCHANGED <<files, made, meddled>>
    /\ UNCHANGED <<reportVars, backupJob, prune>>

\* The hub restarts: both jobs are registered from the settings as they are.
RestartHub ==
    /\ Disturb("restart")
    /\ hook' = [s \in Save |-> NoHook]
    /\ reportJob' = JobFor(LoadEnabled(reportSetting.enabled), LoadCron(reportSetting.cron))
    /\ backupJob' = RegisterBackup /\ prune' = NoPrune
    /\ UNCHANGED <<reportSetting, backupSetting, files, made, meddled>>

HookStep(s) == LoadSettings(s) \/ RemoveJob(s) \/ AddJob(s)
BackupStep == ListBackups \/ DeleteBackup \/ BackupReturns

ScheduleNext ==
    \/ \E s \in Save : SaveSetting(s) \/ HookStep(s)
    \/ RunBackup \/ BackupStep \/ AdminBackups \/ RestartHub

ScheduleSpec == ScheduleInit(ScheduleRegimes) /\ [][ScheduleNext]_scheduleVars

-----------------------------------------------------------------------------
HooksReturned == \A s \in Save : hook[s].pc = "idle"

\* report.go:141-143, the schedule "must take effect the moment an admin changes it in
\* Settings, without a hub restart": once the hooks have returned the job is there
\* exactly if the report is enabled, on the schedule that is set.
ScheduleTakesEffect ==
    HooksReturned =>
        reportJob = JobFor(LoadEnabled(reportSetting.enabled), LoadCron(reportSetting.cron))

\* The same, of saves that come one after the other, through restarts between a save
\* and the end of its hook.
SavedIsScheduled == "overlap" \notin scheduleMay => ScheduleTakesEffect

\* A scheduled backup never costs a good one: a file goes only while as many newer
\* ones as are to be kept are there, whoever made them, unless the admin deletes files
\* under a run's hands; and a run that nothing disturbed leaves no more than those.
NewestBackupsKept ==
    /\ [][\A f \in files \ files' :
            prune.todo # <<>> /\ prune'.todo = Tail(prune.todo) /\ ~meddled =>
                /\ Cardinality({g \in files' : g > f}) >= backupJob[1]
                /\ backupJob[1] > 0]_scheduleVars
    /\ [][BackupReturns /\ scheduleHad = {} /\ backupJob[1] > 0 =>
            Cardinality(files) <= backupJob[1]]_scheduleVars
=============================================================================
