-------------------------- MODULE UpdateInstaller ---------------------------
(***************************************************************************)
(* The agent's self-update on one host: Updater.Apply and installBinary    *)
(* (internal/agent/update/update.go), the goroutine that runs them for an  *)
(* "update" COMMAND and reexecOrExit (cmd/agent/main.go).                  *)
(*                                                                         *)
(* Every update command runs Apply in a goroutine of its own; nothing      *)
(* serialises them.  A binary is identified with the job that downloaded   *)
(* it.  Path 0 is the file the service manager starts, path k the same     *)
(* name with ".previous" appended k times.                                 *)
(***************************************************************************)
EXTENDS Naturals, Sequences

CONSTANTS
    Job,               \* update commands
    Base,              \* the binary installed at first
    NoFile,
    MaxSuffix,         \* bound: ".previous" suffixes
    MaxBoots,          \* bound: crashes of the agent and reboots of the host
    ExeFollowsRename,  \* os.Executable: Linux reads /proc/self/exe at the call, which
                       \* names the running file wherever it was moved; others keep
                       \* the path the process was started from
    OnWindows,         \* runningOnWindows
    RequireSignature,  \* update_require_signature
    Faulty,            \* file operations that may fail on a whim
    OneAtATime         \* is a second command sent only after the first has ended

ASSUME InstallerAssumption ==
    /\ Base \notin Job /\ NoFile \notin Job \union {Base} /\ Base # NoFile
    /\ MaxSuffix \in Nat /\ MaxSuffix > 0 /\ MaxBoots \in Nat
    /\ {ExeFollowsRename, OnWindows, RequireSignature, OneAtATime} \subseteq BOOLEAN
    /\ OnWindows => ~ExeFollowsRename
    /\ Faulty \subseteq {"backup", "swap", "rollback", "exec"}

Path == 0..MaxSuffix
Binary == Job \union {Base}

\* What a release server can answer: is SHA256SUMS published, is there a usable
\* checksum, does the tarball match it, what became of the signature over
\* SHA256SUMS, and does the extracted binary run and report the requested version.
Asset == [sums : BOOLEAN, entry : BOOLEAN, hash : BOOLEAN,
          sig : {"absent", "unchecked", "valid", "invalid"}, runs : BOOLEAN]
NoAsset == [sums |-> FALSE, entry |-> FALSE, hash |-> FALSE, sig |-> "absent", runs |-> FALSE]

VARIABLES
    file,      \* file[p]: the binary at a path
    staged,    \* staged[j]: is the extracted binary in the job's temporary directory
    asset,     \* asset[j]: what the job downloaded
    running,   \* the binary the agent process runs, NoFile when it cannot be started
    image,     \* what os.Executable returns
    unlinked,  \* was the running file itself deleted or replaced
    job,       \* job[j]: where the goroutine is
    target,    \* target[j]: execPath, or the path it is about to execute
    delayed,   \* replacements Windows carries out at the next boot
    boots

vars == <<file, staged, asset, running, image, unlinked, job, target, delayed, boots>>
filesystem == <<file, image, unlinked>>
process == <<running, boots, delayed>>

Idle == {"idle"}
Ended == {"failed", "deferred", "replaced", "killed"}
Renaming == {"backedUp", "rollingBack", "restoring"}   \* execPath is empty meanwhile

Init ==
    /\ file = [p \in Path |-> IF p = 0 THEN Base ELSE NoFile]
    /\ staged = [j \in Job |-> FALSE]
    /\ asset = [j \in Job |-> NoAsset]
    /\ running = Base /\ image = 0 /\ unlinked = FALSE
    /\ job = [j \in Job |-> "idle"]
    /\ target = [j \in Job |-> 0]
    /\ delayed = <<>>
    /\ boots = 0

-----------------------------------------------------------------------------
Goto(j, where) == job' = [job EXCEPT ![j] = where]
Fails(op) == op \in Faulty

\* Apply returns an error; its deferred RemoveAll clears the temporary directory.
Fail(j) == Goto(j, "failed") /\ staged' = [staged EXCEPT ![j] = FALSE]

\* os.Rename between two paths of the agent's directory.
Rename(from, to) ==
    /\ file' = [file EXCEPT ![to] = file[from], ![from] = NoFile]
    /\ image' = IF ExeFollowsRename /\ ~unlinked /\ image = from THEN to ELSE image
    /\ unlinked' = (unlinked \/ (ExeFollowsRename /\ image = to))

\* handleUpdateCommand, accepted: the goroutine starts and Apply downloads.
Start(j) ==
    /\ job[j] = "idle" /\ running # NoFile
    /\ OneAtATime => \A i \in Job : job[i] \in Idle \union Ended
    /\ Goto(j, "downloading")
    /\ UNCHANGED <<filesystem, process, staged, asset, target>>

Download(j) ==
    /\ job[j] = "downloading"
    /\ \/ /\ \E a \in Asset : asset' = [asset EXCEPT ![j] = a]
          /\ Goto(j, "verifying") /\ UNCHANGED staged
       \/ Fail(j) /\ UNCHANGED asset
    /\ UNCHANGED <<filesystem, process, target>>

\* Mutant: update_require_signature is looked at only where SHA256SUMS is published.
MutantVerified(a) ==
    /\ a.entry /\ a.hash
    /\ a.sums => a.sig # "invalid" /\ (RequireSignature => a.sig = "valid")

\* Updater.verify: a signature is looked at only where SHA256SUMS is published; one
\* that cannot be checked is tolerated unless signatures are required.
Verified(a) ==
    /\ a.entry /\ a.hash
    /\ a.sums => a.sig # "invalid"
    /\ RequireSignature => a.sums /\ a.sig = "valid"

Verify(j) ==
    /\ job[j] = "verifying"
    /\ IF Verified(asset[j]) THEN Goto(j, "extracting") /\ UNCHANGED staged ELSE Fail(j)
    /\ UNCHANGED <<filesystem, process, asset, target>>

\* extractArchive, sanityCheckVersion and versionMatches.
Extract(j) ==
    /\ job[j] = "extracting"
    /\ IF asset[j].runs
       THEN Goto(j, "resolving") /\ staged' = [staged EXCEPT ![j] = TRUE]
       ELSE Fail(j)
    /\ UNCHANGED <<filesystem, process, asset, target>>

\* resolveExecutablePath: EvalSymlinks fails on a path where nothing is.
Resolve(j) ==
    /\ job[j] = "resolving"
    /\ IF file[image] = NoFile
       THEN Fail(j) /\ UNCHANGED target
       ELSE /\ image < MaxSuffix
            /\ target' = [target EXCEPT ![j] = image]
            /\ Goto(j, "resolved") /\ UNCHANGED staged
    /\ UNCHANGED <<filesystem, process, asset>>

\* An earlier backup is removed before the running file is renamed to its name.
DropBackup(j) ==
    /\ job[j] = "resolved"
    /\ file' = [file EXCEPT ![target[j] + 1] = NoFile]
    /\ unlinked' = (unlinked \/ (ExeFollowsRename /\ image = target[j] + 1))
    /\ Goto(j, "cleared")
    /\ UNCHANGED <<image, process, staged, asset, target>>

BackUp(j) ==
    /\ job[j] = "cleared"
    /\ \/ /\ file[target[j]] # NoFile
          /\ Rename(target[j], target[j] + 1)
          /\ Goto(j, "backedUp") /\ UNCHANGED staged
       \/ /\ file[target[j]] = NoFile \/ Fails("backup")
          /\ Fail(j) /\ UNCHANGED filesystem
    /\ UNCHANGED <<process, asset, target>>

\* The new binary is renamed over execPath and Apply returns.  A failed rename is
\* rolled back, on Windows after scheduling the replacement for the next boot
\* (which may itself fail).
Swap(j) ==
    /\ job[j] = "backedUp"
    /\ \/ /\ file' = [file EXCEPT ![target[j]] = j]
          /\ unlinked' = (unlinked \/ (ExeFollowsRename /\ image = target[j]))
          /\ staged' = [staged EXCEPT ![j] = FALSE]
          /\ Goto(j, "installed") /\ UNCHANGED <<image, delayed>>
       \/ /\ Fails("swap")
          /\ \/ Goto(j, "rollingBack") /\ UNCHANGED delayed
             \/ OnWindows /\ Goto(j, "restoring") /\ delayed' = Append(delayed, j)
          /\ UNCHANGED <<filesystem, staged>>
    /\ UNCHANGED <<running, boots, asset, target>>

\* Mutant: the new binary's rename fails and the error is returned at once.
MutantRollBack(j) ==
    /\ job[j] \in {"rollingBack", "restoring"}
    /\ Fail(j)
    /\ UNCHANGED <<filesystem, process, asset, target>>

\* The backup is renamed back; then Apply returns, and with it goes the temporary
\* directory, the binary scheduled for the next boot included.
RollBack(j) ==
    /\ job[j] \in {"rollingBack", "restoring"}
    /\ \/ /\ file[target[j] + 1] # NoFile
          /\ Rename(target[j] + 1, target[j])
          /\ staged' = [staged EXCEPT ![j] = FALSE]
          /\ Goto(j, IF job[j] = "restoring" THEN "deferred" ELSE "failed")
       \/ /\ file[target[j] + 1] = NoFile \/ Fails("rollback")
          /\ Fail(j) /\ UNCHANGED filesystem
    /\ UNCHANGED <<process, asset, target>>

-----------------------------------------------------------------------------
\* A new agent process runs the binary at path p; the goroutines of the old one
\* are gone, their temporary directories stay.
Become(p, files, keep) ==
    /\ running' = files[p] /\ image' = p /\ unlinked' = FALSE
    /\ job' = [i \in Job |-> IF i \in keep THEN "replaced"
                             ELSE IF job[i] \in Idle \union Ended THEN job[i] ELSE "killed"]

\* Mutant: the path is looked up through the file the process runs, which was
\* renamed to ".previous".
MutantFindSelf(j) ==
    /\ job[j] = "installed"
    /\ target' = [target EXCEPT ![j] = target[j] + 1]
    /\ Goto(j, "stopping")
    /\ UNCHANGED <<filesystem, process, staged, asset>>

\* reexecOrExit asks for the path before it stops the transport, and executes it
\* after that.
FindSelf(j) ==
    /\ job[j] = "installed"
    /\ target' = [target EXCEPT ![j] = image]
    /\ Goto(j, "stopping")
    /\ UNCHANGED <<filesystem, process, staged, asset>>

\* syscall.Exec, or, where that fails (always, on Windows), exit(0) and a start by
\* the service manager.
Reexec(j) ==
    /\ job[j] = "stopping"
    /\ \/ file[target[j]] # NoFile /\ ~OnWindows /\ Become(target[j], file, {j})
       \/ /\ file[target[j]] = NoFile \/ OnWindows \/ Fails("exec")
          /\ Become(0, file, {j})
    /\ UNCHANGED <<file, staged, asset, target, delayed, boots>>

\* The agent dies and the service manager starts it again.
Crash ==
    /\ boots < MaxBoots /\ boots' = boots + 1
    /\ Become(0, file, {})
    /\ UNCHANGED <<file, staged, asset, target, delayed>>

\* At boot Windows carries out the replacements whose source still exists; the
\* last one stands.
Reboot ==
    /\ OnWindows /\ boots < MaxBoots /\ boots' = boots + 1
    /\ LET Present(k) == staged[delayed[k]] IN
       \/ file' = file /\ \A k \in 1..Len(delayed) : ~Present(k)
       \/ \E k \in 1..Len(delayed) :
             /\ Present(k) /\ \A m \in (k + 1)..Len(delayed) : ~Present(m)
             /\ file' = [file EXCEPT ![0] = delayed[k]]
    /\ delayed' = <<>>
    /\ Become(0, file', {})
    /\ UNCHANGED <<staged, asset, target>>

-----------------------------------------------------------------------------
ApplyStep(j) == \/ Start(j) \/ Download(j) \/ Verify(j) \/ Extract(j)
InstallStep(j) == \/ Resolve(j) \/ DropBackup(j) \/ BackUp(j) \/ Swap(j) \/ RollBack(j)
RestartStep(j) == FindSelf(j) \/ Reexec(j)

Next ==
    \/ \E j \in Job : ApplyStep(j) \/ InstallStep(j) \/ RestartStep(j)
    \/ Crash \/ Reboot

Spec == Init /\ [][Next]_vars

-----------------------------------------------------------------------------
TypeOK ==
    /\ file \in [Path -> Binary \union {NoFile}]
    /\ staged \in [Job -> BOOLEAN]
    /\ asset \in [Job -> Asset]
    /\ running \in Binary \union {NoFile}
    /\ image \in Path /\ unlinked \in BOOLEAN
    /\ job \in [Job -> Idle \union Ended \union Renaming \union
                   {"downloading", "verifying", "extracting", "resolving", "resolved",
                    "cleared", "installed", "stopping"}]
    /\ target \in [Job -> Path]
    /\ delayed \in Seq(Job)
    /\ boots \in 0..MaxBoots

\* README.md:281-283, "any failure past that point rolls the rename back so the
\* agent is never left without a working binary": whenever no install is between
\* its renames, the service manager finds a binary to start.
NeverWithoutBinary ==
    (\A j \in Job : job[j] \notin Renaming) => file[0] # NoFile

\* Whatever a job downloads, and however jobs interleave, no file of the agent and
\* no process comes from a tarball that failed its checksum, carried a bad
\* signature, lacked a required one, or does not run as the requested version.
InstalledIsVerified ==
    \A j \in Job : (running = j \/ \E p \in Path : file[p] = j) =>
        /\ asset[j].hash /\ asset[j].runs
        /\ ~(asset[j].sums /\ asset[j].sig = "invalid")
        /\ RequireSignature => asset[j].sums /\ asset[j].sig = "valid"

\* README.md:294-298, "Rollback": once an update is installed the binary that was
\* running is kept beside it under ".previous".
RollbackCopyKept ==
    \A j \in Job : job[j] \in {"installed", "stopping"} =>
        /\ file[0] = j
        /\ file[1] = running

\* README.md:284-285, "On success the agent re-execs itself in place ... so the
\* update takes effect immediately", by exec or by the service manager's restart.
UpdateTakesEffect ==
    [][\A j \in Job : job[j] = "stopping" /\ job'[j] = "replaced" => running' = j]_vars

-----------------------------------------------------------------------------
\* The regime in which the promises about the agent's binary hold: commands do not
\* overlap, nothing dies between the renames, a rollback works and os.Executable
\* keeps naming the path the process was started from.
Orderly == OneAtATime /\ MaxBoots = 0 /\ "rollback" \notin Faulty /\ ~ExeFollowsRename
=============================================================================
