------------------------ MODULE UpdateInstallerProofs -----------------------
(***************************************************************************)
(* What UpdateInstaller's runs check on two update commands, for any       *)
(* number of them.                                                         *)
(***************************************************************************)
EXTENDS UpdateInstaller, TLAPS

Stage == Idle \union Ended \union Renaming \union
           {"downloading", "verifying", "extracting", "resolving", "resolved",
            "cleared", "installed", "stopping"}

\* Starting a process changes nothing but the goroutines' places, which stay places.
LEMMA BecomeFacts ==
    ASSUME TypeOK, NEW p \in Path, NEW files \in [Path -> Binary \union {NoFile}],
           NEW keep \in SUBSET Job, Become(p, files, keep)
    PROVE  /\ running' = files[p] /\ running' \in Binary \union {NoFile}
           /\ image' = p /\ unlinked' = FALSE
           /\ job' \in [Job -> Stage]
           /\ \A i \in keep : job'[i] = "replaced"
           /\ \A i \in Job \ keep : job'[i] = job[i] \/ job'[i] = "killed"
           /\ \A i \in Job \ keep : job[i] \in Idle => job'[i] = job[i]
           /\ \A i \in Job : job'[i] \in Idle \union Ended
<1>1. job \in [Job -> Stage]
  BY DEF TypeOK, Stage
<1>2. ASSUME NEW i \in Job
      PROVE  /\ job'[i] \in Idle \union Ended
             /\ i \in keep => job'[i] = "replaced"
             /\ i \notin keep => job'[i] = job[i] \/ job'[i] = "killed"
             /\ i \notin keep /\ job[i] \in Idle => job'[i] = job[i]
  <2>1. job'[i] = IF i \in keep THEN "replaced"
                  ELSE IF job[i] \in Idle \union Ended THEN job[i] ELSE "killed"
    BY DEF Become
  <2> QED
    BY <2>1, <1>1 DEF Idle, Ended
<1>3. job' \in [Job -> Stage]
  BY <1>2 DEF Become, Stage
<1> QED
  BY <1>2, <1>3 DEF Become

\* Type correctness of the files a rename touches.
LEMMA RenameType ==
    ASSUME TypeOK, NEW p \in Path, NEW q \in Path, Rename(p, q)
    PROVE  file' \in [Path -> Binary \union {NoFile}] /\ image' \in Path /\ unlinked' \in BOOLEAN
  BY DEF Rename, TypeOK

\* A transaction that moves to another stage moves alone.
LEMMA GotoFacts ==
    ASSUME job \in [Job -> Stage], NEW j \in Job, NEW s \in Stage, Goto(j, s)
    PROVE  /\ job' \in [Job -> Stage] /\ job'[j] = s
           /\ \A i \in Job \ {j} : job'[i] = job[i]
  BY DEF Goto

\* A failed transaction gives up its staged binary and touches no other one.
LEMMA FailFacts ==
    ASSUME job \in [Job -> Stage], staged \in [Job -> BOOLEAN], NEW j \in Job, Fail(j)
    PROVE  /\ job' \in [Job -> Stage] /\ job'[j] = "failed"
           /\ \A i \in Job \ {j} : job'[i] = job[i]
           /\ staged' \in [Job -> BOOLEAN] /\ staged'[j] = FALSE
           /\ \A i \in Job \ {j} : staged'[i] = staged[i]
<1>1. "failed" \in Stage /\ Goto(j, "failed")
  BY DEF Stage, Ended, Fail
<1>2. staged' = [staged EXCEPT ![j] = FALSE]
  BY DEF Fail
<1>3. /\ job' \in [Job -> Stage] /\ job'[j] = "failed"
      /\ \A i \in Job \ {j} : job'[i] = job[i]
  BY <1>1, GotoFacts
<1> QED
  BY <1>2, <1>3

\* Resolve's bound keeps the name of a backup inside Path.
BackupName == \A j \in Job : job[j] \in Renaming \union {"resolved", "cleared"} => target[j] < MaxSuffix

-----------------------------------------------------------------------------
\* Every action keeps the type invariant.
LEMMA TypeStep ==
    ASSUME TypeOK, BackupName, Next
    PROVE  TypeOK' /\ BackupName'
<1> USE InstallerAssumption
<1>0. /\ file \in [Path -> Binary \union {NoFile}] /\ staged \in [Job -> BOOLEAN]
      /\ asset \in [Job -> Asset] /\ running \in Binary \union {NoFile}
      /\ image \in Path /\ unlinked \in BOOLEAN /\ job \in [Job -> Stage]
      /\ target \in [Job -> Path] /\ delayed \in Seq(Job) /\ boots \in 0..MaxBoots
  BY DEF TypeOK, Stage
<1>1. ASSUME NEW j \in Job, ApplyStep(j)
      PROVE  TypeOK' /\ BackupName'
  <2>1. /\ job' \in [Job -> Stage] /\ staged' \in [Job -> BOOLEAN] /\ asset' \in [Job -> Asset]
        /\ job'[j] \notin Renaming \union {"resolved", "cleared"}
        /\ \A i \in Job \ {j} : job'[i] = job[i]
        /\ UNCHANGED <<filesystem, process, target>>
    <3>1. CASE Start(j)
      BY <3>1, <1>0 DEF Start, Goto, Stage, Renaming
    <3>f. "failed" \notin Renaming \union {"resolved", "cleared"}
      BY DEF Renaming
    <3>g. /\ {"verifying", "extracting", "resolving"} \subseteq Stage
          /\ \A s \in {"verifying", "extracting", "resolving"} :
               s \notin Renaming \union {"resolved", "cleared"}
      BY DEF Stage, Renaming
    <3>2. CASE Download(j)
      <4>1. UNCHANGED <<filesystem, process, target>>
        BY <3>2 DEF Download
      <4>2. CASE Fail(j) /\ UNCHANGED asset
        BY <4>1, <4>2, <3>f, <1>0, FailFacts
      <4>3. ASSUME NEW a \in Asset, asset' = [asset EXCEPT ![j] = a],
                   Goto(j, "verifying"), UNCHANGED staged
            PROVE  /\ job' \in [Job -> Stage] /\ staged' \in [Job -> BOOLEAN]
                   /\ asset' \in [Job -> Asset]
                   /\ job'[j] \notin Renaming \union {"resolved", "cleared"}
                   /\ \A i \in Job \ {j} : job'[i] = job[i]
        <5>1. asset' \in [Job -> Asset]
          BY <4>3, <1>0
        <5>2. /\ job' \in [Job -> Stage] /\ job'[j] = "verifying"
              /\ \A i \in Job \ {j} : job'[i] = job[i]
          BY <4>3, <3>g, <1>0, GotoFacts
        <5> QED
          BY <4>3, <5>1, <5>2, <3>g, <1>0
      <4> QED
        BY <3>2, <4>1, <4>2, <4>3 DEF Download
    <3>3. CASE Verify(j)
      <4>1. UNCHANGED <<filesystem, process, asset, target>>
        BY <3>3 DEF Verify
      <4>2. CASE Fail(j)
        BY <4>1, <4>2, <3>f, <1>0, FailFacts
      <4>3. CASE Goto(j, "extracting") /\ UNCHANGED staged
        BY <4>1, <4>3, <3>g, <1>0, GotoFacts
      <4> QED
        BY <3>3, <4>2, <4>3 DEF Verify
    <3>4. CASE Extract(j)
      <4>1. UNCHANGED <<filesystem, process, asset, target>>
        BY <3>4 DEF Extract
      <4>2. CASE Fail(j)
        BY <4>1, <4>2, <3>f, <1>0, FailFacts
      <4>3. CASE Goto(j, "resolving") /\ staged' = [staged EXCEPT ![j] = TRUE]
        <5>1. staged' \in [Job -> BOOLEAN]
          BY <4>3, <1>0
        <5> QED
          BY <4>1, <4>3, <5>1, <3>g, <1>0, GotoFacts
      <4> QED
        BY <3>4, <4>2, <4>3 DEF Extract
    <3> QED
      BY <1>1, <3>1, <3>2, <3>3, <3>4 DEF ApplyStep
  <2> QED
    BY <2>1, <1>0 DEF TypeOK, BackupName, Stage, filesystem, process
<1>2. ASSUME NEW j \in Job, Resolve(j)
      PROVE  TypeOK' /\ BackupName'
  <2>1. /\ job' \in [Job -> Stage] /\ staged' \in [Job -> BOOLEAN] /\ target' \in [Job -> Path]
        /\ job'[j] \in Renaming \union {"resolved", "cleared"} => target'[j] < MaxSuffix
        /\ \A i \in Job \ {j} : job'[i] = job[i] /\ target'[i] = target[i]
        /\ UNCHANGED <<filesystem, process, asset>>
    <3>1. CASE /\ image < MaxSuffix /\ target' = [target EXCEPT ![j] = image]
               /\ Goto(j, "resolved") /\ UNCHANGED staged
      <4>1. UNCHANGED <<filesystem, process, asset>>
        BY <1>2 DEF Resolve
      <4>2. /\ target' \in [Job -> Path] /\ target'[j] < MaxSuffix
            /\ \A i \in Job \ {j} : target'[i] = target[i]
        BY <3>1, <1>0
      <4>3. "resolved" \in Stage
        BY DEF Stage
      <4> QED
        BY <3>1, <4>1, <4>2, <4>3, <1>0, GotoFacts
    <3>2. CASE Fail(j) /\ UNCHANGED target
      <4>1. UNCHANGED <<filesystem, process, asset>>
        BY <1>2 DEF Resolve
      <4>2. "failed" \notin Renaming \union {"resolved", "cleared"}
        BY DEF Renaming
      <4> QED
        BY <3>2, <4>1, <4>2, <1>0, FailFacts
    <3> QED
      BY <1>2, <3>1, <3>2 DEF Resolve
  <2> QED
    BY <2>1, <1>0 DEF TypeOK, BackupName, Stage, filesystem, process
<1>3. ASSUME NEW j \in Job, DropBackup(j) \/ BackUp(j) \/ Swap(j) \/ RollBack(j)
      PROVE  TypeOK' /\ BackupName'
  <2>1. job[j] \in Renaming \union {"resolved", "cleared"}
    BY <1>3 DEF DropBackup, BackUp, Swap, RollBack, Renaming
  <2>2. target[j] \in Path /\ target[j] + 1 \in Path
    BY <2>1, <1>0 DEF BackupName, Path
  <2>3. /\ job' \in [Job -> Stage] /\ staged' \in [Job -> BOOLEAN]
        /\ \A i \in Job \ {j} : job'[i] = job[i]
        /\ UNCHANGED <<running, boots, asset, target>>
    BY <1>0, <1>3 DEF DropBackup, BackUp, Swap, RollBack, Goto, Fail, Stage, Ended, Renaming, process
  <2>4. file' \in [Path -> Binary \union {NoFile}] /\ image' \in Path /\ unlinked' \in BOOLEAN
    <3>1. CASE DropBackup(j)
      BY <3>1, <2>2, <1>0 DEF DropBackup
    <3>2. CASE BackUp(j)
      BY <3>2, <2>2, <1>0, RenameType DEF BackUp, filesystem
    <3>3. CASE Swap(j)
      BY <3>3, <2>2, <1>0 DEF Swap, filesystem, Binary
    <3>4. CASE RollBack(j)
      BY <3>4, <2>2, <1>0, RenameType DEF RollBack, filesystem
    <3> QED
      BY <1>3, <3>1, <3>2, <3>3, <3>4
  <2>5. delayed' \in Seq(Job)
    BY <1>0, <1>3 DEF DropBackup, BackUp, Swap, RollBack, process
  <2> QED
    BY <2>1, <2>3, <2>4, <2>5, <1>0 DEF TypeOK, BackupName, Stage
<1>4. ASSUME NEW j \in Job, FindSelf(j)
      PROVE  TypeOK' /\ BackupName'
  <2>1. /\ job' \in [Job -> Stage] /\ target' \in [Job -> Path]
        /\ job'[j] = "stopping"
        /\ \A i \in Job \ {j} : job'[i] = job[i] /\ target'[i] = target[i]
        /\ UNCHANGED <<filesystem, process, staged, asset>>
    BY <1>0, <1>4 DEF FindSelf, Goto, Stage
  <2> QED
    BY <2>1, <1>0 DEF TypeOK, BackupName, Stage, Renaming, filesystem, process
<1>5. ASSUME NEW keep \in SUBSET Job, NEW p \in Path,
             file' \in [Path -> Binary \union {NoFile}], Become(p, file', keep),
             delayed' \in Seq(Job), boots' \in 0..MaxBoots, UNCHANGED <<staged, asset, target>>
      PROVE  TypeOK' /\ BackupName'
  <2>1. /\ job' \in [Job -> Stage] /\ image' \in Path /\ unlinked' \in BOOLEAN
        /\ running' \in Binary \union {NoFile}
        /\ \A i \in Job : job'[i] \in Idle \union Ended
    BY <1>5, BecomeFacts
  <2> QED
    BY <2>1, <1>0, <1>5 DEF TypeOK, BackupName, Stage, Renaming, Idle, Ended
<1>6. ASSUME NEW j \in Job, Reexec(j)
      PROVE  TypeOK' /\ BackupName'
  <2>1. file' \in [Path -> Binary \union {NoFile}] /\ file' = file
    BY <1>6, <1>0 DEF Reexec
  <2>2. delayed' \in Seq(Job) /\ boots' \in 0..MaxBoots /\ UNCHANGED <<staged, asset, target>>
    BY <1>6, <1>0 DEF Reexec
  <2>3. target[j] \in Path /\ 0 \in Path
    BY <1>0 DEF Path
  <2>4. Become(target[j], file, {j}) \/ Become(0, file, {j})
    BY <1>6 DEF Reexec
  <2>5. {j} \in SUBSET Job
    OBVIOUS
  <2>6. CASE Become(target[j], file, {j})
    BY <2>1, <2>2, <2>3, <2>5, <2>6, <1>5
  <2>7. CASE Become(0, file, {j})
    BY <2>1, <2>2, <2>3, <2>5, <2>7, <1>5
  <2> QED
    BY <2>4, <2>6, <2>7
<1>7. CASE Crash
  <2>1. file' \in [Path -> Binary \union {NoFile}] /\ file' = file
    BY <1>7, <1>0 DEF Crash
  <2>2. delayed' \in Seq(Job) /\ boots' \in 0..MaxBoots /\ 0 \in Path
    BY <1>7, <1>0 DEF Crash, Path
  <2> QED
    BY <2>1, <2>2, <1>5, <1>7 DEF Crash
<1>8. CASE Reboot
  <2>1. file' \in [Path -> Binary \union {NoFile}]
    <3>1. \A k \in 1..Len(delayed) : delayed[k] \in Binary \union {NoFile}
      BY <1>0 DEF Binary
    <3>2. \/ file' = file
          \/ \E k \in 1..Len(delayed) : file' = [file EXCEPT ![0] = delayed[k]]
      BY <1>8 DEF Reboot
    <3> QED
      BY <3>1, <3>2, <1>0 DEF Path
  <2>2. delayed' \in Seq(Job) /\ boots' \in 0..MaxBoots /\ 0 \in Path
    BY <1>8, <1>0 DEF Reboot, Path
  <2> QED
    BY <2>1, <2>2, <1>5, <1>8 DEF Reboot
<1> QED
  BY <1>1, <1>2, <1>3, <1>4, <1>6, <1>7, <1>8 DEF Next, InstallStep, RestartStep

\* The initial state is well-typed.
LEMMA TypeInit == Init => TypeOK /\ BackupName
<1> SUFFICES ASSUME Init PROVE TypeOK /\ BackupName
  OBVIOUS
<1>1. 0 \in Path /\ boots \in 0..MaxBoots
  BY InstallerAssumption DEF Init, Path
<1>2. file \in [Path -> Binary \union {NoFile}] /\ running \in Binary \union {NoFile}
  BY DEF Init, Binary
<1>3. staged \in [Job -> BOOLEAN] /\ unlinked \in BOOLEAN
  BY DEF Init
<1>4. asset \in [Job -> Asset]
  BY DEF Init, Asset, NoAsset
<1>5. job \in [Job -> Idle] /\ target \in [Job -> Path] /\ image \in Path
  BY <1>1 DEF Init, Idle
<1>6. delayed \in Seq(Job)
  BY DEF Init
<1> QED
  BY <1>1, <1>2, <1>3, <1>4, <1>5, <1>6 DEF TypeOK, BackupName, Idle, Renaming

\* A step that changes nothing keeps it.
LEMMA TypeStutter ==
    ASSUME TypeOK, BackupName, UNCHANGED vars
    PROVE  TypeOK' /\ BackupName'
  BY DEF TypeOK, BackupName, vars

\* Every variable of the installer keeps its type, and a backup's name stays in range.
THEOREM InstallerTypeCorrect == Spec => [](TypeOK /\ BackupName)
<1>1. Init => TypeOK /\ BackupName
  BY TypeInit
<1>2. TypeOK /\ BackupName /\ [Next]_vars => TypeOK' /\ BackupName'
  BY TypeStep, TypeStutter
<1> QED
  BY <1>1, <1>2, PTL DEF Spec

-----------------------------------------------------------------------------
\* Nothing unverified is ever installed.

Sound(j) == Verified(asset[j]) /\ asset[j].runs
Settled(j) == job[j] \notin {"idle", "downloading"} /\ Sound(j)

\* The inductive invariant: a binary reaches the temporary directory, the next
\* boot's list, a path or the process only after its checks, and its download is
\* not repeated after that.
VerifiedInv ==
    /\ \A p \in Path : file[p] \in Job => Settled(file[p])
    /\ running \in Job => Settled(running)
    /\ \A j \in Job : staged[j] => Settled(j)
    /\ \A j \in Job : job[j] = "extracting" => Verified(asset[j])
    /\ \A j \in Job : job[j] \in Renaming \union {"resolving", "resolved", "cleared"} => Settled(j)

\* A step that repeats no download leaves a settled binary settled.
LEMMA SettledKept ==
    ASSUME NEW i \in Job, asset'[i] = asset[i], Settled(i),
           job'[i] \notin {"idle", "downloading"}
    PROVE  Settled(i)'
  BY DEF Settled, Sound, Verified

\* Every action keeps it.
LEMMA VerifiedStep ==
    ASSUME TypeOK, BackupName, VerifiedInv, Next
    PROVE  VerifiedInv'
<1> USE InstallerAssumption
<1>0. /\ file \in [Path -> Binary \union {NoFile}] /\ staged \in [Job -> BOOLEAN]
      /\ asset \in [Job -> Asset] /\ running \in Binary \union {NoFile}
      /\ image \in Path /\ job \in [Job -> Stage] /\ 0 \in Path
      /\ target \in [Job -> Path] /\ delayed \in Seq(Job)
  BY DEF TypeOK, Stage, Path
<1>1. ASSUME NEW j \in Job, Start(j)
      PROVE  VerifiedInv'
  <2>1. /\ job[j] = "idle" /\ job'[j] = "downloading" /\ UNCHANGED <<file, running, staged, asset>>
        /\ \A i \in Job \ {j} : job'[i] = job[i]
    BY <1>1, <1>0 DEF Start, Goto, filesystem, process
  <2>2. \A i \in Job : Settled(i) => Settled(i)'
    BY <2>1 DEF Settled, Sound, Verified
  <2> QED
    BY <2>1, <2>2 DEF VerifiedInv, Verified, Renaming
<1>2. ASSUME NEW j \in Job, Download(j)
      PROVE  VerifiedInv'
  <2>1. /\ job[j] = "downloading" /\ job'[j] \in {"verifying", "failed"}
        /\ UNCHANGED <<file, running>>
        /\ staged'[j] \in {staged[j], FALSE}
        /\ \A i \in Job \ {j} : job'[i] = job[i] /\ staged'[i] = staged[i] /\ asset'[i] = asset[i]
    <3>1. CASE \E a \in Asset : asset' = [asset EXCEPT ![j] = a] /\ Goto(j, "verifying") /\ UNCHANGED staged
      BY <1>2, <1>0, <3>1 DEF Download, Goto, filesystem, process
    <3>2. CASE Fail(j) /\ UNCHANGED asset
      <4>1. job[j] = "downloading" /\ UNCHANGED <<file, running>>
        BY <1>2 DEF Download, filesystem, process
      <4> QED
        BY <4>1, <1>0, <3>2, FailFacts
    <3> QED
      BY <1>2, <3>1, <3>2 DEF Download
  <2>2. \A i \in Job : Settled(i) => i # j /\ Settled(i)'
    BY <2>1, SettledKept DEF Settled
  <2>3. job'[j] # "extracting" /\ job'[j] \notin Renaming \union {"resolving", "resolved", "cleared"}
    BY <2>1 DEF Renaming
  <2>4. \A i \in Job : i # j => (job'[i] = job[i] /\ asset'[i] = asset[i])
    BY <2>1
  <2>5. \A i \in Job : job'[i] = "extracting" => Verified(asset'[i])
    BY <2>3, <2>4 DEF VerifiedInv
  <2>6. \A i \in Job : job'[i] \in Renaming \union {"resolving", "resolved", "cleared"} => Settled(i)'
    BY <2>3, <2>4, <2>2 DEF VerifiedInv
  <2>7. \A i \in Job : staged'[i] => Settled(i)'
    BY <2>1, <2>2 DEF VerifiedInv
  <2> QED
    BY <2>1, <2>2, <2>5, <2>6, <2>7 DEF VerifiedInv, Verified
<1>3. ASSUME NEW j \in Job, Verify(j) \/ Extract(j) \/ Resolve(j) \/ DropBackup(j) \/ BackUp(j)
                             \/ Swap(j) \/ RollBack(j) \/ FindSelf(j)
      PROVE  VerifiedInv'
  <2>1. /\ asset' = asset /\ running' = running
        /\ job[j] \notin {"idle", "downloading"} /\ job'[j] \notin {"idle", "downloading"}
        /\ \A i \in Job \ {j} : job'[i] = job[i] /\ staged'[i] = staged[i]
    BY <1>3, <1>0 DEF Verify, Extract, Resolve, DropBackup, BackUp, Swap, RollBack, FindSelf,
                      Goto, Fail, process
  <2>2. \A i \in Job : Settled(i) => Settled(i)'
    BY <2>1, <1>0, SettledKept DEF Settled
  <2>3. job'[j] = "extracting" => Verified(asset'[j])
    BY <1>3, <1>0 DEF Verify, Extract, Resolve, DropBackup, BackUp, Swap, RollBack, FindSelf, Goto, Fail
  <2>4. CASE Verify(j) \/ Extract(j)
    <3>1. file' = file
      BY <2>4 DEF Verify, Extract, filesystem
    <3>2. (staged'[j] \/ job'[j] \in Renaming \union {"resolving", "resolved", "cleared"}) => Settled(j)'
      BY <2>4, <2>1, <2>2, <1>0 DEF Verify, Extract, Goto, Fail, VerifiedInv, Settled, Sound, Renaming
    <3> QED
      BY <3>1, <3>2, <2>1, <2>2, <2>3 DEF VerifiedInv, Verified
  <2>5. CASE Resolve(j) \/ DropBackup(j) \/ BackUp(j) \/ Swap(j) \/ RollBack(j)
    <3>1. Settled(j)
      BY <2>5 DEF Resolve, DropBackup, BackUp, Swap, RollBack, VerifiedInv, Renaming
    <3>2. target[j] \in Path /\ (job[j] # "resolving" => target[j] + 1 \in Path)
      BY <2>5, <1>0 DEF Resolve, DropBackup, BackUp, Swap, RollBack, BackupName, Renaming, Path
    <3>3. \A p \in Path : file'[p] = j \/ file'[p] = NoFile \/ \E q \in Path : file'[p] = file[q]
      BY <2>5, <3>2, <1>0 DEF Resolve, DropBackup, BackUp, Swap, RollBack, Rename, filesystem
    <3>4. \A p \in Path : file'[p] \in Job => Settled(file'[p])
      BY <3>1, <3>3 DEF VerifiedInv
    <3> QED
      BY <3>1, <3>4, <2>1, <2>2, <2>3 DEF VerifiedInv, Verified
  <2>6. CASE FindSelf(j)
    <3>1. file' = file /\ staged' = staged /\ job'[j] = "stopping"
      BY <2>6, <1>0 DEF FindSelf, Goto, filesystem
    <3> QED
      BY <3>1, <2>1, <2>2, <2>3 DEF VerifiedInv, Verified, Renaming
  <2> QED
    BY <1>3, <2>4, <2>5, <2>6
<1>4. ASSUME NEW keep \in SUBSET Job, NEW p \in Path, Become(p, file', keep),
             file' \in [Path -> Binary \union {NoFile}],
             \A q \in Path : file'[q] \in Job => Settled(file'[q]),
             UNCHANGED <<staged, asset>>
      PROVE  VerifiedInv'
  <2>1. /\ running' = file'[p]
        /\ \A i \in Job : job'[i] \in {"replaced", "killed", job[i]}
        /\ \A i \in Job : job'[i] \in Idle \union Ended
    BY <1>4, BecomeFacts
  <2>2. \A i \in Job : Settled(i) => Settled(i)'
    BY <1>4, <2>1, SettledKept DEF Settled
  <2> QED
    BY <1>4, <2>1, <2>2 DEF VerifiedInv, Idle, Ended, Renaming
<1>5. ASSUME NEW j \in Job, Reexec(j)
      PROVE  VerifiedInv'
  <2>1. file' = file /\ UNCHANGED <<staged, asset>> /\ {j} \in SUBSET Job /\ target[j] \in Path
    BY <1>5, <1>0 DEF Reexec
  <2>2. Become(target[j], file', {j}) \/ Become(0, file', {j})
    BY <1>5, <2>1 DEF Reexec
  <2>3. \A q \in Path : file'[q] \in Job => Settled(file'[q])
    BY <2>1 DEF VerifiedInv
  <2> QED
    BY <2>1, <2>2, <2>3, <1>0, <1>4
<1>6. CASE Crash
  <2>1. file' = file /\ UNCHANGED <<staged, asset>> /\ Become(0, file', {})
    BY <1>6 DEF Crash
  <2>2. \A q \in Path : file'[q] \in Job => Settled(file'[q])
    BY <2>1 DEF VerifiedInv
  <2> QED
    BY <2>1, <2>2, <1>0, <1>4
<1>7. CASE Reboot
  <2>1. UNCHANGED <<staged, asset>> /\ Become(0, file', {})
    BY <1>7 DEF Reboot
  <2>2. \/ file' = file
        \/ \E k \in 1..Len(delayed) : staged[delayed[k]] /\ file' = [file EXCEPT ![0] = delayed[k]]
    BY <1>7 DEF Reboot
  <2>3. \A k \in 1..Len(delayed) : delayed[k] \in Job
    BY <1>0
  <2>4. file' \in [Path -> Binary \union {NoFile}]
    BY <2>2, <2>3, <1>0 DEF Binary
  <2>5. \A q \in Path : file'[q] \in Job => Settled(file'[q])
    BY <2>2, <2>3, <1>0 DEF VerifiedInv
  <2> QED
    BY <2>1, <2>4, <2>5, <1>0, <1>4
<1> QED
  BY <1>1, <1>2, <1>3, <1>5, <1>6, <1>7 DEF Next, ApplyStep, InstallStep, RestartStep

\* InstalledIsVerified holds of every run: overlapping commands, crashes, reboots,
\* failing renames and either meaning of os.Executable included.
THEOREM InstalledIsVerifiedAlways == Spec => []InstalledIsVerified
<1>1. Init => VerifiedInv
  BY InstallerAssumption DEF Init, VerifiedInv, Renaming, Path
<1>2. TypeOK /\ BackupName /\ VerifiedInv /\ [Next]_vars => VerifiedInv'
  <2>1. ASSUME VerifiedInv, UNCHANGED vars PROVE VerifiedInv'
    BY <2>1 DEF VerifiedInv, Settled, Sound, Verified, vars
  <2> QED
    BY <2>1, VerifiedStep
<1>3. VerifiedInv => InstalledIsVerified
  BY DEF VerifiedInv, InstalledIsVerified, Settled, Sound, Verified
<1> QED
  BY <1>1, <1>2, <1>3, InstallerTypeCorrect, PTL DEF Spec

-----------------------------------------------------------------------------
\* The agent keeps a binary to start from.

Active(j) == job[j] \notin Idle \union Ended
Swapped == {"installed", "stopping"}

\* The inductive invariant of the orderly regime: one command is active, every path
\* it uses is the service's own, and the three places of an install determine
\* where the running binary's file is.
OrderlyInv ==
    /\ \A i, j \in Job : Active(i) /\ Active(j) => i = j
    /\ image = 0 /\ \A j \in Job : target[j] = 0
    /\ running # NoFile
    /\ (\A j \in Job : job[j] \notin Renaming \union Swapped) => file[0] = running
    /\ \A j \in Job : job[j] \in Renaming => file[1] = running
    /\ \A j \in Job : job[j] \in Swapped => file[0] = j /\ file[1] = running

\* Every action keeps it, and a re-execution brings up the binary just installed.
LEMMA OrderlyStep ==
    ASSUME Orderly, TypeOK, BackupName, OrderlyInv, Next
    PROVE  /\ OrderlyInv'
           /\ \A j \in Job : job[j] = "stopping" /\ job'[j] = "replaced" => running' = j
<1> USE InstallerAssumption
<1>0. /\ file \in [Path -> Binary \union {NoFile}] /\ job \in [Job -> Stage]
      /\ target \in [Job -> Path] /\ 0 \in Path /\ 1 \in Path
      /\ \A j \in Job : j # NoFile
  BY DEF TypeOK, Stage, Path
<1>1. ASSUME NEW j \in Job, ApplyStep(j) \/ Resolve(j) \/ DropBackup(j)
      PROVE  OrderlyInv' /\ (job'[j] # "replaced" /\ \A i \in Job \ {j} : job'[i] = job[i])
  <2>1. /\ UNCHANGED <<running, image>> /\ file'[0] = file[0]
        /\ job[j] \notin Renaming \union Swapped /\ job'[j] \notin Renaming \union Swapped
        /\ \A i \in Job \ {j} : job'[i] = job[i]
        /\ \A i \in Job : target'[i] = 0
        /\ job'[j] # "replaced"
    BY <1>1, <1>0 DEF ApplyStep, Start, Download, Verify, Extract, Resolve, DropBackup, Goto, Fail,
                      OrderlyInv, filesystem, process, Renaming, Swapped
  <2>2. \A i \in Job : i # j => ~Active(i)
    BY <1>1, <1>0 DEF ApplyStep, Start, Download, Verify, Extract, Resolve, DropBackup, Orderly,
                      OrderlyInv, Active, Idle, Ended
  <2>3. \A i \in Job : Active(i)' => i = j
    BY <2>1, <2>2 DEF Active
  <2>4. \A i \in Job : job[i] \notin Renaming \union Swapped /\ job'[i] \notin Renaming \union Swapped
    BY <2>1, <2>2 DEF Active, Renaming, Swapped, Idle, Ended
  <2> QED
    BY <2>1, <2>3, <2>4 DEF OrderlyInv
<1>2. ASSUME NEW j \in Job, BackUp(j) \/ Swap(j) \/ RollBack(j) \/ FindSelf(j)
      PROVE  OrderlyInv' /\ (job'[j] # "replaced" /\ \A i \in Job \ {j} : job'[i] = job[i])
  <2>1. /\ UNCHANGED running /\ image' = 0
        /\ \A i \in Job \ {j} : job'[i] = job[i]
        /\ \A i \in Job : target'[i] = 0
        /\ target[j] = 0 /\ job'[j] # "replaced" /\ running # NoFile
    BY <1>2, <1>0 DEF BackUp, Swap, RollBack, FindSelf, Goto, Fail, Rename, Orderly,
                      OrderlyInv, filesystem, process
  <2>2. \A i \in Job : i # j => ~Active(i)
    BY <1>2, <1>0 DEF BackUp, Swap, RollBack, FindSelf, OrderlyInv, Active, Idle, Ended
  <2>3. \A i \in Job : Active(i)' => i = j
    BY <2>1, <2>2 DEF Active
  <2>4. \A i \in Job \ {j} : job[i] \notin Renaming \union Swapped /\ job'[i] \notin Renaming \union Swapped
    BY <2>1, <2>2 DEF Active, Renaming, Swapped, Idle, Ended
  <2>5. /\ job'[j] \in Renaming => file'[1] = running
        /\ job'[j] \in Swapped => file'[0] = j /\ file'[1] = running
        /\ job'[j] \notin Renaming \union Swapped => file'[0] = running
    <3>1. CASE BackUp(j)
      <4>1. file[0] = running
        BY <3>1, <2>4 DEF BackUp, OrderlyInv, Renaming, Swapped
      <4> QED
        BY <3>1, <4>1, <2>1, <1>0 DEF BackUp, Rename, Goto, Fail, Renaming, Swapped, filesystem
    <3>2. CASE Swap(j)
      <4>1. file[1] = running
        BY <3>2 DEF Swap, OrderlyInv, Renaming
      <4> QED
        BY <3>2, <4>1, <2>1, <1>0 DEF Swap, Goto, Renaming, Swapped, filesystem
    <3>3. CASE RollBack(j)
      <4>1. file[1] = running
        BY <3>3 DEF RollBack, OrderlyInv, Renaming
      <4>2. Rename(1, 0) /\ job'[j] \in {"deferred", "failed"}
        BY <3>3, <4>1, <2>1, <1>0 DEF RollBack, Goto, Fails, Orderly
      <4> QED
        BY <4>1, <4>2, <1>0 DEF Rename, Renaming, Swapped
    <3>4. CASE FindSelf(j)
      BY <3>4, <1>0 DEF FindSelf, Goto, OrderlyInv, Renaming, Swapped, filesystem
    <3> QED
      BY <1>2, <3>1, <3>2, <3>3, <3>4
  <2> QED
    BY <2>1, <2>3, <2>4, <2>5 DEF OrderlyInv
<1>3. ASSUME NEW j \in Job, Reexec(j)
      PROVE  OrderlyInv' /\ running' = j
  <2>1. job[j] = "stopping" /\ file[0] = j /\ target[j] = 0 /\ file' = file /\ target' = target
    BY <1>3 DEF Reexec, OrderlyInv, Swapped
  <2>2. Become(0, file, {j})
    BY <1>3, <2>1 DEF Reexec
  <2>3. /\ running' = j /\ image' = 0
        /\ \A i \in Job : job'[i] \in Idle \union Ended
    BY <2>1, <2>2, <1>0, BecomeFacts
  <2>4. file'[0] = running' /\ running' # NoFile /\ \A i \in Job : target'[i] = 0
    BY <2>1, <2>3, <1>0 DEF OrderlyInv
  <2>5. \A i \in Job : job'[i] \notin Renaming \union Swapped
    BY <2>3 DEF Renaming, Swapped, Idle, Ended
  <2>6. \A i \in Job : ~Active(i)'
    BY <2>3 DEF Active
  <2> QED
    BY <2>3, <2>4, <2>5, <2>6 DEF OrderlyInv
<1>4. ~Crash /\ ~Reboot
  BY DEF Crash, Reboot, Orderly, TypeOK
<1>5. PICK j \in Job : ApplyStep(j) \/ InstallStep(j) \/ RestartStep(j)
  BY <1>4 DEF Next
<1>6. CASE Reexec(j)
  <2>1. \A i \in Job : job[i] = "stopping" => i = j
    BY <1>6 DEF Reexec, OrderlyInv, Active, Idle, Ended
  <2> QED
    BY <1>3, <1>6, <2>1
<1>7. CASE ~Reexec(j)
  <2>1. OrderlyInv' /\ (job'[j] # "replaced" /\ \A i \in Job \ {j} : job'[i] = job[i])
    BY <1>1, <1>2, <1>5, <1>7 DEF InstallStep, RestartStep
  <2> QED
    BY <2>1
<1> QED
  BY <1>6, <1>7

\* The initial state satisfies the invariant.
LEMMA OrderlyInit ==
    ASSUME Init PROVE OrderlyInv
<1>1. /\ \A j \in Job : job[j] = "idle" /\ target[j] = 0
      /\ image = 0 /\ running = Base /\ Base # NoFile /\ 0 \in Path
  BY InstallerAssumption DEF Init, Path
<1>2. file[0] = Base
  BY <1>1 DEF Init
<1> QED
  BY <1>1, <1>2 DEF OrderlyInv, Active, Idle, Ended, Renaming, Swapped

\* In the orderly regime the invariant holds for any number of update commands.
THEOREM OrderlyInvariant ==
    ASSUME Orderly PROVE Spec => []OrderlyInv
<1>1. Init => OrderlyInv
  BY OrderlyInit
<1>2. TypeOK /\ BackupName /\ OrderlyInv /\ [Next]_vars => OrderlyInv'
  <2>1. ASSUME OrderlyInv, UNCHANGED vars PROVE OrderlyInv'
    BY <2>1 DEF OrderlyInv, Active, vars
  <2> QED
    BY <2>1, OrderlyStep
<1> QED
  BY <1>1, <1>2, InstallerTypeCorrect, PTL DEF Spec

\* The service manager always finds a binary outside the window of the renames:
\* an install that fails gives the old one back.
THEOREM NeverWithoutBinaryAlways ==
    ASSUME Orderly PROVE Spec => []NeverWithoutBinary
<1>1. OrderlyInv => NeverWithoutBinary
  <2> SUFFICES ASSUME OrderlyInv, \A j \in Job : job[j] \notin Renaming
               PROVE  file[0] # NoFile
    BY DEF NeverWithoutBinary
  <2>1. CASE \E j \in Job : job[j] \in Swapped
    BY <2>1, InstallerAssumption DEF OrderlyInv
  <2>2. CASE \A j \in Job : job[j] \notin Swapped
    BY <2>2 DEF OrderlyInv
  <2> QED
    BY <2>1, <2>2
<1> QED
  BY <1>1, OrderlyInvariant, PTL

\* An installed update has the running binary beside it as its rollback copy.
THEOREM RollbackCopyKeptAlways ==
    ASSUME Orderly PROVE Spec => []RollbackCopyKept
<1>1. OrderlyInv => RollbackCopyKept
  BY DEF OrderlyInv, RollbackCopyKept, Swapped
<1> QED
  BY <1>1, OrderlyInvariant, PTL

\* A finished update runs the binary it installed, by exec or by restart.
THEOREM UpdateTakesEffectAlways ==
    ASSUME Orderly PROVE Spec => UpdateTakesEffect
<1>1. TypeOK /\ BackupName /\ OrderlyInv /\ [Next]_vars =>
        [\A j \in Job : job[j] = "stopping" /\ job'[j] = "replaced" => running' = j]_vars
  BY OrderlyStep
<1> QED
  BY <1>1, OrderlyInvariant, InstallerTypeCorrect, PTL DEF Spec, UpdateTakesEffect
=============================================================================
