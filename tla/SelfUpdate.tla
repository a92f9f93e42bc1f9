----------------------------- MODULE SelfUpdate -----------------------------
(***************************************************************************)
(* `ti update` (internal/update/update.go) on Unix: one release is fetched,*)
(* checked and staged, then the running ti is replaced, then its drive9    *)
(* companion.  Each replacement is several file system calls; the process  *)
(* may be killed between any two of them, every call may fail, and the     *)
(* command is run again as long as the ti at the target path starts.       *)
(***************************************************************************)
EXTENDS Naturals

CONSTANTS Releases,   \* the releases of ti, the one first installed included
          MaxUpdates  \* how often the command is run

VARIABLES
    target,          \* the file at the path of ti, or "none"
    backup,          \* the file at <target>.ti-backup
    companion,       \* the file at the path of ti-drive9
    companionBackup, \* the file at <companion>.ti-backup
    staged,          \* the two files staged next to the targets
    updater,         \* where Apply stands
    updates          \* how often it was run

updateVars == <<target, backup, companion, companionBackup, staged, updater, updates>>

\* A release may be published and intact and yet not start on this machine.
Broken == "broken"
NoFile == "none"
Works(file) == file \in Releases
nothingStaged == [ti |-> NoFile, companion |-> NoFile]

Init ==
    /\ target \in Releases /\ backup = NoFile
    /\ companion = "old companion" /\ companionBackup = NoFile
    /\ staged = nothingStaged /\ updater = "idle" /\ updates = 0

Goto(step) == updater' = step
EndUpdate == updater' = "idle" /\ staged' = nothingStaged  \* the deferred os.Remove of what was staged

-----------------------------------------------------------------------------
\* What arrived over the network: the asset of the release, or something else.
Downloads(asset) == {asset, "damaged"}
verifyChecksum(data, asset) == data = asset

\* checksumFor finds the digest of the asset; a missing file, a missing line, a bad
\* status or a mismatch is an error before anything is written.
FetchArtifact(asset) == {data \in Downloads(asset) : verifyChecksum(data, asset)}
downloadDrive9Companion == FetchArtifact("new companion")

\* The release that already runs is refused, whatever the state of the companion.
VersionsEqual(running, release) == running = release

\* Apply up to the staged files.  An unknown or managed install source, a version
\* that already runs, an unwritable directory and every failed request return with
\* nothing changed.
Apply ==
    /\ updater = "idle" /\ updates < MaxUpdates /\ Works(target)
    /\ updates' = updates + 1
    /\ \/ UNCHANGED <<updater, staged>>
       \/ \E release \in Releases :
            /\ ~VersionsEqual(target, release)
            /\ \E asset \in {release, Broken} :
                 \E ti \in FetchArtifact(asset), drive9 \in downloadDrive9Companion :
                   staged' = [ti |-> ti, companion |-> drive9]
            /\ Goto("remove backup")
    /\ UNCHANGED <<target, backup, companion, companionBackup>>

-----------------------------------------------------------------------------
\* replaceBinary.  A failed os.Remove is ignored.
RemovesOldBackup(file) == {NoFile, file}

RemoveBackup ==
    /\ updater = "remove backup"
    /\ backup' \in RemovesOldBackup(backup)
    /\ Goto("move aside")
    /\ UNCHANGED <<target, companion, companionBackup, staged, updates>>

MoveAside ==
    /\ updater = "move aside"
    /\ \/ backup' = target /\ target' = NoFile /\ Goto("install") /\ UNCHANGED staged
       \/ EndUpdate /\ UNCHANGED <<target, backup>>
    /\ UNCHANGED <<companion, companionBackup, updates>>

Install ==
    /\ updater = "install"
    /\ \/ /\ target' = staged.ti /\ staged' = [staged EXCEPT !.ti = NoFile]
          /\ Goto("validate")
       \/ Goto("roll back: remove") /\ UNCHANGED <<target, staged>>
    /\ UNCHANGED <<backup, companion, companionBackup, updates>>

\* `ti --version` with a limit of ten seconds: a good binary may fail it as well.
SkipsValidation(file) == {TRUE}
validateInstalledBinary(file) == IF Works(file) THEN BOOLEAN ELSE {FALSE}

Validate ==
    /\ updater = "validate"
    /\ \E ok \in validateInstalledBinary(target) :
         Goto(IF ok THEN "drop backup" ELSE "roll back: remove")
    /\ UNCHANGED <<target, backup, companion, companionBackup, staged, updates>>

\* The deferred roll back: both calls are made whatever the first one returns.
RollbackRemove ==
    /\ updater = "roll back: remove"
    /\ target' \in {NoFile, target}
    /\ Goto("roll back: rename")
    /\ UNCHANGED <<backup, companion, companionBackup, staged, updates>>

RollbackRename ==
    /\ updater = "roll back: rename"
    /\ \/ target' = backup /\ backup' = NoFile
       \/ UNCHANGED <<target, backup>>
    /\ EndUpdate
    /\ UNCHANGED <<companion, companionBackup, updates>>

DropBackup ==
    /\ updater = "drop backup"
    /\ backup' \in {NoFile, backup}
    /\ Goto("companion: remove backup")
    /\ UNCHANGED <<target, companion, companionBackup, staged, updates>>

-----------------------------------------------------------------------------
\* replaceFile, for the companion: nothing is validated, and there may be no file
\* to put back.
CompanionRemoveBackup ==
    /\ updater = "companion: remove backup"
    /\ companionBackup' \in {NoFile, companionBackup}
    /\ Goto("companion: move aside")
    /\ UNCHANGED <<target, backup, companion, staged, updates>>

CompanionMoveAside ==
    /\ updater = "companion: move aside"
    /\ \/ /\ companion = NoFile
          /\ Goto("companion: install new") /\ UNCHANGED <<companion, companionBackup, staged>>
       \/ /\ companion # NoFile
          /\ \/ /\ companionBackup' = companion /\ companion' = NoFile
                /\ Goto("companion: install") /\ UNCHANGED staged
             \/ EndUpdate /\ UNCHANGED <<companion, companionBackup>>
    /\ UNCHANGED <<target, backup, updates>>

CompanionInstall ==
    /\ updater \in {"companion: install", "companion: install new"}
    /\ \/ /\ companion' = staged.companion
          /\ companionBackup' \in (IF updater = "companion: install"
                                   THEN {NoFile, companionBackup} ELSE {companionBackup})
          /\ EndUpdate
       \/ /\ updater = "companion: install"
          /\ Goto("companion: roll back") /\ UNCHANGED <<companion, companionBackup, staged>>
       \/ /\ updater = "companion: install new"
          /\ EndUpdate /\ UNCHANGED <<companion, companionBackup>>
    /\ UNCHANGED <<target, backup, updates>>

CompanionRollback ==
    /\ updater = "companion: roll back"
    /\ \/ companion' = companionBackup /\ companionBackup' = NoFile
       \/ companion' \in {NoFile, companion} /\ UNCHANGED companionBackup
    /\ EndUpdate
    /\ UNCHANGED <<target, backup, updates>>

\* The process is killed, or the machine stops: no deferred call runs.  The staged
\* files stay behind under names that are never used again.
Kill ==
    /\ updater # "idle"
    /\ EndUpdate
    /\ UNCHANGED <<target, backup, companion, companionBackup, updates>>

Next ==
    \/ Apply \/ RemoveBackup \/ MoveAside \/ Install \/ Validate
    \/ RollbackRemove \/ RollbackRename \/ DropBackup
    \/ CompanionRemoveBackup \/ CompanionMoveAside \/ CompanionInstall
    \/ CompanionRollback \/ Kill

Spec == Init /\ [][Next]_updateVars

-----------------------------------------------------------------------------
\* Whatever fails and whenever the process is killed, a ti that starts is at its
\* path or in the backup beside it: the old binary is given up only for one that
\* replaceBinary has seen start, and a leftover backup only by a ti that runs.
RecoverableInstall == Works(target) \/ Works(backup)
=============================================================================
