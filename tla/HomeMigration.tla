--------------------------- MODULE HomeMigration ---------------------------
(***************************************************************************)
(* The one-way migration of ~/.tdc to ~/.ti                                *)
(* (internal/config/homemigration/migration.go), which every command of ti *)
(* and the installer run first, each in a process of its own and without a *)
(* lock: look at both directories, copy the durable files into a staging   *)
(* directory, mark and validate it, rename it to ~/.ti.  Afterwards a      *)
(* command uses ~/.ti.  The old tdc may still be in use meanwhile.         *)
(*                                                                         *)
(* One file system call that another process can observe is one step; any  *)
(* of them may fail, and a process may be killed between two of them.      *)
(***************************************************************************)
EXTENDS Naturals, FiniteSets

CONSTANTS
  Proc,         \* processes of ti, each running one command
  File,         \* the durable names of ~/.tdc
  Credentials,  \* the one of them that validateStaged rewrites
  MaxCrashes,   \* bound: processes killed
  None          \* no staging directory: a value of its own

ASSUME HomeAssumption == Credentials \in File /\ MaxCrashes \in Nat

(* A file: absent, half copied, refused by copyEntry (a link, a special     *)
(* file, loose permissions), refused by validateStaged, usable, usable with *)
(* canonical field names, or written by a command of ti.                    *)
Legacy == {"absent", "unsafe", "corrupt", "usable"}
Staged == {"absent", "partial", "corrupt", "usable", "canonical"}
Published == {"absent", "corrupt", "usable", "canonical", "ti"}
Empty == [f \in File |-> "absent"]
Names(tree) == {f \in File : tree[f] # "absent"}

VARIABLES
  legacy,   \* ~/.tdc: whether it exists, its files, a mount still active
  home,     \* ~/.ti: whether it exists, the migration marker, its files
  stage,    \* stage[p]: p's staging directory, and what p found to copy
  pc,       \* control state of each process
  sawLegacy,\* p found ~/.tdc
  todo,     \* the durable names p has still to look at
  crashes   \* number of processes killed

vars == <<legacy, home, stage, pc, sawLegacy, todo, crashes>>

Init ==
  /\ \/ legacy = [present |-> FALSE, files |-> Empty, mounted |-> FALSE]
     \/ legacy \in [present : {TRUE}, files : [File -> Legacy], mounted : BOOLEAN]
  /\ home = [present |-> FALSE, marker |-> FALSE, files |-> Empty, source |-> {}]
  /\ stage = [p \in Proc |-> None]
  /\ pc = [p \in Proc |-> "new"]
  /\ sawLegacy = [p \in Proc |-> FALSE]
  /\ todo = [p \in Proc |-> File]
  /\ crashes = 0

Goto(p, step) == pc' = [pc EXCEPT ![p] = step]
(* An error before and after the deferred RemoveAll is in place.            *)
Fail(p) == Goto(p, IF stage[p] = None THEN "failed" ELSE "cleanup")

-----------------------------------------------------------------------------
StatLegacy(p) ==
  /\ pc[p] = "new"
  /\ sawLegacy' = [sawLegacy EXCEPT ![p] = legacy.present]
  /\ Goto(p, "statHome") \/ Goto(p, "failed")
  /\ UNCHANGED <<legacy, home, stage, todo, crashes>>

(* Both exist: the marker decides.  Only ~/.ti, or neither: nothing to do.  *)
StatHome(p) ==
  /\ pc[p] = "statHome"
  /\ \/ Goto(p, CASE sawLegacy[p] /\ home.present -> "marker"
                  [] sawLegacy[p] /\ ~home.present -> "mounts"
                  [] OTHER -> "run")
     \/ Goto(p, "failed")
  /\ UNCHANGED <<legacy, home, stage, sawLegacy, todo, crashes>>

validMigrationMarker(p) ==
  /\ pc[p] = "marker"
  /\ Goto(p, IF home.marker THEN "run" ELSE "conflict")
  /\ UNCHANGED <<legacy, home, stage, sawLegacy, todo, crashes>>

activeLegacyMount(p) ==
  /\ pc[p] = "mounts"
  /\ \/ ~legacy.mounted /\ Goto(p, "makeStage")
     \/ Goto(p, "failed")
  /\ UNCHANGED <<legacy, home, stage, sawLegacy, todo, crashes>>

(* os.MkdirTemp: a directory of the process's own.                          *)
MakeStage(p) ==
  /\ pc[p] = "makeStage"
  /\ \/ /\ stage' = [stage EXCEPT ![p] = [marker |-> FALSE, files |-> Empty,
                                          source |-> Names(legacy.files)]]
        /\ Goto(p, "copy")
     \/ UNCHANGED stage /\ Goto(p, "failed")
  /\ UNCHANGED <<legacy, home, sawLegacy, todo, crashes>>

(* The loop over durableNames: an absent name is skipped, an unsafe one     *)
(* ends the migration, any other is created in the staging directory.       *)
StageFile(p, f, content) == stage' = [stage EXCEPT ![p].files[f] = content]

copyEntry(p) ==
  /\ pc[p] = "copy"
  /\ \/ \E f \in todo[p] :
          \/ /\ legacy.files[f] = "absent"
             /\ todo' = [todo EXCEPT ![p] = @ \ {f}]
             /\ UNCHANGED <<stage, pc>>
          \/ /\ legacy.files[f] \in {"usable", "corrupt"}
             /\ StageFile(p, f, "partial")
             /\ Goto(p, "copying")
             /\ UNCHANGED todo
     \/ todo[p] # {} /\ Fail(p) /\ UNCHANGED <<stage, todo>>
     \/ todo[p] = {} /\ Goto(p, "mark") /\ UNCHANGED <<stage, todo>>
  /\ UNCHANGED <<legacy, home, sawLegacy, crashes>>

(* Mutant: the error of a copy is not returned.                             *)
CopyUnchecked(p) ==
  /\ pc[p] = "copying" /\ Goto(p, "copy")
  /\ \E f \in todo[p] :
       /\ stage[p].files[f] = "partial"
       /\ StageFile(p, f, legacy.files[f]) \/ UNCHANGED stage
       /\ todo' = [todo EXCEPT ![p] = @ \ {f}]
  /\ UNCHANGED <<legacy, home, sawLegacy, crashes>>

(* copyRegularFile: contents, sync, mode; a failing copy is removed again.  *)
copyRegularFile(p) ==
  /\ pc[p] = "copying"
  /\ \E f \in todo[p] :
       /\ stage[p].files[f] = "partial"
       /\ \/ /\ StageFile(p, f, legacy.files[f])
             /\ todo' = [todo EXCEPT ![p] = @ \ {f}]
             /\ Goto(p, "copy")
          \/ StageFile(p, f, "absent") /\ UNCHANGED todo /\ Fail(p)
  /\ UNCHANGED <<legacy, home, sawLegacy, crashes>>

(* Mutant: the marker is written once the tree is published.                *)
MarkLater(p) ==
  /\ pc[p] = "mark" /\ Goto(p, "validate")
  /\ UNCHANGED <<legacy, home, stage, sawLegacy, todo, crashes>>

(* replaceFile of the marker, in the staging directory.                     *)
WriteMarker(p) ==
  /\ pc[p] = "mark"
  /\ \/ stage' = [stage EXCEPT ![p].marker = TRUE] /\ Goto(p, "validate")
     \/ UNCHANGED stage /\ Fail(p)
  /\ UNCHANGED <<legacy, home, sawLegacy, todo, crashes>>

(* Mutant: what does not parse is left as it is.                            *)
Tolerates(tree) == TRUE
Parses(tree) == \A f \in File : tree[f] # "corrupt"

(* validateStaged parses every file and rewrites the credentials.           *)
validateStaged(p) ==
  /\ pc[p] = "validate"
  /\ \/ /\ Parses(stage[p].files)
        /\ IF stage[p].files[Credentials] = "usable"
             THEN StageFile(p, Credentials, "canonical") ELSE UNCHANGED stage
        /\ Goto(p, "publish")
     \/ UNCHANGED stage /\ Fail(p)
  /\ UNCHANGED <<legacy, home, sawLegacy, todo, crashes>>

(* os.Rename refuses an existing directory it sees with Lstat; between that *)
(* look and rename(2) a directory may appear, which rename(2) replaces only *)
(* if it is empty.                                                          *)
RenameLooks(p) ==
  /\ pc[p] = "publish"
  /\ IF home.present THEN Fail(p) ELSE Goto(p, "rename")
  /\ UNCHANGED <<legacy, home, stage, sawLegacy, todo, crashes>>

(* Mutant: whatever stands at the destination is removed first.             *)
Removable == TRUE
Replaceable == ~home.marker /\ Names(home.files) = {}

Rename(p) ==
  /\ pc[p] = "rename"
  /\ \/ /\ Replaceable
        /\ home' = [present |-> TRUE, marker |-> stage[p].marker, files |-> stage[p].files,
                    source |-> stage[p].source]
        /\ stage' = [stage EXCEPT ![p] = None]
        /\ Goto(p, "run")
     \/ UNCHANGED <<home, stage>> /\ Fail(p)
  /\ UNCHANGED <<legacy, sawLegacy, todo, crashes>>

(* The deferred RemoveAll; its error is ignored.                            *)
Cleanup(p) ==
  /\ pc[p] = "cleanup"
  /\ stage' \in {stage, [stage EXCEPT ![p] = None]}
  /\ Goto(p, "failed")
  /\ UNCHANGED <<legacy, home, sawLegacy, todo, crashes>>

-----------------------------------------------------------------------------
(* The command itself: it may create ~/.ti, then replace or create files.   *)
MakeHome(p) ==
  /\ pc[p] = "run"
  /\ home' = [home EXCEPT !.present = TRUE]
  /\ Goto(p, "write")
  /\ UNCHANGED <<legacy, stage, sawLegacy, todo, crashes>>

WriteHome(p) ==
  /\ pc[p] = "write"
  /\ \/ \E f \in File : home' = [home EXCEPT !.files[f] = "ti"]
     \/ UNCHANGED home
  /\ Goto(p, "end")
  /\ UNCHANGED <<legacy, stage, sawLegacy, todo, crashes>>

(* The old executable creates its directory, adds a file, mounts, unmounts. *)
OldCommand ==
  /\ \/ ~legacy.present /\ legacy' = [legacy EXCEPT !.present = TRUE]
     \/ /\ legacy.present
        /\ \E f \in File : /\ legacy.files[f] = "absent"
                           /\ legacy' = [legacy EXCEPT !.files[f] = "usable"]
     \/ legacy.present /\ legacy' = [legacy EXCEPT !.mounted = ~@]
  /\ UNCHANGED <<home, stage, pc, sawLegacy, todo, crashes>>

Crash(p) ==
  /\ pc[p] \notin {"new", "end", "failed", "conflict", "crashed"}
  /\ crashes < MaxCrashes
  /\ crashes' = crashes + 1
  /\ Goto(p, "crashed")
  /\ UNCHANGED <<legacy, home, stage, sawLegacy, todo>>

Ensure(p) == StatLegacy(p) \/ StatHome(p) \/ validMigrationMarker(p) \/ activeLegacyMount(p)
               \/ MakeStage(p) \/ copyEntry(p) \/ copyRegularFile(p) \/ WriteMarker(p)
               \/ validateStaged(p) \/ RenameLooks(p) \/ Rename(p) \/ Cleanup(p)

Next == (\E p \in Proc : Ensure(p) \/ MakeHome(p) \/ WriteHome(p) \/ Crash(p)) \/ OldCommand

Spec == Init /\ [][Next]_vars

-----------------------------------------------------------------------------
TypeOK ==
  /\ legacy \in [present : BOOLEAN, files : [File -> Legacy], mounted : BOOLEAN]
  /\ home \in [present : BOOLEAN, marker : BOOLEAN, files : [File -> Published],
               source : SUBSET File]
  /\ stage \in [Proc -> {None} \cup [marker : BOOLEAN, files : [File -> Staged],
                                     source : SUBSET File]]
  /\ pc \in [Proc -> {"new", "statHome", "marker", "mounts", "makeStage", "copy", "copying",
                      "mark", "validate", "publish", "rename", "cleanup", "run", "write",
                      "end", "failed", "conflict", "crashed"}]
  /\ sawLegacy \in [Proc -> BOOLEAN]
  /\ todo \in [Proc -> SUBSET File]
  /\ crashes \in 0 .. MaxCrashes

(* There is never a partially initialized ~/.ti: wherever a process fails   *)
(* or is killed, whichever processes race to publish, a ~/.ti that carries  *)
(* the marker has every durable file ~/.tdc had when its copy began, whole, *)
(* parsed, and with canonical credentials.                                  *)
DestinationWhole ==
  home.marker => /\ \A f \in home.source : home.files[f] # "absent"
                 /\ \A f \in File : home.files[f] \notin {"partial", "corrupt"}
                 /\ home.files[Credentials] # "usable"

(* A ~/.ti that holds anything migrated carries the marker, so no later     *)
(* command mistakes it for a second, independent state and refuses to run.  *)
MigratedIsMarked ==
  (\E f \in File : home.files[f] \notin {"absent", "ti"}) => home.marker

(* The migration never replaces a ~/.ti that a command has written into:    *)
(* what ti wrote stays, even if ~/.tdc appears while ti is running.         *)
KeepsCommandData ==
  [][\A f \in File : home.files[f] = "ti" => home'.files[f] = "ti"]_vars
=============================================================================
