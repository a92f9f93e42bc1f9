----------------------------- MODULE TokenMgmt -----------------------------
(***************************************************************************)
(* File-system tokens of one file system under one profile: the commands   *)
(* of internal/fs/tokenmgmt/service.go, the local credential and its       *)
(* recovery file with their lock file (internal/fs/fscred/credential.go),  *)
(* token import, and the mount and unmount commands with their mount       *)
(* locator (internal/fs/drive9_companion.go, internal/fs/mountlocator).    *)
(*                                                                         *)
(* Every command is a process of its own; nothing but files connects them. *)
(* One file operation or one remote call is one step.  A process may be    *)
(* killed between any two steps, any file or remote operation may fail, and*)
(* a remote call that fails may still have been applied (lost response).   *)
(*                                                                         *)
(* A remote token has an id, a status and a generation: refresh rotates    *)
(* the plaintext of the same id.  A plaintext is an id and a generation.   *)
(***************************************************************************)
EXTENDS Naturals, FiniteSets

CONSTANTS
  Proc,        \* the processes; each runs one command
  Commands,    \* the commands considered
  MaxId,       \* bound: tokens the server issues
  MaxGen,      \* bound: rotations of one token
  MaxLive,     \* bound: commands running at the same time
  MaxCrashes,  \* bound: processes killed
  None         \* no file, no token, no mount: a value of its own

Command == {"generate", "generateStore", "generateReplace", "refresh", "refreshExplicit",
            "delete", "disable", "enable", "import", "importReplace", "mount",
            "mountExplicit", "unmount", "unmountIgnoreAbsent"}

ASSUME TokenMgmtAssumption ==
  /\ IsFiniteSet(Proc)
  /\ Commands \subseteq Command
  /\ None \notin Command /\ None \notin [owner : Proc, stale : BOOLEAN]
  /\ MaxId \in Nat \ {0} /\ MaxGen \in Nat
  /\ MaxLive \in Nat \ {0} /\ MaxCrashes \in Nat

Id == 1 .. MaxId
Plain == [id : Id, gen : 0 .. MaxGen]

VARIABLES
  remote,    \* remote[i]: status and generation of token i on the server
  creds,     \* the credentials file: a plaintext, and whether its id is stored
  recovery,  \* the .credentials.recovery file
  lockFile,  \* the .credentials.lock file: its creator, older than ten minutes
  proc,      \* the processes
  mount,     \* the plaintext the running mount was started with
  locator,   \* the mount locator file
  printed,   \* plaintexts some command wrote to stdout
  crashes    \* number of processes killed

files == <<creds, recovery, lockFile>>
mounts == <<mount, locator>>
vars == <<remote, files, proc, mounts, printed, crashes>>

Valid(t) == remote[t.id] = [status |-> "active", gen |-> t.gen]

Init ==
  /\ remote = [i \in Id |-> [status |-> IF i = 1 THEN "active" ELSE "unissued", gen |-> 0]]
  /\ printed = {[id |-> 1, gen |-> 0]}
  (* create-file-system and import store no id, generate does.             *)
  /\ creds \in {None} \cup [plain : printed, known : BOOLEAN]
  /\ recovery = None /\ lockFile = None
  /\ proc = [p \in Proc |-> [pc |-> "new", op |-> None, id |-> 0, arg |-> None,
                             token |-> None, known |-> FALSE, new |-> None, out |-> None,
                             ok |-> FALSE, at |-> None]]
  /\ mount = None /\ locator = None /\ crashes = 0

-----------------------------------------------------------------------------
At(p, step) == proc[p].pc = step
Op(p, ops) == proc[p].op \in ops
Goto(p, step) == proc' = [proc EXCEPT ![p].pc = step]
Succeed(p, step) == proc' = [proc EXCEPT ![p].pc = step, ![p].ok = TRUE]

Storing == {"generateStore", "generateReplace"}
Replacing == {"generateReplace", "importReplace"}
Live == {p \in Proc : proc[p].pc \notin {"new", "end", "unshown", "crashed"}}

(* Where a command leaves its function body: the deferred os.Remove of the *)
(* lock file comes first if it holds the lock.                             *)
Leave(p) == IF Op(p, Storing \cup {"refresh"}) THEN "unlock" ELSE "finish"

FirstStep(op) ==
  CASE op = "generate" -> "remoteGenerate"
    [] op \in Storing -> "lock"
    [] op \in {"refresh", "refreshExplicit"} -> "resolve"
    [] op \in {"delete", "disable"} -> "guardId"
    [] op = "enable" -> "remoteMutate"
    [] op \in {"import", "importReplace"} -> "validate"
    [] op \in {"mount", "mountExplicit"} -> "resolveMount"
    [] op \in {"unmount", "unmountIgnoreAbsent"} -> "readLocator"

(* What the user passes: a token id that list shows, a plaintext seen.      *)
IdArguments(op) ==
  IF op \in {"delete", "disable", "enable"}
    THEN {i \in Id : remote[i].status # "unissued"} ELSE {0}
TokenArguments(op) ==
  IF op \in {"refreshExplicit", "import", "importReplace", "mountExplicit"}
    THEN printed ELSE {None}

Begin(p) ==
  /\ At(p, "new")
  /\ Cardinality(Live) < MaxLive
  /\ \E op \in Commands : \E id \in IdArguments(op), arg \in TokenArguments(op) :
       proc' = [proc EXCEPT ![p].pc = FirstStep(op), ![p].op = op, ![p].id = id,
                            ![p].arg = arg]
  /\ UNCHANGED <<remote, files, mounts, printed, crashes>>

(* The result is rendered after the command's function returned, that of a  *)
(* partial failure as well.  An --output or --query that cannot be applied  *)
(* is only noticed here, the write may fail, and a --query may select other *)
(* fields: then the plaintext in the result is not shown.                   *)
Finish(p) ==
  /\ At(p, "finish")
  /\ \/ /\ printed' = IF proc[p].out = None THEN printed ELSE printed \cup {proc[p].out}
        /\ Goto(p, "end")
     \/ /\ proc[p].out # None
        /\ Goto(p, "unshown")
        /\ UNCHANGED printed
  /\ UNCHANGED <<remote, files, mounts, crashes>>

Crash(p) ==
  /\ p \in Live
  /\ crashes < MaxCrashes
  /\ crashes' = crashes + 1
  /\ proc' = [proc EXCEPT ![p].pc = "crashed", ![p].at = proc[p].pc]
  /\ UNCHANGED <<remote, files, mounts, printed>>

-----------------------------------------------------------------------------
(* WithCredentialLock: O_CREATE|O_EXCL, polled; a lock file older than ten  *)
(* minutes is removed by whoever sees it, in a step apart from looking.     *)
EnterStep(p) == IF Op(p, Storing) THEN "preflight"
                ELSE IF Op(p, {"refresh"}) THEN "recheck" ELSE "cleanup"

CreatesExclusively == lockFile = None

AcquireLock(p) ==
  /\ At(p, "lock")
  /\ CreatesExclusively
  /\ lockFile' = [owner |-> p, stale |-> FALSE]
  /\ Goto(p, EnterStep(p))
  /\ UNCHANGED <<remote, creds, recovery, mounts, printed, crashes>>

(* Mutant: a lock file is never considered abandoned.                       *)
NeverStale == FALSE
LockIsStale == lockFile # None /\ lockFile.stale

SeeStaleLock(p) ==
  /\ At(p, "lock")
  /\ LockIsStale
  /\ Goto(p, "takeover")
  /\ UNCHANGED <<remote, files, mounts, printed, crashes>>

RemoveStaleLock(p) ==
  /\ At(p, "takeover")
  /\ lockFile' = None
  /\ Goto(p, "lock")
  /\ UNCHANGED <<remote, creds, recovery, mounts, printed, crashes>>

(* The user interrupts the wait.                                            *)
LockCancelled(p) ==
  /\ At(p, "lock")
  /\ lockFile # None
  /\ Goto(p, "finish")
  /\ UNCHANGED <<remote, files, mounts, printed, crashes>>

ReleaseLock(p) ==
  /\ At(p, "unlock")
  /\ lockFile' = None
  /\ Goto(p, "finish")
  /\ UNCHANGED <<remote, creds, recovery, mounts, printed, crashes>>

(* Ten minutes pass.  A running command is taken to finish sooner, so only  *)
(* the file of a killed process gets this old.                              *)
LockAges ==
  /\ lockFile # None
  /\ ~lockFile.stale
  /\ At(lockFile.owner, "crashed")
  /\ lockFile' = [lockFile EXCEPT !.stale = TRUE]
  /\ UNCHANGED <<remote, creds, recovery, proc, mounts, printed, crashes>>

-----------------------------------------------------------------------------
(* Generate with --store-locally, under the lock.  The target directory may *)
(* turn out not to be writable.                                             *)
GeneratePreflight(p) ==
  /\ At(p, "preflight")
  /\ \/ Goto(p, "unlock")
     \/ (creds # None => Op(p, Replacing)) /\ Goto(p, "remoteGenerate")
  /\ UNCHANGED <<remote, files, mounts, printed, crashes>>

GenerateError(p) == Leave(p)

RemoteGenerate(p) ==
  /\ At(p, "remoteGenerate")
  /\ \/ \E i \in Id :
          /\ remote[i].status = "unissued"
          /\ \A j \in 1 .. i - 1 : remote[j].status # "unissued"
          /\ remote' = [remote EXCEPT ![i] = [status |-> "active", gen |-> 0]]
          /\ LET t == [id |-> i, gen |-> 0] IN
             \/ /\ Op(p, Storing)
                /\ proc' = [proc EXCEPT ![p].pc = "store", ![p].new = t]
             \/ /\ ~Op(p, Storing)
                /\ proc' = [proc EXCEPT ![p].pc = "finish", ![p].new = t, ![p].out = t]
             \/ Goto(p, GenerateError(p))                      \* response lost
     \/ Goto(p, GenerateError(p)) /\ UNCHANGED remote
  /\ UNCHANGED <<files, mounts, printed, crashes>>

-----------------------------------------------------------------------------
(* StoreCredentialRecord: look at the existing file, replace it atomically, *)
(* read it back.  Generate calls it under the lock, import does not.        *)
Importing(p) == Op(p, {"import", "importReplace"})
Record(p) == [plain |-> IF Importing(p) THEN proc[p].arg ELSE proc[p].new,
              known |-> ~Importing(p)]
StoreFailed(p) == Goto(p, IF Importing(p) THEN "finish" ELSE "rollback")
Stored(p) ==
  proc' = [proc EXCEPT ![p].pc = Leave(p), ![p].ok = TRUE, ![p].out = proc[p].new]

StoreLooks(p) ==
  /\ At(p, "store")
  /\ \/ creds = Record(p) /\ Stored(p)
     \/ creds # Record(p) /\ (creds # None => Op(p, Replacing)) /\ Goto(p, "write")
     \/ creds # Record(p) /\ StoreFailed(p)
  /\ UNCHANGED <<remote, files, mounts, printed, crashes>>

(* writeTOML: a temporary file renamed over the credentials, then chmod.    *)
StoreWrites(p) ==
  /\ At(p, "write")
  /\ \/ creds' = Record(p) /\ Goto(p, "verify")
     \/ creds' \in {creds, Record(p)} /\ StoreFailed(p)
  /\ UNCHANGED <<remote, recovery, lockFile, mounts, printed, crashes>>

StoreVerifies(p) ==
  /\ At(p, "verify")
  /\ \/ creds # None /\ creds.plain = Record(p).plain /\ Stored(p)
     \/ StoreFailed(p)
  /\ UNCHANGED <<remote, files, mounts, printed, crashes>>

Revoke(i) == remote' = [remote EXCEPT ![i].status = "revoked"]

(* Mutant: a failing rollback returns the plain error.                      *)
RollbackSilently(p) ==
  /\ At(p, "rollback")
  /\ UNCHANGED remote \/ Revoke(proc[p].new.id)
  /\ Goto(p, "unlock")
  /\ UNCHANGED <<files, mounts, printed, crashes>>

(* The token just generated is revoked; if that fails it is shown instead.  *)
Rollback(p) ==
  /\ At(p, "rollback")
  /\ \/ Revoke(proc[p].new.id) /\ Goto(p, "unlock")
     \/ /\ UNCHANGED remote \/ Revoke(proc[p].new.id)
        /\ proc' = [proc EXCEPT ![p].pc = "unlock", ![p].out = proc[p].new]
  /\ UNCHANGED <<files, mounts, printed, crashes>>

(* The companion checks an imported token against the server.               *)
ImportValidates(p) ==
  /\ At(p, "validate")
  /\ \/ Valid(proc[p].arg) /\ Goto(p, "store")
     \/ Goto(p, "finish")
  /\ UNCHANGED <<remote, files, mounts, printed, crashes>>

-----------------------------------------------------------------------------
(* Disable, Enable and Delete name a token by its id.                       *)
(* Mutant: the mounts are not consulted.                                    *)
NoMountUsesId(i) == FALSE
MountUsesId(i) == locator # None /\ locator.known /\ locator.plain.id = i

guardTokenIDMount(p) ==
  /\ At(p, "guardId")
  /\ Goto(p, IF MountUsesId(proc[p].id) THEN "finish" ELSE "remoteMutate")
  /\ UNCHANGED <<remote, files, mounts, printed, crashes>>

(* Mutant: Delete cleans up without waiting for the lock.                   *)
CleansUpUnlocked == "cleanup"
CleansUpLocked == "lock"

MutatedStatus(op) == CASE op = "disable" -> "disabled" [] op = "enable" -> "active"
                       [] op = "delete" -> "revoked"

RemoteMutate(p) ==
  /\ At(p, "remoteMutate")
  /\ LET i == proc[p].id IN
     \/ /\ remote[i].status # "revoked"
        /\ remote' = [remote EXCEPT ![i].status = MutatedStatus(proc[p].op)]
        /\ \/ Op(p, {"delete"}) /\ Goto(p, CleansUpLocked)
           \/ ~Op(p, {"delete"}) /\ Succeed(p, "finish")
           \/ Goto(p, "finish")                                \* response lost
     \/ Goto(p, "finish") /\ UNCHANGED remote
  /\ UNCHANGED <<files, mounts, printed, crashes>>

(* DeleteCredentialIfTokenID: only a credential stored with this id.        *)
DeleteLooks(p) ==
  /\ At(p, "cleanup")
  /\ IF creds # None /\ creds.known /\ creds.plain.id = proc[p].id
       THEN Goto(p, "removeAll")
       ELSE Succeed(p, "unlock")
  /\ UNCHANGED <<remote, files, mounts, printed, crashes>>

(* DeleteCredential removes the directory, the recovery file with it.       *)
DeleteRemoves(p) ==
  /\ At(p, "removeAll")
  /\ \/ creds = None /\ UNCHANGED <<creds, recovery>> /\ Succeed(p, "unlock")
     \/ creds # None /\ creds' = None /\ recovery' = None /\ Succeed(p, "unlock")
     \/ creds' \in {creds, None} /\ recovery' \in {recovery, None} /\ Goto(p, "unlock")
  /\ UNCHANGED <<remote, lockFile, mounts, printed, crashes>>

-----------------------------------------------------------------------------
(* Refresh of the stored token, or of one passed explicitly.                *)
resolveRefresh(p) ==
  /\ At(p, "resolve")
  /\ IF Op(p, {"refresh"}) /\ creds = None
       THEN Goto(p, "finish")
       ELSE proc' = [proc EXCEPT ![p].pc = "guardToken", ![p].token =
                       IF Op(p, {"refresh"}) THEN creds.plain ELSE proc[p].arg]
  /\ UNCHANGED <<remote, files, mounts, printed, crashes>>

(* Mutant: the mounts are not consulted.                                    *)
NoMountUses(t) == FALSE
MountUses(t) == locator # None /\ locator.plain = t

(* guardTokenFingerprintMount, before the lock and again under it.          *)
guardTokenFingerprintMount(p) ==
  /\ \/ /\ At(p, "guardToken")
        /\ Goto(p, IF MountUses(proc[p].token) THEN "finish"
                   ELSE IF Op(p, {"refresh"}) THEN "lock" ELSE "remoteRefresh")
     \/ /\ At(p, "guardAgain")
        /\ Goto(p, IF MountUses(proc[p].token) THEN "unlock" ELSE "remoteRefresh")
  /\ UNCHANGED <<remote, files, mounts, printed, crashes>>

(* Mutants: the stored token is not compared; a left-over recovery file is  *)
(* cleared away.                                                            *)
RecheckPresence(p) ==
  /\ At(p, "recheck")
  /\ Goto(p, IF creds = None THEN "unlock" ELSE "guardAgain")
  /\ UNCHANGED <<remote, files, mounts, printed, crashes>>
RecheckClearing(p) ==
  /\ At(p, "recheck")
  /\ recovery' = None
  /\ Goto(p, IF creds = None \/ creds.plain # proc[p].token THEN "unlock" ELSE "guardAgain")
  /\ UNCHANGED <<remote, creds, lockFile, mounts, printed, crashes>>

(* The credential is read again under the lock and must still hold the      *)
(* token resolved before it; the directory must be writable.                *)
RefreshRechecks(p) ==
  /\ At(p, "recheck")
  /\ \/ creds # None /\ creds.plain = proc[p].token /\ Goto(p, "guardAgain")
     \/ Goto(p, "unlock")
  /\ UNCHANGED <<remote, files, mounts, printed, crashes>>

(* One POST, never repeated.  A lost response is reported as ambiguous.     *)
refreshRemote(p) ==
  /\ At(p, "remoteRefresh")
  /\ LET t == proc[p].token
         n == [id |-> t.id, gen |-> t.gen + 1] IN
     \/ /\ Valid(t) /\ t.gen < MaxGen
        /\ remote' = [remote EXCEPT ![t.id].gen = n.gen]
        /\ \/ /\ Op(p, {"refresh"})
              /\ proc' = [proc EXCEPT ![p].pc = "writeRecovery", ![p].new = n, ![p].out = n]
           \/ /\ ~Op(p, {"refresh"})
              /\ proc' = [proc EXCEPT ![p].pc = "finish", ![p].new = n, ![p].out = n]
           \/ Goto(p, Leave(p))                                \* response lost
     \/ Goto(p, Leave(p)) /\ UNCHANGED remote
  /\ UNCHANGED <<files, mounts, printed, crashes>>

WriteRecoveryCredential(p) ==
  /\ At(p, "writeRecovery")
  /\ \/ recovery' = proc[p].new /\ Goto(p, "commit")
     \/ recovery' \in {recovery, proc[p].new} /\ Goto(p, "unlock")
  /\ UNCHANGED <<remote, creds, lockFile, mounts, printed, crashes>>

(* The recovery file is renamed over the credentials, then chmod.           *)
CommitRecoveryCredential(p) ==
  /\ At(p, "commit")
  /\ \/ /\ recovery # None
        /\ creds' = [plain |-> recovery, known |-> TRUE] /\ recovery' = None
        /\ Succeed(p, "unlock") \/ Goto(p, "unlock")
     \/ UNCHANGED <<creds, recovery>> /\ Goto(p, "unlock")
  /\ UNCHANGED <<remote, lockFile, mounts, printed, crashes>>

-----------------------------------------------------------------------------
(* mount-file-system: the companion is started with the token resolved from *)
(* the credentials or passed explicitly, then the locator is written; a     *)
(* failure to write it unmounts again, and may fail to.                     *)
ResolveCredential(p) ==
  /\ At(p, "resolveMount")
  /\ IF Op(p, {"mount"}) /\ creds = None
       THEN Goto(p, "finish")
       ELSE LET t == IF Op(p, {"mount"}) THEN creds.plain ELSE proc[p].arg IN
            proc' = [proc EXCEPT ![p].pc = "companion", ![p].token = t,
                       ![p].known = creds # None /\ creds.plain = t /\ creds.known]
  /\ UNCHANGED <<remote, files, mounts, printed, crashes>>

CompanionMounts(p) ==
  /\ At(p, "companion")
  /\ \/ mount = None /\ Valid(proc[p].token) /\ mount' = proc[p].token /\ Goto(p, "writeLocator")
     \/ UNCHANGED mount /\ Goto(p, "finish")
  /\ UNCHANGED <<remote, files, locator, printed, crashes>>

writeDrive9MountLocator(p) ==
  /\ At(p, "writeLocator")
  /\ \/ /\ locator' = [plain |-> proc[p].token, known |-> proc[p].known]
        /\ Goto(p, "waitReady") \/ Goto(p, "undoMount")
     \/ UNCHANGED locator /\ Goto(p, "undoMount")
  /\ UNCHANGED <<remote, files, mount, printed, crashes>>

UndoMount(p) ==
  /\ At(p, "undoMount")
  /\ mount' \in {mount, None}
  /\ Goto(p, "finish")
  /\ UNCHANGED <<remote, files, locator, printed, crashes>>

(* A mount that is not ready in time is left running.                       *)
waitForMountReady(p) ==
  /\ At(p, "waitReady")
  /\ Succeed(p, "finish") \/ Goto(p, "finish")
  /\ UNCHANGED <<remote, files, mounts, printed, crashes>>

(* unmount-file-system: the locator says which companion to ask.            *)
drive9MountLocatorProfile(p) ==
  /\ At(p, "readLocator")
  /\ Goto(p, IF locator = None THEN "finish" ELSE "umount")
  /\ UNCHANGED <<remote, files, mounts, printed, crashes>>

CompanionUnmounts(p) ==
  /\ At(p, "umount")
  /\ \/ mount # None /\ mount' = None /\ Goto(p, "removeLocator")
     \/ /\ UNCHANGED mount
        /\ Goto(p, IF Op(p, {"unmountIgnoreAbsent"}) THEN "removeLocator" ELSE "finish")
  /\ UNCHANGED <<remote, files, locator, printed, crashes>>

RemoveLocator(p) ==
  /\ At(p, "removeLocator")
  /\ \/ locator' = None /\ Succeed(p, "finish")
     \/ UNCHANGED locator /\ Goto(p, "finish")
  /\ UNCHANGED <<remote, files, mount, printed, crashes>>

MountDies ==
  /\ mount # None
  /\ mount' = None
  /\ UNCHANGED <<remote, files, proc, locator, printed, crashes>>

-----------------------------------------------------------------------------
LockStep(p) == AcquireLock(p) \/ SeeStaleLock(p) \/ RemoveStaleLock(p) \/ ReleaseLock(p)
GenerateStep(p) == GeneratePreflight(p) \/ RemoteGenerate(p) \/ Rollback(p)
StoreStep(p) == ImportValidates(p) \/ StoreLooks(p) \/ StoreWrites(p) \/ StoreVerifies(p)
MutateStep(p) == guardTokenIDMount(p) \/ RemoteMutate(p) \/ DeleteLooks(p) \/ DeleteRemoves(p)
RefreshStep(p) == resolveRefresh(p) \/ guardTokenFingerprintMount(p) \/ RefreshRechecks(p)
                    \/ refreshRemote(p) \/ WriteRecoveryCredential(p)
                    \/ CommitRecoveryCredential(p)
MountStep(p) == ResolveCredential(p) \/ CompanionMounts(p) \/ writeDrive9MountLocator(p)
                  \/ UndoMount(p) \/ waitForMountReady(p) \/ drive9MountLocatorProfile(p)
                  \/ CompanionUnmounts(p) \/ RemoveLocator(p)
Step(p) == LockStep(p) \/ GenerateStep(p) \/ StoreStep(p) \/ MutateStep(p)
             \/ RefreshStep(p) \/ MountStep(p) \/ Finish(p)

Next ==
  \/ \E p \in Proc : Begin(p) \/ Step(p) \/ LockCancelled(p) \/ Crash(p)
  \/ LockAges
  \/ MountDies

Spec == Init /\ [][Next]_vars

(* A process that is not killed runs on, every remote call returns, and     *)
(* time passes.                                                             *)
Fairness == WF_vars(LockAges) /\ \A p \in Proc : WF_vars(Step(p))
FairSpec == Spec /\ Fairness

-----------------------------------------------------------------------------
(* WithCredentialLock is a lock: no two processes are between its O_EXCL    *)
(* create and its deferred remove at the same time.                         *)
Critical(p) ==
  \/ proc[p].pc \in {"unlock", "preflight", "rollback", "cleanup", "removeAll", "recheck",
                     "guardAgain", "writeRecovery", "commit"}
  \/ proc[p].pc \in {"remoteGenerate", "store", "write", "verify"} /\ Op(p, Storing)
  \/ proc[p].pc = "remoteRefresh" /\ Op(p, {"refresh"})
LockExclusive == \A p, q \in Proc : Critical(p) /\ Critical(q) => p = q

(* A one-time plaintext that reached a command which ran to its end is in   *)
(* the result that is rendered (hence shown to the user, unless just that   *)
(* rendering failed or left it out), or the token was revoked again:        *)
(* whichever of the local writes, the rollback and the commit failed.       *)
NoTokenLost ==
  \A p \in Proc : proc[p].pc \in {"end", "unshown"} /\ proc[p].new # None =>
    \/ proc[p].new \in printed
    \/ At(p, "unshown") /\ proc[p].out = proc[p].new
    \/ remote[proc[p].new.id].status = "revoked"

(* Once delete-file-system-token has reported success, the profile no       *)
(* longer selects that token by its id, and no generate or refresh that was *)
(* in flight puts it back.                                                  *)
DeletedNotSelected ==
  \A p \in Proc : Op(p, {"delete"}) /\ At(p, "end") /\ proc[p].ok =>
    ~(creds # None /\ creds.known /\ creds.plain.id = proc[p].id)

(* A refresh that wrote its recovery file and was then killed keeps the     *)
(* rotated plaintext on disk, in the recovery file or in the credentials,   *)
(* as long as the profile still selects that token and the token is valid.  *)
RotatedKept ==
  \A p \in Proc :
    /\ At(p, "crashed") /\ proc[p].at = "commit" /\ Valid(proc[p].new)
    /\ creds # None /\ creds.plain.id = proc[p].new.id
    => recovery = proc[p].new \/ creds.plain = proc[p].new

(* Refresh replaces the credential it checked, and no other: what it        *)
(* renames its recovery file over still holds the token that was rotated.   *)
CommitReplacesChecked ==
  \A p \in Proc : At(p, "commit") => creds # None /\ creds.plain = proc[p].token

(* A mount whose locator is on disk keeps the token it runs with: it is     *)
(* neither rotated, nor (when the locator knows its id) disabled or revoked *)
(* by a command that runs after mount, or after mount was killed (a command *)
(* that overlaps with mount may read the locators too early).               *)
MountKeepsToken ==
  mount # None /\ locator # None /\ locator.plain = mount =>
    remote[mount.id].gen = mount.gen /\ (locator.known => Valid(mount))

(* generate-file-system-token that reports that the new token was revoked   *)
(* does not leave it selected in the credentials.                           *)
RolledBackNotSelected ==
  \A p \in Proc : At(p, "end") /\ Op(p, Storing) /\ proc[p].new # None /\ proc[p].out = None =>
    ~(creds # None /\ creds.plain = proc[p].new)

(* Every command that is not killed ends, although a process killed inside  *)
(* the lock leaves the lock file behind.                                    *)
CommandsEnd == \A p \in Proc : (p \in Live) ~> (proc[p].pc \in {"end", "unshown", "crashed"})
=============================================================================
