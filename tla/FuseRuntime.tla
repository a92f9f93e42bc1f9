---------------------------- MODULE FuseRuntime -----------------------------
(***************************************************************************)
(* Remote files of the native FUSE runtime (internal/fs/fuse_mount.go,     *)
(* fuse_writeback.go, fuse_version.go, fuse_mount_control.go): open        *)
(* handles keep a copy of a file and the version it was read at; a flush   *)
(* first records the write under the file's path in the write-back cache,  *)
(* compares the remote version with its own, uploads, and clears the       *)
(* record.  Other clients change the same files, requests fail or lose     *)
(* their replies, the mount process is killed and mounted again, and a   *)
(* drain runs beside the flushes of the applications.                      *)
(*                                                                         *)
(* The content of a file is the set of writes that are in it.  A version   *)
(* is a number that no two states of a file share, 0 when it is not known. *)
(***************************************************************************)
EXTENDS Naturals, FiniteSets

\* Budgets: how many writes of the applications and of the other client, files
\* created or opened, and upsets (unlinks, renames, failed requests, lost replies and
\* kills) a behaviour may have, and whether its files fit the write-back cache: one of
\* these records.
CONSTANTS Handles, Paths, Budgets

VARIABLES
    remote,   \* per path: [version, content, theirs], version 0 when absent
    version,  \* the last version the server gave
    handle,   \* per handle: the remoteFuseFile
    job,      \* per handle, and for the recovery: the upload it is in
    pendData, \* per path: the .dat file of the write-back cache
    pendMeta, \* per path: the .json file
    drain,    \* the drain: "none", "handles", "recover", "ok" or "failed"
    toDrain,  \* handles it has still to flush
    toRecover, \* per path: the metadata a recovery has read and not yet uploaded
    naming,   \* the unlink or rename that is under way
    mount,    \* the mount process: "up", "down", or "starting" while it recovers
    done,     \* writes that were in the content of a remote file at some time
    givenUp,  \* writes that a truncation, an unlink, a kill or a failed close dropped
    before,   \* writes made before the drain began
    buried,   \* versions of the other client that an upload replaced unseen
    excused,  \* of those, the ones the code cannot see (see the windows below)
    written,  \* writes of the applications so far
    left      \* what is left of the budget

vars == <<remote, version, handle, job, pendData, pendMeta, drain, toDrain,
          toRecover, naming, mount, done, givenUp, before, buried, excused, written, left>>

Recovery == "recovery"
NoPath == "none"
Jobs == Handles \cup {Recovery}
Unknown == 0
None == [content |-> {}, base |-> Unknown, here |-> FALSE]
Absent == [version |-> Unknown, content |-> {}, theirs |-> FALSE]
noJob == [step |-> "idle", path |-> NoPath, content |-> {},
          base |-> Unknown, from |-> Unknown, stored |-> FALSE, by |-> "none"]
closedHandle == [open |-> FALSE, path |-> NoPath, content |-> {},
                 base |-> Unknown, from |-> Unknown, dirty |-> FALSE, deleted |-> FALSE]

ASSUME FuseAssumption ==
    /\ Recovery \notin Handles
    /\ Budgets \subseteq [cached : BOOLEAN, opens : Nat, writes : Nat, others : Nat, upsets : Nat]

noNaming == [step |-> "idle", path |-> NoPath, to |-> NoPath, version |-> Unknown, left |-> {}]

Init ==
    /\ remote = [p \in Paths |-> Absent] /\ version = 0
    /\ handle = [h \in Handles |-> closedHandle]
    /\ job = [j \in Jobs |-> noJob]
    /\ pendData = [p \in Paths |-> None] /\ pendMeta = [p \in Paths |-> None]
    /\ drain = "none" /\ toDrain = {} /\ naming = noNaming /\ mount = "up"
    /\ done = {} /\ givenUp = {} /\ before = {} /\ buried = {} /\ excused = {}
    /\ toRecover = [p \in Paths |-> None]
    /\ written = {} /\ left \in Budgets

cacheVars == <<pendData, pendMeta>>
drainVars == <<drain, toDrain, toRecover, before>>
remoteVars == <<remote, version, done, buried>>

Spend(what) == left[what] > 0 /\ left' = [left EXCEPT ![what] = @ - 1]
\* The mutex of a handle is held for the whole of a flush.
Free(h) == job[h].step = "idle"
Usable(h) == mount = "up" /\ handle[h].open /\ Free(h)
Unused(h) == mount = "up" /\ ~handle[h].open /\ Free(h) /\ h \notin toDrain
\* A closed handle is still flushed by a drain that has it in its snapshot.
Closed(h) == IF h \in toDrain THEN [handle[h] EXCEPT !.open = FALSE] ELSE closedHandle
Stored == version + 1

serveVars == <<naming, mount>>

-----------------------------------------------------------------------------
\* writeFileWithDirty: without a write-back cache, or for a file larger than its limit,
\* the upload is not recorded.
newJob(f, by) ==
    [step |-> IF left.cached THEN "putData" ELSE "check", path |-> f.path, content |-> f.content,
     base |-> f.base, from |-> f.from, stored |-> left.cached, by |-> by]

\* Create: an empty file is uploaded at once, without a version to compare.  The
\* kernel creates a name once at a time, and only one that it did not find.
Create(h, p) ==
    /\ Unused(h) /\ remote[p] = Absent /\ Spend("opens")
    /\ \A g \in Handles : ~(job[g].by = "create" /\ job[g].path = p)
    /\ handle' = [handle EXCEPT ![h] = [closedHandle EXCEPT !.open = TRUE, !.path = p]]
    /\ job' = [job EXCEPT ![h] = newJob(handle'[h], "create")]
    /\ UNCHANGED <<remoteVars, cacheVars, drainVars, serveVars, givenUp, excused, written>>

\* dirtyOpenHandleData: a dirty handle of the same file is read instead of the remote.
DirtyHandles(p) == {g \in Handles : /\ handle[g].open /\ ~handle[g].deleted
                                    /\ handle[g].path = p /\ handle[g].dirty}

\* Open for writing, with and without O_TRUNC.  The version is asked for before the
\* content is read: a change in between only makes the handle older than it is.
Open(h, p) ==
    /\ Unused(h) /\ remote[p] # Absent /\ Spend("opens")
    /\ LET fresh == [closedHandle EXCEPT !.open = TRUE, !.path = p,
                                         !.base = remote[p].version, !.from = remote[p].version]
       IN  \/ handle' = [handle EXCEPT ![h] = [fresh EXCEPT !.dirty = TRUE]]
           \/ /\ DirtyHandles(p) = {}
              /\ handle' = [handle EXCEPT ![h] = [fresh EXCEPT !.content = remote[p].content]]
           \/ \E g \in DirtyHandles(p) :
                handle' = [handle EXCEPT ![h] = [fresh EXCEPT !.content = handle[g].content,
                                                              !.base = handle[g].base,
                                                              !.from = handle[g].from]]
    /\ UNCHANGED <<remoteVars, job, cacheVars, drainVars, serveVars, givenUp, excused, written>>

\* The handle's Write; Setattr with a size is one that drops content.
Write(h) ==
    /\ Usable(h) /\ Spend("writes")
    /\ written' = written \cup {Cardinality(written) + 1}
    /\ \E kept \in {handle[h].content, {}} :
         /\ handle' = [handle EXCEPT ![h].content = kept \cup (written' \ written), ![h].dirty = TRUE]
         /\ givenUp' = givenUp \cup (handle[h].content \ kept)
    /\ UNCHANGED <<remoteVars, job, cacheVars, drainVars, serveVars, excused>>

\* flushLocked: nothing to do for a clean handle; a deleted file is dropped.
NeedsUpload(h) == handle[h].dirty /\ ~handle[h].deleted

FlushLocked(h, by) ==
    \/ /\ NeedsUpload(h)
       /\ job' = [job EXCEPT ![h] = newJob(handle[h], by)]
       /\ UNCHANGED <<handle, givenUp>>
    \/ /\ ~NeedsUpload(h)
       /\ handle' = [handle EXCEPT ![h] = IF by = "release" \/ ~handle[h].open THEN Closed(h)
                                          ELSE [handle[h] EXCEPT !.dirty = FALSE]]
       /\ givenUp' = IF handle[h].dirty THEN givenUp \cup handle[h].content ELSE givenUp
       /\ UNCHANGED job

\* Flush and Fsync.
Flush(h) ==
    /\ Usable(h) /\ handle[h].dirty /\ FlushLocked(h, "flush")
    /\ UNCHANGED <<remoteVars, cacheVars, drainVars, serveVars, excused, written, left>>

\* The handle is gone from the table whatever its last flush returns.
Release(h) ==
    /\ Usable(h) /\ FlushLocked(h, "release")
    /\ UNCHANGED <<remoteVars, cacheVars, drainVars, serveVars, excused, written, left>>

-----------------------------------------------------------------------------
\* put: the data, then the metadata, each by a rename.
Step(j, step) == job' = [job EXCEPT ![j].step = step]

PutData(j) ==
    /\ job[j].step = "putData"
    /\ pendData' = [pendData EXCEPT ![job[j].path] =
                      [content |-> job[j].content, base |-> Unknown, here |-> TRUE]]
    /\ Step(j, "putMeta")
    /\ UNCHANGED <<remoteVars, handle, pendMeta, drainVars, serveVars, givenUp, excused, written, left>>

PutMeta(j) ==
    /\ job[j].step = "putMeta"
    /\ pendMeta' = [pendMeta EXCEPT ![job[j].path] =
                      [content |-> job[j].content, base |-> job[j].base, here |-> TRUE]]
    /\ Step(j, "check")
    /\ UNCHANGED <<remoteVars, handle, pendData, drainVars, serveVars, givenUp, excused, written, left>>

\* The recovery stops at its first error, and with it the drain or the mount.
RecoveryFails ==
    /\ drain' = IF drain = "recover" THEN "failed" ELSE drain
    /\ mount' = IF mount = "starting" THEN "down" ELSE mount

\* What a failed upload leaves of its handle: one that was being closed or created is
\* gone, any other stays dirty.  The record stays in the cache.
ForgetsDirty(h) == IF job[h].by \in {"release", "create"} THEN Closed(h)
                   ELSE [handle[h] EXCEPT !.dirty = FALSE]
afterFailure(h) == IF job[h].by \in {"release", "create"} THEN Closed(h) ELSE handle[h]

Fail(j) ==
    /\ job' = [job EXCEPT ![j] = noJob]
    /\ \/ j = Recovery /\ RecoveryFails /\ UNCHANGED <<handle, givenUp, toDrain>>
       \/ /\ j # Recovery /\ handle' = [handle EXCEPT ![j] = afterFailure(j)]
          /\ givenUp' = IF job[j].by = "release" THEN givenUp \cup job[j].content ELSE givenUp
          /\ drain' = (IF job[j].by = "drain" THEN "failed" ELSE drain)
          /\ toDrain' = (IF job[j].by = "drain" THEN {} ELSE toDrain)
          /\ UNCHANGED mount
    /\ UNCHANGED <<before, toRecover, naming>>

\* Neither version may be missing for them to be compared.
IgnoresConflict(base, now) == FALSE
conflictsWith(base, now) == base # Unknown /\ now # base

CheckWriteBase(j) ==
    /\ job[j].step = "check"
    /\ LET now == remote[job[j].path].version IN
       \/ /\ ~conflictsWith(job[j].base, now)
          /\ Step(j, "send") /\ UNCHANGED <<givenUp, handle, drainVars, serveVars>>
       \/ conflictsWith(job[j].base, now) /\ Fail(j)
    /\ UNCHANGED <<remoteVars, cacheVars, excused, written, left>>

\* What the server stores, and whose unseen version that replaces.
Put(j) ==
    LET p == job[j].path IN
    /\ version' = Stored
    /\ remote' = [remote EXCEPT ![p] = [version |-> Stored, content |-> job[j].content, theirs |-> FALSE]]
    /\ done' = done \cup job[j].content
    /\ buried' = IF remote[p].theirs /\ remote[p].version # job[j].from
                 THEN buried \cup {remote[p].version} ELSE buried

\* upload: WriteFile has no precondition; PatchFile has the base as one, falls back to
\* WriteFile when the file is gone, and asks for the new version afterwards.
Send(j) ==
    /\ job[j].step = "send"
    /\ \/ /\ Put(j)
          /\ job' = [job EXCEPT ![j].step = "removeData", ![j].base = Stored, ![j].from = Stored]
          /\ UNCHANGED <<givenUp, handle, drainVars, serveVars, left>>
       \/ /\ job[j].base # Unknown /\ remote[job[j].path].version = job[j].base
          /\ Put(j) /\ job' = [job EXCEPT ![j].step = "restat", ![j].from = Stored]
          /\ UNCHANGED <<givenUp, handle, drainVars, serveVars, left>>
       \/ /\ remote[job[j].path] # Absent /\ conflictsWith(job[j].base, remote[job[j].path].version)
          /\ Fail(j) /\ UNCHANGED <<remoteVars, left>>
       \/ /\ Spend("upsets") /\ Fail(j)
          /\ (Put(j) \/ UNCHANGED remoteVars)
    /\ UNCHANGED <<cacheVars, excused, written>>

\* patchUpload takes the version the file has by now.
Restat(j) ==
    /\ job[j].step = "restat"
    /\ \/ /\ remote[job[j].path] # Absent
          /\ job' = [job EXCEPT ![j].step = "removeData", ![j].base = remote[job[j].path].version]
          /\ UNCHANGED <<givenUp, handle, drainVars, serveVars>>
       \/ remote[job[j].path] = Absent /\ Fail(j)
    /\ UNCHANGED <<remoteVars, cacheVars, excused, written, left>>

RemoveData(j) ==
    /\ job[j].step = "removeData"
    /\ pendData' = IF job[j].stored THEN [pendData EXCEPT ![job[j].path] = None] ELSE pendData
    /\ Step(j, "removeMeta")
    /\ UNCHANGED <<remoteVars, handle, pendMeta, drainVars, serveVars, givenUp, excused, written, left>>

\* The end of flushLocked and of Create.
RemoveMeta(j) ==
    /\ job[j].step = "removeMeta"
    /\ pendMeta' = IF job[j].stored THEN [pendMeta EXCEPT ![job[j].path] = None] ELSE pendMeta
    /\ job' = [job EXCEPT ![j] = noJob]
    /\ handle' = IF j = Recovery THEN handle
                 ELSE [handle EXCEPT ![j] =
                         IF job[j].by = "release" \/ ~handle[j].open
                         THEN [Closed(j) EXCEPT !.dirty = FALSE]
                         ELSE [@ EXCEPT !.base = job[j].base, !.from = job[j].from, !.dirty = FALSE]]
    /\ UNCHANGED <<remoteVars, pendData, drainVars, serveVars, givenUp, excused, written, left>>

-----------------------------------------------------------------------------
\* Unlink and Rename: the server is told first, then every handle, each under its
\* mutex, so that a flush may be in its middle when the file goes.
Unlink(p) ==
    /\ mount = "up" /\ naming.step = "idle" /\ remote[p] # Absent
    /\ Spend("upsets")
    /\ remote' = [remote EXCEPT ![p] = Absent]
    /\ naming' = [noNaming EXCEPT !.step = "mark", !.path = p, !.left = {h \in Handles : handle[h].open}]
    /\ UNCHANGED <<version, done, buried, handle, job, cacheVars, drainVars, mount, givenUp, excused, written>>

Rename(p, q) ==
    /\ mount = "up" /\ naming.step = "idle" /\ p # q /\ remote[p] # Absent
    /\ Spend("upsets")
    /\ version' = Stored
    /\ remote' = [remote EXCEPT ![p] = Absent, ![q] = [remote[p] EXCEPT !.version = Stored]]
    /\ naming' = [noNaming EXCEPT !.step = "stat", !.path = p, !.to = q]
    /\ excused' = IF remote[p].theirs THEN excused \cup {Stored} ELSE excused
    /\ UNCHANGED <<done, buried, handle, job, cacheVars, drainVars, mount, givenUp, written>>

\* The version of the new name; without one the handles keep their own.
RenameStat ==
    /\ naming.step = "stat"
    /\ naming' = [naming EXCEPT !.step = "retarget", !.version = remote[naming.to].version,
                                !.left = {h \in Handles : handle[h].open}]
    /\ UNCHANGED <<remoteVars, handle, job, cacheVars, drainVars, mount, givenUp, excused, written, left>>

\* markDeleted and retarget.
NameHandle(h) ==
    /\ naming.step \in {"mark", "retarget"} /\ h \in naming.left /\ Free(h)
    /\ handle' =
         IF handle[h].path # naming.path THEN handle
         ELSE IF naming.step = "mark" THEN [handle EXCEPT ![h].deleted = TRUE]
         ELSE [handle EXCEPT ![h].path = naming.to,
                 ![h].base = IF naming.version = Unknown THEN @ ELSE naming.version,
                 ![h].from = IF naming.version = Unknown THEN @ ELSE naming.version]
    /\ naming' = IF naming.left = {h} THEN noNaming ELSE [naming EXCEPT !.left = @ \ {h}]
    /\ UNCHANGED <<remoteVars, job, cacheVars, drainVars, mount, givenUp, excused, written, left>>

NameNone ==
    /\ naming.step \in {"mark", "retarget"} /\ naming.left = {}
    /\ naming' = noNaming
    /\ UNCHANGED <<remoteVars, handle, job, cacheVars, drainVars, mount, givenUp, excused, written, left>>

\* The windows in which the code cannot see what another client writes: between the
\* comparison and an upload without a precondition, between a patch or a rename and
\* the stat after it, and under a record that carries no version.
InWindow(p) ==
    \/ \E j \in Jobs : /\ job[j].path = p
                       /\ \/ job[j].step \in {"send", "restat"}
                          \/ job[j].step # "idle" /\ job[j].base = Unknown
    \/ naming.step = "stat" /\ naming.to = p
    \/ \E m \in {pendMeta[p], toRecover[p]} : m.here /\ m.base = Unknown

OtherWrites(p) ==
    /\ Spend("others")
    /\ version' = Stored
    /\ remote' = [remote EXCEPT ![p] = [version |-> Stored, content |-> {}, theirs |-> TRUE]]
    /\ excused' = IF InWindow(p) THEN excused \cup {Stored} ELSE excused
    /\ UNCHANGED <<done, buried, handle, job, cacheVars, drainVars, serveVars, givenUp, written>>

-----------------------------------------------------------------------------
\* recover, one record at a time.  A record without data, or with data of another
\* size, is an error; whether two contents have the same size is left open.
Recover(p) ==
    /\ drain = "recover" \/ mount = "starting"
    /\ job[Recovery].step = "idle" /\ toRecover[p].here
    /\ toRecover' = [toRecover EXCEPT ![p] = None]
    /\ \/ /\ pendData[p].here
          /\ job' = [job EXCEPT ![Recovery] =
                      [step |-> "check", path |-> p, content |-> pendData[p].content,
                       base |-> toRecover[p].base, from |-> toRecover[p].base,
                       stored |-> TRUE, by |-> "recovery"]]
          /\ UNCHANGED <<drain, mount>>
       \/ /\ ~pendData[p].here \/ pendData[p].content # toRecover[p].content
          /\ RecoveryFails /\ UNCHANGED job
    /\ UNCHANGED <<remoteVars, handle, cacheVars, toDrain, before, naming, givenUp, excused, written, left>>

Recovered == job[Recovery].step = "idle" /\ \A p \in Paths : ~toRecover[p].here

\* Drain: the handles that are open now, then the records.
StartDrain ==
    /\ mount = "up" /\ drain = "none"
    /\ drain' = "handles" /\ toDrain' = {h \in Handles : handle[h].open}
    /\ before' = written
    /\ UNCHANGED <<toRecover, remoteVars, handle, job, cacheVars, serveVars, givenUp, excused, written, left>>

\* A handle that was closed since the snapshot is flushed like the others.
DrainHandle(h) ==
    /\ drain = "handles" /\ h \in toDrain /\ Free(h)
    /\ toDrain' = toDrain \ {h}
    /\ FlushLocked(h, "drain")
    /\ UNCHANGED <<remoteVars, cacheVars, drain, toRecover, before, serveVars, excused, written, left>>

DrainRecovers ==
    /\ drain = "handles" /\ toDrain = {} /\ \A h \in Handles : job[h].by # "drain"
    /\ drain' = "recover" /\ toRecover' = pendMeta
    /\ UNCHANGED <<remoteVars, handle, job, cacheVars, toDrain, before, serveVars, givenUp, excused, written, left>>

\* drainPendingWorkError, over the handles and the records that there are now.
dirtyHandles == {h \in Handles : handle[h].open /\ handle[h].dirty}
pendingWork == dirtyHandles # {} \/ \E p \in Paths : pendMeta[p].here

DrainEnds ==
    /\ drain = "recover" /\ Recovered
    /\ \A h \in Handles : handle[h].open => Free(h) \/ job[h].by = "create"
    /\ drain' = IF pendingWork THEN "failed" ELSE "ok"
    /\ UNCHANGED <<remoteVars, handle, job, cacheVars, toDrain, toRecover, before, serveVars, givenUp, excused, written, left>>

\* The mount process is killed; the next one recovers every record before it serves.
KillMount ==
    /\ mount # "down" /\ Spend("upsets")
    /\ mount' = "down"
    /\ givenUp' = givenUp \cup UNION {handle[h].content : h \in Handles}
    /\ handle' = [h \in Handles |-> closedHandle] /\ job' = [j \in Jobs |-> noJob]
    /\ drain' = (IF drain \in {"none", "ok"} THEN drain ELSE "failed") /\ toDrain' = {}
    /\ toRecover' = [p \in Paths |-> None] /\ naming' = noNaming
    /\ UNCHANGED <<remoteVars, cacheVars, before, excused, written>>

Mount ==
    /\ \/ mount = "down" /\ mount' = "starting" /\ toRecover' = pendMeta
       \/ mount = "starting" /\ Recovered /\ mount' = "up" /\ UNCHANGED toRecover
    /\ UNCHANGED <<remoteVars, handle, job, cacheVars, drain, toDrain, before, naming, givenUp, excused, written, left>>

Upload(j) == PutData(j) \/ PutMeta(j) \/ CheckWriteBase(j) \/ Send(j) \/ Restat(j)
             \/ RemoveData(j) \/ RemoveMeta(j)
Next ==
    \/ \E h \in Handles : \/ Write(h) \/ Flush(h) \/ Release(h) \/ DrainHandle(h) \/ NameHandle(h)
                          \/ \E p \in Paths : Create(h, p) \/ Open(h, p)
    \/ \E j \in Jobs : Upload(j)
    \/ \E p \in Paths : Unlink(p) \/ OtherWrites(p) \/ Recover(p)
    \/ \E p, q \in Paths : Rename(p, q)
    \/ RenameStat \/ NameNone
    \/ StartDrain \/ DrainRecovers \/ DrainEnds \/ KillMount \/ Mount

Spec == Init /\ [][Next]_vars

-----------------------------------------------------------------------------
\* A change that another client made is replaced by an upload that has not seen it
\* only when it was made in one of the windows above, or before a rename: a change
\* made at any other time is noticed, by later flushes and after a kill as well.
OverwriteOnlyInWindow == buried \subseteq excused

\* A drain that reports success has every write that was made before it began on the
\* server, apart from the writes that were given up before.
DrainedMeansStored == drain = "ok" => before \subseteq done \cup givenUp
=============================================================================
