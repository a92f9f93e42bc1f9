----------------------------- MODULE FuseProofs -----------------------------
(***************************************************************************)
(* Proofs about the remote files of the native FUSE runtime, for any number*)
(* of handles, paths, writes and upsets.                                   *)
(***************************************************************************)
EXTENDS FuseRuntime, TLAPS, FiniteSetTheorems

-----------------------------------------------------------------------------
Writes == SUBSET Nat
MayBePath == Paths \cup {NoPath}
JobSteps == {"idle", "putData", "putMeta", "check", "send", "restat", "removeData", "removeMeta"}

RemoteFile == [version : Nat, content : Writes, theirs : BOOLEAN]
HandleRecord == [open : BOOLEAN, path : MayBePath, content : Writes, base : Nat, from : Nat,
                 dirty : BOOLEAN, deleted : BOOLEAN]
JobRecord == [step : JobSteps, path : MayBePath, content : Writes, base : Nat, from : Nat,
              stored : BOOLEAN, by : {"none", "create", "flush", "release", "drain", "recovery"}]
Record == [content : Writes, base : Nat, here : BOOLEAN]

FilesTyped == remote \in [Paths -> RemoteFile] /\ version \in Nat
HandlesTyped ==
    /\ handle \in [Handles -> HandleRecord]
    /\ \A h \in Handles : handle[h].open \/ handle[h].dirty => handle[h].path \in Paths
JobsTyped ==
    /\ job \in [Jobs -> JobRecord]
    /\ \A j \in Jobs : job[j].step # "idle" => job[j].path \in Paths
CacheTyped == pendData \in [Paths -> Record] /\ pendMeta \in [Paths -> Record]
RecoverTyped == toRecover \in [Paths -> Record]
NamingTyped ==
    /\ naming \in [step : {"idle", "mark", "stat", "retarget"}, path : MayBePath, to : MayBePath,
                   version : Nat, left : SUBSET Handles]
    /\ naming.step \in {"stat", "retarget"} => naming.to \in Paths
BudgetTyped ==
    left \in [cached : BOOLEAN, opens : Nat, writes : Nat, others : Nat, upsets : Nat]

FuseTypes ==
    /\ FilesTyped /\ HandlesTyped /\ JobsTyped /\ CacheTyped /\ RecoverTyped /\ NamingTyped
    /\ BudgetTyped
    /\ toDrain \subseteq Handles /\ written \subseteq Nat /\ IsFiniteSet(written)

-----------------------------------------------------------------------------
(* No version that anything remembers is newer than the last one given, so *)
(* that a version the other client gets is one nobody has yet; and no two  *)
(* files have the same one.                                                *)
FilesKnown ==
    /\ \A p \in Paths : remote[p].version <= version
    /\ \A p \in Paths : remote[p].theirs => remote[p].version # Unknown
    /\ \A p \in Paths : remote[p].version = Unknown => remote[p] = Absent
    /\ \A p, q \in Paths : remote[p].version = remote[q].version /\ p # q => remote[p].version = Unknown
HandlesKnown == \A h \in Handles : handle[h].base <= version
JobsKnown == \A j \in Jobs : job[j].base <= version
CacheKnown == \A p \in Paths : pendMeta[p].base <= version /\ toRecover[p].base <= version

Remembered ==
    /\ FilesKnown /\ HandlesKnown /\ JobsKnown /\ CacheKnown
    /\ naming.version <= version

(* A handle that can be written to knows the version it was read at: only  *)
(* while its file is created has it none.                                  *)
Knows(h) ==
    /\ handle[h].dirty => handle[h].base # Unknown
    /\ handle[h].open /\ handle[h].base = Unknown => job[h].step # "idle" /\ job[h].by = "create"
    /\ job[h].step # "idle" /\ job[h].by = "create" => ~handle[h].dirty
    /\ job[h].step \in {"removeData", "removeMeta"} => job[h].base # Unknown

KnowsBase == \A h \in Handles : Knows(h)

(* A version of the other client that no window hides: nothing has it as   *)
(* its base without having seen it, and no upload to its path is past the  *)
(* comparison of versions, or can skip it, with another base.              *)
Unhidden(p) == remote[p].theirs /\ remote[p].version \notin excused

Saw(r, v) == r.base = v => r.from = v
Compares(j, p) ==
    job[j].path = p /\ job[j].step # "idle" =>
      /\ job[j].base # Unknown /\ job[j].step # "restat"
      /\ job[j].step = "send" => job[j].base = remote[p].version
Versioned(m) == m.here => m.base # Unknown

Noticed(p) ==
    /\ \A h \in Handles : Saw(handle[h], remote[p].version)
    /\ \A j \in Jobs : Saw(job[j], remote[p].version) /\ Compares(j, p)
    /\ Versioned(pendMeta[p]) /\ Versioned(toRecover[p])

SeenInv == (\A p \in Paths : Unhidden(p) => Noticed(p)) /\ OverwriteOnlyInWindow

-----------------------------------------------------------------------------
(* An upload sends what its handle holds, and once it has sent it all of   *)
(* that has been on the server.                                            *)
Carries(h) ==
    job[h].step # "idle" =>
      /\ job[h].content = handle[h].content
      /\ job[h].step \in {"restat", "removeData", "removeMeta"} => job[h].content \subseteq done

(* Where a write is: on the server or given up, in a handle that has still *)
(* to be uploaded, or in an upload of the drain.                           *)
Saved(w) == w \in done \cup givenUp
Held(w, h) == handle[h].dirty /\ w \in handle[h].content
Drained(w, h) == job[h].step # "idle" /\ job[h].by = "drain" /\ w \in job[h].content

(* Before a drain every write is in an open handle or saved; while it      *)
(* flushes, those made before it are in a handle it has still to flush or  *)
(* in one of its uploads; and after that they are saved.                   *)
Accounted ==
    /\ drain = "none" =>
         /\ toDrain = {}
         /\ \A w \in written : Saved(w) \/ \E h \in Handles : handle[h].open /\ Held(w, h)
    /\ drain = "handles" =>
         \A w \in before : Saved(w) \/ \E h \in Handles : (h \in toDrain /\ Held(w, h)) \/ Drained(w, h)
    /\ drain \in {"recover", "ok"} => \A w \in before : Saved(w)

DrainInv == (\A h \in Handles : Carries(h)) /\ Accounted

-----------------------------------------------------------------------------
(* The types of what the steps build.                                      *)

\* The recovery is a job beside those of the handles.
LEMMA RecoveryIsNoHandle == \A h \in Handles : h # Recovery /\ h \in Jobs
  BY FuseAssumption DEF Jobs

\* The idle job, the closed handle, the empty record and the absent file are of their types.
LEMMA ConstantTypes ==
    /\ noJob \in JobRecord /\ closedHandle \in HandleRecord /\ None \in Record
    /\ Absent \in RemoteFile
  BY DEF noJob, closedHandle, None, Absent, JobRecord, HandleRecord, Record, RemoteFile,
         Writes, MayBePath, NoPath, JobSteps, Unknown

\* newJob, which a flush starts with.
LEMMA NewJobType ==
  ASSUME NEW f \in HandleRecord, BudgetTyped,
         NEW by \in {"create", "flush", "release", "drain"}
  PROVE  newJob(f, by) \in JobRecord
  <1>1. left.cached \in BOOLEAN  BY DEF BudgetTyped
  <1>2. (IF left.cached THEN "putData" ELSE "check") \in JobSteps  BY DEF JobSteps
  <1> QED  BY <1>1, <1>2 DEF newJob, JobRecord, HandleRecord, JobSteps

\* What is left of a closed handle.
LEMMA ClosedType ==
  ASSUME HandlesTyped, NEW h \in Handles
  PROVE  /\ Closed(h) \in HandleRecord /\ ~Closed(h).open
         /\ Closed(h).dirty => Closed(h).path \in Paths
  BY ConstantTypes DEF Closed, HandlesTyped, HandleRecord, closedHandle

\* Spend takes from a budget that is not empty.
LEMMA SpendType ==
  ASSUME BudgetTyped, NEW what \in {"opens", "writes", "others", "upsets"}, Spend(what)
  PROVE  BudgetTyped'
  BY DEF Spend, BudgetTyped

\* A job that is replaced by another one.
LEMMA JobSet ==
  ASSUME JobsTyped, NEW j \in Jobs, NEW r \in JobRecord, r.step # "idle" => r.path \in Paths,
         job' = [job EXCEPT ![j] = r]
  PROVE  JobsTyped' /\ job'[j] = r /\ \A k \in Jobs : k # j => job'[k] = job[k]
  BY DEF JobsTyped

\* A handle that is replaced by another one.
LEMMA HandleSet ==
  ASSUME HandlesTyped, NEW h \in Handles, NEW r \in HandleRecord,
         r.open \/ r.dirty => r.path \in Paths, handle' = [handle EXCEPT ![h] = r]
  PROVE  HandlesTyped' /\ handle'[h] = r /\ \A k \in Handles : k # h => handle'[k] = handle[k]
  BY DEF HandlesTyped

\* Step, of a job that is under way.
LEMMA StepType ==
  ASSUME JobsTyped, NEW j \in Jobs, NEW s \in JobSteps, Step(j, s), job[j].step # "idle"
  PROVE  /\ JobsTyped'
         /\ job'[j] = [job[j] EXCEPT !.step = s]
         /\ \A k \in Jobs : k # j => job'[k] = job[k]
  BY DEF JobsTyped, Step, JobRecord

\* Put: the remote file the job writes.
LEMMA PutType ==
  ASSUME FilesTyped, JobsTyped, NEW j \in Jobs, job[j].step # "idle", Put(j)
  PROVE  /\ FilesTyped'
         /\ remote'[job[j].path] = [version |-> Stored, content |-> job[j].content, theirs |-> FALSE]
         /\ \A p \in Paths : p # job[j].path => remote'[p] = remote[p]
  <1> DEFINE r == [version |-> Stored, content |-> job[j].content, theirs |-> FALSE]
  <1>1. job[j] \in JobRecord /\ job[j].path \in Paths  BY DEF JobsTyped
  <1>2. r \in RemoteFile  BY <1>1 DEF RemoteFile, JobRecord, Stored, FilesTyped
  <1>3. remote' = [remote EXCEPT ![job[j].path] = r] /\ version' = Stored  BY DEF Put
  <1> HIDE DEF r
  <1>4. FilesTyped' /\ remote'[job[j].path] = r
         /\ \A p \in Paths : p # job[j].path => remote'[p] = remote[p]
    BY <1>1, <1>2, <1>3 DEF FilesTyped, Stored
  <1> QED  BY <1>4 DEF r

\* Fail: what a failed upload leaves of the jobs and the handles.
LEMMA FailType ==
  ASSUME JobsTyped, HandlesTyped, toDrain \subseteq Handles, NEW j \in Jobs, Fail(j)
  PROVE  /\ JobsTyped' /\ HandlesTyped' /\ toDrain' \subseteq Handles
         /\ job'[j] = noJob /\ \A k \in Jobs : k # j => job'[k] = job[k]
         /\ \A h \in Handles : h # j => handle'[h] = handle[h]
         /\ j \in Handles => handle'[j] = afterFailure(j)
  <1>1. JobsTyped' /\ job'[j] = noJob /\ \A k \in Jobs : k # j => job'[k] = job[k]
    <2>1. noJob \in JobRecord /\ noJob.step = "idle"  BY ConstantTypes DEF noJob
    <2>2. job' = [job EXCEPT ![j] = noJob]  BY DEF Fail
    <2> QED  BY <2>1, <2>2, JobSet
  <1>2. CASE j = Recovery /\ UNCHANGED <<handle, toDrain>>
    BY <1>1, <1>2, RecoveryIsNoHandle DEF HandlesTyped
  <1>3. CASE j # Recovery /\ handle' = [handle EXCEPT ![j] = afterFailure(j)] /\ toDrain' \subseteq toDrain
    <2>1. j \in Handles  BY <1>3 DEF Jobs
    <2>2. /\ afterFailure(j) \in HandleRecord
          /\ afterFailure(j).open \/ afterFailure(j).dirty => afterFailure(j).path \in Paths
      BY <2>1, ClosedType DEF afterFailure, HandlesTyped
    <2> QED  BY <1>1, <1>3, <2>1, <2>2, HandleSet
  <1>4. toDrain' \subseteq toDrain \/ toDrain' = toDrain  BY DEF Fail
  <1> QED  BY <1>2, <1>3, <1>4 DEF Fail

\* FlushLocked: a job is started, or the handle loses its mark or is closed.
LEMMA FlushType ==
  ASSUME JobsTyped, HandlesTyped, BudgetTyped, NEW h \in Handles,
         NEW by \in {"flush", "release", "drain"}, FlushLocked(h, by)
  PROVE  /\ JobsTyped' /\ HandlesTyped'
         /\ \A k \in Jobs : k # h => job'[k] = job[k]
         /\ \A k \in Handles : k # h => handle'[k] = handle[k]
         /\ \/ NeedsUpload(h) /\ job'[h] = newJob(handle[h], by) /\ UNCHANGED <<handle, givenUp>>
            \/ /\ ~NeedsUpload(h) /\ UNCHANGED job
               /\ handle'[h] = IF by = "release" \/ ~handle[h].open THEN Closed(h)
                               ELSE [handle[h] EXCEPT !.dirty = FALSE]
  <1>h. h \in Jobs /\ handle[h] \in HandleRecord  BY RecoveryIsNoHandle DEF HandlesTyped
  <1>1. CASE NeedsUpload(h) /\ job' = [job EXCEPT ![h] = newJob(handle[h], by)] /\ UNCHANGED <<handle, givenUp>>
    <2>1. newJob(handle[h], by) \in JobRecord  BY <1>h, NewJobType
    <2>2. newJob(handle[h], by).path \in Paths  BY <1>1 DEF newJob, NeedsUpload, HandlesTyped
    <2>3. JobsTyped' /\ job'[h] = newJob(handle[h], by) /\ \A k \in Jobs : k # h => job'[k] = job[k]
      BY <1>h, <1>1, <2>1, <2>2, JobSet
    <2> QED  BY <1>1, <2>3 DEF HandlesTyped
  <1>2. CASE /\ ~NeedsUpload(h) /\ UNCHANGED job
             /\ handle' = [handle EXCEPT ![h] = IF by = "release" \/ ~handle[h].open THEN Closed(h)
                                                ELSE [handle[h] EXCEPT !.dirty = FALSE]]
    <2> DEFINE r == IF by = "release" \/ ~handle[h].open THEN Closed(h)
                    ELSE [handle[h] EXCEPT !.dirty = FALSE]
    <2>1. r \in HandleRecord /\ (r.open \/ r.dirty => r.path \in Paths)
      BY <1>h, ClosedType DEF HandleRecord, HandlesTyped
    <2>2. handle' = [handle EXCEPT ![h] = r]  BY <1>2
    <2> HIDE DEF r
    <2>3. HandlesTyped' /\ handle'[h] = r /\ \A k \in Handles : k # h => handle'[k] = handle[k]
      BY <2>1, <2>2, HandleSet
    <2> QED  BY <1>2, <2>3 DEF JobsTyped, r
  <1> QED  BY <1>1, <1>2 DEF FlushLocked

-----------------------------------------------------------------------------
(* Every state is of these types.                                          *)

\* The initial state.
LEMMA TypesInit == Init => FuseTypes
  <1> SUFFICES ASSUME Init PROVE FuseTypes  OBVIOUS
  <1>1. FilesTyped /\ HandlesTyped /\ CacheTyped /\ RecoverTyped
    BY ConstantTypes DEF Init, FilesTyped, HandlesTyped, CacheTyped, RecoverTyped, closedHandle
  <1>2. JobsTyped  BY ConstantTypes DEF Init, JobsTyped, noJob
  <1>3. NamingTyped  BY DEF Init, NamingTyped, noNaming, MayBePath, Unknown
  <1>4. BudgetTyped  BY FuseAssumption DEF Init, BudgetTyped
  <1>5. IsFiniteSet(written)  BY FS_EmptySet DEF Init
  <1> QED  BY <1>1, <1>2, <1>3, <1>4, <1>5 DEF Init, FuseTypes

\* The steps of an upload.
LEMMA TypesUpload == ASSUME FuseTypes, NEW j \in Jobs, Upload(j) PROVE FuseTypes'
  <1> USE DEF FuseTypes
  <1>j. job[j] \in JobRecord /\ (job[j].step # "idle" => job[j].path \in Paths)  BY DEF JobsTyped
  <1>1. CASE PutData(j)
    <2>1. JobsTyped'  BY <1>1, StepType DEF PutData, JobSteps
    <2>2. CacheTyped'  BY <1>1, <1>j DEF PutData, CacheTyped, Record, JobRecord, Unknown
    <2> QED  BY <1>1, <2>1, <2>2 DEF PutData, FilesTyped, HandlesTyped, RecoverTyped, NamingTyped,
             BudgetTyped, remoteVars, drainVars, serveVars
  <1>2. CASE PutMeta(j)
    <2>1. JobsTyped'  BY <1>2, StepType DEF PutMeta, JobSteps
    <2>2. CacheTyped'  BY <1>2, <1>j DEF PutMeta, CacheTyped, Record, JobRecord
    <2> QED  BY <1>2, <2>1, <2>2 DEF PutMeta, FilesTyped, HandlesTyped, RecoverTyped, NamingTyped,
             BudgetTyped, remoteVars, drainVars, serveVars
  <1>3. CASE CheckWriteBase(j)
    <2>1. JobsTyped' /\ HandlesTyped' /\ toDrain' \subseteq Handles /\ UNCHANGED <<naming, toRecover>>
      <3>1. CASE Step(j, "send") /\ UNCHANGED <<handle, drainVars, serveVars>>
        BY <1>3, <3>1, StepType DEF CheckWriteBase, JobSteps, HandlesTyped, drainVars, serveVars
      <3>2. CASE Fail(j)
        BY <3>2, FailType DEF Fail
      <3> QED  BY <1>3, <3>1, <3>2 DEF CheckWriteBase
    <2> QED  BY <1>3, <2>1 DEF CheckWriteBase, FilesTyped, CacheTyped, RecoverTyped, NamingTyped,
             BudgetTyped, remoteVars, cacheVars
  <1>4. CASE Send(j)
    <2>1. job[j].step # "idle" /\ UNCHANGED <<cacheVars, written>>  BY <1>4 DEF Send
    <2>2. FilesTyped'
      <3>1. CASE Put(j)  BY <3>1, <2>1, PutType
      <3>2. CASE UNCHANGED remoteVars  BY <3>2 DEF remoteVars, FilesTyped
      <3> QED  BY <1>4, <3>1, <3>2 DEF Send
    <2>3. BudgetTyped'
      <3>1. CASE Spend("upsets")  BY <3>1, SpendType
      <3>2. CASE UNCHANGED left  BY <3>2 DEF BudgetTyped
      <3> QED  BY <1>4, <3>1, <3>2 DEF Send
    <2>4. JobsTyped' /\ HandlesTyped' /\ toDrain' \subseteq Handles /\ UNCHANGED <<naming, toRecover>>
      <3>1. CASE Fail(j)  BY <3>1, FailType DEF Fail
      <3>2. CASE /\ \/ job' = [job EXCEPT ![j].step = "removeData", ![j].base = Stored, ![j].from = Stored]
                    \/ job' = [job EXCEPT ![j].step = "restat", ![j].from = Stored]
                 /\ UNCHANGED <<handle, drainVars, serveVars>>
        <4> DEFINE r1 == [job[j] EXCEPT !.step = "removeData", !.base = Stored, !.from = Stored]
                   r2 == [job[j] EXCEPT !.step = "restat", !.from = Stored]
        <4>1. Stored \in Nat  BY DEF Stored, FilesTyped
        <4>2. r1 \in JobRecord /\ r2 \in JobRecord  BY <1>j, <4>1 DEF JobRecord, JobSteps
        <4>3. r1.path \in Paths /\ r2.path \in Paths  BY <1>j, <2>1 DEF JobRecord
        <4>4. job' = [job EXCEPT ![j] = r1] \/ job' = [job EXCEPT ![j] = r2]
          BY <3>2 DEF JobsTyped, JobRecord
        <4> HIDE DEF r1, r2
        <4>5. JobsTyped'  BY <4>2, <4>3, <4>4, JobSet
        <4> QED  BY <4>5, <3>2 DEF HandlesTyped, drainVars, serveVars
      <3> QED  BY <1>4, <3>1, <3>2 DEF Send
    <2> QED  BY <2>1, <2>2, <2>3, <2>4 DEF CacheTyped, RecoverTyped, NamingTyped, cacheVars
  <1>5. CASE Restat(j)
    <2>1. job[j].step # "idle" /\ job[j].path \in Paths  BY <1>5, <1>j DEF Restat
    <2>2. JobsTyped' /\ HandlesTyped' /\ toDrain' \subseteq Handles /\ UNCHANGED <<naming, toRecover>>
      <3>1. CASE Fail(j)  BY <3>1, FailType DEF Fail
      <3>2. CASE /\ job' = [job EXCEPT ![j].step = "removeData", ![j].base = remote[job[j].path].version]
                 /\ UNCHANGED <<handle, drainVars, serveVars>>
        <4> DEFINE r == [job[j] EXCEPT !.step = "removeData", !.base = remote[job[j].path].version]
        <4>1. remote[job[j].path].version \in Nat  BY <2>1 DEF FilesTyped, RemoteFile
        <4>2. r \in JobRecord /\ r.path \in Paths  BY <1>j, <2>1, <4>1 DEF JobRecord, JobSteps
        <4>3. job' = [job EXCEPT ![j] = r]  BY <3>2 DEF JobsTyped, JobRecord
        <4> HIDE DEF r
        <4>4. JobsTyped'  BY <4>2, <4>3, JobSet
        <4> QED  BY <4>4, <3>2 DEF HandlesTyped, drainVars, serveVars
      <3> QED  BY <1>5, <3>1, <3>2 DEF Restat
    <2> QED  BY <1>5, <2>2 DEF Restat, FilesTyped, CacheTyped, RecoverTyped, NamingTyped, BudgetTyped,
             remoteVars, cacheVars
  <1>6. CASE RemoveData(j)
    <2>1. JobsTyped'  BY <1>6, StepType DEF RemoveData, JobSteps
    <2>2. CacheTyped'  BY <1>6, ConstantTypes DEF RemoveData, CacheTyped
    <2> QED  BY <1>6, <2>1, <2>2 DEF RemoveData, FilesTyped, HandlesTyped, RecoverTyped, NamingTyped,
             BudgetTyped, remoteVars, drainVars, serveVars
  <1>7. CASE RemoveMeta(j)
    <2>1. JobsTyped'
      BY <1>7, JobSet, ConstantTypes DEF RemoveMeta, noJob
    <2>2. CacheTyped'  BY <1>7, ConstantTypes DEF RemoveMeta, CacheTyped
    <2>3. HandlesTyped'
      <3>1. CASE j = Recovery  BY <1>7, <3>1 DEF RemoveMeta, HandlesTyped
      <3>2. CASE j # Recovery
        <4> DEFINE r == IF job[j].by = "release" \/ ~handle[j].open
                        THEN [Closed(j) EXCEPT !.dirty = FALSE]
                        ELSE [handle[j] EXCEPT !.base = job[j].base, !.from = job[j].from, !.dirty = FALSE]
        <4>1. j \in Handles /\ handle[j] \in HandleRecord  BY <3>2 DEF Jobs, HandlesTyped
        <4>2. r \in HandleRecord /\ (r.open \/ r.dirty => r.path \in Paths)
          BY <4>1, <1>j, ClosedType DEF HandleRecord, JobRecord, HandlesTyped
        <4>3. handle' = [handle EXCEPT ![j] = r]  BY <1>7, <3>2, <4>1 DEF RemoveMeta, HandlesTyped, HandleRecord
        <4> HIDE DEF r
        <4> QED  BY <4>1, <4>2, <4>3, HandleSet
      <3> QED  BY <3>1, <3>2
    <2> QED  BY <1>7, <2>1, <2>2, <2>3 DEF RemoveMeta, FilesTyped, RecoverTyped, NamingTyped,
             BudgetTyped, remoteVars, drainVars, serveVars
  <1> QED  BY <1>1, <1>2, <1>3, <1>4, <1>5, <1>6, <1>7 DEF Upload

\* What Create, Open, Write and NameHandle make of a handle.
LEMMA CreateEffect ==
  ASSUME FuseTypes, NEW h \in Handles, NEW p \in Paths, Create(h, p)
  PROVE  /\ HandlesTyped' /\ JobsTyped' /\ BudgetTyped'
         /\ handle'[h] = [closedHandle EXCEPT !.open = TRUE, !.path = p]
         /\ job'[h] = newJob(handle'[h], "create")
         /\ \A k \in Handles : k # h => handle'[k] = handle[k]
         /\ \A k \in Jobs : k # h => job'[k] = job[k]
  <1> USE DEF FuseTypes
  <1> DEFINE r == [closedHandle EXCEPT !.open = TRUE, !.path = p]
  <1>1. r \in HandleRecord /\ r.path = p
    BY DEF closedHandle, HandleRecord, MayBePath, Writes, Unknown
  <1>2. handle' = [handle EXCEPT ![h] = r] /\ job' = [job EXCEPT ![h] = newJob(handle'[h], "create")]
    BY DEF Create
  <1> HIDE DEF r
  <1>3. HandlesTyped' /\ handle'[h] = r /\ \A k \in Handles : k # h => handle'[k] = handle[k]
    BY <1>1, <1>2, HandleSet
  <1>4. newJob(r, "create") \in JobRecord  BY <1>1, NewJobType
  <1>5. newJob(r, "create").path \in Paths  BY <1>1 DEF newJob
  <1>6. JobsTyped' /\ job'[h] = newJob(r, "create") /\ \A k \in Jobs : k # h => job'[k] = job[k]
    BY <1>2, <1>3, <1>4, <1>5, JobSet, RecoveryIsNoHandle
  <1>7. BudgetTyped'  BY SpendType DEF Create
  <1> QED  BY <1>3, <1>6, <1>7 DEF r

\* Open: the remote file, an empty copy of it, or the copy of a dirty handle.
LEMMA OpenEffect ==
  ASSUME FuseTypes, NEW h \in Handles, NEW p \in Paths, Open(h, p)
  PROVE  /\ HandlesTyped' /\ BudgetTyped' /\ UNCHANGED job
         /\ handle'[h].open /\ ~handle'[h].deleted
         /\ \/ handle'[h].base = remote[p].version /\ handle'[h].from = remote[p].version
            \/ \E g \in DirtyHandles(p) : /\ handle'[h].base = handle[g].base
                                          /\ handle'[h].from = handle[g].from
         /\ \A k \in Handles : k # h => handle'[k] = handle[k]
  <1> USE DEF FuseTypes
  <1> DEFINE fresh == [closedHandle EXCEPT !.open = TRUE, !.path = p,
                                           !.base = remote[p].version, !.from = remote[p].version]
             Good(r) == /\ r \in HandleRecord /\ r.path = p /\ r.open /\ ~r.deleted
                        /\ \/ r.base = remote[p].version /\ r.from = remote[p].version
                           \/ \E g \in DirtyHandles(p) : r.base = handle[g].base /\ r.from = handle[g].from
  <1>1. remote[p] \in RemoteFile  BY DEF FilesTyped
  <1>2. PICK r : handle' = [handle EXCEPT ![h] = r] /\ Good(r)
    <2>1. CASE handle' = [handle EXCEPT ![h] = [fresh EXCEPT !.dirty = TRUE]]
      <3>1. Good([fresh EXCEPT !.dirty = TRUE])
        BY <1>1 DEF closedHandle, HandleRecord, MayBePath, Writes, Unknown, RemoteFile
      <3> QED  BY <2>1, <3>1
    <2>2. CASE handle' = [handle EXCEPT ![h] = [fresh EXCEPT !.content = remote[p].content]]
      <3>1. Good([fresh EXCEPT !.content = remote[p].content])
        BY <1>1 DEF closedHandle, HandleRecord, MayBePath, Writes, Unknown, RemoteFile
      <3> QED  BY <2>2, <3>1
    <2>3. CASE \E g \in DirtyHandles(p) :
                 handle' = [handle EXCEPT ![h] = [fresh EXCEPT !.content = handle[g].content,
                                                  !.base = handle[g].base, !.from = handle[g].from]]
      <3>1. PICK g \in DirtyHandles(p) :
                 handle' = [handle EXCEPT ![h] = [fresh EXCEPT !.content = handle[g].content,
                                                  !.base = handle[g].base, !.from = handle[g].from]]
        BY <2>3
      <3>2. handle[g] \in HandleRecord  BY DEF DirtyHandles, HandlesTyped
      <3>3. Good([fresh EXCEPT !.content = handle[g].content,
                               !.base = handle[g].base, !.from = handle[g].from])
        BY <1>1, <3>2 DEF closedHandle, HandleRecord, MayBePath, Writes, Unknown, RemoteFile
      <3> QED  BY <3>1, <3>3
    <2> QED  BY <2>1, <2>2, <2>3 DEF Open
  <1>3. HandlesTyped' /\ handle'[h] = r /\ \A k \in Handles : k # h => handle'[k] = handle[k]
    BY <1>2, HandleSet
  <1>4. BudgetTyped'  BY SpendType DEF Open
  <1> QED  BY <1>2, <1>3, <1>4 DEF Open

\* Write, and a Setattr that truncates.
LEMMA WriteEffect ==
  ASSUME FuseTypes, NEW h \in Handles, Write(h)
  PROVE  /\ HandlesTyped' /\ BudgetTyped' /\ UNCHANGED job
         /\ written \subseteq written' /\ written' \subseteq Nat /\ IsFiniteSet(written')
         /\ written' \ written \subseteq handle'[h].content
         /\ handle[h].content \subseteq handle'[h].content \cup givenUp'
         /\ givenUp \subseteq givenUp'
         /\ handle'[h].dirty
         /\ handle'[h].open = handle[h].open /\ handle'[h].base = handle[h].base
         /\ handle'[h].from = handle[h].from
         /\ \A k \in Handles : k # h => handle'[k] = handle[k]
  <1> USE DEF FuseTypes
  <1>1. Cardinality(written) + 1 \in Nat  BY FS_CardinalityType
  <1>2. /\ written' = written \cup {Cardinality(written) + 1}
        /\ written' \subseteq Nat /\ IsFiniteSet(written')
    BY <1>1, FS_AddElement DEF Write
  <1>3. handle[h] \in HandleRecord /\ handle[h].open  BY DEF HandlesTyped, Write, Usable
  <1>4. PICK kept \in {handle[h].content, {}} :
          /\ handle' = [handle EXCEPT ![h].content = kept \cup (written' \ written), ![h].dirty = TRUE]
          /\ givenUp' = givenUp \cup (handle[h].content \ kept)
    BY DEF Write
  <1> DEFINE r == [handle[h] EXCEPT !.content = kept \cup (written' \ written), !.dirty = TRUE]
  <1>5. /\ r \in HandleRecord /\ r.path = handle[h].path /\ r.open = handle[h].open
        /\ r.base = handle[h].base /\ r.from = handle[h].from
        /\ r.dirty /\ r.content = kept \cup (written' \ written)
    BY <1>2, <1>3 DEF HandleRecord, Writes
  <1>6. handle' = [handle EXCEPT ![h] = r]  BY <1>4, <1>3 DEF HandlesTyped, HandleRecord
  <1> HIDE DEF r
  <1>7. HandlesTyped' /\ handle'[h] = r /\ \A k \in Handles : k # h => handle'[k] = handle[k]
    BY <1>3, <1>5, <1>6, HandleSet DEF HandlesTyped
  <1>8. BudgetTyped' /\ UNCHANGED job  BY SpendType DEF Write
  <1> QED  BY <1>2, <1>4, <1>5, <1>7, <1>8

\* markDeleted and retarget.
LEMMA NameEffect ==
  ASSUME FuseTypes, NEW h \in Handles, NameHandle(h)
  PROVE  /\ HandlesTyped' /\ NamingTyped' /\ UNCHANGED job
         /\ naming'.version \in {naming.version, Unknown}
         /\ handle'[h].open = handle[h].open /\ handle'[h].dirty = handle[h].dirty
         /\ handle'[h].content = handle[h].content
         /\ \/ handle'[h].base = handle[h].base /\ handle'[h].from = handle[h].from
            \/ /\ handle'[h].base = naming.version /\ handle'[h].from = naming.version
               /\ naming.version # Unknown
         /\ \A k \in Handles : k # h => handle'[k] = handle[k]
  <1> USE DEF FuseTypes
  <1>1. handle[h] \in HandleRecord /\ (handle[h].open \/ handle[h].dirty => handle[h].path \in Paths)
    BY DEF HandlesTyped
  <1>2. NamingTyped' /\ naming'.version \in {naming.version, Unknown}
    BY DEF NameHandle, NamingTyped, noNaming, MayBePath, Unknown
  <1> DEFINE Good(r) == /\ r \in HandleRecord /\ (r.open \/ r.dirty => r.path \in Paths)
                        /\ r.open = handle[h].open /\ r.dirty = handle[h].dirty
                        /\ r.content = handle[h].content
                        /\ \/ r.base = handle[h].base /\ r.from = handle[h].from
                           \/ /\ r.base = naming.version /\ r.from = naming.version
                              /\ naming.version # Unknown
  <1>3. \E r : handle' = [handle EXCEPT ![h] = r] /\ Good(r)
    <2>1. CASE handle' = handle
      <3>1. handle' = [handle EXCEPT ![h] = handle[h]]  BY <2>1 DEF HandlesTyped
      <3>2. Good(handle[h])  BY <1>1
      <3> QED  BY <3>1, <3>2
    <2>2. CASE handle' = [handle EXCEPT ![h].deleted = TRUE]
      <3>1. handle' = [handle EXCEPT ![h] = [handle[h] EXCEPT !.deleted = TRUE]]
        BY <2>2 DEF HandlesTyped, HandleRecord
      <3>2. Good([handle[h] EXCEPT !.deleted = TRUE])  BY <1>1 DEF HandleRecord
      <3> QED  BY <3>1, <3>2
    <2>3. CASE /\ naming.step = "retarget"
               /\ handle' = [handle EXCEPT ![h].path = naming.to,
                               ![h].base = IF naming.version = Unknown THEN @ ELSE naming.version,
                               ![h].from = IF naming.version = Unknown THEN @ ELSE naming.version]
      <3> DEFINE r == [handle[h] EXCEPT !.path = naming.to,
                         !.base = IF naming.version = Unknown THEN @ ELSE naming.version,
                         !.from = IF naming.version = Unknown THEN @ ELSE naming.version]
      <3>1. handle' = [handle EXCEPT ![h] = r]  BY <2>3 DEF HandlesTyped, HandleRecord
      <3>2. naming.to \in Paths /\ naming.version \in Nat  BY <2>3 DEF NamingTyped
      <3>3. Good(r)  BY <1>1, <3>2 DEF HandleRecord, MayBePath
      <3> HIDE DEF r
      <3> QED  BY <3>1, <3>3
    <2> QED  BY <2>1, <2>2, <2>3 DEF NameHandle
  <1>4. PICK r : handle' = [handle EXCEPT ![h] = r] /\ Good(r)  BY <1>3
  <1>5. HandlesTyped' /\ handle'[h] = r /\ \A k \in Handles : k # h => handle'[k] = handle[k]
    BY <1>4, HandleSet
  <1> QED  BY <1>2, <1>4, <1>5 DEF NameHandle

\* The steps of the handles and of the drain that flush them.
LEMMA TypesHandle ==
  ASSUME FuseTypes, NEW h \in Handles,
         \/ Write(h) \/ Flush(h) \/ Release(h) \/ DrainHandle(h) \/ NameHandle(h)
         \/ \E p \in Paths : Create(h, p) \/ Open(h, p)
  PROVE  FuseTypes'
  <1> USE DEF FuseTypes
  <1> USE DEF remoteVars, cacheVars, drainVars, serveVars
  <1>1. CASE Write(h)
    BY <1>1, WriteEffect
       DEF Write, FilesTyped, JobsTyped, CacheTyped, RecoverTyped, NamingTyped
  <1>2. CASE Flush(h) \/ Release(h) \/ DrainHandle(h)
    <2>1. PICK by \in {"flush", "release", "drain"} : FlushLocked(h, by)
      BY <1>2 DEF Flush, Release, DrainHandle
    <2>2. JobsTyped' /\ HandlesTyped'  BY <2>1, FlushType
    <2> QED  BY <1>2, <2>2 DEF Flush, Release, DrainHandle, FilesTyped, CacheTyped, RecoverTyped,
                                NamingTyped, BudgetTyped
  <1>3. CASE NameHandle(h)
    BY <1>3, NameEffect
       DEF NameHandle, FilesTyped, JobsTyped, CacheTyped, RecoverTyped, BudgetTyped
  <1>4. ASSUME NEW p \in Paths, Create(h, p) PROVE FuseTypes'
    BY <1>4, CreateEffect DEF Create, FilesTyped, CacheTyped, RecoverTyped, NamingTyped
  <1>5. ASSUME NEW p \in Paths, Open(h, p) PROVE FuseTypes'
    BY <1>5, OpenEffect DEF Open, FilesTyped, JobsTyped, CacheTyped, RecoverTyped, NamingTyped
  <1> QED  BY <1>1, <1>2, <1>3, <1>4, <1>5

\* The steps of the other client, of unlinks and renames, and of the recovery.
LEMMA TypesPath ==
  ASSUME FuseTypes, NEW p \in Paths,
         Unlink(p) \/ OtherWrites(p) \/ Recover(p) \/ \E q \in Paths : Rename(p, q)
  PROVE  FuseTypes'
  <1> USE DEF FuseTypes
  <1> USE DEF remoteVars, cacheVars, drainVars, serveVars
  <1>s. Stored \in Nat  BY DEF Stored, FilesTyped
  <1>1. CASE Unlink(p)
    <2>1. FilesTyped'  BY <1>1, ConstantTypes DEF Unlink, FilesTyped
    <2>2. NamingTyped'
      BY <1>1 DEF Unlink, NamingTyped, noNaming, MayBePath, Unknown
    <2> QED  BY <1>1, <2>1, <2>2, SpendType DEF Unlink, HandlesTyped, JobsTyped, CacheTyped, RecoverTyped
  <1>2. CASE OtherWrites(p)
    <2>1. [version |-> Stored, content |-> {}, theirs |-> TRUE] \in RemoteFile
      BY <1>s DEF RemoteFile, Writes
    <2>2. FilesTyped'  BY <1>2, <1>s, <2>1 DEF OtherWrites, FilesTyped
    <2> QED  BY <1>2, <2>2, SpendType
             DEF OtherWrites, HandlesTyped, JobsTyped, CacheTyped, RecoverTyped, NamingTyped
  <1>3. CASE Recover(p)
    <2>1. RecoverTyped'  BY <1>3, ConstantTypes DEF Recover, RecoverTyped
    <2>2. JobsTyped'
      <3>1. CASE UNCHANGED job  BY <3>1 DEF JobsTyped
      <3>2. CASE job' = [job EXCEPT ![Recovery] =
                      [step |-> "check", path |-> p, content |-> pendData[p].content,
                       base |-> toRecover[p].base, from |-> toRecover[p].base,
                       stored |-> TRUE, by |-> "recovery"]]
        <4>1. pendData[p] \in Record /\ toRecover[p] \in Record  BY DEF CacheTyped, RecoverTyped
        <4>2. [step |-> "check", path |-> p, content |-> pendData[p].content,
               base |-> toRecover[p].base, from |-> toRecover[p].base,
               stored |-> TRUE, by |-> "recovery"] \in JobRecord
          BY <4>1 DEF JobRecord, Record, JobSteps, MayBePath
        <4>3. Recovery \in Jobs  BY DEF Jobs
        <4> QED  BY <3>2, <4>2, <4>3, JobSet
      <3> QED  BY <1>3, <3>1, <3>2 DEF Recover
    <2> QED  BY <1>3, <2>1, <2>2
             DEF Recover, FilesTyped, HandlesTyped, CacheTyped, NamingTyped, BudgetTyped
  <1>4. ASSUME NEW q \in Paths, Rename(p, q) PROVE FuseTypes'
    <2>1. [remote[p] EXCEPT !.version = Stored] \in RemoteFile
      BY <1>s DEF FilesTyped, RemoteFile
    <2>2. FilesTyped'
      <3> DEFINE r == [remote[p] EXCEPT !.version = Stored]
      <3>1. remote' = [remote EXCEPT ![p] = Absent, ![q] = r] /\ version' = Stored
        BY <1>4 DEF Rename
      <3> HIDE DEF r
      <3> QED  BY <1>s, <2>1, <3>1, ConstantTypes DEF r, FilesTyped
    <2>3. NamingTyped'
      BY <1>4 DEF Rename, NamingTyped, noNaming, MayBePath, Unknown
    <2> QED  BY <1>4, <2>2, <2>3, SpendType DEF Rename, HandlesTyped, JobsTyped, CacheTyped, RecoverTyped
  <1> QED  BY <1>1, <1>2, <1>3, <1>4

\* The steps of a naming, the drain and the mount process.
LEMMA TypesServe ==
  ASSUME FuseTypes,
         RenameStat \/ NameNone \/ StartDrain \/ DrainRecovers \/ DrainEnds \/ KillMount \/ Mount
  PROVE  FuseTypes'
  <1> USE DEF FuseTypes
  <1> USE DEF remoteVars, cacheVars, drainVars, serveVars
  <1>1. CASE RenameStat \/ NameNone
    <2>1. NamingTyped'
      <3>1. CASE RenameStat
        <4>1. remote[naming.to].version \in Nat  BY <3>1 DEF RenameStat, NamingTyped, FilesTyped, RemoteFile
        <4> QED  BY <3>1, <4>1 DEF RenameStat, NamingTyped
      <3>2. CASE NameNone  BY <3>2 DEF NameNone, NamingTyped, noNaming, MayBePath, Unknown
      <3> QED  BY <1>1, <3>1, <3>2
    <2> QED  BY <1>1, <2>1 DEF RenameStat, NameNone, FilesTyped, HandlesTyped, JobsTyped, CacheTyped,
                                RecoverTyped, BudgetTyped
  <1>2. CASE StartDrain \/ DrainEnds
    BY <1>2 DEF StartDrain, DrainEnds, FilesTyped, HandlesTyped, JobsTyped, CacheTyped, RecoverTyped,
                NamingTyped, BudgetTyped
  <1>3. CASE DrainRecovers \/ Mount
    BY <1>3 DEF DrainRecovers, Mount, FilesTyped, HandlesTyped, JobsTyped, CacheTyped, RecoverTyped,
                NamingTyped, BudgetTyped
  <1>4. CASE KillMount
    <2>1. HandlesTyped' /\ RecoverTyped'
      BY <1>4, ConstantTypes DEF KillMount, HandlesTyped, RecoverTyped, closedHandle
    <2>2. JobsTyped'  BY <1>4, ConstantTypes DEF KillMount, JobsTyped, noJob
    <2>3. NamingTyped'  BY <1>4 DEF KillMount, NamingTyped, noNaming, MayBePath, Unknown
    <2> QED  BY <1>4, <2>1, <2>2, <2>3, SpendType DEF KillMount, FilesTyped, CacheTyped
  <1> QED  BY <1>1, <1>2, <1>3, <1>4

\* Every step.
LEMMA TypesNext == FuseTypes /\ [Next]_vars => FuseTypes'
  <1> SUFFICES ASSUME FuseTypes, [Next]_vars PROVE FuseTypes'  OBVIOUS
  <1>1. CASE Next
    BY <1>1, TypesUpload, TypesHandle, TypesPath, TypesServe DEF Next
  <1>2. CASE UNCHANGED vars
    BY <1>2 DEF vars, FuseTypes, FilesTyped, HandlesTyped, JobsTyped, CacheTyped, RecoverTyped,
                NamingTyped, BudgetTyped
  <1> QED  BY <1>1, <1>2

\* What the steps of an upload leave alone.
LEMMA UploadFrame ==
  ASSUME FuseTypes, NEW j \in Jobs, Upload(j)
  PROVE  /\ UNCHANGED <<before, written>>
         /\ done \subseteq done' /\ givenUp \subseteq givenUp'
         /\ job[j] \in JobRecord /\ job[j].step # "idle" /\ job[j].path \in Paths
         /\ \A k \in Jobs : k # j => job'[k] = job[k]
         /\ \A k \in Handles : k # j => handle'[k] = handle[k]
  <1> USE DEF FuseTypes
  <1> USE DEF remoteVars, cacheVars, drainVars, serveVars
  <1>j. job[j] \in JobRecord /\ job[j].step # "idle" /\ job[j].path \in Paths
    BY DEF JobsTyped, Upload, PutData, PutMeta, CheckWriteBase, Send, Restat, RemoveData, RemoveMeta
  <1>1. \A k \in Jobs : k # j => job'[k] = job[k]
    BY <1>j, FailType DEF JobsTyped, Upload, PutData, PutMeta, CheckWriteBase, Send, Restat,
          RemoveData, RemoveMeta, Step
  <1>2. \A k \in Handles : k # j => handle'[k] = handle[k]
    BY FailType DEF HandlesTyped, Upload, PutData, PutMeta, CheckWriteBase, Send, Restat,
          RemoveData, RemoveMeta
  <1>3. UNCHANGED <<before, written>> /\ done \subseteq done' /\ givenUp \subseteq givenUp'
    BY DEF Upload, PutData, PutMeta, CheckWriteBase, Send, Restat, RemoveData, RemoveMeta, Fail, Put
  <1> QED  BY <1>j, <1>1, <1>2, <1>3

-----------------------------------------------------------------------------
(* The versions that are remembered.                                       *)

\* The version only grows, and what keeps its version keeps the bound.
LEMMA KnownStays ==
  ASSUME FuseTypes, Remembered, version' = version \/ version' = Stored
  PROVE  /\ version <= version' /\ version' \in Nat
         /\ UNCHANGED handle => HandlesKnown'
         /\ UNCHANGED job => JobsKnown'
         /\ UNCHANGED <<pendMeta, toRecover>> => CacheKnown'
         /\ UNCHANGED <<remote, version>> => FilesKnown'
         /\ UNCHANGED naming => naming'.version <= version'
  <1> USE DEF FuseTypes, Remembered
  <1>1. version \in Nat /\ version <= version' /\ version' \in Nat  BY DEF Stored, FilesTyped
  <1>2. ASSUME UNCHANGED handle PROVE HandlesKnown'
    BY <1>1, <1>2 DEF HandlesKnown, HandlesTyped, HandleRecord
  <1>3. ASSUME UNCHANGED job PROVE JobsKnown'
    BY <1>1, <1>3 DEF JobsKnown, JobsTyped, JobRecord
  <1>4. ASSUME UNCHANGED <<pendMeta, toRecover>> PROVE CacheKnown'
    BY <1>1, <1>4 DEF CacheKnown, CacheTyped, RecoverTyped, Record
  <1>5. ASSUME UNCHANGED <<remote, version>> PROVE FilesKnown'
    BY <1>5 DEF FilesKnown
  <1>6. ASSUME UNCHANGED naming PROVE naming'.version <= version'
    BY <1>1, <1>6 DEF NamingTyped
  <1> QED  BY <1>1, <1>2, <1>3, <1>4, <1>5, <1>6

\* A remote file that changes gets a version that no other has.
LEMMA FilesFresh ==
  ASSUME FuseTypes, FilesKnown, NEW p \in Paths, version' = Stored,
         remote'[p].version = Stored,
         \A q \in Paths : q # p => remote'[q] = remote[q] \/ remote'[q] = Absent
  PROVE  FilesKnown'
  <1> USE DEF FuseTypes
  <1>1. version \in Nat /\ Stored \in Nat /\ version < Stored /\ Stored # Unknown
    BY DEF FilesTyped, Stored, Unknown
  <1>2. \A q \in Paths : remote[q].version \in Nat  BY DEF FilesTyped, RemoteFile
  <1>3. Absent.version = Unknown /\ ~Absent.theirs  BY DEF Absent
  <1>4. \A q \in Paths : remote'[q].version <= version'
    BY <1>1, <1>2, <1>3 DEF FilesKnown, Unknown
  <1>5. \A q \in Paths : /\ remote'[q].theirs => remote'[q].version # Unknown
                         /\ remote'[q].version = Unknown => remote'[q] = Absent
    BY <1>1, <1>2, <1>3 DEF FilesKnown
  <1>6. ASSUME NEW q \in Paths, NEW r \in Paths, remote'[q].version = remote'[r].version, q # r
        PROVE  remote'[q].version = Unknown
    <2>1. CASE q = p \/ r = p
      BY <2>1, <1>1, <1>2, <1>3, <1>6 DEF FilesKnown, Unknown
    <2>2. CASE q # p /\ r # p
      BY <2>2, <1>3, <1>6 DEF FilesKnown
    <2> QED  BY <2>1, <2>2
  <1> QED  BY <1>4, <1>5, <1>6 DEF FilesKnown

\* One handle changes.
LEMMA HandleKnown ==
  ASSUME FuseTypes, Remembered, version' = version \/ version' = Stored,
         NEW h, handle'[h].base <= version',
         \A k \in Handles : k # h => handle'[k] = handle[k]
  PROVE  HandlesKnown'
  <1>1. version <= version' /\ version' \in Nat /\ version \in Nat  BY KnownStays DEF FuseTypes, FilesTyped
  <1> QED  BY <1>1 DEF Remembered, HandlesKnown, FuseTypes, HandlesTyped, HandleRecord

\* One job changes.
LEMMA JobKnown ==
  ASSUME FuseTypes, Remembered, version' = version \/ version' = Stored,
         NEW j, job'[j].base <= version',
         \A k \in Jobs : k # j => job'[k] = job[k]
  PROVE  JobsKnown'
  <1>1. version <= version' /\ version' \in Nat /\ version \in Nat  BY KnownStays DEF FuseTypes, FilesTyped
  <1> QED  BY <1>1 DEF Remembered, JobsKnown, FuseTypes, JobsTyped, JobRecord

\* A closed handle has kept its version or has none.
LEMMA ClosedBase ==
  ASSUME HandlesTyped, NEW h \in Handles
  PROVE  /\ ~Closed(h).open
         /\ \/ /\ h \in toDrain /\ Closed(h).base = handle[h].base /\ Closed(h).from = handle[h].from
               /\ Closed(h).dirty = handle[h].dirty /\ Closed(h).content = handle[h].content
            \/ /\ h \notin toDrain /\ Closed(h).base = Unknown /\ Closed(h).from = Unknown
               /\ ~Closed(h).dirty /\ Closed(h).content = {}
  BY DEF Closed, HandlesTyped, HandleRecord, closedHandle

\* Fail: the handle of the upload keeps its version or is gone.
LEMMA FailKnown ==
  ASSUME FuseTypes, Remembered, NEW j \in Jobs, Fail(j), version' = version \/ version' = Stored
  PROVE  JobsKnown' /\ HandlesKnown'
  <1> USE DEF FuseTypes
  <1>1. version \in Nat /\ version' \in Nat /\ version <= version' /\ Unknown <= version'
    BY KnownStays DEF Unknown, FilesTyped
  <1>2. JobsKnown'  BY <1>1, FailType, JobKnown DEF noJob
  <1>3. HandlesKnown'
    <2>1. CASE j \in Handles
      <3>1. handle'[j] = afterFailure(j)  BY <2>1, FailType
      <3>2. afterFailure(j).base \in {handle[j].base, Unknown}  BY <2>1, ClosedBase DEF afterFailure
      <3>3. handle[j].base <= version /\ handle[j].base \in Nat
        BY <2>1 DEF Remembered, HandlesKnown, HandlesTyped, HandleRecord
      <3>4. handle'[j].base <= version'  BY <1>1, <3>1, <3>2, <3>3
      <3> QED  BY <3>4, FailType, HandleKnown
    <2>2. CASE j \notin Handles
      <3>1. \A h \in Handles : handle'[h] = handle[h]  BY <2>2, FailType
      <3> QED  BY <1>1, <3>1 DEF Remembered, HandlesKnown, HandlesTyped, HandleRecord
    <2> QED  BY <2>1, <2>2
  <1> QED  BY <1>2, <1>3

\* The steps of an upload.
LEMMA RememberedUpload ==
  ASSUME FuseTypes, Remembered, NEW j \in Jobs, Upload(j)
  PROVE  Remembered'
  <1> USE DEF FuseTypes
  <1> USE DEF remoteVars, cacheVars, drainVars, serveVars
  <1>v. version \in Nat /\ version < Stored /\ Stored \in Nat /\ Unknown <= version
    BY DEF FilesTyped, Stored, Unknown
  <1>j. job[j] \in JobRecord /\ (job[j].step # "idle" => job[j].path \in Paths)
        /\ job[j].base <= version /\ job[j].base \in Nat
    BY DEF JobsTyped, JobRecord, Remembered, JobsKnown
  <1>s. ASSUME NEW s \in JobSteps, Step(j, s), job[j].step # "idle", UNCHANGED version PROVE JobsKnown'
    <2>1. job'[j].base = job[j].base /\ \A k \in Jobs : k # j => job'[k] = job[k]
      BY <1>s, <1>j, StepType DEF JobRecord
    <2> QED  BY <1>s, <1>j, <2>1, JobKnown
  <1>1. CASE PutData(j) \/ RemoveData(j)
    <2>1. JobsKnown'  BY <1>1, <1>s DEF PutData, RemoveData, JobSteps
    <2> QED  BY <1>1, <2>1, KnownStays DEF PutData, RemoveData, Remembered
  <1>2. CASE PutMeta(j)
    <2>1. JobsKnown'  BY <1>2, <1>s DEF PutMeta, JobSteps
    <2>2. CacheKnown'
      BY <1>2, <1>j, <1>v DEF PutMeta, Remembered, CacheKnown, CacheTyped, Record
    <2> QED  BY <1>2, <2>1, <2>2, KnownStays DEF PutMeta, Remembered
  <1>3. CASE CheckWriteBase(j)
    <2>1. JobsKnown' /\ HandlesKnown' /\ UNCHANGED <<naming, toRecover>>
      <3>1. CASE Step(j, "send") /\ UNCHANGED <<handle, drainVars, serveVars>>
        <4>1. JobsKnown'  BY <1>3, <3>1, <1>s DEF CheckWriteBase, JobSteps
        <4> QED  BY <1>3, <3>1, <4>1, KnownStays DEF CheckWriteBase
      <3>2. CASE Fail(j)
        BY <1>3, <3>2, FailKnown DEF Fail, CheckWriteBase
      <3> QED  BY <1>3, <3>1, <3>2 DEF CheckWriteBase
    <2> QED  BY <1>3, <2>1, KnownStays DEF CheckWriteBase, Remembered
  <1>4. CASE Send(j)
    <2>1. job[j].step # "idle" /\ UNCHANGED cacheVars /\ (version' = version \/ version' = Stored)
      BY <1>4 DEF Send, Put
    <2>2. FilesKnown'
      <3>1. CASE Put(j)
        <4>1. version' = Stored  BY <3>1 DEF Put
        <4>2. /\ remote'[job[j].path] = [version |-> Stored, content |-> job[j].content, theirs |-> FALSE]
              /\ \A p \in Paths : p # job[j].path => remote'[p] = remote[p]
          BY <2>1, <3>1, PutType
        <4>3. remote'[job[j].path].version = Stored  BY <4>2
        <4> QED  BY <2>1, <1>j, <4>1, <4>2, <4>3, FilesFresh DEF Remembered
      <3>2. CASE UNCHANGED remoteVars  BY <3>2, KnownStays
      <3> QED  BY <1>4, <3>1, <3>2 DEF Send
    <2>3. JobsKnown' /\ HandlesKnown' /\ UNCHANGED <<naming, toRecover>>
      <3>1. CASE Fail(j)  BY <2>1, <3>1, FailKnown DEF Fail
      <3>2. CASE /\ Put(j)
                 /\ \/ job' = [job EXCEPT ![j].step = "removeData", ![j].base = Stored, ![j].from = Stored]
                    \/ job' = [job EXCEPT ![j].step = "restat", ![j].from = Stored]
                 /\ UNCHANGED <<handle, drainVars, serveVars>>
        <4>1. /\ job'[j].base \in {Stored, job[j].base}
              /\ \A k \in Jobs : k # j => job'[k] = job[k]
          BY <3>2, <1>j DEF JobsTyped, JobRecord
        <4>2. version' = Stored  BY <3>2 DEF Put
        <4>3. job'[j].base <= version'  BY <4>1, <4>2, <1>j, <1>v
        <4>4. JobsKnown'  BY <2>1, <4>1, <4>3, JobKnown
        <4> QED  BY <2>1, <4>4, <3>2, KnownStays
      <3> QED  BY <1>4, <3>1, <3>2 DEF Send
    <2> QED  BY <2>1, <2>2, <2>3, KnownStays DEF Remembered
  <1>5. CASE Restat(j)
    <2>1. job[j].step # "idle" /\ job[j].path \in Paths /\ UNCHANGED <<remoteVars, cacheVars>>
      BY <1>5, <1>j DEF Restat
    <2>2. JobsKnown' /\ HandlesKnown' /\ UNCHANGED <<naming, toRecover>>
      <3>1. CASE Fail(j)  BY <2>1, <3>1, FailKnown DEF Fail
      <3>2. CASE /\ job' = [job EXCEPT ![j].step = "removeData", ![j].base = remote[job[j].path].version]
                 /\ UNCHANGED <<handle, drainVars, serveVars>>
        <4>1. /\ job'[j].base = remote[job[j].path].version
              /\ \A k \in Jobs : k # j => job'[k] = job[k]
          BY <3>2, <1>j DEF JobsTyped, JobRecord
        <4>2. job'[j].base <= version'  BY <2>1, <4>1 DEF Remembered, FilesKnown
        <4>3. JobsKnown'  BY <2>1, <4>1, <4>2, JobKnown
        <4> QED  BY <2>1, <4>3, <3>2, KnownStays
      <3> QED  BY <1>5, <3>1, <3>2 DEF Restat
    <2> QED  BY <2>1, <2>2, KnownStays DEF Remembered
  <1>7. CASE RemoveMeta(j)
    <2>1. UNCHANGED <<remote, version, naming, toRecover>>  BY <1>7 DEF RemoveMeta
    <2>2. JobsKnown'
      <3>1. job'[j].base = Unknown /\ \A k \in Jobs : k # j => job'[k] = job[k]
        BY <1>7 DEF RemoveMeta, noJob, JobsTyped
      <3> QED  BY <1>v, <2>1, <3>1, JobKnown
    <2>3. CacheKnown'
      BY <1>7, <1>v, <2>1 DEF RemoveMeta, Remembered, CacheKnown, CacheTyped, Record, None
    <2>4. HandlesKnown'
      <3>1. CASE j = Recovery  BY <1>7, <2>1, <3>1, KnownStays DEF RemoveMeta
      <3>2. CASE j # Recovery
        <4>1. j \in Handles /\ handle[j] \in HandleRecord  BY <3>2 DEF Jobs, HandlesTyped
        <4>2. handle'[j].base \in {handle[j].base, Unknown, job[j].base}
          BY <1>7, <3>2, <4>1, ClosedBase, ClosedType DEF RemoveMeta, HandlesTyped, HandleRecord
        <4>3. handle[j].base <= version  BY <4>1 DEF Remembered, HandlesKnown
        <4>4. handle'[j].base <= version'  BY <1>v, <1>j, <2>1, <4>2, <4>3
        <4>5. \A k \in Handles : k # j => handle'[k] = handle[k]
          BY <1>7, <3>2 DEF RemoveMeta, HandlesTyped
        <4> QED  BY <2>1, <4>4, <4>5, HandleKnown
      <3> QED  BY <3>1, <3>2
    <2> QED  BY <2>1, <2>2, <2>3, <2>4, KnownStays DEF Remembered
  <1> QED  BY <1>1, <1>2, <1>3, <1>4, <1>5, <1>7 DEF Upload

\* The initial state.
LEMMA RememberedInit == Init => Remembered
  <1> SUFFICES ASSUME Init PROVE Remembered  OBVIOUS
  <1>1. FilesKnown  BY DEF Init, FilesKnown, Absent, Unknown
  <1>2. HandlesKnown /\ JobsKnown /\ CacheKnown
    BY DEF Init, HandlesKnown, JobsKnown, CacheKnown, closedHandle, noJob, None, Unknown
  <1> QED  BY <1>1, <1>2 DEF Init, Remembered, noNaming, Unknown

\* FlushLocked keeps the versions of its handle.
LEMMA FlushKnown ==
  ASSUME FuseTypes, Remembered, UNCHANGED version, NEW h \in Handles,
         NEW by \in {"flush", "release", "drain"}, FlushLocked(h, by)
  PROVE  JobsKnown' /\ HandlesKnown'
  <1> USE DEF FuseTypes
  <1>1. /\ handle[h].base <= version /\ handle[h] \in HandleRecord
        /\ Unknown <= version /\ version \in Nat
    BY DEF Remembered, HandlesKnown, FilesTyped, HandlesTyped, Unknown
  <1>2. CASE NeedsUpload(h) /\ job'[h] = newJob(handle[h], by) /\ UNCHANGED <<handle, givenUp>>
    <2>1. job'[h].base <= version'  BY <1>1, <1>2 DEF newJob
    <2>2. \A k \in Jobs : k # h => job'[k] = job[k]  BY FlushType
    <2> QED  BY <1>2, <2>1, <2>2, JobKnown, KnownStays
  <1>3. CASE /\ UNCHANGED job
             /\ handle'[h] = IF by = "release" \/ ~handle[h].open THEN Closed(h)
                             ELSE [handle[h] EXCEPT !.dirty = FALSE]
    <2>1. handle'[h].base \in {handle[h].base, Unknown}
      BY <1>1, <1>3, ClosedBase DEF HandleRecord
    <2>2. handle'[h].base <= version'  BY <1>1, <2>1
    <2>3. \A k \in Handles : k # h => handle'[k] = handle[k]  BY FlushType
    <2> QED  BY <1>3, <2>2, <2>3, HandleKnown, KnownStays
  <1> QED  BY <1>2, <1>3, FlushType

\* The steps of the handles and of the drain that flush them.
LEMMA RememberedHandle ==
  ASSUME FuseTypes, Remembered, NEW h \in Handles,
         \/ Write(h) \/ Flush(h) \/ Release(h) \/ DrainHandle(h) \/ NameHandle(h)
         \/ \E p \in Paths : Create(h, p) \/ Open(h, p)
  PROVE  Remembered'
  <1> USE DEF FuseTypes
  <1> USE DEF remoteVars, cacheVars, drainVars, serveVars
  <1>v. version \in Nat /\ Unknown <= version /\ handle[h].base <= version
    BY DEF FilesTyped, Unknown, Remembered, HandlesKnown
  <1>1. CASE Write(h)
    <2>1. /\ handle'[h].base = handle[h].base /\ UNCHANGED job
          /\ \A k \in Handles : k # h => handle'[k] = handle[k]
      BY <1>1, WriteEffect
    <2>2. UNCHANGED <<version, remote, pendMeta, toRecover, naming>>  BY <1>1 DEF Write
    <2> QED  BY <1>v, <2>1, <2>2, HandleKnown, KnownStays DEF Remembered
  <1>2. CASE Flush(h) \/ Release(h) \/ DrainHandle(h)
    <2>1. PICK by \in {"flush", "release", "drain"} : FlushLocked(h, by)
      BY <1>2 DEF Flush, Release, DrainHandle
    <2>2. UNCHANGED <<version, remote, pendMeta, toRecover, naming>>
      BY <1>2 DEF Flush, Release, DrainHandle
    <2>3. JobsKnown' /\ HandlesKnown'  BY <2>1, <2>2, FlushKnown
    <2> QED  BY <2>2, <2>3, KnownStays DEF Remembered
  <1>3. CASE NameHandle(h)
    <2>1. UNCHANGED <<version, remote, pendMeta, toRecover>>  BY <1>3 DEF NameHandle
    <2>2. /\ handle'[h].base \in {handle[h].base, naming.version} /\ UNCHANGED job
          /\ \A k \in Handles : k # h => handle'[k] = handle[k]
          /\ naming'.version \in {naming.version, Unknown}
      BY <1>3, NameEffect
    <2>3. handle'[h].base <= version' /\ naming'.version <= version'
      BY <1>v, <2>1, <2>2 DEF Remembered
    <2> QED  BY <2>1, <2>2, <2>3, HandleKnown, KnownStays DEF Remembered
  <1>4. ASSUME NEW p \in Paths, Create(h, p) PROVE Remembered'
    <2>1. UNCHANGED <<version, remote, pendMeta, toRecover, naming>>  BY <1>4 DEF Create
    <2>2. /\ handle'[h] = [closedHandle EXCEPT !.open = TRUE, !.path = p]
          /\ job'[h] = newJob(handle'[h], "create")
          /\ \A k \in Handles : k # h => handle'[k] = handle[k]
          /\ \A k \in Jobs : k # h => job'[k] = job[k]
      BY <1>4, CreateEffect
    <2>3. handle'[h].base = Unknown  BY <2>2 DEF closedHandle
    <2>4. job'[h].base = Unknown  BY <2>2, <2>3 DEF newJob
    <2>5. HandlesKnown'  BY <1>v, <2>1, <2>2, <2>3, HandleKnown
    <2>6. JobsKnown'  BY <1>v, <2>1, <2>2, <2>4, JobKnown
    <2> QED  BY <2>1, <2>5, <2>6, KnownStays DEF Remembered
  <1>5. ASSUME NEW p \in Paths, Open(h, p) PROVE Remembered'
    <2>1. UNCHANGED <<version, remote, pendMeta, toRecover, naming>>  BY <1>5 DEF Open
    <2>2. /\ UNCHANGED job /\ \A k \in Handles : k # h => handle'[k] = handle[k]
          /\ \/ handle'[h].base = remote[p].version
             \/ \E g \in DirtyHandles(p) : handle'[h].base = handle[g].base
      BY <1>5, OpenEffect
    <2>3. handle'[h].base <= version'
      BY <2>1, <2>2 DEF Remembered, FilesKnown, HandlesKnown, DirtyHandles
    <2> QED  BY <2>1, <2>2, <2>3, HandleKnown, KnownStays DEF Remembered
  <1> QED  BY <1>1, <1>2, <1>3, <1>4, <1>5

\* The steps of the other client, of unlinks and renames, and of the recovery.
LEMMA RememberedPath ==
  ASSUME FuseTypes, Remembered, NEW p \in Paths,
         Unlink(p) \/ OtherWrites(p) \/ Recover(p) \/ \E q \in Paths : Rename(p, q)
  PROVE  Remembered'
  <1> USE DEF FuseTypes
  <1> USE DEF remoteVars, cacheVars, drainVars, serveVars
  <1>v. version \in Nat /\ Unknown <= version /\ Stored \in Nat /\ version < Stored /\ Unknown < Stored
    BY DEF FilesTyped, Unknown, Stored
  <1>1. CASE Unlink(p)
    <2>1. UNCHANGED <<version, handle, job, pendMeta, toRecover>>  BY <1>1 DEF Unlink
    <2>2. naming'.version = Unknown  BY <1>1 DEF Unlink, noNaming
    <2>3. remote' = [remote EXCEPT ![p] = Absent]  BY <1>1 DEF Unlink
    <2>4. FilesKnown'
      BY <1>v, <2>1, <2>3 DEF Remembered, FilesKnown, FilesTyped, Absent
    <2> QED  BY <1>v, <2>1, <2>2, <2>4, KnownStays DEF Remembered
  <1>2. CASE OtherWrites(p)
    <2>1. UNCHANGED <<handle, job, pendMeta, toRecover, naming>> /\ version' = Stored
      BY <1>2 DEF OtherWrites
    <2>2. /\ remote'[p].version = Stored
          /\ \A q \in Paths : q # p => remote'[q] = remote[q]
      BY <1>2 DEF OtherWrites, FilesTyped
    <2>3. FilesKnown'  BY <2>1, <2>2, FilesFresh DEF Remembered
    <2> QED  BY <2>1, <2>3, KnownStays DEF Remembered
  <1>3. CASE Recover(p)
    <2>1. UNCHANGED <<version, remote, handle, pendMeta, naming>>  BY <1>3 DEF Recover
    <2>2. CacheKnown'
      BY <1>3, <1>v, <2>1 DEF Recover, Remembered, CacheKnown, RecoverTyped, None
    <2>3. JobsKnown'
      <3>1. CASE UNCHANGED job  BY <2>1, <3>1, KnownStays
      <3>2. CASE job' = [job EXCEPT ![Recovery] =
                      [step |-> "check", path |-> p, content |-> pendData[p].content,
                       base |-> toRecover[p].base, from |-> toRecover[p].base,
                       stored |-> TRUE, by |-> "recovery"]]
        <4>1. /\ job'[Recovery].base = toRecover[p].base
              /\ \A k \in Jobs : k # Recovery => job'[k] = job[k]
          BY <3>2 DEF JobsTyped, Jobs
        <4>2. job'[Recovery].base <= version'  BY <2>1, <4>1 DEF Remembered, CacheKnown
        <4> QED  BY <2>1, <4>1, <4>2, JobKnown
      <3> QED  BY <1>3, <3>1, <3>2 DEF Recover
    <2> QED  BY <2>1, <2>2, <2>3, KnownStays DEF Remembered
  <1>4. ASSUME NEW q \in Paths, Rename(p, q) PROVE Remembered'
    <2>1. UNCHANGED <<handle, job, pendMeta, toRecover>> /\ version' = Stored /\ p # q
      BY <1>4 DEF Rename
    <2>2. naming'.version = Unknown  BY <1>4 DEF Rename, noNaming
    <2>3. /\ remote'[q] = [remote[p] EXCEPT !.version = Stored]
          /\ \A r \in Paths : r # q => remote'[r] = remote[r] \/ remote'[r] = Absent
      BY <1>4 DEF Rename, FilesTyped
    <2>4. remote'[q].version = Stored  BY <2>3 DEF FilesTyped, RemoteFile
    <2>5. FilesKnown'  BY <2>1, <2>3, <2>4, FilesFresh DEF Remembered
    <2>6. naming'.version <= version'  BY <1>v, <2>1, <2>2 DEF Unknown
    <2> QED  BY <2>1, <2>5, <2>6, KnownStays DEF Remembered
  <1> QED  BY <1>1, <1>2, <1>3, <1>4

\* The steps of a naming, the drain and the mount process.
LEMMA RememberedServe ==
  ASSUME FuseTypes, Remembered,
         RenameStat \/ NameNone \/ StartDrain \/ DrainRecovers \/ DrainEnds \/ KillMount \/ Mount
  PROVE  Remembered'
  <1> USE DEF FuseTypes
  <1> USE DEF remoteVars, cacheVars, drainVars, serveVars
  <1>v. version \in Nat /\ Unknown <= version  BY DEF FilesTyped, Unknown
  <1>1. CASE RenameStat
    <2>1. UNCHANGED <<version, remote, handle, job, pendMeta, toRecover>>  BY <1>1 DEF RenameStat
    <2>2. naming'.version = remote[naming.to].version /\ naming.to \in Paths
      BY <1>1 DEF RenameStat, NamingTyped
    <2> QED  BY <2>1, <2>2, KnownStays DEF Remembered, FilesKnown
  <1>2. CASE NameNone
    <2>1. naming'.version = Unknown  BY <1>2 DEF NameNone, noNaming
    <2> QED  BY <1>2, <1>v, <2>1, KnownStays DEF NameNone, Remembered
  <1>3. CASE StartDrain \/ DrainEnds
    BY <1>3, KnownStays DEF StartDrain, DrainEnds, Remembered
  <1>4. CASE DrainRecovers \/ Mount
    <2>1. /\ UNCHANGED <<version, remote, handle, job, pendMeta, naming>>
          /\ toRecover' = pendMeta \/ toRecover' = toRecover
      BY <1>4 DEF DrainRecovers, Mount
    <2>2. CacheKnown'  BY <2>1 DEF Remembered, CacheKnown
    <2> QED  BY <2>1, <2>2, KnownStays DEF Remembered
  <1>5. CASE KillMount
    <2>1. /\ UNCHANGED <<version, remote, pendMeta>>
          /\ handle' = [h \in Handles |-> closedHandle] /\ job' = [j \in Jobs |-> noJob]
          /\ toRecover' = [q \in Paths |-> None] /\ naming' = noNaming
      BY <1>5 DEF KillMount
    <2>2. HandlesKnown' /\ JobsKnown' /\ CacheKnown' /\ naming'.version <= version'
      BY <1>v, <2>1 DEF Remembered, HandlesKnown, JobsKnown, CacheKnown, closedHandle, noJob, None, noNaming
    <2> QED  BY <2>1, <2>2, KnownStays DEF Remembered
  <1> QED  BY <1>1, <1>2, <1>3, <1>4, <1>5

\* Every step.
LEMMA RememberedNext == FuseTypes /\ Remembered /\ [Next]_vars => Remembered'
  <1> SUFFICES ASSUME FuseTypes, Remembered, [Next]_vars PROVE Remembered'  OBVIOUS
  <1>1. CASE Next
    BY <1>1, RememberedUpload, RememberedHandle, RememberedPath, RememberedServe DEF Next
  <1>2. CASE UNCHANGED vars
    <2>1. UNCHANGED <<remote, version, handle, job, pendMeta, toRecover, naming>>  BY <1>2 DEF vars
    <2> QED  BY <2>1, KnownStays DEF Remembered
  <1> QED  BY <1>1, <1>2

-----------------------------------------------------------------------------
(* A handle that can be written to knows its version.                      *)

\* Nothing but a handle and its own upload matters.
LEMMA KnowsStays ==
  ASSUME NEW h \in Handles, Knows(h), handle'[h] = handle[h], job'[h] = job[h]
  PROVE  Knows(h)'
  BY DEF Knows

\* A failed upload leaves no open handle without a version.
LEMMA FailKnows ==
  ASSUME FuseTypes, NEW j \in Handles, Knows(j), Fail(j), job[j].step # "idle"
  PROVE  Knows(j)'
  <1>1. handle'[j] = afterFailure(j) /\ job'[j] = noJob
    BY FailType, RecoveryIsNoHandle DEF FuseTypes
  <1>2. CASE job[j].by \in {"release", "create"}
    <2>1. handle'[j] = Closed(j)  BY <1>1, <1>2 DEF afterFailure
    <2> QED  BY <1>1, <2>1, ClosedBase DEF Knows, noJob, FuseTypes
  <1>3. CASE job[j].by \notin {"release", "create"}
    <2>1. handle'[j] = handle[j]  BY <1>1, <1>3 DEF afterFailure
    <2> QED  BY <1>1, <1>3, <2>1 DEF Knows, noJob
  <1> QED  BY <1>2, <1>3

\* The steps of an upload.
LEMMA KnowsUpload ==
  ASSUME FuseTypes, Remembered, KnowsBase, NEW j \in Jobs, Upload(j)
  PROVE  KnowsBase'
  <1> USE DEF FuseTypes
  <1> USE DEF remoteVars, cacheVars, drainVars, serveVars
  <1>j. job[j] \in JobRecord /\ job[j].step # "idle" /\ job[j].path \in Paths  BY UploadFrame
  <1>3. ASSUME NEW h \in Handles, h # j PROVE Knows(h)'
    BY <1>3, UploadFrame, KnowsStays, RecoveryIsNoHandle DEF KnowsBase
  <1>4. ASSUME j \in Handles PROVE Knows(j)'
    <2>h. handle[j] \in HandleRecord /\ Knows(j)  BY <1>4 DEF HandlesTyped, KnowsBase
    <2>1. CASE Fail(j)  BY <1>4, <1>j, <2>1, <2>h, FailKnows
    <2>2. CASE PutData(j) \/ PutMeta(j) \/ (CheckWriteBase(j) /\ ~Fail(j))
      <3>1. UNCHANGED handle /\ \E s \in {"putMeta", "check", "send"} : Step(j, s)
        BY <2>2 DEF PutData, PutMeta, CheckWriteBase
      <3>2. /\ job'[j].step \in {"putMeta", "check", "send"} /\ job'[j].by = job[j].by
            /\ job'[j].base = job[j].base
        BY <3>1, <1>j DEF Step, JobsTyped, JobRecord
      <3> QED  BY <2>h, <1>j, <3>1, <3>2 DEF Knows
    <2>3. CASE Send(j) /\ ~Fail(j)
      <3>1. UNCHANGED handle  BY <2>3 DEF Send
      <3>2. /\ job'[j].by = job[j].by
            /\ \/ job'[j].step = "removeData" /\ job'[j].base = Stored
               \/ job'[j].step = "restat"
        BY <2>3, <1>j DEF Send, JobsTyped, JobRecord
      <3>3. Stored # Unknown  BY DEF Stored, Unknown, FilesTyped
      <3> QED  BY <2>h, <1>j, <3>1, <3>2, <3>3 DEF Knows
    <2>4. CASE Restat(j) /\ ~Fail(j)
      <3>1. UNCHANGED handle /\ remote[job[j].path] # Absent  BY <2>4 DEF Restat
      <3>2. /\ job'[j].by = job[j].by /\ job'[j].base = remote[job[j].path].version
            /\ job'[j].step = "removeData"
        BY <2>4, <1>j DEF Restat, JobsTyped, JobRecord
      <3>3. job'[j].base # Unknown  BY <1>j, <3>1, <3>2 DEF Remembered, FilesKnown
      <3> QED  BY <2>h, <1>j, <3>1, <3>2, <3>3 DEF Knows
    <2>5. CASE RemoveData(j)
      <3>1. UNCHANGED handle /\ Step(j, "removeMeta") /\ job[j].step = "removeData"  BY <2>5 DEF RemoveData
      <3>2. job'[j].by = job[j].by /\ job'[j].base = job[j].base /\ job'[j].step = "removeMeta"
        BY <3>1, <1>j DEF Step, JobsTyped, JobRecord
      <3> QED  BY <2>h, <1>j, <3>1, <3>2 DEF Knows
    <2>6. CASE RemoveMeta(j)
      <3>1. job'[j] = noJob /\ job[j].base # Unknown
        BY <2>6, <2>h DEF RemoveMeta, JobsTyped, Knows
      <3>2. handle'[j] = IF job[j].by = "release" \/ ~handle[j].open
                         THEN [Closed(j) EXCEPT !.dirty = FALSE]
                         ELSE [handle[j] EXCEPT !.base = job[j].base, !.from = job[j].from, !.dirty = FALSE]
        BY <2>6, <1>4, RecoveryIsNoHandle DEF RemoveMeta, HandlesTyped
      <3>3. Closed(j) \in HandleRecord /\ ~Closed(j).open  BY <1>4, ClosedType
      <3>4. ~handle'[j].dirty /\ (handle'[j].open => handle'[j].base = job[j].base)
        BY <2>h, <3>2, <3>3 DEF HandleRecord
      <3> QED  BY <3>1, <3>4 DEF Knows, noJob
    <2> QED  BY <2>1, <2>2, <2>3, <2>4, <2>5, <2>6 DEF Upload
  <1> QED  BY <1>3, <1>4 DEF KnowsBase

\* FlushLocked.
LEMMA FlushKnows ==
  ASSUME FuseTypes, KnowsBase, NEW h \in Handles, Free(h),
         NEW by \in {"flush", "release", "drain"}, FlushLocked(h, by)
  PROVE  KnowsBase'
  <1> USE DEF FuseTypes
  <1>h. handle[h] \in HandleRecord /\ Knows(h) /\ job[h].step = "idle" /\ h \in Jobs
    BY RecoveryIsNoHandle DEF HandlesTyped, KnowsBase, Free
  <1>1. ASSUME NeedsUpload(h), job'[h] = newJob(handle[h], by), UNCHANGED handle
        PROVE  Knows(h)'
    <2>1. /\ job'[h].step \in {"putData", "check"} /\ job'[h].by = by /\ by # "create"
          /\ handle[h].base # Unknown
      BY <1>h, <1>1 DEF Knows, newJob, NeedsUpload
    <2> QED  BY <1>1, <2>1 DEF Knows
  <1>2. ASSUME UNCHANGED job,
               handle'[h] = IF by = "release" \/ ~handle[h].open THEN Closed(h)
                            ELSE [handle[h] EXCEPT !.dirty = FALSE]
        PROVE  Knows(h)'
    <2>1. \/ handle'[h] = Closed(h)
          \/ /\ ~handle'[h].dirty /\ handle'[h].base = handle[h].base
             /\ handle'[h].open = handle[h].open
      BY <1>h, <1>2 DEF HandleRecord
    <2>2. CASE handle'[h] = Closed(h)  BY <1>h, <1>2, <2>2, ClosedBase DEF Knows
    <2> QED  BY <1>h, <1>2, <2>1, <2>2 DEF Knows
  <1>3. Knows(h)'  BY <1>1, <1>2, FlushType
  <1>4. \A k \in Handles : k # h => Knows(k)'
    BY FlushType, KnowsStays, RecoveryIsNoHandle DEF KnowsBase
  <1> QED  BY <1>3, <1>4 DEF KnowsBase

\* The steps of the handles and of the drain that flush them.
LEMMA KnowsHandle ==
  ASSUME FuseTypes, Remembered, KnowsBase, NEW h \in Handles,
         \/ Write(h) \/ Flush(h) \/ Release(h) \/ DrainHandle(h) \/ NameHandle(h)
         \/ \E p \in Paths : Create(h, p) \/ Open(h, p)
  PROVE  KnowsBase'
  <1> USE DEF FuseTypes
  <1>h. handle[h] \in HandleRecord /\ Knows(h) /\ h \in Jobs
    BY RecoveryIsNoHandle DEF HandlesTyped, KnowsBase
  <1>o. ASSUME \A k \in Handles : k # h => handle'[k] = handle[k],
               \A k \in Jobs : k # h => job'[k] = job[k]
        PROVE  \A k \in Handles : k # h => Knows(k)'
    BY <1>o, KnowsStays, RecoveryIsNoHandle DEF KnowsBase
  <1>1. CASE Write(h)
    <2>1. job[h].step = "idle" /\ handle[h].open  BY <1>1 DEF Write, Usable, Free
    <2>2. Knows(h)'  BY <1>1, <1>h, <2>1, WriteEffect DEF Knows
    <2> QED  BY <1>1, <1>o, <2>2, WriteEffect DEF KnowsBase
  <1>2. CASE Flush(h) \/ Release(h) \/ DrainHandle(h)
    BY <1>2, FlushKnows DEF Flush, Release, DrainHandle, Usable
  <1>3. CASE NameHandle(h)
    <2>1. job[h].step = "idle"  BY <1>3 DEF NameHandle, Free
    <2>2. Knows(h)'  BY <1>3, <1>h, <2>1, NameEffect DEF Knows
    <2> QED  BY <1>3, <1>o, <2>2, NameEffect DEF KnowsBase
  <1>4. ASSUME NEW p \in Paths, Create(h, p) PROVE KnowsBase'
    <2>1. /\ handle'[h] = [closedHandle EXCEPT !.open = TRUE, !.path = p]
          /\ job'[h] = newJob(handle'[h], "create")
      BY <1>4, CreateEffect
    <2>2. ~handle'[h].dirty  BY <2>1 DEF closedHandle
    <2>3. job'[h].step \in {"putData", "check"} /\ job'[h].by = "create"  BY <2>1 DEF newJob
    <2>4. Knows(h)'  BY <2>2, <2>3 DEF Knows
    <2> QED  BY <1>4, <1>o, <2>4, CreateEffect DEF KnowsBase
  <1>5. ASSUME NEW p \in Paths, Open(h, p) PROVE KnowsBase'
    <2>1. job'[h].step = "idle" /\ remote[p] # Absent
      BY <1>5, OpenEffect DEF Open, Unused, Free
    <2>2. remote[p].version # Unknown  BY <2>1 DEF Remembered, FilesKnown
    <2>3. \A g \in DirtyHandles(p) : handle[g].base # Unknown
      BY DEF DirtyHandles, KnowsBase, Knows
    <2>4. handle'[h].base # Unknown  BY <1>5, <2>2, <2>3, OpenEffect
    <2>5. Knows(h)'  BY <2>1, <2>4 DEF Knows
    <2> QED  BY <1>5, <1>o, <2>5, OpenEffect DEF KnowsBase
  <1> QED  BY <1>1, <1>2, <1>3, <1>4, <1>5

\* Every step.
LEMMA KnowsNext == FuseTypes /\ Remembered /\ KnowsBase /\ [Next]_vars => KnowsBase'
  <1> SUFFICES ASSUME FuseTypes, Remembered, KnowsBase, [Next]_vars PROVE KnowsBase'  OBVIOUS
  <1>1. ASSUME NEW p \in Paths, Recover(p) PROVE KnowsBase'
    <2>1. UNCHANGED handle /\ \A k \in Handles : job'[k] = job[k]
      BY <1>1, RecoveryIsNoHandle DEF Recover, FuseTypes, JobsTyped
    <2> QED  BY <2>1, KnowsStays DEF KnowsBase
  <1>2. CASE KillMount
    <2>1. handle' = [h \in Handles |-> closedHandle] /\ job' = [j \in Jobs |-> noJob]
      BY <1>2 DEF KillMount
    <2> QED  BY <2>1, RecoveryIsNoHandle DEF KnowsBase, Knows, closedHandle, noJob
  <1>3. CASE UNCHANGED <<handle, job>>
    BY <1>3, KnowsStays DEF KnowsBase
  <1>4. CASE \/ RenameStat \/ NameNone \/ StartDrain \/ DrainRecovers \/ DrainEnds \/ Mount
             \/ \E p \in Paths : Unlink(p) \/ OtherWrites(p) \/ \E q \in Paths : Rename(p, q)
    BY <1>3, <1>4 DEF RenameStat, NameNone, StartDrain, DrainRecovers, DrainEnds, Mount,
                      Unlink, OtherWrites, Rename
  <1>5. CASE UNCHANGED vars  BY <1>3, <1>5 DEF vars
  <1> QED  BY <1>1, <1>2, <1>4, <1>5, KnowsUpload, KnowsHandle DEF Next

-----------------------------------------------------------------------------
(* What becomes of the writes.                                             *)

\* What a step may do with the writes of a handle.
Keeps(h) ==
    \A w : /\ drain = "none" /\ handle[h].open /\ Held(w, h)
                => Saved(w)' \/ (handle'[h].open /\ Held(w, h)')
           /\ drain = "handles" /\ ((h \in toDrain /\ Held(w, h)) \/ Drained(w, h))
                => Saved(w)' \/ (h \in toDrain' /\ Held(w, h)') \/ Drained(w, h)'

\* If every handle keeps its writes, all stay accounted for.
LEMMA AccountedStep ==
  ASSUME Accounted, done \subseteq done', givenUp \subseteq givenUp', UNCHANGED <<before, written>>,
         drain' = "failed" \/ (/\ drain' = drain
                               /\ drain = "none" => toDrain' = {}
                               /\ \A h \in Handles : Keeps(h))
  PROVE  Accounted'
  <1>0. \A w : Saved(w) => Saved(w)'  BY DEF Saved
  <1>1. CASE drain' = "failed"  BY <1>1 DEF Accounted
  <1>2. CASE drain' = drain /\ (drain = "none" => toDrain' = {}) /\ \A h \in Handles : Keeps(h)
    <2>1. CASE drain = "none"  BY <1>0, <1>2, <2>1 DEF Accounted, Keeps
    <2>2. CASE drain = "handles"  BY <1>0, <1>2, <2>2 DEF Accounted, Keeps
    <2>3. CASE drain \notin {"none", "handles"}  BY <1>0, <1>2, <2>3 DEF Accounted
    <2> QED  BY <2>1, <2>2, <2>3
  <1> QED  BY <1>1, <1>2

\* Nothing but a handle and its own upload matters.
LEMMA KeepsStays ==
  ASSUME NEW h \in Handles, handle'[h] = handle[h], job'[h] = job[h], toDrain \subseteq toDrain'
  PROVE  Keeps(h)
  BY DEF Keeps, Held, Drained

\* What a handle and its upload carry, they still carry when neither changes.
LEMMA CarriesStays ==
  ASSUME NEW h \in Handles, Carries(h), handle'[h] = handle[h], job'[h] = job[h], done \subseteq done'
  PROVE  Carries(h)'
  BY DEF Carries

\* A failed upload leaves the writes in its handle, or gives them up with it.
LEMMA FailAccounted ==
  ASSUME FuseTypes, KnowsBase, DrainInv, NEW j \in Jobs, job[j].step # "idle", Fail(j),
         UNCHANGED written, done \subseteq done'
  PROVE  DrainInv'
  <1> USE DEF FuseTypes
  <1>1. /\ job'[j] = noJob /\ \A k \in Jobs : k # j => job'[k] = job[k]
        /\ \A k \in Handles : k # j => handle'[k] = handle[k]
        /\ givenUp \subseteq givenUp' /\ UNCHANGED before
    BY FailType DEF Fail
  <1>2. ASSUME NEW h \in Handles PROVE Carries(h)'
    <2>1. CASE h = j  BY <1>1, <2>1 DEF Carries, noJob
    <2>2. CASE h # j  BY <1>1, <2>2, CarriesStays, RecoveryIsNoHandle DEF DrainInv
    <2> QED  BY <2>1, <2>2
  <1>3. CASE drain' = "failed"  BY <1>1, <1>2, <1>3, AccountedStep DEF DrainInv
  <1>4. CASE drain' # "failed"
    <2>1. drain' = drain /\ toDrain' = toDrain  BY <1>4 DEF Fail, RecoveryFails
    <2>2. ASSUME NEW h \in Handles PROVE Keeps(h)
      <3>1. CASE h # j  BY <1>1, <2>1, <3>1, KeepsStays, RecoveryIsNoHandle
      <3>2. CASE h = j
        <4>1. /\ j # Recovery /\ job[j].by # "drain"
              /\ job[j].by = "release" => job[j].content \subseteq givenUp'
          BY <1>4, <3>2, RecoveryIsNoHandle DEF Fail
        <4>2. handle'[j] = afterFailure(j)  BY <3>2, FailType
        <4>3. /\ job[j].content = handle[j].content
              /\ job[j].by = "create" => ~handle[j].dirty
          BY <3>2 DEF DrainInv, Carries, KnowsBase, Knows
        <4>4. CASE job[j].by = "release"
          BY <3>2, <4>1, <4>3, <4>4 DEF Keeps, Held, Saved, Drained
        <4>5. CASE job[j].by = "create"
          BY <3>2, <4>3, <4>5 DEF Keeps, Held, Drained
        <4>6. CASE job[j].by \notin {"release", "create"}
          <5>1. handle'[j] = handle[j]  BY <4>2, <4>6 DEF afterFailure
          <5> QED  BY <2>1, <3>2, <4>1, <5>1 DEF Keeps, Held, Drained
        <4> QED  BY <4>4, <4>5, <4>6
      <3> QED  BY <3>1, <3>2
    <2>3. Accounted'
      <3>1. drain = "none" => toDrain' = {}  BY <2>1 DEF DrainInv, Accounted
      <3> QED  BY <1>1, <2>1, <2>2, <3>1, AccountedStep DEF DrainInv
    <2> QED  BY <1>2, <2>3 DEF DrainInv
  <1> QED  BY <1>3, <1>4

\* The steps of an upload.
LEMMA DrainUpload ==
  ASSUME FuseTypes, KnowsBase, DrainInv, NEW j \in Jobs, Upload(j)
  PROVE  DrainInv'
  <1> USE DEF FuseTypes
  <1> USE DEF remoteVars, cacheVars, drainVars, serveVars
  <1>j. /\ UNCHANGED <<before, written>>
        /\ done \subseteq done' /\ givenUp \subseteq givenUp'
        /\ job[j] \in JobRecord /\ job[j].step # "idle" /\ job[j].path \in Paths
        /\ \A k \in Jobs : k # j => job'[k] = job[k]
        /\ \A k \in Handles : k # j => handle'[k] = handle[k]
    BY UploadFrame
  <1>f. CASE Fail(j)  BY <1>j, <1>f, FailAccounted
  <1>r. CASE RemoveMeta(j)
    <2>1. UNCHANGED <<drain, toDrain>> /\ job'[j] = noJob  BY <1>r DEF RemoveMeta, JobsTyped
    <2>2. ASSUME NEW h \in Handles PROVE Carries(h)' /\ Keeps(h)
      <3>1. CASE h # j
        BY <1>j, <2>1, <3>1, KeepsStays, CarriesStays, RecoveryIsNoHandle DEF DrainInv
      <3>2. CASE h = j
        <4>1. job[j].content = handle[j].content /\ job[j].content \subseteq done
          BY <1>r, <3>2 DEF DrainInv, Carries, RemoveMeta
        <4>2. \A w : Held(w, h) \/ Drained(w, h) => Saved(w)'
          BY <1>j, <3>2, <4>1 DEF Held, Drained, Saved
        <4> QED  BY <2>1, <3>2, <4>2 DEF Keeps, Carries, noJob
      <3> QED  BY <3>1, <3>2
    <2>3. Accounted'
      <3>1. drain = "none" => toDrain' = {}  BY <2>1 DEF DrainInv, Accounted
      <3> QED  BY <1>j, <2>1, <2>2, <3>1, AccountedStep DEF DrainInv
    <2> QED  BY <2>2, <2>3 DEF DrainInv
  <1>s. CASE ~Fail(j) /\ ~RemoveMeta(j)
    <2>1. UNCHANGED <<handle, drain, toDrain>>
      BY <1>s DEF Upload, PutData, PutMeta, CheckWriteBase, Send, Restat, RemoveData
    <2>2. /\ job'[j].content = job[j].content /\ job'[j].by = job[j].by
          /\ job'[j].step # "idle"
          /\ job'[j].step \in {"restat", "removeData", "removeMeta"} =>
               \/ job[j].step \in {"restat", "removeData", "removeMeta"}
               \/ job[j].content \subseteq done'
      BY <1>s, <1>j DEF Upload, PutData, PutMeta, CheckWriteBase, Send, Restat, RemoveData, Put,
                        Step, JobsTyped, JobRecord
    <2>3. ASSUME NEW h \in Handles PROVE Carries(h)' /\ Keeps(h)
      <3>1. CASE h # j
        BY <1>j, <2>1, <3>1, KeepsStays, CarriesStays, RecoveryIsNoHandle DEF DrainInv
      <3>2. CASE h = j
        <4>1. Carries(j)  BY <3>2 DEF DrainInv
        <4>2. Carries(j)'  BY <1>j, <2>1, <2>2, <4>1 DEF Carries
        <4>3. Keeps(j)  BY <1>j, <2>1, <2>2 DEF Keeps, Held, Drained
        <4> QED  BY <3>2, <4>2, <4>3
      <3> QED  BY <3>1, <3>2
    <2>4. Accounted'
      <3>1. drain = "none" => toDrain' = {}  BY <2>1 DEF DrainInv, Accounted
      <3> QED  BY <1>j, <2>1, <2>3, <3>1, AccountedStep DEF DrainInv
    <2> QED  BY <2>3, <2>4 DEF DrainInv
  <1> QED  BY <1>f, <1>r, <1>s

\* FlushLocked: the content goes into the upload, or is given up with a deleted file.
LEMMA FlushAccounted ==
  ASSUME FuseTypes, DrainInv, NEW h \in Handles, Free(h),
         NEW by \in {"flush", "release", "drain"}, FlushLocked(h, by),
         toDrain' = IF by = "drain" THEN toDrain \ {h} ELSE toDrain,
         by = "drain" => drain = "handles",
         UNCHANGED <<drain, before, written, done>>
  PROVE  DrainInv'
  <1> USE DEF FuseTypes
  <1>1. /\ \A k \in Jobs : k # h => job'[k] = job[k]
        /\ \A k \in Handles : k # h => handle'[k] = handle[k]
        /\ job[h].step = "idle" /\ handle[h] \in HandleRecord
        /\ givenUp \subseteq givenUp'
    BY FlushType DEF Free, HandlesTyped, FlushLocked
  <1>2. ASSUME NEW k \in Handles PROVE Carries(k)' /\ Keeps(k)
    <2>1. CASE k # h
      <3>1. Carries(k)'  BY <1>1, <2>1, CarriesStays, RecoveryIsNoHandle DEF DrainInv
      <3>2. k \in toDrain => k \in toDrain'  BY <2>1
      <3>3. Keeps(k)
        BY <1>1, <2>1, <3>2, RecoveryIsNoHandle DEF Keeps, Held, Drained
      <3> QED  BY <3>1, <3>3
    <2>2. CASE k = h
      <3>1. ASSUME NeedsUpload(h), job'[h] = newJob(handle[h], by), UNCHANGED handle
            PROVE  Carries(h)' /\ Keeps(h)
        <4>1. /\ job'[h].step \in {"putData", "check"} /\ job'[h].by = by
              /\ job'[h].content = handle[h].content
          BY <3>1 DEF newJob
        <4>2. Carries(h)'  BY <3>1, <4>1 DEF Carries
        <4>3. by # "drain" => toDrain' = toDrain  OBVIOUS
        <4>4. Keeps(h)
          BY <1>1, <3>1, <4>1, <4>3 DEF Keeps, Held, Drained
        <4> QED  BY <4>2, <4>4
      <3>2. ASSUME ~NeedsUpload(h), UNCHANGED job
            PROVE  Carries(h)' /\ Keeps(h)
        <4>1. givenUp' = IF handle[h].dirty THEN givenUp \cup handle[h].content ELSE givenUp
          BY <3>2 DEF FlushLocked
        <4>2. \A w : Held(w, h) => Saved(w)'  BY <4>1 DEF Held, Saved
        <4> QED  BY <1>1, <3>2, <4>2 DEF Keeps, Drained, Carries
      <3> QED  BY <2>2, <3>1, <3>2, FlushType
    <2> QED  BY <2>1, <2>2
  <1>3. Accounted'
    <2>1. drain = "none" => toDrain' = {}  BY DEF DrainInv, Accounted
    <2> QED  BY <1>1, <1>2, <2>1, AccountedStep DEF DrainInv
  <1> QED  BY <1>2, <1>3 DEF DrainInv

\* The steps of the handles and of the drain that flush them.
LEMMA DrainHandleStep ==
  ASSUME FuseTypes, DrainInv, NEW h \in Handles,
         \/ Write(h) \/ Flush(h) \/ Release(h) \/ DrainHandle(h) \/ NameHandle(h)
         \/ \E p \in Paths : Create(h, p) \/ Open(h, p)
  PROVE  DrainInv'
  <1> USE DEF FuseTypes
  <1> USE DEF remoteVars, cacheVars, drainVars, serveVars
  <1>0. drain = "none" => toDrain = {}  BY DEF DrainInv, Accounted
  <1>o. ASSUME \A k \in Handles : k # h => handle'[k] = handle[k],
               \A k \in Jobs : k # h => job'[k] = job[k],
               UNCHANGED <<toDrain, done>>
        PROVE  \A k \in Handles : k # h => Carries(k)' /\ Keeps(k)
    BY <1>o, CarriesStays, KeepsStays, RecoveryIsNoHandle DEF DrainInv
  <1>1. CASE Write(h)
    <2>1. UNCHANGED <<done, drain, toDrain, before>> /\ job[h].step = "idle" /\ handle[h].open
      BY <1>1 DEF Write, Usable, Free
    <2>2. /\ UNCHANGED job /\ written' \ written \subseteq handle'[h].content
          /\ handle[h].content \subseteq handle'[h].content \cup givenUp'
          /\ givenUp \subseteq givenUp' /\ handle'[h].dirty /\ handle'[h].open
          /\ \A k \in Handles : k # h => handle'[k] = handle[k]
      BY <1>1, <2>1, WriteEffect
    <2>3. ASSUME NEW k \in Handles PROVE Carries(k)' /\ Keeps(k)
      <3>1. CASE k = h
        BY <2>1, <2>2, <3>1 DEF Carries, Keeps, Held, Drained, Saved
      <3> QED  BY <1>o, <2>1, <2>2, <3>1
    <2>s. \A w : Saved(w) => Saved(w)'  BY <2>1, <2>2 DEF Saved
    <2>4. CASE drain = "none"
      <3>1. ASSUME NEW w \in written'
            PROVE  Saved(w)' \/ \E k \in Handles : handle'[k].open /\ Held(w, k)'
        <4>1. CASE w \in written
          BY <2>3, <2>4, <2>s, <4>1 DEF DrainInv, Accounted, Keeps
        <4>2. CASE w \notin written
          BY <2>2, <3>1, <4>2 DEF Held
        <4> QED  BY <4>1, <4>2
      <3> QED  BY <1>0, <2>1, <2>3, <2>4, <3>1 DEF DrainInv, Accounted
    <2>5. CASE drain # "none"
      <3>1. Accounted'
        BY <2>1, <2>3, <2>5, <2>s DEF DrainInv, Accounted, Keeps
      <3> QED  BY <2>3, <3>1 DEF DrainInv
    <2> QED  BY <2>4, <2>5
  <1>2. CASE Flush(h) \/ Release(h)
    BY <1>2, FlushAccounted DEF Flush, Release, Usable
  <1>3. CASE DrainHandle(h)
    BY <1>3, FlushAccounted DEF DrainHandle
  <1>4. CASE NameHandle(h)
    <2>1. UNCHANGED <<done, drain, toDrain, before, written, givenUp>> /\ job[h].step = "idle"
      BY <1>4 DEF NameHandle, Free
    <2>2. /\ UNCHANGED job /\ handle'[h].content = handle[h].content
          /\ handle'[h].dirty = handle[h].dirty /\ handle'[h].open = handle[h].open
          /\ \A k \in Handles : k # h => handle'[k] = handle[k]
      BY <1>4, NameEffect
    <2>3. Carries(h)' /\ Keeps(h)  BY <2>1, <2>2 DEF Carries, Keeps, Held, Drained
    <2>4. \A k \in Handles : Carries(k)' /\ Keeps(k)  BY <1>o, <2>1, <2>2, <2>3
    <2>5. Accounted'  BY <1>0, <2>1, <2>4, AccountedStep DEF DrainInv
    <2> QED  BY <2>4, <2>5 DEF DrainInv
  <1>5. ASSUME NEW p \in Paths, Create(h, p) \/ Open(h, p) PROVE DrainInv'
    <2>1. /\ UNCHANGED <<done, drain, toDrain, before, written, givenUp>>
          /\ job[h].step = "idle" /\ ~handle[h].open /\ h \notin toDrain
      BY <1>5 DEF Create, Open, Unused, Free
    <2>2. /\ \A k \in Handles : k # h => handle'[k] = handle[k]
          /\ \A k \in Jobs : k # h => job'[k] = job[k]
      BY <1>5, CreateEffect, OpenEffect
    <2>3. Carries(h)'
      <3>1. CASE Open(h, p)  BY <2>1, <3>1, OpenEffect DEF Carries
      <3>2. CASE Create(h, p)
        <4>1. job'[h].content = handle'[h].content /\ job'[h].step \in {"putData", "check"}
          <5>1. job'[h] = newJob(handle'[h], "create")  BY <3>2, CreateEffect
          <5> QED  BY <5>1 DEF newJob
        <4> QED  BY <4>1 DEF Carries
      <3> QED  BY <1>5, <3>1, <3>2
    <2>4. Keeps(h)  BY <2>1 DEF Keeps, Drained
    <2>5. \A k \in Handles : Carries(k)' /\ Keeps(k)  BY <1>o, <2>1, <2>2, <2>3, <2>4
    <2>6. Accounted'  BY <1>0, <2>1, <2>5, AccountedStep DEF DrainInv
    <2> QED  BY <2>5, <2>6 DEF DrainInv
  <1> QED  BY <1>1, <1>2, <1>3, <1>4, <1>5

\* The initial state.
LEMMA DrainInit == Init => DrainInv
  BY RecoveryIsNoHandle DEF Init, DrainInv, Carries, Accounted, noJob

\* Every step.
LEMMA DrainNext == FuseTypes /\ KnowsBase /\ DrainInv /\ [Next]_vars => DrainInv'
  <1> SUFFICES ASSUME FuseTypes, KnowsBase, DrainInv, [Next]_vars PROVE DrainInv'  OBVIOUS
  <1> USE DEF remoteVars, cacheVars, drainVars, serveVars
  <1>0. drain = "none" => toDrain = {}  BY DEF DrainInv, Accounted
  <1>1. ASSUME NEW p \in Paths, Recover(p) PROVE DrainInv'
    <2>1. /\ UNCHANGED <<handle, toDrain, done, givenUp, before, written>>
          /\ drain' = drain \/ drain' = "failed"
      BY <1>1 DEF Recover, RecoveryFails
    <2>2. \A k \in Handles : job'[k] = job[k]
      BY <1>1, RecoveryIsNoHandle DEF Recover, FuseTypes, JobsTyped
    <2>3. \A k \in Handles : Carries(k)' /\ Keeps(k)
      BY <2>1, <2>2, CarriesStays, KeepsStays DEF DrainInv
    <2>4. Accounted'  BY <1>0, <2>1, <2>3, AccountedStep DEF DrainInv
    <2> QED  BY <2>3, <2>4 DEF DrainInv
  <1>2. CASE StartDrain
    <2>1. /\ UNCHANGED <<handle, job, done, givenUp>>
          /\ drain = "none" /\ drain' = "handles" /\ before' = written
          /\ toDrain' = {h \in Handles : handle[h].open}
      BY <1>2 DEF StartDrain
    <2>2. \A k \in Handles : Carries(k)'  BY <2>1, CarriesStays DEF DrainInv
    <2>3. Accounted'  BY <2>1 DEF DrainInv, Accounted, Saved, Held, Drained
    <2> QED  BY <2>2, <2>3 DEF DrainInv
  <1>3. CASE DrainRecovers
    <2>1. /\ UNCHANGED <<handle, job, done, givenUp, before>>
          /\ drain = "handles" /\ drain' = "recover" /\ toDrain = {}
          /\ \A h \in Handles : job[h].by # "drain"
      BY <1>3 DEF DrainRecovers
    <2>2. \A k \in Handles : Carries(k)'  BY <2>1, CarriesStays DEF DrainInv
    <2>3. \A w \in before : Saved(w)  BY <2>1 DEF DrainInv, Accounted, Drained
    <2>4. Accounted'  BY <2>1, <2>3 DEF Accounted, Saved
    <2> QED  BY <2>2, <2>4 DEF DrainInv
  <1>4. CASE DrainEnds
    <2>1. /\ UNCHANGED <<handle, job, done, givenUp, before>>
          /\ drain = "recover" /\ drain' \in {"ok", "failed"}
      BY <1>4 DEF DrainEnds
    <2>2. \A k \in Handles : Carries(k)'  BY <2>1, CarriesStays DEF DrainInv
    <2>3. Accounted'  BY <2>1 DEF DrainInv, Accounted, Saved
    <2> QED  BY <2>2, <2>3 DEF DrainInv
  <1>5. CASE KillMount
    <2>1. /\ UNCHANGED <<done, before, written>> /\ toDrain' = {}
          /\ job' = [j \in Jobs |-> noJob]
          /\ givenUp' = givenUp \cup UNION {handle[h].content : h \in Handles}
          /\ drain' = IF drain \in {"none", "ok"} THEN drain ELSE "failed"
      BY <1>5 DEF KillMount
    <2>2. \A k \in Handles : Carries(k)'  BY <2>1, RecoveryIsNoHandle DEF Carries, noJob
    <2>3. \A w : Saved(w) \/ (\E h \in Handles : Held(w, h)) => Saved(w)'
      BY <2>1 DEF Saved, Held
    <2>4. Accounted'
      <3>1. CASE drain = "none"  BY <2>1, <2>3, <3>1 DEF DrainInv, Accounted
      <3>2. CASE drain = "ok"  BY <2>1, <2>3, <3>2 DEF DrainInv, Accounted
      <3>3. CASE drain \notin {"none", "ok"}  BY <2>1, <3>3 DEF Accounted
      <3> QED  BY <3>1, <3>2, <3>3
    <2> QED  BY <2>2, <2>4 DEF DrainInv
  <1>6. CASE UNCHANGED <<handle, job, drain, toDrain, done, givenUp, before, written>>
    <2>1. \A k \in Handles : Carries(k)' /\ Keeps(k)
      BY <1>6, CarriesStays, KeepsStays DEF DrainInv
    <2> QED  BY <1>0, <1>6, <2>1, AccountedStep DEF DrainInv
  <1>7. CASE \/ RenameStat \/ NameNone \/ Mount
             \/ \E p \in Paths : Unlink(p) \/ OtherWrites(p) \/ \E q \in Paths : Rename(p, q)
    BY <1>6, <1>7 DEF RenameStat, NameNone, Mount, Unlink, OtherWrites, Rename
  <1>8. CASE UNCHANGED vars  BY <1>6, <1>8 DEF vars
  <1> QED  BY <1>1, <1>2, <1>3, <1>4, <1>5, <1>7, <1>8, DrainUpload, DrainHandleStep DEF Next

-----------------------------------------------------------------------------
(* What an upload has seen.                                                *)

\* A version of the other client that is not excused was one before the step, unless
\* the step wrote it.
LEMMA UnhiddenBefore ==
  ASSUME NEW p \in Paths, Unhidden(p)', remote'[p] = remote[p], excused \subseteq excused'
  PROVE  Unhidden(p)
  BY DEF Unhidden

\* It is a version, and no newer than the last one.
LEMMA UnhiddenVersion ==
  ASSUME FuseTypes, Remembered, NEW p \in Paths, Unhidden(p)
  PROVE  /\ remote[p].version \in Nat /\ remote[p].version # Unknown
         /\ remote[p].version <= version /\ remote[p].version # Stored /\ remote[p].version \in Nat
  BY DEF FuseTypes, FilesTyped, RemoteFile, Remembered, FilesKnown, Unhidden, Stored

\* The step of one handle and its upload keeps the rest.
LEMMA NoticedStep ==
  ASSUME NEW p \in Paths, Noticed(p), remote'[p] = remote[p], NEW j,
         \A k \in Jobs : k # j => job'[k] = job[k],
         \A k \in Handles : k # j => handle'[k] = handle[k],
         j \in Jobs => Saw(job'[j], remote[p].version) /\ Compares(j, p)',
         j \in Handles => Saw(handle'[j], remote[p].version),
         Versioned(pendMeta'[p]), Versioned(toRecover'[p])
  PROVE  Noticed(p)'
  <1>1. ASSUME NEW k \in Jobs PROVE Saw(job'[k], remote[p].version) /\ Compares(k, p)'
    <2>1. CASE k = j  BY <2>1
    <2>2. CASE k # j  BY <2>2 DEF Noticed, Compares
    <2> QED  BY <2>1, <2>2
  <1>2. ASSUME NEW k \in Handles PROVE Saw(handle'[k], remote[p].version)
    <2>1. CASE k = j  BY <2>1
    <2>2. CASE k # j  BY <2>2 DEF Noticed
    <2> QED  BY <2>1, <2>2
  <1> QED  BY <1>1, <1>2 DEF Noticed

\* A step that changes none of it.
LEMMA NoticedStays ==
  ASSUME NEW p \in Paths, Noticed(p), remote'[p] = remote[p], UNCHANGED <<handle, job, pendMeta, toRecover>>
  PROVE  Noticed(p)'
  BY DEF Noticed, Saw, Compares, Versioned

\* Fail: the handle keeps what it has seen or is gone.
LEMMA FailNoticed ==
  ASSUME FuseTypes, NEW p \in Paths, Noticed(p), remote'[p] = remote[p], remote[p].version # Unknown,
         NEW j \in Jobs, Fail(j), UNCHANGED pendMeta
  PROVE  Noticed(p)'
  <1>1. /\ job'[j] = noJob /\ \A k \in Jobs : k # j => job'[k] = job[k]
        /\ \A k \in Handles : k # j => handle'[k] = handle[k]
        /\ j \in Handles => handle'[j] = afterFailure(j)
        /\ UNCHANGED toRecover
    BY FailType DEF FuseTypes, Fail
  <1>2. Saw(job'[j], remote[p].version) /\ Compares(j, p)'
    BY <1>1 DEF Saw, Compares, noJob
  <1>3. ASSUME j \in Handles PROVE Saw(handle'[j], remote[p].version)
    <2>1. Saw(handle[j], remote[p].version)  BY <1>3 DEF Noticed
    <2>2. CASE handle'[j] = handle[j]  BY <2>1, <2>2
    <2>3. CASE handle'[j] = Closed(j)
      BY <1>3, <2>1, <2>3, ClosedBase DEF Saw, FuseTypes
    <2> QED  BY <1>1, <1>3, <2>2, <2>3 DEF afterFailure
  <1> QED  BY <1>1, <1>2, <1>3, NoticedStep DEF Noticed

\* The steps of an upload.  Only Put changes a remote file, and it replaces a version
\* of the other client that is not excused only if it has seen it.
LEMMA SeenUpload ==
  ASSUME FuseTypes, Remembered, SeenInv, NEW j \in Jobs, Upload(j)
  PROVE  SeenInv'
  <1> USE DEF FuseTypes
  <1> USE DEF remoteVars, cacheVars, drainVars, serveVars
  <1>j. /\ job[j] \in JobRecord /\ job[j].step # "idle" /\ job[j].path \in Paths
        /\ \A k \in Jobs : k # j => job'[k] = job[k]
        /\ \A k \in Handles : k # j => handle'[k] = handle[k]
    BY UploadFrame
  <1>x. UNCHANGED excused
    BY DEF Upload, PutData, PutMeta, CheckWriteBase, Send, Restat, RemoveData, RemoveMeta
  <1>r. UNCHANGED remote \/ (Send(j) /\ Put(j))
    BY DEF Upload, PutData, PutMeta, CheckWriteBase, Send, Restat, RemoveData, RemoveMeta
  <1>1. OverwriteOnlyInWindow'
    <2>1. CASE UNCHANGED buried  BY <1>x, <2>1 DEF SeenInv, OverwriteOnlyInWindow
    <2>2. CASE Send(j) /\ Put(j)
      <3> DEFINE q == job[j].path
      <3>1. buried' = IF remote[q].theirs /\ remote[q].version # job[j].from
                      THEN buried \cup {remote[q].version} ELSE buried
        BY <2>2 DEF Put
      <3>2. ASSUME remote[q].theirs, remote[q].version \notin excused
            PROVE  remote[q].version = job[j].from
        <4>1. Noticed(q)  BY <3>2, <1>j DEF SeenInv, Unhidden
        <4>2. job[j].base = remote[q].version
          BY <2>2, <1>j, <4>1 DEF Noticed, Compares, Send
        <4> QED  BY <4>1, <4>2 DEF Noticed, Saw
      <3> HIDE DEF q
      <3> QED  BY <1>x, <3>1, <3>2 DEF SeenInv, OverwriteOnlyInWindow
    <2> QED  BY <2>1, <2>2
             DEF Upload, PutData, PutMeta, CheckWriteBase, Send, Restat, RemoveData, RemoveMeta
  <1>2. ASSUME NEW p \in Paths, Unhidden(p)' PROVE Noticed(p)'
    <2>1. remote'[p] = remote[p]
      <3>1. CASE UNCHANGED remote  BY <3>1
      <3>2. CASE Put(j)
        <4>1. /\ remote'[job[j].path] = [version |-> Stored, content |-> job[j].content, theirs |-> FALSE]
              /\ \A r \in Paths : r # job[j].path => remote'[r] = remote[r]
          BY <1>j, <3>2, PutType
        <4>2. p # job[j].path  BY <1>2, <4>1 DEF Unhidden
        <4> QED  BY <4>1, <4>2
      <3> QED  BY <1>r, <3>1, <3>2
    <2>2. Unhidden(p) /\ Noticed(p)  BY <1>2, <1>x, <2>1, UnhiddenBefore DEF SeenInv
    <2> DEFINE v == remote[p].version
    <2>3. v \in Nat /\ v # Unknown /\ v # Stored  BY <2>2, UnhiddenVersion
    <2>4. /\ Saw(job[j], v) /\ Compares(j, p)
          /\ Versioned(pendMeta[p]) /\ Versioned(toRecover[p])
          /\ j \in Handles => Saw(handle[j], v)
      BY <2>2 DEF Noticed
    <2>5. CASE Fail(j) /\ (CheckWriteBase(j) \/ Send(j) \/ Restat(j))
      <3>1. UNCHANGED pendMeta  BY <2>5 DEF CheckWriteBase, Send, Restat
      <3> QED  BY <2>1, <2>2, <2>3, <2>5, <3>1, FailNoticed
    <2>6. CASE PutData(j) \/ RemoveData(j)
      <3>1. UNCHANGED <<handle, pendMeta, toRecover>>  BY <2>6 DEF PutData, RemoveData
      <3>2. /\ job'[j].base = job[j].base /\ job'[j].from = job[j].from /\ job'[j].path = job[j].path
            /\ job'[j].step \in {"putMeta", "removeMeta"}
        BY <2>6, <1>j DEF PutData, RemoveData, Step, JobsTyped, JobRecord
      <3>3. Saw(job'[j], v) /\ Compares(j, p)'  BY <1>j, <2>4, <3>2 DEF Saw, Compares
      <3> QED  BY <1>j, <2>1, <2>2, <2>4, <3>1, <3>3, NoticedStep
    <2>7. CASE PutMeta(j)
      <3>1. UNCHANGED <<handle, toRecover>>  BY <2>7 DEF PutMeta
      <3>2. /\ job'[j].base = job[j].base /\ job'[j].from = job[j].from /\ job'[j].path = job[j].path
            /\ job'[j].step = "check"
        BY <2>7, <1>j DEF PutMeta, Step, JobsTyped, JobRecord
      <3>3. Saw(job'[j], v) /\ Compares(j, p)'  BY <1>j, <2>4, <3>2 DEF Saw, Compares
      <3>4. Versioned(pendMeta'[p])
        BY <1>j, <2>4, <2>7 DEF PutMeta, CacheTyped, Versioned, Compares
      <3> QED  BY <1>j, <2>1, <2>2, <2>4, <3>1, <3>3, <3>4, NoticedStep
    <2>8. CASE CheckWriteBase(j) /\ ~Fail(j)
      <3>1. /\ UNCHANGED <<handle, pendMeta, toRecover>> /\ Step(j, "send")
            /\ ~conflictsWith(job[j].base, remote[job[j].path].version)
        BY <2>8 DEF CheckWriteBase
      <3>2. /\ job'[j].base = job[j].base /\ job'[j].from = job[j].from /\ job'[j].path = job[j].path
            /\ job'[j].step = "send"
        BY <3>1, <1>j DEF Step, JobsTyped, JobRecord
      <3>3. Saw(job'[j], v)  BY <2>4, <3>2 DEF Saw
      <3>4. Compares(j, p)'
        BY <1>j, <2>1, <2>4, <3>1, <3>2 DEF Compares, conflictsWith
      <3> QED  BY <1>j, <2>1, <2>2, <2>4, <3>1, <3>3, <3>4, NoticedStep
    <2>9. CASE Send(j) /\ ~Fail(j)
      <3>1. UNCHANGED <<handle, pendMeta, toRecover>> /\ Put(j)  BY <2>9 DEF Send
      <3>2. p # job[j].path
        <4>1. remote'[job[j].path].theirs = FALSE  BY <1>j, <3>1 DEF Put, FilesTyped
        <4> QED  BY <1>2, <4>1 DEF Unhidden
      <3>3. /\ job'[j].path = job[j].path
            /\ \/ job'[j].base = Stored
               \/ /\ job[j].base = remote[job[j].path].version /\ job'[j].base = job[j].base
        BY <2>9, <1>j DEF Send, JobsTyped, JobRecord
      <3>4. remote[job[j].path].version # v
        BY <1>j, <2>3, <3>2 DEF Remembered, FilesKnown
      <3>5. Saw(job'[j], v) /\ Compares(j, p)'  BY <2>3, <3>2, <3>3, <3>4 DEF Saw, Compares
      <3> QED  BY <1>j, <2>1, <2>2, <2>4, <3>1, <3>5, NoticedStep
    <2>10. CASE Restat(j) /\ ~Fail(j)
      <3>1. UNCHANGED <<handle, pendMeta, toRecover>> /\ job[j].step = "restat"  BY <2>10 DEF Restat
      <3>2. p # job[j].path  BY <2>4, <3>1, <1>j DEF Compares
      <3>3. job'[j].path = job[j].path /\ job'[j].base = remote[job[j].path].version
        BY <2>10, <1>j DEF Restat, JobsTyped, JobRecord
      <3>4. remote[job[j].path].version # v
        BY <1>j, <2>3, <3>2 DEF Remembered, FilesKnown
      <3>5. Saw(job'[j], v) /\ Compares(j, p)'  BY <3>2, <3>3, <3>4 DEF Saw, Compares
      <3> QED  BY <1>j, <2>1, <2>2, <2>4, <3>1, <3>5, NoticedStep
    <2>11. CASE RemoveMeta(j)
      <3>1. UNCHANGED toRecover /\ job'[j] = noJob  BY <2>11 DEF RemoveMeta, JobsTyped
      <3>2. Saw(job'[j], v) /\ Compares(j, p)'  BY <2>3, <3>1 DEF Saw, Compares, noJob
      <3>3. Versioned(pendMeta'[p])
        BY <2>4, <2>11 DEF RemoveMeta, CacheTyped, Versioned, None
      <3>4. ASSUME j \in Handles PROVE Saw(handle'[j], v)
        <4>h. handle[j] \in HandleRecord  BY <3>4 DEF HandlesTyped
        <4>1. handle'[j] = IF job[j].by = "release" \/ ~handle[j].open
                           THEN [Closed(j) EXCEPT !.dirty = FALSE]
                           ELSE [handle[j] EXCEPT !.base = job[j].base, !.from = job[j].from, !.dirty = FALSE]
          BY <2>11, <3>4, RecoveryIsNoHandle DEF RemoveMeta, HandlesTyped
        <4>2. Closed(j) \in HandleRecord
              /\ \/ Closed(j).base = handle[j].base /\ Closed(j).from = handle[j].from
                 \/ Closed(j).base = Unknown
          BY <3>4, ClosedType, ClosedBase
        <4>3. \/ handle'[j].base = handle[j].base /\ handle'[j].from = handle[j].from
              \/ handle'[j].base = Unknown
              \/ handle'[j].base = job[j].base /\ handle'[j].from = job[j].from
          BY <4>h, <4>1, <4>2 DEF HandleRecord
        <4> QED  BY <2>3, <2>4, <3>4, <4>3 DEF Saw
      <3> QED  BY <1>j, <2>1, <2>2, <2>4, <3>1, <3>2, <3>3, <3>4, NoticedStep
    <2> QED  BY <2>5, <2>6, <2>7, <2>8, <2>9, <2>10, <2>11 DEF Upload
  <1> QED  BY <1>1, <1>2 DEF SeenInv

\* FlushLocked starts an upload from what its handle has seen.
LEMMA FlushNoticed ==
  ASSUME FuseTypes, KnowsBase, NEW p \in Paths, Noticed(p), remote'[p] = remote[p],
         remote[p].version # Unknown, NEW h \in Handles,
         NEW by \in {"flush", "release", "drain"}, FlushLocked(h, by), UNCHANGED <<pendMeta, toRecover>>
  PROVE  Noticed(p)'
  <1>1. /\ \A k \in Jobs : k # h => job'[k] = job[k]
        /\ \A k \in Handles : k # h => handle'[k] = handle[k]
        /\ h \in Jobs /\ handle[h] \in HandleRecord
    BY FlushType, RecoveryIsNoHandle DEF FuseTypes, HandlesTyped
  <1>2. /\ Saw(handle[h], remote[p].version) /\ Saw(job[h], remote[p].version) /\ Compares(h, p)
        /\ Versioned(pendMeta[p]) /\ Versioned(toRecover[p])
    BY <1>1 DEF Noticed
  <1>3. ASSUME NeedsUpload(h), job'[h] = newJob(handle[h], by), UNCHANGED handle
        PROVE  Noticed(p)'
    <2>1. /\ job'[h].step \in {"putData", "check"} /\ job'[h].base = handle[h].base
          /\ job'[h].from = handle[h].from /\ handle[h].base # Unknown
      BY <1>3 DEF newJob, NeedsUpload, KnowsBase, Knows
    <2>2. Saw(job'[h], remote[p].version) /\ Compares(h, p)'  BY <1>2, <2>1 DEF Saw, Compares
    <2> QED  BY <1>1, <1>2, <1>3, <2>2, NoticedStep
  <1>4. ASSUME UNCHANGED job,
               handle'[h] = IF by = "release" \/ ~handle[h].open THEN Closed(h)
                            ELSE [handle[h] EXCEPT !.dirty = FALSE]
        PROVE  Noticed(p)'
    <2>1. \/ handle'[h].base = handle[h].base /\ handle'[h].from = handle[h].from
          \/ handle'[h].base = Unknown
      BY <1>1, <1>4, ClosedBase DEF HandleRecord, FuseTypes
    <2>2. Saw(handle'[h], remote[p].version)  BY <1>2, <2>1 DEF Saw
    <2>3. Saw(job'[h], remote[p].version) /\ Compares(h, p)'  BY <1>2, <1>4 DEF Compares
    <2> QED  BY <1>1, <1>2, <2>2, <2>3, NoticedStep
  <1> QED  BY <1>3, <1>4, FlushType DEF FuseTypes

\* The steps of the handles and of the drain that flush them.
LEMMA SeenHandle ==
  ASSUME FuseTypes, Remembered, KnowsBase, SeenInv, NEW h \in Handles,
         \/ Write(h) \/ Flush(h) \/ Release(h) \/ DrainHandle(h) \/ NameHandle(h)
         \/ \E p \in Paths : Create(h, p) \/ Open(h, p)
  PROVE  SeenInv'
  <1> USE DEF FuseTypes
  <1> USE DEF remoteVars, cacheVars, drainVars, serveVars
  <1>u. UNCHANGED <<remote, pendMeta, toRecover, buried, excused>>
    BY DEF Write, Flush, Release, DrainHandle, NameHandle, Create, Open
  <1>1. OverwriteOnlyInWindow'  BY <1>u DEF SeenInv, OverwriteOnlyInWindow
  <1>2. ASSUME NEW p \in Paths, Unhidden(p)' PROVE Noticed(p)'
    <2>1. Unhidden(p) /\ Noticed(p) /\ remote'[p] = remote[p]
      BY <1>2, <1>u, UnhiddenBefore DEF SeenInv
    <2> DEFINE v == remote[p].version
    <2>2. v \in Nat /\ v # Unknown  BY <2>1, UnhiddenVersion
    <2>3. /\ \A g \in Handles : Saw(handle[g], v)
          /\ h \in Jobs /\ Saw(job[h], v) /\ Compares(h, p)
          /\ Versioned(pendMeta[p]) /\ Versioned(toRecover[p])
      BY <2>1, RecoveryIsNoHandle DEF Noticed
    <2>s. ASSUME UNCHANGED job, \A k \in Handles : k # h => handle'[k] = handle[k],
                 Saw(handle'[h], v)
          PROVE  Noticed(p)'
      <3>1. Saw(job'[h], v) /\ Compares(h, p)'  BY <2>1, <2>3, <2>s DEF Compares
      <3> QED  BY <1>u, <2>1, <2>3, <2>s, <3>1, NoticedStep
    <2>4. CASE Write(h)
      <3>1. Saw(handle'[h], v)  BY <2>3, <2>4, WriteEffect DEF Saw
      <3> QED  BY <2>4, <2>s, <3>1, WriteEffect
    <2>5. CASE Flush(h) \/ Release(h) \/ DrainHandle(h)
      <3>1. PICK by \in {"flush", "release", "drain"} : FlushLocked(h, by)
        BY <2>5 DEF Flush, Release, DrainHandle
      <3> QED  BY <1>u, <2>1, <2>2, <3>1, FlushNoticed
    <2>6. CASE NameHandle(h)
      <3>1. Saw(handle'[h], v)  BY <2>3, <2>6, NameEffect DEF Saw
      <3> QED  BY <2>6, <2>s, <3>1, NameEffect
    <2>7. ASSUME NEW q \in Paths, Create(h, q) PROVE Noticed(p)'
      <3>1. /\ handle'[h] = [closedHandle EXCEPT !.open = TRUE, !.path = q]
            /\ job'[h] = newJob(handle'[h], "create")
            /\ \A k \in Handles : k # h => handle'[k] = handle[k]
            /\ \A k \in Jobs : k # h => job'[k] = job[k]
        BY <2>7, CreateEffect
      <3>2. handle'[h].base = Unknown /\ handle'[h].path = q  BY <3>1 DEF closedHandle
      <3>3. job'[h].base = Unknown /\ job'[h].path = q  BY <3>1, <3>2 DEF newJob
      <3>4. p # q
        <4>1. remote[q] = Absent  BY <2>7 DEF Create
        <4> QED  BY <2>1, <4>1 DEF Unhidden, Absent
      <3>5. Saw(handle'[h], v) /\ Saw(job'[h], v) /\ Compares(h, p)'
        BY <2>2, <3>2, <3>3, <3>4 DEF Saw, Compares
      <3> QED  BY <1>u, <2>1, <2>3, <3>1, <3>5, NoticedStep
    <2>8. ASSUME NEW q \in Paths, Open(h, q) PROVE Noticed(p)'
      <3>1. Saw(handle'[h], v)
        <4>1. CASE handle'[h].base = remote[q].version /\ handle'[h].from = remote[q].version
          BY <4>1 DEF Saw
        <4>2. CASE \E g \in DirtyHandles(q) : handle'[h].base = handle[g].base /\ handle'[h].from = handle[g].from
          BY <2>3, <4>2 DEF Saw, DirtyHandles
        <4> QED  BY <2>8, <4>1, <4>2, OpenEffect
      <3> QED  BY <2>8, <2>s, <3>1, OpenEffect
    <2> QED  BY <2>4, <2>5, <2>6, <2>7, <2>8
  <1> QED  BY <1>1, <1>2 DEF SeenInv

\* A write of the other client outside the windows: nobody has its version, and no
\* upload of the file is past its comparison.
LEMMA OtherNoticed ==
  ASSUME FuseTypes, Remembered, NEW p \in Paths, OtherWrites(p), ~InWindow(p)
  PROVE  Noticed(p)'
  <1> USE DEF FuseTypes
  <1>1. UNCHANGED <<handle, job, pendMeta, toRecover>>
    BY DEF OtherWrites, cacheVars, drainVars
  <1>2. remote'[p].version = Stored  BY DEF OtherWrites, FilesTyped
  <1>3. \A h \in Handles : handle[h].base # Stored
    BY DEF Remembered, HandlesKnown, HandlesTyped, HandleRecord, Stored, FilesTyped
  <1>4. \A j \in Jobs : job[j].base # Stored
    BY DEF Remembered, JobsKnown, JobsTyped, JobRecord, Stored, FilesTyped
  <1>5. \A j \in Jobs : job[j].path = p /\ job[j].step # "idle" =>
           job[j].base # Unknown /\ job[j].step \notin {"send", "restat"}
    BY DEF InWindow
  <1>6. Versioned(pendMeta[p]) /\ Versioned(toRecover[p])  BY DEF InWindow, Versioned
  <1> QED  BY <1>1, <1>2, <1>3, <1>4, <1>5, <1>6 DEF Noticed, Saw, Compares

\* The steps of the other client, of unlinks and renames, and of the recovery.
LEMMA SeenPath ==
  ASSUME FuseTypes, Remembered, SeenInv, NEW q \in Paths,
         Unlink(q) \/ OtherWrites(q) \/ Recover(q) \/ \E r \in Paths : Rename(q, r)
  PROVE  SeenInv'
  <1> USE DEF FuseTypes
  <1> USE DEF remoteVars, cacheVars, drainVars, serveVars
  <1>x. UNCHANGED buried /\ excused \subseteq excused'
    BY DEF Unlink, OtherWrites, Recover, Rename
  <1>1. OverwriteOnlyInWindow'  BY <1>x DEF SeenInv, OverwriteOnlyInWindow
  <1>2. ASSUME NEW p \in Paths, Unhidden(p)' PROVE Noticed(p)'
    <2>s. ASSUME remote'[p] = remote[p] PROVE Unhidden(p) /\ Noticed(p)
      BY <1>2, <1>x, <2>s, UnhiddenBefore DEF SeenInv
    <2>1. CASE Unlink(q)
      <3>1. remote' = [remote EXCEPT ![q] = Absent] /\ UNCHANGED <<handle, job, pendMeta, toRecover>>
        BY <2>1 DEF Unlink
      <3>2. remote'[p] = remote[p]  BY <1>2, <3>1 DEF FilesTyped, Unhidden, Absent
      <3> QED  BY <2>s, <3>1, <3>2, NoticedStays
    <2>2. CASE OtherWrites(q)
      <3>1. /\ remote' = [remote EXCEPT ![q] = [version |-> Stored, content |-> {}, theirs |-> TRUE]]
            /\ UNCHANGED <<handle, job, pendMeta, toRecover>>
            /\ InWindow(q) => Stored \in excused'
        BY <2>2 DEF OtherWrites
      <3>2. CASE p = q
        <4>1. remote'[q].version = Stored  BY <3>1 DEF FilesTyped
        <4>2. ~InWindow(q)  BY <1>2, <3>1, <3>2, <4>1 DEF Unhidden
        <4> QED  BY <2>2, <3>2, <4>2, OtherNoticed
      <3>3. CASE p # q
        <4>1. remote'[p] = remote[p]  BY <3>1, <3>3 DEF FilesTyped
        <4> QED  BY <2>s, <3>1, <4>1, NoticedStays
      <3> QED  BY <3>2, <3>3
    <2>3. CASE Recover(q)
      <3>1. UNCHANGED <<remote, handle, pendMeta>>  BY <2>3 DEF Recover
      <3>2. Unhidden(p) /\ Noticed(p)  BY <2>s, <3>1
      <3>3. toRecover' = [toRecover EXCEPT ![q] = None] /\ toRecover[q].here  BY <2>3 DEF Recover
      <3>4. Versioned(pendMeta'[p]) /\ Versioned(toRecover'[p])
        BY <3>1, <3>2, <3>3 DEF Noticed, Versioned, None, RecoverTyped
      <3>5. Recovery \in Jobs /\ Recovery \notin Handles  BY RecoveryIsNoHandle DEF Jobs
      <3>6. CASE UNCHANGED job
        <4>1. Saw(job'[Recovery], remote[p].version) /\ Compares(Recovery, p)'
          BY <3>1, <3>2, <3>5, <3>6 DEF Noticed, Compares
        <4> QED  BY <3>1, <3>2, <3>4, <3>5, <3>6, <4>1, NoticedStep
      <3>7. CASE job' = [job EXCEPT ![Recovery] =
                      [step |-> "check", path |-> q, content |-> pendData[q].content,
                       base |-> toRecover[q].base, from |-> toRecover[q].base,
                       stored |-> TRUE, by |-> "recovery"]]
        <4>1. /\ job'[Recovery].base = toRecover[q].base /\ job'[Recovery].from = toRecover[q].base
              /\ job'[Recovery].path = q /\ job'[Recovery].step = "check"
              /\ \A k \in Jobs : k # Recovery => job'[k] = job[k]
          BY <3>5, <3>7 DEF JobsTyped
        <4>2. Saw(job'[Recovery], remote[p].version)  BY <4>1 DEF Saw
        <4>3. Compares(Recovery, p)'
          BY <3>2, <3>3, <4>1 DEF Compares, Noticed, Versioned
        <4> QED  BY <3>1, <3>2, <3>4, <3>5, <4>1, <4>2, <4>3, NoticedStep
      <3> QED  BY <2>3, <3>6, <3>7 DEF Recover
    <2>4. ASSUME NEW r \in Paths, Rename(q, r) PROVE Noticed(p)'
      <3>1. /\ remote' = [remote EXCEPT ![q] = Absent, ![r] = [remote[q] EXCEPT !.version = Stored]]
            /\ UNCHANGED <<handle, job, pendMeta, toRecover>>
            /\ remote[q].theirs => Stored \in excused'
        BY <2>4 DEF Rename
      <3>2. /\ remote'[r] = [remote[q] EXCEPT !.version = Stored]
            /\ q # r => remote'[q] = Absent
            /\ p \notin {q, r} => remote'[p] = remote[p]
        BY <3>1 DEF FilesTyped
      <3>3. remote'[r].theirs = remote[q].theirs /\ remote'[r].version = Stored
        BY <3>2 DEF FilesTyped, RemoteFile
      <3>4. p \notin {q, r}
        BY <1>2, <3>1, <3>2, <3>3 DEF Unhidden, Absent
      <3> QED  BY <2>s, <3>1, <3>2, <3>4, NoticedStays
    <2> QED  BY <2>1, <2>2, <2>3, <2>4
  <1> QED  BY <1>1, <1>2 DEF SeenInv

\* The initial state.
LEMMA SeenInit == Init => SeenInv
  BY DEF Init, SeenInv, Unhidden, Absent, OverwriteOnlyInWindow

\* Every step.
LEMMA SeenNext == FuseTypes /\ Remembered /\ KnowsBase /\ SeenInv /\ [Next]_vars => SeenInv'
  <1> SUFFICES ASSUME FuseTypes, Remembered, KnowsBase, SeenInv, [Next]_vars PROVE SeenInv'  OBVIOUS
  <1> USE DEF remoteVars, cacheVars, drainVars, serveVars
  <1>1. CASE UNCHANGED <<remote, handle, job, pendMeta, toRecover, buried, excused>>
    <2>1. ASSUME NEW p \in Paths, Unhidden(p)' PROVE Noticed(p)'
      BY <1>1, <2>1, UnhiddenBefore, NoticedStays DEF SeenInv
    <2> QED  BY <1>1, <2>1 DEF SeenInv, OverwriteOnlyInWindow
  <1>2. CASE RenameStat \/ NameNone \/ StartDrain \/ DrainEnds
    BY <1>1, <1>2 DEF RenameStat, NameNone, StartDrain, DrainEnds
  <1>3. CASE DrainRecovers \/ Mount
    <2>1. /\ UNCHANGED <<remote, handle, job, pendMeta, buried, excused>>
          /\ toRecover' = pendMeta \/ toRecover' = toRecover
      BY <1>3 DEF DrainRecovers, Mount
    <2>2. ASSUME NEW p \in Paths, Unhidden(p)' PROVE Noticed(p)'
      <3>1. Noticed(p)  BY <2>1, <2>2, UnhiddenBefore DEF SeenInv
      <3> QED  BY <2>1, <3>1 DEF Noticed, Saw, Compares, Versioned
    <2> QED  BY <2>1, <2>2 DEF SeenInv, OverwriteOnlyInWindow
  <1>4. CASE KillMount
    <2>1. /\ UNCHANGED <<remote, pendMeta, buried, excused>>
          /\ handle' = [h \in Handles |-> closedHandle] /\ job' = [j \in Jobs |-> noJob]
          /\ toRecover' = [p \in Paths |-> None]
      BY <1>4 DEF KillMount
    <2>2. ASSUME NEW p \in Paths, Unhidden(p)' PROVE Noticed(p)'
      <3>1. Noticed(p) /\ Unhidden(p)  BY <2>1, <2>2, UnhiddenBefore DEF SeenInv
      <3>2. remote[p].version # Unknown  BY <3>1, UnhiddenVersion
      <3> QED  BY <2>1, <3>1, <3>2 DEF Noticed, Saw, Compares, Versioned, closedHandle, noJob, None
    <2> QED  BY <2>1, <2>2 DEF SeenInv, OverwriteOnlyInWindow
  <1>5. CASE UNCHANGED vars  BY <1>1, <1>5 DEF vars
  <1> QED  BY <1>2, <1>3, <1>4, <1>5, SeenUpload, SeenHandle, SeenPath DEF Next

-----------------------------------------------------------------------------
FuseInv == FuseTypes /\ Remembered /\ KnowsBase /\ DrainInv /\ SeenInv

\* It holds of every state: each part is kept with the help of those before it.
LEMMA Invariance == Spec => []FuseInv
  <1>1. Init => FuseInv
    <2>1. Init => KnowsBase
      BY RecoveryIsNoHandle DEF Init, KnowsBase, Knows, closedHandle, noJob
    <2> QED  BY <2>1, TypesInit, RememberedInit, DrainInit, SeenInit DEF FuseInv
  <1>2. FuseInv /\ [Next]_vars => FuseInv'
    BY TypesNext, RememberedNext, KnowsNext, DrainNext, SeenNext DEF FuseInv
  <1> QED  BY <1>1, <1>2, PTL DEF Spec

\* A drain of the mounted files that reports success (drainPendingWorkError without an
\* error) has every write that was made before it began on the server, apart from
\* those that were given up: whatever the applications, the other client and the
\* requests do meanwhile.
THEOREM DrainStores == Spec => []DrainedMeansStored
  <1>1. FuseInv => DrainedMeansStored
    BY DEF FuseInv, DrainInv, Accounted, Saved, DrainedMeansStored
  <1> QED  BY <1>1, Invariance, PTL

\* Outside the windows that checkWriteBase leaves open, no upload, be it of a handle,
\* of a drain or of the recovery after a kill, replaces a version of another client
\* that it has not seen.
THEOREM OverwritesNoticed == Spec => []OverwriteOnlyInWindow
  <1>1. FuseInv => OverwriteOnlyInWindow  BY DEF FuseInv, SeenInv
  <1> QED  BY <1>1, Invariance, PTL
=============================================================================
