--------------------------- MODULE TokenMgmtProofs ---------------------------
(***************************************************************************)
(* Proofs about file-system tokens, for any number of processes, tokens    *)
(* and rotations.                                                          *)
(***************************************************************************)
EXTENDS TokenMgmt, TLAPS, FiniteSetTheorems

-----------------------------------------------------------------------------
(* What the record of a process holds at each step: which commands come    *)
(* there, and which of its plaintexts are set.                             *)
Steps == {"new", "lock", "takeover", "preflight", "remoteGenerate", "store", "write", "verify",
          "rollback", "validate", "guardId", "remoteMutate", "cleanup", "removeAll", "resolve",
          "guardToken", "recheck", "guardAgain", "remoteRefresh", "writeRecovery", "commit",
          "resolveMount", "companion", "writeLocator", "undoMount", "waitReady", "readLocator",
          "umount", "removeLocator", "unlock", "finish", "end", "unshown", "crashed"}

Imports == {"import", "importReplace"}
Locking == Storing \cup {"refresh", "delete"}
MayBeNone(S) == S \cup {None}

ProcRecord ==
  [pc : Steps, op : MayBeNone(Command), id : Id \cup {0}, arg : MayBeNone(Plain),
   token : MayBeNone(Plain), known : BOOLEAN, new : MayBeNone(Plain), out : MayBeNone(Plain),
   ok : BOOLEAN, at : MayBeNone(Steps)]

CommandAt(s) ==
  /\ s.pc \in {"lock", "takeover", "unlock"} => s.op \in Locking
  /\ s.pc \in {"preflight", "rollback"} => s.op \in Storing
  /\ s.pc = "remoteGenerate" => s.op \in Storing \cup {"generate"}
  /\ s.pc \in {"store", "write", "verify"} => s.op \in Storing \cup Imports
  /\ s.pc = "validate" => s.op \in Imports
  /\ s.pc \in {"guardId", "remoteMutate"} => s.op \in {"delete", "disable", "enable"}
  /\ s.pc \in {"cleanup", "removeAll"} => s.op = "delete"
  /\ s.pc \in {"resolve", "guardToken", "remoteRefresh"} => s.op \in {"refresh", "refreshExplicit"}
  /\ s.pc \in {"recheck", "guardAgain", "writeRecovery", "commit"} => s.op = "refresh"
  /\ s.pc \in {"resolveMount", "companion", "writeLocator", "undoMount", "waitReady"} =>
       s.op \in {"mount", "mountExplicit"}
  /\ s.pc \in {"readLocator", "umount", "removeLocator"} =>
       s.op \in {"unmount", "unmountIgnoreAbsent"}

HoldsTokens(s) ==
  /\ s.op \in {"delete", "disable", "enable"} => s.id \in Id
  /\ s.op \in {"refreshExplicit", "import", "importReplace", "mountExplicit"} => s.arg \in Plain
  /\ \/ s.pc \in {"guardToken", "recheck", "guardAgain", "remoteRefresh", "writeRecovery", "commit",
                  "companion", "writeLocator"}
     \/ s.pc \in {"lock", "takeover"} /\ s.op = "refresh"
     => s.token \in Plain
  /\ s.op \in Imports => s.new = None
  /\ s.pc \in {"store", "write", "verify"} /\ s.op \in Storing => s.new \in Plain
  /\ s.pc = "rollback" => s.new \in Plain
  /\ s.pc \in {"writeRecovery", "commit"} => s.out = s.new
  /\ s.pc \in {"writeRecovery", "commit"} \/ (s.pc = "crashed" /\ s.at = "commit") =>
       s.new \in Plain /\ s.token \in Plain /\ s.new.id = s.token.id
  /\ s.pc \notin {"store", "write", "verify", "rollback", "writeRecovery", "commit", "unlock",
                  "finish", "end", "unshown", "crashed"} => s.new = None

(* The new plaintext of a process that leaves its function is about to be  *)
(* shown or is revoked, and that of one that ended was shown, was in the   *)
(* result that could not be rendered, or is revoked.                       *)
Revoked(t, tokens) == tokens[t.id].status = "revoked"
Delivered(s, tokens, shown) ==
  /\ s.pc \in {"unlock", "finish", "unshown"} => s.new = None \/ s.out = s.new \/ Revoked(s.new, tokens)
  /\ s.pc = "end" => s.new = None \/ s.new \in shown \/ Revoked(s.new, tokens)

Sound(s, tokens, shown) ==
  s \in ProcRecord /\ CommandAt(s) /\ HoldsTokens(s) /\ Delivered(s, tokens, shown)

Remote == [Id -> [status : {"unissued", "active", "disabled", "revoked"}, gen : 0 .. MaxGen]]
FileTypes ==
  /\ remote \in Remote
  /\ creds \in MayBeNone([plain : Plain, known : BOOLEAN])
  /\ recovery \in MayBeNone(Plain)
  /\ lockFile \in MayBeNone([owner : Proc, stale : BOOLEAN])
  /\ mount \in MayBeNone(Plain)
  /\ locator \in MayBeNone([plain : Plain, known : BOOLEAN])
  /\ printed \subseteq Plain

IInv ==
  /\ FileTypes
  /\ proc \in [Proc -> ProcRecord]
  /\ \A p \in Proc : Sound(proc[p], remote, printed)

(* One process moves, and neither a revoked token nor a shown plaintext is *)
(* taken back: the others are as sound as before.                          *)
LEMMA OneMoves ==
  ASSUME IInv, NEW p \in Proc, NEW r, proc' = [proc EXCEPT ![p] = r],
         Sound(r, remote', printed'), FileTypes', printed \subseteq printed',
         \A t \in Plain : Revoked(t, remote) => Revoked(t, remote')
  PROVE  IInv'
<1>1. r \in ProcRecord /\ proc \in [Proc -> ProcRecord]
  BY DEF IInv, Sound
<1>2. proc' \in [Proc -> ProcRecord]
  BY <1>1
<1>3. ASSUME NEW q \in Proc PROVE Sound(proc'[q], remote', printed')
  <2>1. CASE q = p
    BY <1>1, <2>1
  <2>2. CASE q # p
    <3>1. proc'[q] = proc[q] /\ Sound(proc[q], remote, printed)
      BY <1>1, <2>2 DEF IInv
    <3>2. proc[q].new = None \/ proc[q].new \in Plain
      BY <3>1 DEF Sound, ProcRecord, MayBeNone
    <3> QED
      BY <3>1, <3>2 DEF Sound, Delivered
  <2> QED
    BY <2>1, <2>2
<1> QED
  BY <1>2, <1>3 DEF IInv

(* A process goes on to another step, and may note that it succeeded.      *)
LEMMA GotoKeeps ==
  ASSUME IInv, NEW p \in Proc, NEW step, Goto(p, step) \/ Succeed(p, step),
         Sound([proc[p] EXCEPT !.pc = step], remote', printed'),
         FileTypes', printed \subseteq printed',
         \A t \in Plain : Revoked(t, remote) => Revoked(t, remote')
  PROVE  IInv'
<1> DEFINE r == [proc[p] EXCEPT !.pc = step]
           ro == [proc[p] EXCEPT !.pc = step, !.ok = TRUE]
<1>1. proc' = [proc EXCEPT ![p] = r] \/ proc' = [proc EXCEPT ![p] = ro]
  BY DEF Goto, Succeed
<1>2. Sound(r, remote', printed')
  OBVIOUS
<1>3. Sound(ro, remote', printed')
  <2>1. proc[p] \in ProcRecord
    BY DEF IInv
  <2>2. ro \in ProcRecord
    BY <1>2, <2>1 DEF Sound, ProcRecord
  <2>3. /\ ro.pc = r.pc /\ ro.op = r.op /\ ro.id = r.id /\ ro.arg = r.arg /\ ro.token = r.token
        /\ ro.new = r.new /\ ro.out = r.out /\ ro.at = r.at
    BY <2>1 DEF ProcRecord
  <2> HIDE DEF r, ro
  <2> QED
    BY <1>2, <2>2, <2>3 DEF Sound, CommandAt, HoldsTokens, Delivered
<1> HIDE DEF r, ro
<1> QED
  BY <1>1, <1>2, <1>3, OneMoves

(* The same when no file changes.                                          *)
LEMMA QuietKeeps ==
  ASSUME IInv, NEW p \in Proc, NEW step, Goto(p, step) \/ Succeed(p, step),
         Sound([proc[p] EXCEPT !.pc = step], remote, printed),
         UNCHANGED <<remote, files, mounts, printed>>
  PROVE  IInv'
<1>1. FileTypes'
  BY DEF IInv, FileTypes, files, mounts
<1> QED
  BY <1>1, GotoKeeps

(* Waiting for the lock, taking it and giving it back.                     *)
LEMMA LockKeeps ==
  ASSUME IInv, NEW p \in Proc, LockStep(p) \/ LockCancelled(p)
  PROVE  IInv'
<1> DEFINE s == proc[p]
<1>1. Sound(s, remote, printed) /\ FileTypes
  BY DEF IInv
<1>2. \E step \in {EnterStep(p), "takeover", "lock", "finish"} : Goto(p, step) /\
        \/ s.pc = "lock" /\ step \in {EnterStep(p), "takeover", "finish"}
        \/ s.pc = "takeover" /\ step = "lock"
        \/ s.pc = "unlock" /\ step = "finish"
  BY DEF LockStep, LockCancelled, AcquireLock, SeeStaleLock, RemoveStaleLock, ReleaseLock, At
<1>3. UNCHANGED <<remote, creds, recovery, mount, locator, printed>>
      /\ lockFile' \in {lockFile, None, [owner |-> p, stale |-> FALSE]}
  BY DEF LockStep, LockCancelled, AcquireLock, SeeStaleLock, RemoveStaleLock, ReleaseLock,
         files, mounts
<1>4. FileTypes'
  <2>1. [owner |-> p, stale |-> FALSE] \in [owner : Proc, stale : BOOLEAN]
    OBVIOUS
  <2> QED
    BY <1>1, <1>3, <2>1 DEF FileTypes, MayBeNone
<1>5. PICK step \in {EnterStep(p), "takeover", "lock", "finish"} :
        /\ Goto(p, step)
        /\ \/ s.pc = "lock" /\ step \in {EnterStep(p), "takeover", "finish"}
           \/ s.pc = "takeover" /\ step = "lock"
           \/ s.pc = "unlock" /\ step = "finish"
  BY <1>2
<1>6. Sound([s EXCEPT !.pc = step], remote, printed)
  BY <1>1, <1>5 DEF EnterStep, Op, Sound, ProcRecord, Steps, CommandAt, HoldsTokens, Delivered,
     Locking, Storing, Imports, MayBeNone
<1> QED
  BY <1>3, <1>4, <1>5, <1>6, GotoKeeps

(* Generate: the directory is checked, the token generated, rolled back.   *)
LEMMA GenerateKeeps ==
  ASSUME IInv, NEW p \in Proc, GenerateStep(p)
  PROVE  IInv'
<1> DEFINE s == proc[p]
<1> USE DEF Op, Sound, ProcRecord, Steps, CommandAt, HoldsTokens, Delivered, Locking, Storing,
        Imports, MayBeNone
<1>1. Sound(s, remote, printed) /\ FileTypes
  BY DEF IInv
<1>2. CASE GeneratePreflight(p)
  <2>1. s.pc = "preflight" /\ UNCHANGED <<remote, files, mounts, printed>>
        /\ \E step \in {"unlock", "remoteGenerate"} : Goto(p, step)
    BY <1>2 DEF GeneratePreflight, At
  <2>2. \A step \in {"unlock", "remoteGenerate"} : Sound([s EXCEPT !.pc = step], remote, printed)
    BY <1>1, <2>1
  <2> HIDE DEF Sound
  <2> QED
    BY <2>1, <2>2, QuietKeeps
<1>3. CASE RemoteGenerate(p)
  <2>1. s.pc = "remoteGenerate" /\ UNCHANGED <<creds, recovery, lockFile, mount, locator, printed>>
    BY <1>3 DEF RemoteGenerate, At, files, mounts
  <2>2. \/ UNCHANGED remote
        \/ \E i \in Id : /\ remote[i].status = "unissued"
                         /\ remote' = [remote EXCEPT ![i] = [status |-> "active", gen |-> 0]]
    BY <1>3 DEF RemoteGenerate
  <2>3. \/ Goto(p, Leave(p))
        \/ \E i \in Id : \E t \in {[id |-> i, gen |-> 0]} :
             \/ s.op \in Storing
                /\ proc' = [proc EXCEPT ![p] = [s EXCEPT !.pc = "store", !.new = t]]
             \/ s.op \notin Storing
                /\ proc' = [proc EXCEPT ![p] = [s EXCEPT !.pc = "finish", !.new = t, !.out = t]]
    BY <1>3 DEF RemoteGenerate, GenerateError
  <2>4. FileTypes' /\ \A t \in Plain : Revoked(t, remote) => Revoked(t, remote')
    BY <1>1, <2>1, <2>2, TokenMgmtAssumption DEF FileTypes, Remote, Revoked, Plain
  <2>5. CASE Goto(p, Leave(p))
    <3>1. Sound([s EXCEPT !.pc = Leave(p)], remote', printed')
      BY <1>1, <2>1 DEF Leave
    <3> HIDE DEF Sound
    <3> QED
      BY <2>1, <2>4, <2>5, <3>1, GotoKeeps
  <2>6. ASSUME NEW i \in Id, NEW t \in {[id |-> i, gen |-> 0]}, s.op \in Storing,
               proc' = [proc EXCEPT ![p] = [s EXCEPT !.pc = "store", !.new = t]]
        PROVE  IInv'
    <3>1. t \in Plain
      BY TokenMgmtAssumption DEF Plain
    <3> DEFINE r == [s EXCEPT !.pc = "store", !.new = t]
    <3>2. r \in ProcRecord
      BY <1>1, <2>1, <2>6, <3>1
    <3>3. r.pc = "store" /\ r.new = t /\ r.op = s.op /\ r.id = s.id /\ r.arg = s.arg /\ r.token = s.token
      BY <1>1
    <3>4. Sound(r, remote', printed')
      <4> HIDE DEF r
      <4> QED
        BY <1>1, <2>1, <2>6, <3>1, <3>2, <3>3
    <3>5. proc' = [proc EXCEPT ![p] = r]
      BY <2>6
    <3> HIDE DEF Sound, r
    <3> QED
      BY <2>1, <2>4, <3>4, <3>5, OneMoves
  <2>7. ASSUME NEW i \in Id, NEW t \in {[id |-> i, gen |-> 0]}, s.op \notin Storing,
               proc' = [proc EXCEPT ![p] = [s EXCEPT !.pc = "finish", !.new = t, !.out = t]]
        PROVE  IInv'
    <3>1. t \in Plain
      BY TokenMgmtAssumption DEF Plain
    <3> DEFINE r == [s EXCEPT !.pc = "finish", !.new = t, !.out = t]
    <3>2. r \in ProcRecord
      BY <1>1, <2>1, <2>7, <3>1
    <3>3. r.pc = "finish" /\ r.new = t /\ r.out = t /\ r.op = s.op /\ r.id = s.id /\ r.arg = s.arg /\ r.token = s.token
      BY <1>1
    <3>4. Sound(r, remote', printed')
      <4> HIDE DEF r
      <4> QED
        BY <1>1, <2>1, <2>7, <3>1, <3>2, <3>3
    <3>5. proc' = [proc EXCEPT ![p] = r]
      BY <2>7
    <3> HIDE DEF Sound, r
    <3> QED
      BY <2>1, <2>4, <3>4, <3>5, OneMoves
  <2> QED
    BY <2>3, <2>5, <2>6, <2>7
<1>4. CASE Rollback(p)
  <2>1. s.pc = "rollback" /\ UNCHANGED <<creds, recovery, lockFile, mount, locator, printed>>
        /\ s.new \in Plain
    BY <1>1, <1>4 DEF Rollback, At, files, mounts
  <2>2. \/ /\ remote' = [remote EXCEPT ![s.new.id].status = "revoked"] /\ Goto(p, "unlock")
        \/ /\ remote' \in {remote, [remote EXCEPT ![s.new.id].status = "revoked"]}
           /\ proc' = [proc EXCEPT ![p] = [s EXCEPT !.pc = "unlock", !.out = s.new]]
    BY <1>4 DEF Rollback, Revoke
  <2>3. FileTypes' /\ \A t \in Plain : Revoked(t, remote) => Revoked(t, remote')
    BY <1>1, <2>1, <2>2 DEF FileTypes, Remote, Revoked, Plain
  <2>4. CASE remote' = [remote EXCEPT ![s.new.id].status = "revoked"] /\ Goto(p, "unlock")
    <3>1. Revoked(s.new, remote')
      BY <1>1, <2>1, <2>4 DEF FileTypes, Remote, Revoked, Plain
    <3>2. Sound([s EXCEPT !.pc = "unlock"], remote', printed')
      BY <1>1, <2>1, <3>1
    <3> HIDE DEF Sound
    <3> QED
      BY <2>1, <2>3, <2>4, <3>2, GotoKeeps
  <2>5. CASE proc' = [proc EXCEPT ![p] = [s EXCEPT !.pc = "unlock", !.out = s.new]]
    <3> DEFINE r == [s EXCEPT !.pc = "unlock", !.out = s.new]
    <3>2. r \in ProcRecord
      BY <1>1, <2>1
    <3>3. r.pc = "unlock" /\ r.new = s.new /\ r.out = s.new /\ r.op = s.op /\ r.id = s.id /\ r.arg = s.arg /\ r.token = s.token
      BY <1>1
    <3>4. Sound(r, remote', printed')
      <4> HIDE DEF r
      <4> QED
        BY <1>1, <2>1, <3>2, <3>3
    <3>5. proc' = [proc EXCEPT ![p] = r]
      BY <2>5
    <3> HIDE DEF Sound, r
    <3> QED
      BY <2>1, <2>3, <3>4, <3>5, OneMoves
  <2> QED
    BY <2>2, <2>4, <2>5
<1> QED
  BY <1>2, <1>3, <1>4 DEF GenerateStep

(* Store: the credentials are looked at, written and read back.            *)
LEMMA StoreKeeps ==
  ASSUME IInv, NEW p \in Proc, StoreStep(p)
  PROVE  IInv'
<1> DEFINE s == proc[p]
           stored == [s EXCEPT !.pc = Leave(p), !.ok = TRUE, !.out = s.new]
           failed == IF Importing(p) THEN "finish" ELSE "rollback"
<1> USE DEF Op, Sound, ProcRecord, Steps, CommandAt, HoldsTokens, Delivered, Locking, Storing,
        Imports, MayBeNone
<1>1. Sound(s, remote, printed) /\ FileTypes
  BY DEF IInv
<1>2. s.pc \in {"store", "write", "verify"} =>
        Sound([s EXCEPT !.pc = failed], remote, printed)
  BY <1>1 DEF Importing
<1>3. s.pc \in {"store", "write", "verify"} => Sound(stored, remote, printed)
  <2> SUFFICES ASSUME s.pc \in {"store", "write", "verify"} PROVE Sound(stored, remote, printed)
    OBVIOUS
  <2>1. Leave(p) \in {"unlock", "finish"}
    BY DEF Leave
  <2>2. stored \in ProcRecord
    <3>1. s \in ProcRecord /\ Leave(p) \in Steps /\ s.new \in MayBeNone(Plain)
      BY <1>1, <2>1
    <3> HIDE DEF Steps, Leave
    <3> QED
      BY <3>1 DEF ProcRecord
  <2>3. /\ stored.pc \in {"unlock", "finish"} /\ (s.op \notin Storing => stored.pc = "finish")
        /\ stored.new = s.new /\ stored.out = s.new
        /\ stored.op = s.op /\ stored.id = s.id /\ stored.arg = s.arg
    BY <1>1, <2>1 DEF Leave
  <2> HIDE DEF stored
  <2> QED
    BY <1>1, <2>2, <2>3
<1>4. CASE ImportValidates(p)
  <2>1. s.pc = "validate" /\ UNCHANGED <<remote, files, mounts, printed>>
        /\ \E step \in {"store", "finish"} : Goto(p, step)
    BY <1>4 DEF ImportValidates, At
  <2>2. \A step \in {"store", "finish"} : Sound([s EXCEPT !.pc = step], remote, printed)
    BY <1>1, <2>1
  <2> HIDE DEF Sound
  <2> QED
    BY <2>1, <2>2, QuietKeeps
<1>5. CASE StoreLooks(p) \/ StoreVerifies(p)
  <2>1. s.pc \in {"store", "verify"} /\ UNCHANGED <<remote, files, mounts, printed>>
        /\ \/ proc' = [proc EXCEPT ![p] = stored]
           \/ s.pc = "store" /\ Goto(p, "write")
           \/ Goto(p, failed)
    BY <1>5 DEF StoreLooks, StoreVerifies, StoreFailed, Stored, At
  <2>2. s.pc = "store" => Sound([s EXCEPT !.pc = "write"], remote, printed)
    BY <1>1
  <2>3. FileTypes'
    BY <1>1, <2>1 DEF FileTypes, files, mounts
  <2> HIDE DEF Sound, stored, failed
  <2> QED
    BY <1>2, <1>3, <2>1, <2>2, <2>3, QuietKeeps, OneMoves
<1>6. CASE StoreWrites(p)
  <2>1. s.pc = "write" /\ UNCHANGED <<remote, recovery, lockFile, mount, locator, printed>>
        /\ creds' \in {creds, Record(p)} /\ \E step \in {"verify", failed} : Goto(p, step)
    BY <1>6 DEF StoreWrites, StoreFailed, At, mounts
  <2>2. Record(p) \in [plain : Plain, known : BOOLEAN]
    BY <1>1, <2>1 DEF Record, Importing
  <2>3. FileTypes'
    BY <1>1, <2>1, <2>2 DEF FileTypes
  <2>4. Sound([s EXCEPT !.pc = "verify"], remote, printed)
    BY <1>1, <2>1
  <2> HIDE DEF Sound, failed
  <2> QED
    BY <1>2, <2>1, <2>3, <2>4, GotoKeeps
<1> QED
  BY <1>4, <1>5, <1>6 DEF StoreStep

(* Delete, disable and enable.                                             *)
LEMMA MutateKeeps ==
  ASSUME IInv, NEW p \in Proc, MutateStep(p)
  PROVE  IInv'
<1> DEFINE s == proc[p]
<1> USE DEF Op, Sound, ProcRecord, Steps, CommandAt, HoldsTokens, Delivered, Locking, Storing,
        Imports, MayBeNone
<1>1. Sound(s, remote, printed) /\ FileTypes
  BY DEF IInv
<1>2. CASE guardTokenIDMount(p)
  <2>1. s.pc = "guardId" /\ UNCHANGED <<remote, files, mounts, printed>>
        /\ \E step \in {"finish", "remoteMutate"} : Goto(p, step)
    BY <1>2 DEF guardTokenIDMount, At
  <2>2. \A step \in {"finish", "remoteMutate"} : Sound([s EXCEPT !.pc = step], remote, printed)
    BY <1>1, <2>1
  <2> HIDE DEF Sound
  <2> QED
    BY <2>1, <2>2, QuietKeeps
<1>3. CASE RemoteMutate(p)
  <2>1. s.pc = "remoteMutate" /\ UNCHANGED <<creds, recovery, lockFile, mount, locator, printed>>
        /\ \/ UNCHANGED remote
           \/ /\ remote[s.id].status # "revoked"
              /\ remote' = [remote EXCEPT ![s.id].status = MutatedStatus(s.op)]
    BY <1>3 DEF RemoteMutate, At, files, mounts
  <2>2. \E step \in {"lock", "finish"} : /\ Goto(p, step) \/ Succeed(p, step)
                                         /\ step = "lock" => s.op = "delete"
    BY <1>3 DEF RemoteMutate, CleansUpLocked
  <2>3. s.id \in Id /\ MutatedStatus(s.op) \in {"disabled", "active", "revoked"}
    BY <1>1, <2>1 DEF MutatedStatus
  <2>4. FileTypes' /\ \A t \in Plain : Revoked(t, remote) => Revoked(t, remote')
    BY <1>1, <2>1, <2>3 DEF FileTypes, Remote, Revoked, Plain
  <2>5. /\ Sound([s EXCEPT !.pc = "finish"], remote', printed')
        /\ s.op = "delete" => Sound([s EXCEPT !.pc = "lock"], remote', printed')
    BY <1>1, <2>1
  <2> HIDE DEF Sound
  <2> QED
    BY <2>1, <2>2, <2>4, <2>5, GotoKeeps
<1>4. CASE DeleteLooks(p)
  <2>1. s.pc = "cleanup" /\ UNCHANGED <<remote, files, mounts, printed>>
        /\ \E step \in {"removeAll", "unlock"} : Goto(p, step) \/ Succeed(p, step)
    BY <1>4 DEF DeleteLooks, At
  <2>2. \A step \in {"removeAll", "unlock"} : Sound([s EXCEPT !.pc = step], remote, printed)
    BY <1>1, <2>1
  <2> HIDE DEF Sound
  <2> QED
    BY <2>1, <2>2, QuietKeeps
<1>5. CASE DeleteRemoves(p)
  <2>1. s.pc = "removeAll" /\ UNCHANGED <<remote, lockFile, mount, locator, printed>>
        /\ (Goto(p, "unlock") \/ Succeed(p, "unlock"))
        /\ creds' \in {creds, None} /\ recovery' \in {recovery, None}
    BY <1>5 DEF DeleteRemoves, At, mounts
  <2>2. FileTypes'
    BY <1>1, <2>1 DEF FileTypes
  <2>3. Sound([s EXCEPT !.pc = "unlock"], remote', printed')
    BY <1>1, <2>1
  <2> HIDE DEF Sound
  <2> QED
    BY <2>1, <2>2, <2>3, GotoKeeps
<1> QED
  BY <1>2, <1>3, <1>4, <1>5 DEF MutateStep

(* A command begins with what the user passes it.                          *)
LEMMA BeginKeeps ==
  ASSUME IInv, NEW p \in Proc, Begin(p)
  PROVE  IInv'
<1> DEFINE s == proc[p]
<1>1. Sound(s, remote, printed) /\ FileTypes /\ Commands \subseteq Command
  BY TokenMgmtAssumption DEF IInv
<1>2. s.pc = "new" /\ UNCHANGED <<remote, files, mounts, printed>>
  BY DEF Begin, At
<1>3a. PICK op \in Commands : \E id \in IdArguments(op), arg \in TokenArguments(op) :
        proc' = [proc EXCEPT ![p].pc = FirstStep(op), ![p].op = op, ![p].id = id, ![p].arg = arg]
  BY DEF Begin
<1>3. PICK id \in IdArguments(op), arg \in TokenArguments(op) :
        proc' = [proc EXCEPT ![p] =
                   [s EXCEPT !.pc = FirstStep(op), !.op = op, !.id = id, !.arg = arg]]
  <2>1. PICK id \in IdArguments(op), arg \in TokenArguments(op) :
          proc' = [proc EXCEPT ![p].pc = FirstStep(op), ![p].op = op, ![p].id = id, ![p].arg = arg]
    BY <1>3a
  <2>2. proc \in [Proc -> ProcRecord]
    BY DEF IInv
  <2>3. proc' = [proc EXCEPT ![p] =
                   [s EXCEPT !.pc = FirstStep(op), !.op = op, !.id = id, !.arg = arg]]
    BY <2>1, <2>2 DEF ProcRecord
  <2> QED
    BY <2>3
<1>4. /\ id \in Id \cup {0} /\ arg \in MayBeNone(Plain)
      /\ op \in {"delete", "disable", "enable"} => id \in Id
      /\ op \in {"refreshExplicit", "import", "importReplace", "mountExplicit"} => arg \in Plain
  BY <1>1, <1>3 DEF IdArguments, TokenArguments, MayBeNone, FileTypes
<1>5. /\ op \in Command
      /\ op = "generate" => FirstStep(op) = "remoteGenerate"
      /\ op \in Storing => FirstStep(op) = "lock"
      /\ op \in {"refresh", "refreshExplicit"} => FirstStep(op) = "resolve"
      /\ op \in {"delete", "disable"} => FirstStep(op) = "guardId"
      /\ op = "enable" => FirstStep(op) = "remoteMutate"
      /\ op \in Imports => FirstStep(op) = "validate"
      /\ op \in {"mount", "mountExplicit"} => FirstStep(op) = "resolveMount"
      /\ op \in {"unmount", "unmountIgnoreAbsent"} => FirstStep(op) = "readLocator"
  BY <1>1, <1>3 DEF FirstStep, Command, Storing, Imports
<1>6. FirstStep(op) \in {"remoteGenerate", "lock", "resolve", "guardId", "remoteMutate", "validate",
                         "resolveMount", "readLocator"}
  BY <1>5 DEF Command, Storing, Imports
<1> DEFINE r == [s EXCEPT !.pc = FirstStep(op), !.op = op, !.id = id, !.arg = arg]
<1>7. r \in ProcRecord
  <2>1. s \in ProcRecord /\ FirstStep(op) \in Steps /\ op \in MayBeNone(Command)
    BY <1>1, <1>5, <1>6 DEF Sound, Steps, MayBeNone
  <2> HIDE DEF FirstStep
  <2> QED
    BY <1>4, <2>1 DEF ProcRecord
<1>8. r.pc = FirstStep(op) /\ r.op = op /\ r.id = id /\ r.arg = arg /\ r.new = s.new
      /\ s.new = None
  BY <1>1, <1>2 DEF Sound, ProcRecord, HoldsTokens
<1>9. proc' = [proc EXCEPT ![p] = r]
  BY <1>3
<1>10. FileTypes'
  BY <1>1, <1>2 DEF FileTypes, files, mounts
<1> HIDE DEF r
<1>11. CommandAt(r)
  BY <1>5, <1>8 DEF CommandAt, Locking, Storing, Imports, Command
<1>12. HoldsTokens(r) /\ Delivered(r, remote, printed)
  BY <1>4, <1>5, <1>6, <1>8 DEF HoldsTokens, Delivered, Storing, Imports, Command
<1>13. Sound(r, remote', printed') /\ \A t \in Plain : Revoked(t, remote) => Revoked(t, remote')
  BY <1>2, <1>7, <1>11, <1>12 DEF Sound
<1> QED
  BY <1>2, <1>9, <1>10, <1>13, OneMoves

(* The result is shown when the command ends, or is not.                   *)
LEMMA FinishKeeps ==
  ASSUME IInv, NEW p \in Proc, Finish(p)
  PROVE  IInv'
<1> DEFINE s == proc[p]
<1>1. Sound(s, remote, printed) /\ FileTypes
  BY DEF IInv
<1>2. /\ s.pc = "finish" /\ UNCHANGED <<remote, files, mounts>>
      /\ \/ Goto(p, "end") /\ printed' = IF s.out = None THEN printed ELSE printed \cup {s.out}
         \/ Goto(p, "unshown") /\ printed' = printed
  BY DEF Finish, At
<1>3. s \in ProcRecord /\ s.out \in MayBeNone(Plain)
  BY <1>1 DEF Sound, ProcRecord
<1>4. FileTypes' /\ printed \subseteq printed'
  BY <1>1, <1>2, <1>3 DEF FileTypes, files, mounts, MayBeNone
<1>5. \A t \in Plain : Revoked(t, remote) => Revoked(t, remote')
  BY <1>2
<1>6. CASE Goto(p, "end") /\ printed' = IF s.out = None THEN printed ELSE printed \cup {s.out}
  <2>1. Sound([s EXCEPT !.pc = "end"], remote', printed')
    BY <1>1, <1>2, <1>6 DEF Sound, ProcRecord, Steps, CommandAt, HoldsTokens, Delivered,
       Imports, Storing
  <2> QED
    BY <1>4, <1>5, <1>6, <2>1, GotoKeeps
<1>7. CASE Goto(p, "unshown") /\ printed' = printed
  <2>1. Sound([s EXCEPT !.pc = "unshown"], remote', printed')
    BY <1>1, <1>2, <1>7 DEF Sound, ProcRecord, Steps, CommandAt, HoldsTokens, Delivered,
       Imports, Storing
  <2> QED
    BY <1>4, <1>5, <1>7, <2>1, GotoKeeps
<1> QED
  BY <1>2, <1>6, <1>7

(* A killed process keeps what it held.                                    *)
LEMMA CrashKeeps ==
  ASSUME IInv, NEW p \in Proc, Crash(p)
  PROVE  IInv'
<1> DEFINE s == proc[p]
           r == [s EXCEPT !.pc = "crashed", !.at = s.pc]
<1>1. Sound(s, remote, printed) /\ FileTypes
  BY DEF IInv
<1>2. s.pc \notin {"new", "end", "unshown", "crashed"} /\ UNCHANGED <<remote, files, mounts, printed>>
      /\ proc' = [proc EXCEPT ![p] = r]
  BY DEF Crash, Live
<1>3. r \in ProcRecord
  BY <1>1 DEF Sound, ProcRecord, Steps, MayBeNone
<1>4. /\ r.pc = "crashed" /\ r.at = s.pc /\ r.op = s.op /\ r.id = s.id /\ r.arg = s.arg
      /\ r.token = s.token /\ r.new = s.new
  BY <1>1 DEF Sound, ProcRecord
<1>5. FileTypes' /\ \A t \in Plain : Revoked(t, remote) => Revoked(t, remote')
  BY <1>1, <1>2 DEF FileTypes, files, mounts
<1> HIDE DEF r
<1>6. Sound(r, remote', printed')
  BY <1>1, <1>2, <1>3, <1>4 DEF Sound, CommandAt, HoldsTokens, Delivered
<1> QED
  BY <1>2, <1>5, <1>6, OneMoves

(* Refresh: the token is resolved, rotated, and the new one committed.     *)
LEMMA RefreshKeeps ==
  ASSUME IInv, NEW p \in Proc, RefreshStep(p)
  PROVE  IInv'
<1> DEFINE s == proc[p]
<1> USE DEF Op, Sound, ProcRecord, Steps, CommandAt, HoldsTokens, Delivered, Locking, Storing,
        Imports, MayBeNone
<1>1. Sound(s, remote, printed) /\ FileTypes /\ proc \in [Proc -> ProcRecord]
  BY DEF IInv
<1>2. CASE resolveRefresh(p)
  <2> DEFINE t == IF s.op = "refresh" THEN creds.plain ELSE s.arg
             r == [s EXCEPT !.pc = "guardToken", !.token = t]
  <2>1. s.pc = "resolve" /\ UNCHANGED <<remote, files, mounts, printed>>
    BY <1>2 DEF resolveRefresh, At
  <2>2. \/ Goto(p, "finish")
        \/ (s.op = "refresh" => creds # None) /\ proc' = [proc EXCEPT ![p] = r]
    BY <1>1, <1>2 DEF resolveRefresh
  <2>3. CASE Goto(p, "finish")
    <3>1. Sound([s EXCEPT !.pc = "finish"], remote, printed)
      BY <1>1, <2>1
    <3> HIDE DEF Sound
    <3> QED
      BY <2>1, <2>3, <3>1, QuietKeeps
  <2>4. CASE (s.op = "refresh" => creds # None) /\ proc' = [proc EXCEPT ![p] = r]
    <3>1. t \in Plain
      BY <1>1, <2>1, <2>4 DEF FileTypes
    <3> HIDE DEF t
    <3>2. r \in ProcRecord
      BY <1>1, <3>1
    <3>3. /\ r.pc = "guardToken" /\ r.token = t /\ r.op = s.op /\ r.id = s.id /\ r.arg = s.arg
          /\ r.new = s.new
      BY <1>1
    <3>4. FileTypes'
      BY <1>1, <2>1 DEF FileTypes, files, mounts
    <3> HIDE DEF r
    <3>5. Sound(r, remote, printed)
      BY <1>1, <2>1, <3>1, <3>2, <3>3
    <3> HIDE DEF Sound
    <3> QED
      BY <2>1, <2>4, <3>4, <3>5, OneMoves
  <2> QED
    BY <2>2, <2>3, <2>4
<1>3. CASE guardTokenFingerprintMount(p) \/ RefreshRechecks(p)
  <2>1. UNCHANGED <<remote, files, mounts, printed>>
        /\ \E step \in {"finish", "lock", "remoteRefresh", "unlock", "guardAgain"} :
             /\ Goto(p, step)
             /\ \/ /\ s.pc = "guardToken" /\ step \in {"finish", "lock", "remoteRefresh"}
                   /\ step = "lock" => s.op = "refresh"
                \/ s.pc = "guardAgain" /\ step \in {"unlock", "remoteRefresh"}
                \/ s.pc = "recheck" /\ step \in {"unlock", "guardAgain"}
    BY <1>3 DEF guardTokenFingerprintMount, RefreshRechecks, At
  <2>2. PICK step \in {"finish", "lock", "remoteRefresh", "unlock", "guardAgain"} :
             /\ Goto(p, step)
             /\ \/ /\ s.pc = "guardToken" /\ step \in {"finish", "lock", "remoteRefresh"}
                   /\ step = "lock" => s.op = "refresh"
                \/ s.pc = "guardAgain" /\ step \in {"unlock", "remoteRefresh"}
                \/ s.pc = "recheck" /\ step \in {"unlock", "guardAgain"}
    BY <2>1
  <2>3. Sound([s EXCEPT !.pc = step], remote, printed)
    BY <1>1, <2>2
  <2> HIDE DEF Sound
  <2> QED
    BY <2>1, <2>2, <2>3, QuietKeeps
<1>4. CASE refreshRemote(p)
  <2> DEFINE t == s.token
             n == [id |-> t.id, gen |-> t.gen + 1]
  <2>1. s.pc = "remoteRefresh" /\ UNCHANGED <<creds, recovery, lockFile, mount, locator, printed>>
        /\ t \in Plain
    BY <1>1, <1>4 DEF refreshRemote, At, files, mounts
  <2>2. \/ UNCHANGED remote
        \/ Valid(t) /\ t.gen < MaxGen /\ remote' = [remote EXCEPT ![t.id].gen = t.gen + 1]
    BY <1>4 DEF refreshRemote
  <2>3. FileTypes' /\ \A u \in Plain : Revoked(u, remote) => Revoked(u, remote')
    <3>1. FileTypes /\ t \in Plain /\ MaxGen \in Nat
      BY <1>1, <2>1, TokenMgmtAssumption
    <3> HIDE DEF Op, Sound, ProcRecord, Steps, CommandAt, HoldsTokens, Delivered, Locking, Storing,
             Imports, t
    <3>2. t.id \in Id /\ (t.gen < MaxGen => t.gen + 1 \in 0 .. MaxGen)
      BY <3>1 DEF Plain
    <3>3. remote' \in Remote
      BY <2>2, <3>1, <3>2 DEF FileTypes, Remote
    <3>4. FileTypes'
      BY <2>1, <3>1, <3>3 DEF FileTypes
    <3>5. \A u \in Plain : Revoked(u, remote) => Revoked(u, remote')
      BY <2>2, <3>1, <3>2 DEF FileTypes, Remote, Revoked, Plain
    <3> QED
      BY <3>4, <3>5
  <2>4. \/ Goto(p, Leave(p))
        \/ t.gen < MaxGen /\ \E step \in {"writeRecovery", "finish"} :
             /\ step = "writeRecovery" <=> s.op = "refresh"
             /\ proc' = [proc EXCEPT ![p] = [s EXCEPT !.pc = step, !.new = n, !.out = n]]
    BY <1>4 DEF refreshRemote
  <2>5. CASE Goto(p, Leave(p))
    <3>1. Leave(p) \in {"unlock", "finish"} /\ (Leave(p) = "unlock" => s.op \in Locking)
      BY DEF Leave
    <3>2. Sound([s EXCEPT !.pc = Leave(p)], remote', printed')
      BY <1>1, <2>1, <3>1
    <3> HIDE DEF Sound
    <3> QED
      BY <2>1, <2>3, <2>5, <3>2, GotoKeeps
  <2>6. ASSUME NEW step \in {"writeRecovery", "finish"}, step = "writeRecovery" <=> s.op = "refresh",
               proc' = [proc EXCEPT ![p] = [s EXCEPT !.pc = step, !.new = n, !.out = n]],
               t.gen < MaxGen
        PROVE  IInv'
    <3>1. n \in Plain /\ n.id = t.id
      BY <2>1, <2>6, TokenMgmtAssumption DEF Plain
    <3> HIDE DEF n
    <3> DEFINE r == [s EXCEPT !.pc = step, !.new = n, !.out = n]
    <3>2. r \in ProcRecord
      BY <1>1, <2>6, <3>1
    <3>3. /\ r.pc = step /\ r.new = n /\ r.out = n /\ r.op = s.op /\ r.id = s.id /\ r.arg = s.arg
          /\ r.token = t
      BY <1>1
    <3>4. proc' = [proc EXCEPT ![p] = r]
      BY <2>6
    <3> HIDE DEF r
    <3>5. Sound(r, remote', printed')
      BY <1>1, <2>1, <2>6, <3>1, <3>2, <3>3
    <3> HIDE DEF Sound
    <3> QED
      BY <2>1, <2>3, <3>4, <3>5, OneMoves
  <2> QED
    BY <2>4, <2>5, <2>6
<1>5. CASE WriteRecoveryCredential(p)
  <2>1. s.pc = "writeRecovery" /\ UNCHANGED <<remote, creds, lockFile, mount, locator, printed>>
        /\ recovery' \in {recovery, s.new} /\ \E step \in {"commit", "unlock"} : Goto(p, step)
        /\ s.new \in Plain
    BY <1>1, <1>5 DEF WriteRecoveryCredential, At, mounts
  <2>2. FileTypes'
    BY <1>1, <2>1 DEF FileTypes
  <2>3. \A step \in {"commit", "unlock"} : Sound([s EXCEPT !.pc = step], remote', printed')
    BY <1>1, <2>1
  <2> HIDE DEF Sound
  <2> QED
    BY <2>1, <2>2, <2>3, GotoKeeps
<1>6. CASE CommitRecoveryCredential(p)
  <2>1. s.pc = "commit" /\ UNCHANGED <<remote, lockFile, mount, locator, printed>>
        /\ (Goto(p, "unlock") \/ Succeed(p, "unlock"))
        /\ \/ recovery # None /\ creds' = [plain |-> recovery, known |-> TRUE] /\ recovery' = None
           \/ UNCHANGED <<creds, recovery>>
    BY <1>6 DEF CommitRecoveryCredential, At, mounts
  <2>2. FileTypes'
    <3>1. recovery # None => [plain |-> recovery, known |-> TRUE] \in [plain : Plain, known : BOOLEAN]
      BY <1>1 DEF FileTypes
    <3> HIDE DEF Sound
    <3> QED
      BY <1>1, <2>1, <3>1 DEF FileTypes
  <2>3. Sound([s EXCEPT !.pc = "unlock"], remote', printed')
    BY <1>1, <2>1
  <2> HIDE DEF Sound
  <2> QED
    BY <2>1, <2>2, <2>3, GotoKeeps
<1> QED
  BY <1>2, <1>3, <1>4, <1>5, <1>6 DEF RefreshStep

(* Mount and unmount.                                                      *)
LEMMA MountKeeps ==
  ASSUME IInv, NEW p \in Proc, MountStep(p)
  PROVE  IInv'
<1> DEFINE s == proc[p]
<1> USE DEF Op, Sound, ProcRecord, Steps, CommandAt, HoldsTokens, Delivered, Locking, Storing,
        Imports, MayBeNone
<1>1. Sound(s, remote, printed) /\ FileTypes /\ proc \in [Proc -> ProcRecord]
  BY DEF IInv
<1>2. CASE ResolveCredential(p)
  <2> DEFINE t == IF s.op = "mount" THEN creds.plain ELSE s.arg
             k == creds # None /\ creds.plain = t /\ creds.known
             r == [s EXCEPT !.pc = "companion", !.token = t, !.known = k]
  <2>1. s.pc = "resolveMount" /\ UNCHANGED <<remote, files, mounts, printed>>
    BY <1>2 DEF ResolveCredential, At
  <2>2. \/ Goto(p, "finish")
        \/ (s.op = "mount" => creds # None) /\ proc' = [proc EXCEPT ![p] = r]
    <3>1. \/ Goto(p, "finish")
          \/ /\ s.op = "mount" => creds # None
             /\ proc' = [proc EXCEPT ![p].pc = "companion", ![p].token = t, ![p].known = k]
      BY <1>2 DEF ResolveCredential
    <3> HIDE DEF t, k, Sound
    <3> QED
      BY <1>1, <3>1
  <2>3. CASE Goto(p, "finish")
    <3>1. Sound([s EXCEPT !.pc = "finish"], remote, printed)
      BY <1>1, <2>1
    <3> HIDE DEF Sound
    <3> QED
      BY <2>1, <2>3, <3>1, QuietKeeps
  <2>4. CASE (s.op = "mount" => creds # None) /\ proc' = [proc EXCEPT ![p] = r]
    <3>1. t \in Plain
      BY <1>1, <2>1, <2>4 DEF FileTypes
    <3>2. k \in BOOLEAN
      BY <1>1 DEF FileTypes
    <3> HIDE DEF t, k
    <3>3. r \in ProcRecord
      BY <1>1, <3>1, <3>2
    <3>4. /\ r.pc = "companion" /\ r.token = t /\ r.op = s.op /\ r.id = s.id /\ r.arg = s.arg
          /\ r.new = s.new
      BY <1>1
    <3>5. FileTypes'
      BY <1>1, <2>1 DEF FileTypes, files, mounts
    <3> HIDE DEF r
    <3>6. Sound(r, remote, printed)
      BY <1>1, <2>1, <3>1, <3>3, <3>4
    <3> HIDE DEF Sound
    <3> QED
      BY <2>1, <2>4, <3>5, <3>6, OneMoves
  <2> QED
    BY <2>2, <2>3, <2>4
<1>3. CASE CompanionMounts(p) \/ writeDrive9MountLocator(p) \/ UndoMount(p)
  <2>1. UNCHANGED <<remote, creds, recovery, lockFile, printed>>
    BY <1>3 DEF CompanionMounts, writeDrive9MountLocator, UndoMount, files
  <2>2. /\ mount' = mount \/ mount' = None \/ (s.pc = "companion" /\ mount' = s.token)
        /\ \/ UNCHANGED locator
           \/ s.pc = "writeLocator" /\ locator' = [plain |-> s.token, known |-> s.known]
    BY <1>3 DEF CompanionMounts, writeDrive9MountLocator, UndoMount, At
  <2>3. FileTypes'
    BY <1>1, <2>1, <2>2 DEF FileTypes
  <2>4. \E step \in {"writeLocator", "finish", "waitReady", "undoMount"} :
          /\ Goto(p, step)
          /\ \/ s.pc = "companion" /\ step \in {"writeLocator", "finish"}
             \/ s.pc = "writeLocator" /\ step \in {"waitReady", "undoMount"}
             \/ s.pc = "undoMount" /\ step = "finish"
    BY <1>3 DEF CompanionMounts, writeDrive9MountLocator, UndoMount, At
  <2>5. PICK step \in {"writeLocator", "finish", "waitReady", "undoMount"} :
          /\ Goto(p, step)
          /\ \/ s.pc = "companion" /\ step \in {"writeLocator", "finish"}
             \/ s.pc = "writeLocator" /\ step \in {"waitReady", "undoMount"}
             \/ s.pc = "undoMount" /\ step = "finish"
    BY <2>4
  <2>6. Sound([s EXCEPT !.pc = step], remote', printed')
    BY <1>1, <2>1, <2>5
  <2> HIDE DEF Sound
  <2> QED
    BY <2>1, <2>3, <2>5, <2>6, GotoKeeps
<1>4. CASE waitForMountReady(p) \/ drive9MountLocatorProfile(p) \/ CompanionUnmounts(p)
             \/ RemoveLocator(p)
  <2>1. /\ UNCHANGED <<remote, creds, recovery, lockFile, printed>>
        /\ mount' \in {mount, None} /\ locator' \in {locator, None}
    BY <1>4 DEF waitForMountReady, drive9MountLocatorProfile, CompanionUnmounts, RemoveLocator,
       files, mounts
  <2>2. \E step \in {"finish", "umount", "removeLocator"} :
          /\ Goto(p, step) \/ Succeed(p, step)
          /\ \/ s.pc \in {"waitReady", "removeLocator"} /\ step = "finish"
             \/ s.pc = "readLocator" /\ step \in {"finish", "umount"}
             \/ s.pc = "umount" /\ step \in {"finish", "removeLocator"}
    BY <1>4 DEF waitForMountReady, drive9MountLocatorProfile, CompanionUnmounts, RemoveLocator, At
  <2>3. PICK step \in {"finish", "umount", "removeLocator"} :
          /\ Goto(p, step) \/ Succeed(p, step)
          /\ \/ s.pc \in {"waitReady", "removeLocator"} /\ step = "finish"
             \/ s.pc = "readLocator" /\ step \in {"finish", "umount"}
             \/ s.pc = "umount" /\ step \in {"finish", "removeLocator"}
    BY <2>2
  <2>4. FileTypes'
    BY <1>1, <2>1 DEF FileTypes
  <2>5. Sound([s EXCEPT !.pc = step], remote', printed')
    BY <1>1, <2>1, <2>3
  <2> HIDE DEF Sound
  <2> QED
    BY <2>1, <2>3, <2>4, <2>5, GotoKeeps
<1> QED
  BY <1>2, <1>3, <1>4 DEF MountStep

(* The initial records, and the steps no process takes.                    *)
LEMMA InitSound == Init => IInv
<1> SUFFICES ASSUME Init PROVE IInv
  OBVIOUS
<1> DEFINE s == [pc |-> "new", op |-> None, id |-> 0, arg |-> None,
                 token |-> None, known |-> FALSE, new |-> None, out |-> None,
                 ok |-> FALSE, at |-> None]
<1>1. proc = [p \in Proc |-> s]
  BY DEF Init
<1>2. [id |-> 1, gen |-> 0] \in Plain /\ 1 \in Id /\ 0 \in 0 .. MaxGen
  BY TokenMgmtAssumption DEF Plain, Id
<1>3. FileTypes
  <2>1. printed \subseteq Plain
    BY <1>2 DEF Init
  <2>2. remote \in Remote
    BY <1>2 DEF Init, Remote
  <2> QED
    BY <2>1, <2>2 DEF Init, FileTypes, MayBeNone
<1>4. s \in ProcRecord
  BY DEF ProcRecord, Steps, MayBeNone
<1>5. CommandAt(s) /\ HoldsTokens(s) /\ Delivered(s, remote, printed)
  BY TokenMgmtAssumption DEF CommandAt, HoldsTokens, Delivered, Command, Imports, Storing
<1> QED
  BY <1>1, <1>3, <1>4, <1>5 DEF IInv, Sound

(* A lock file gets old, a mount dies.                                     *)
LEMMA WorldKeeps == IInv /\ (LockAges \/ MountDies) => IInv'
<1> SUFFICES ASSUME IInv, LockAges \/ MountDies PROVE IInv'
  OBVIOUS
<1>1. FileTypes /\ UNCHANGED <<remote, creds, recovery, proc, locator, printed>>
  BY DEF IInv, LockAges, MountDies, files, mounts
<1>2. mount' \in {mount, None}
      /\ (lockFile' = lockFile \/ (lockFile # None /\ lockFile' = [lockFile EXCEPT !.stale = TRUE]))
  BY DEF LockAges, MountDies, files, mounts
<1>3. FileTypes'
  BY <1>1, <1>2 DEF FileTypes, MayBeNone
<1> QED
  BY <1>1, <1>3 DEF IInv

(* Nothing happens.                                                        *)
LEMMA StutterKeeps == IInv /\ UNCHANGED vars => IInv'
<1> SUFFICES ASSUME IInv, UNCHANGED vars PROVE IInv'
  OBVIOUS
<1> QED
  BY DEF IInv, FileTypes, vars, files, mounts

(* Every step keeps the records sound.                                     *)
LEMMA NextKeeps == IInv /\ [Next]_vars => IInv'
BY BeginKeeps, LockKeeps, GenerateKeeps, StoreKeeps, MutateKeeps, RefreshKeeps, MountKeeps,
   FinishKeeps, CrashKeeps, WorldKeeps, StutterKeeps DEF Next, Step

(* The records are sound in every state.                                   *)
LEMMA Invariance == Spec => []IInv
BY InitSound, NextKeeps, PTL DEF Spec

(* A one-time plaintext that reached a command which ended was shown to    *)
(* the user or is revoked (Generate, rollback, refresh and its recovery    *)
(* commit), whatever other commands, failures and kills did.               *)
THEOREM TokenNotLost == Spec => []NoTokenLost
<1>1. IInv => NoTokenLost
  BY DEF IInv, Sound, Delivered, NoTokenLost, At, Revoked
<1> QED
  BY <1>1, Invariance, PTL

-----------------------------------------------------------------------------
(* One command at a time.  What the running one has checked still holds    *)
(* when it acts on it, and what a killed refresh left is still there.      *)
Idle == {"new", "end", "unshown", "crashed"}
HoldsRotated(s) == s.pc = "crashed" /\ s.at = "commit"
Fresh(i) ==
  /\ mount = None \/ mount.id # i
  /\ \A q \in Proc : HoldsRotated(proc[q]) => proc[q].new.id # i

MountChecked(s) ==
  /\ s.pc = "remoteRefresh" => ~MountUses(s.token)
  /\ s.pc = "remoteMutate" /\ s.op # "enable" => ~MountUsesId(s.id)
  /\ s.pc = "writeLocator" => mount = None \/ (mount = s.token /\ Valid(mount))

TokenChecked(s) ==
  /\ s.pc \in {"store", "write", "verify", "rollback"} /\ s.op \in Storing => Fresh(s.new.id)
  /\ s.pc \in {"store", "write", "verify"} /\ s.op \in Imports => Valid(s.arg)
  /\ s.pc \in {"lock", "takeover", "cleanup", "removeAll"} /\ s.op = "delete" =>
       remote[s.id].status = "revoked"
  /\ s.pc = "removeAll" => creds = None \/ creds.plain.id = s.id

RefreshChecked(s) ==
  /\ s.pc \in {"guardAgain", "writeRecovery"} \/ (s.pc = "remoteRefresh" /\ s.op = "refresh") =>
       creds # None /\ creds.plain = s.token
  /\ s.pc \in {"writeRecovery", "commit"} =>
       remote[s.new.id].gen = s.new.gen /\ remote[s.new.id].status # "unissued"
  /\ s.pc = "commit" => recovery = s.new

Kept(t) ==
  /\ remote[t.id].gen = t.gen /\ remote[t.id].status # "revoked"
  /\ creds # None /\ creds.plain.id = t.id
  => recovery = t \/ creds.plain = t
RotationKept(s) ==
  HoldsRotated(s) =>
    remote[s.new.id].status # "unissued" /\ remote[s.new.id].gen >= s.new.gen /\ Kept(s.new)

AloneInv ==
  /\ \A p, q \in Proc : proc[p].pc \notin Idle /\ proc[q].pc \notin Idle => p = q
  /\ mount # None => remote[mount.id].status # "unissued"
  /\ MountKeepsToken
  /\ \A p \in Proc : MountChecked(proc[p]) /\ TokenChecked(proc[p]) /\ RefreshChecked(proc[p])
                       /\ RotationKept(proc[p])

(* What Goto and Succeed leave of the record, and of the other processes.  *)
LEMMA GotoDoes ==
  ASSUME IInv, NEW p \in Proc, NEW step, Goto(p, step) \/ Succeed(p, step)
  PROVE  /\ proc'[p].pc = step /\ proc'[p].op = proc[p].op /\ proc'[p].id = proc[p].id
         /\ proc'[p].arg = proc[p].arg /\ proc'[p].token = proc[p].token
         /\ proc'[p].new = proc[p].new /\ proc'[p].known = proc[p].known
         /\ \A q \in Proc \ {p} : proc'[q] = proc[q]
<1>1. proc \in [Proc -> ProcRecord]
  BY DEF IInv
<1> QED
  BY <1>1 DEF Goto, Succeed, ProcRecord

(* At these steps a command has nothing checked that it still relies on.   *)
Unchecked == {"preflight", "remoteGenerate", "recheck", "guardToken", "validate", "guardId",
              "resolve", "resolveMount", "companion", "undoMount", "waitReady", "readLocator",
              "umount", "removeLocator", "unlock", "finish", "end", "unshown"}
Checked(s) == MountChecked(s) /\ TokenChecked(s) /\ RefreshChecked(s)

(* The running command moves: the others are idle.                         *)
LEMMA AloneMoves ==
  ASSUME AloneInv, NEW p \in Proc, proc[p].pc \notin Idle,
         \A q \in Proc \ {p} : proc'[q] = proc[q],
         mount' # None => remote'[mount'.id].status # "unissued",
         MountKeepsToken', Checked(proc[p])', RotationKept(proc[p])',
         \A q \in Proc \ {p} : RotationKept(proc[q])'
  PROVE  AloneInv'
<1>1. \A q \in Proc \ {p} : proc[q].pc \in Idle
  BY DEF AloneInv
<1>2. \A q \in Proc \ {p} : proc'[q].pc \in Idle
  BY <1>1
<1>3. ASSUME NEW q \in Proc \ {p} PROVE Checked(proc[q])'
  <2>1. proc'[q].pc \in Idle
    BY <1>2
  <2> QED
    BY <2>1 DEF Idle, Checked, MountChecked, TokenChecked, RefreshChecked
<1>4. \A q \in Proc : Checked(proc[q])' /\ RotationKept(proc[q])'
  BY <1>3
<1>5. \A q, o \in Proc : proc'[q].pc \notin Idle /\ proc'[o].pc \notin Idle => q = o
  BY <1>2
<1> QED
  BY <1>4, <1>5 DEF AloneInv, Checked

(* A step that changes no token, credential, recovery file or mount.       *)
LEMMA AloneQuiet ==
  ASSUME AloneInv, NEW p \in Proc, proc[p].pc \notin Idle, proc'[p].pc # "crashed",
         \A q \in Proc \ {p} : proc'[q] = proc[q],
         UNCHANGED <<remote, creds, recovery, mount, locator>>, Checked(proc[p])'
  PROVE  AloneInv'
<1>1. mount' # None => remote'[mount'.id].status # "unissued"
  BY DEF AloneInv
<1>2. MountKeepsToken'
  BY DEF AloneInv, MountKeepsToken, Valid
<1>3. \A q \in Proc \ {p} : RotationKept(proc[q])'
  BY DEF AloneInv, RotationKept, HoldsRotated, Kept
<1>4. RotationKept(proc[p])'
  BY DEF RotationKept, HoldsRotated
<1> QED
  BY <1>1, <1>2, <1>3, <1>4, AloneMoves

(* An id that no mount and no killed refresh holds stays so.               *)
LEMMA FreshStays ==
  ASSUME NEW p \in Proc, proc'[p].pc # "crashed", \A q \in Proc \ {p} : proc'[q] = proc[q],
         UNCHANGED mount, NEW i, Fresh(i)
  PROVE  Fresh(i)'
BY DEF Fresh, HoldsRotated

(* The steps of a command between its file operations and remote calls.    *)
QuietStep(p) ==
  \/ LockStep(p) \/ LockCancelled(p) \/ GeneratePreflight(p) \/ ImportValidates(p)
  \/ StoreLooks(p) \/ StoreVerifies(p) \/ guardTokenIDMount(p) \/ DeleteLooks(p)
  \/ resolveRefresh(p) \/ guardTokenFingerprintMount(p) \/ RefreshRechecks(p)
  \/ ResolveCredential(p) \/ waitForMountReady(p) \/ drive9MountLocatorProfile(p) \/ Finish(p)

(* Where those steps lead, and what they have checked.                     *)
LEMMA QuietGoes ==
  ASSUME IInv, NEW p \in Proc, QuietStep(p)
  PROVE  \/ /\ proc'[p].pc \in Unchecked /\ proc[p].pc \notin Idle
            /\ \A q \in Proc \ {p} : proc'[q] = proc[q]
         \/ \E step \in Steps :
              /\ Goto(p, step) \/ Succeed(p, step)
              /\ \/ proc[p].pc \in {"lock", "takeover"} /\ step \in {"lock", "takeover", "cleanup"}
                 \/ proc[p].pc = "guardToken" /\ step = "lock" /\ proc[p].op = "refresh"
                 \/ proc[p].pc = "validate" /\ step = "store" /\ Valid(proc[p].arg)
                 \/ proc[p].pc = "store" /\ step = "write"
                 \/ proc[p].pc \in {"store", "verify"} /\ step = "rollback"
                 \/ proc[p].pc = "guardId" /\ step = "remoteMutate" /\ ~MountUsesId(proc[p].id)
                 \/ proc[p].pc = "cleanup" /\ step = "removeAll" /\ creds.plain.id = proc[p].id
                 \/ proc[p].pc = "recheck" /\ step = "guardAgain"
                    /\ creds # None /\ creds.plain = proc[p].token
                 \/ /\ step = "remoteRefresh" /\ ~MountUses(proc[p].token)
                    /\ proc[p].pc = "guardAgain" \/ (proc[p].pc = "guardToken" /\ proc[p].op # "refresh")
<1> DEFINE s == proc[p]
<1>1. s \in ProcRecord /\ CommandAt(s) /\ proc \in [Proc -> ProcRecord]
  BY DEF IInv, Sound
<1>2. CASE LockStep(p) \/ LockCancelled(p)
  <2>1. \E step \in {"preflight", "recheck", "cleanup", "takeover", "lock", "finish"} :
          /\ Goto(p, step)
          /\ s.pc \in {"lock", "takeover", "unlock"} /\ (s.pc = "unlock" => step = "finish")
    BY <1>2 DEF LockStep, LockCancelled, AcquireLock, SeeStaleLock, RemoveStaleLock, ReleaseLock, At,
       EnterStep
  <2> QED
    BY <2>1, GotoDoes DEF Unchecked, Steps, Idle
<1>3. CASE GeneratePreflight(p) \/ waitForMountReady(p) \/ drive9MountLocatorProfile(p) \/ Finish(p)
  <2>1. \E step \in {"unlock", "remoteGenerate", "finish", "umount", "end", "unshown"} :
          /\ Goto(p, step) \/ Succeed(p, step)
          /\ s.pc \in {"preflight", "waitReady", "readLocator", "finish"}
    BY <1>3 DEF GeneratePreflight, waitForMountReady, drive9MountLocatorProfile, Finish, At
  <2> QED
    BY <2>1, GotoDoes DEF Unchecked, Idle
<1>4. CASE ImportValidates(p) \/ guardTokenIDMount(p) \/ DeleteLooks(p)
  <2>1. \E step \in {"store", "finish", "remoteMutate", "removeAll", "unlock"} :
          /\ Goto(p, step) \/ Succeed(p, step)
          /\ s.pc \in {"validate", "guardId", "cleanup"}
          /\ step = "store" => s.pc = "validate" /\ Valid(s.arg)
          /\ step = "remoteMutate" => s.pc = "guardId" /\ ~MountUsesId(s.id)
          /\ step = "removeAll" => s.pc = "cleanup" /\ creds.plain.id = s.id
    BY <1>4 DEF ImportValidates, guardTokenIDMount, DeleteLooks, At
  <2> QED
    BY <2>1, GotoDoes DEF Unchecked, Steps, Idle
<1>5. CASE StoreLooks(p) \/ StoreVerifies(p)
  <2>1. s.pc \in {"store", "verify"} /\ Leave(p) \in Unchecked
    BY <1>5 DEF StoreLooks, StoreVerifies, At, Leave, Unchecked
  <2>2. \/ Stored(p)
        \/ \E step \in {"finish", "rollback", "write"} : Goto(p, step) /\ (step = "write" => s.pc = "store")
    BY <1>5 DEF StoreLooks, StoreVerifies, StoreFailed, At
  <2>3. CASE Stored(p)
    <3>1. proc'[p].pc = Leave(p) /\ \A q \in Proc \ {p} : proc'[q] = proc[q]
      BY <1>1, <2>3 DEF Stored, ProcRecord
    <3> QED
      BY <2>1, <3>1 DEF Idle
  <2>4. CASE \E step \in {"finish", "rollback", "write"} :
               Goto(p, step) /\ (step = "write" => s.pc = "store")
    BY <2>1, <2>4, GotoDoes DEF Unchecked, Steps, Idle
  <2> QED
    BY <2>2, <2>3, <2>4
<1>6. CASE resolveRefresh(p) \/ ResolveCredential(p)
  <2>1. s.pc \in {"resolve", "resolveMount"}
    BY <1>6 DEF resolveRefresh, ResolveCredential, At
  <2>2. proc'[p].pc \in {"guardToken", "finish", "companion"} /\ \A q \in Proc \ {p} : proc'[q] = proc[q]
    BY <1>1, <1>6 DEF resolveRefresh, ResolveCredential, ProcRecord, Goto
  <2> QED
    BY <2>1, <2>2 DEF Unchecked, Idle
<1>7. CASE guardTokenFingerprintMount(p) \/ RefreshRechecks(p)
  <2>1. \E step \in {"finish", "lock", "remoteRefresh", "unlock", "guardAgain"} :
          /\ Goto(p, step)
          /\ s.pc \in {"guardToken", "guardAgain", "recheck"}
          /\ step = "lock" => s.pc = "guardToken" /\ s.op = "refresh"
          /\ step = "remoteRefresh" =>
               /\ ~MountUses(s.token)
               /\ s.pc = "guardAgain" \/ (s.pc = "guardToken" /\ s.op # "refresh")
          /\ step = "guardAgain" => s.pc = "recheck" /\ creds # None /\ creds.plain = s.token
    BY <1>7 DEF guardTokenFingerprintMount, RefreshRechecks, At, Op
  <2> QED
    BY <2>1, GotoDoes DEF Unchecked, Steps, Idle
<1> QED
  BY <1>2, <1>3, <1>4, <1>5, <1>6, <1>7 DEF QuietStep

(* They keep the invariant of commands that run alone.                     *)
LEMMA AloneQuietSteps ==
  ASSUME IInv, AloneInv, NEW p \in Proc, QuietStep(p)
  PROVE  AloneInv'
<1> DEFINE s == proc[p]
<1>1. UNCHANGED <<remote, creds, recovery, mount, locator>>
  BY DEF QuietStep, LockStep, AcquireLock, SeeStaleLock, RemoveStaleLock, ReleaseLock, LockCancelled,
     GeneratePreflight, ImportValidates, StoreLooks, StoreVerifies, guardTokenIDMount, DeleteLooks,
     resolveRefresh, guardTokenFingerprintMount, RefreshRechecks, ResolveCredential,
     waitForMountReady, drive9MountLocatorProfile, Finish, files, mounts
<1>2. CASE proc'[p].pc \in Unchecked /\ proc[p].pc \notin Idle
           /\ \A q \in Proc \ {p} : proc'[q] = proc[q]
  <2>1. Checked(proc[p])'
    BY <1>2 DEF Unchecked, Checked, MountChecked, TokenChecked, RefreshChecked
  <2>2. proc'[p].pc # "crashed"
    BY <1>2 DEF Unchecked
  <2> QED
    BY <1>1, <1>2, <2>1, <2>2, AloneQuiet
<1>3. ASSUME NEW step \in Steps, Goto(p, step) \/ Succeed(p, step),
              \/ proc[p].pc \in {"lock", "takeover"} /\ step \in {"lock", "takeover", "cleanup"}
              \/ proc[p].pc = "guardToken" /\ step = "lock" /\ proc[p].op = "refresh"
              \/ proc[p].pc = "validate" /\ step = "store" /\ Valid(proc[p].arg)
              \/ proc[p].pc = "store" /\ step = "write"
              \/ proc[p].pc \in {"store", "verify"} /\ step = "rollback"
              \/ proc[p].pc = "guardId" /\ step = "remoteMutate" /\ ~MountUsesId(proc[p].id)
              \/ proc[p].pc = "cleanup" /\ step = "removeAll" /\ creds.plain.id = proc[p].id
              \/ proc[p].pc = "recheck" /\ step = "guardAgain"
                 /\ creds # None /\ creds.plain = proc[p].token
              \/ /\ step = "remoteRefresh" /\ ~MountUses(proc[p].token)
                 /\ proc[p].pc = "guardAgain" \/ (proc[p].pc = "guardToken" /\ proc[p].op # "refresh")
      PROVE  AloneInv'
  <2>1. /\ proc'[p].pc = step /\ proc'[p].op = s.op /\ proc'[p].id = s.id /\ proc'[p].arg = s.arg
        /\ proc'[p].token = s.token /\ proc'[p].new = s.new
        /\ \A q \in Proc \ {p} : proc'[q] = proc[q]
    BY <1>3, GotoDoes
  <2>2. s.pc \notin Idle /\ proc'[p].pc # "crashed"
    BY <1>3, <2>1 DEF Idle
  <2>3. CommandAt(s) /\ Checked(s)
    BY DEF IInv, Sound, AloneInv, Checked
  <2>4. Fresh(s.new.id) => Fresh(s.new.id)'
    BY <1>1, <2>1, <2>2, FreshStays
  <2>5. MountChecked(proc[p])'
    BY <1>1, <1>3, <2>1, <2>3 DEF Checked, MountChecked, MountUses, MountUsesId, Valid, CommandAt
  <2>6. Fresh(proc[p].new.id)' <=> Fresh(s.new.id)'
    BY <2>1
  <2>7. TokenChecked(proc[p])'
    BY <1>1, <1>3, <2>1, <2>3, <2>4 DEF Checked, TokenChecked, Valid, CommandAt, Imports, Storing
  <2>8. RefreshChecked(proc[p])'
    BY <1>1, <1>3, <2>1, <2>3 DEF Checked, RefreshChecked, CommandAt
  <2> QED
    BY <1>1, <2>1, <2>2, <2>5, <2>7, <2>8, AloneQuiet DEF Checked
<1> QED
  BY <1>2, <1>3, QuietGoes

(* The remote calls: generate, revoke, enable or disable, rotate.          *)
LEMMA AloneRemote ==
  ASSUME IInv, AloneInv, NEW p \in Proc,
         RemoteGenerate(p) \/ Rollback(p) \/ RemoteMutate(p) \/ refreshRemote(p)
  PROVE  AloneInv'
<1> DEFINE s == proc[p]
<1>1. /\ s \in ProcRecord /\ CommandAt(s) /\ HoldsTokens(s) /\ proc \in [Proc -> ProcRecord]
      /\ FileTypes /\ remote \in Remote
  BY DEF IInv, Sound, FileTypes
<1>2. UNCHANGED <<creds, recovery, mount, locator>>
  BY DEF RemoteGenerate, Rollback, RemoteMutate, refreshRemote, files, mounts
<1>3. ASSUME NEW q \in Proc, HoldsRotated(proc[q])
      PROVE  proc[q].new \in Plain /\ proc[q].new.id \in Id /\ proc[q].new.gen \in Nat
             /\ RotationKept(proc[q])
  BY <1>3, TokenMgmtAssumption DEF IInv, Sound, HoldsTokens, HoldsRotated, AloneInv, Plain
<1>4. mount # None => mount \in Plain /\ mount.id \in Id /\ remote[mount.id].status # "unissued"
  BY <1>1 DEF FileTypes, MayBeNone, Plain, AloneInv
<1>5. MountChecked(s) /\ TokenChecked(s) /\ MountKeepsToken
  BY DEF AloneInv
<1>6. CASE RemoteGenerate(p)
  <2>1. s.pc \notin Idle /\ \A q \in Proc \ {p} : proc'[q] = proc[q]
    <3>1. s.pc = "remoteGenerate"
      BY <1>6 DEF RemoteGenerate, At
    <3>2. \A q \in Proc \ {p} : proc'[q] = proc[q]
      BY <1>1, <1>6 DEF RemoteGenerate, GenerateError, Goto
    <3> QED
      BY <3>1, <3>2 DEF Idle
  <2>2. \/ UNCHANGED remote /\ proc'[p].pc \in {"finish", "unlock"}
        \/ \E i \in Id : /\ remote[i].status = "unissued"
                         /\ remote' = [remote EXCEPT ![i] = [status |-> "active", gen |-> 0]]
                         /\ proc'[p].pc \in {"store", "finish", "unlock"}
                         /\ proc'[p].pc = "store" =>
                              proc'[p].new.id = i /\ proc'[p].op \in Storing
    <3>1. Goto(p, Leave(p)) => proc'[p].pc \in {"finish", "unlock"}
      BY <1>1 DEF Goto, Leave, ProcRecord
    <3>2. ASSUME NEW i \in Id, NEW t \in {[id |-> i, gen |-> 0]}, s.op \in Storing,
                 proc' = [proc EXCEPT ![p].pc = "store", ![p].new = t]
          PROVE  proc'[p].pc = "store" /\ proc'[p].new.id = i /\ proc'[p].op \in Storing
      BY <1>1, <3>2 DEF ProcRecord
    <3>3. ASSUME NEW i \in Id, NEW t \in {[id |-> i, gen |-> 0]},
                 proc' = [proc EXCEPT ![p].pc = "finish", ![p].new = t, ![p].out = t]
          PROVE  proc'[p].pc = "finish"
      BY <1>1, <3>3 DEF ProcRecord
    <3>4. \/ UNCHANGED remote /\ Goto(p, Leave(p))
          \/ \E i \in Id : \E t \in {[id |-> i, gen |-> 0]} :
               /\ remote[i].status = "unissued"
               /\ remote' = [remote EXCEPT ![i] = [status |-> "active", gen |-> 0]]
               /\ \/ s.op \in Storing /\ proc' = [proc EXCEPT ![p].pc = "store", ![p].new = t]
                  \/ proc' = [proc EXCEPT ![p].pc = "finish", ![p].new = t, ![p].out = t]
                  \/ Goto(p, Leave(p))
      BY <1>6 DEF RemoteGenerate, GenerateError, Op
    <3> QED
      BY <3>1, <3>2, <3>3, <3>4
  <2>3. CASE UNCHANGED remote /\ proc'[p].pc \in {"finish", "unlock"}
    <3>1. Checked(proc[p])' /\ proc'[p].pc # "crashed"
      BY <2>3 DEF Checked, MountChecked, TokenChecked, RefreshChecked
    <3> QED
      BY <1>2, <2>1, <2>3, <3>1, AloneQuiet
  <2>4. ASSUME NEW i \in Id, remote[i].status = "unissued",
               remote' = [remote EXCEPT ![i] = [status |-> "active", gen |-> 0]],
               proc'[p].pc \in {"store", "finish", "unlock"},
               proc'[p].pc = "store" => proc'[p].new.id = i /\ proc'[p].op \in Storing
        PROVE  AloneInv'
    <3>1. \A j \in Id \ {i} : remote'[j] = remote[j]
      BY <1>1, <2>4 DEF Remote
    <3>2. mount # None => mount.id # i /\ remote'[mount.id] = remote[mount.id]
      BY <1>4, <2>4, <3>1
    <3>3. MountKeepsToken' /\ (mount' # None => remote'[mount'.id].status # "unissued")
      BY <1>2, <1>4, <1>5, <3>2 DEF MountKeepsToken, Valid
    <3>4. ASSUME NEW q \in Proc \ {p}, HoldsRotated(proc[q])
          PROVE  proc[q].new.id # i /\ remote'[proc[q].new.id] = remote[proc[q].new.id]
      BY <1>3, <2>4, <3>1, <3>4 DEF RotationKept
    <3>5. \A q \in Proc \ {p} : RotationKept(proc[q])'
      BY <1>2, <1>3, <2>1, <3>4 DEF RotationKept, HoldsRotated, Kept
    <3>6. Fresh(i)'
      BY <1>2, <2>1, <2>4, <3>2, <3>4 DEF Fresh, HoldsRotated
    <3>7. Checked(proc[p])' /\ RotationKept(proc[p])'
      BY <2>4, <3>6 DEF Checked, MountChecked, TokenChecked, RefreshChecked, RotationKept,
         HoldsRotated, Storing, Imports
    <3> QED
      BY <2>1, <3>3, <3>5, <3>7, AloneMoves
  <2> QED
    BY <2>2, <2>3, <2>4
<1>7. CASE Rollback(p)
  <2>1. s.pc = "rollback" /\ s.new \in Plain /\ s.new.id \in Id /\ Fresh(s.new.id)
    BY <1>1, <1>5, <1>7 DEF Rollback, At, HoldsTokens, CommandAt, TokenChecked, Plain
  <2>2. /\ proc'[p].pc = "unlock" /\ \A q \in Proc \ {p} : proc'[q] = proc[q]
        /\ remote' \in {remote, [remote EXCEPT ![s.new.id].status = "revoked"]}
    BY <1>1, <1>7 DEF Rollback, Revoke, Goto, ProcRecord
  <2>3. \A j \in Id \ {s.new.id} : remote'[j] = remote[j]
    BY <1>1, <2>1, <2>2 DEF Remote
  <2>4. mount # None => remote'[mount.id] = remote[mount.id]
    BY <1>4, <2>1, <2>3 DEF Fresh
  <2>5. MountKeepsToken' /\ (mount' # None => remote'[mount'.id].status # "unissued")
    BY <1>2, <1>4, <1>5, <2>4 DEF MountKeepsToken, Valid
  <2>6. \A q \in Proc : HoldsRotated(proc[q]) => remote'[proc[q].new.id] = remote[proc[q].new.id]
    BY <1>3, <2>1, <2>3 DEF Fresh
  <2>7. \A q \in Proc \ {p} : RotationKept(proc[q])'
    BY <1>2, <1>3, <2>2, <2>6 DEF RotationKept, HoldsRotated, Kept
  <2>8. Checked(proc[p])' /\ RotationKept(proc[p])' /\ s.pc \notin Idle
    BY <2>1, <2>2 DEF Checked, MountChecked, TokenChecked, RefreshChecked, RotationKept,
       HoldsRotated, Idle
  <2> QED
    BY <2>2, <2>5, <2>7, <2>8, AloneMoves
<1>8. CASE RemoteMutate(p)
  <2>1. /\ s.pc = "remoteMutate" /\ s.id \in Id /\ s.op \in {"delete", "disable", "enable"}
        /\ s.op # "enable" => ~MountUsesId(s.id)
    BY <1>1, <1>5, <1>8 DEF RemoteMutate, At, HoldsTokens, CommandAt, MountChecked
  <2>2. \E step \in {"finish", "lock"} :
          /\ Goto(p, step) \/ Succeed(p, step)
          /\ \/ UNCHANGED remote /\ step = "finish"
             \/ /\ remote[s.id].status # "revoked"
                /\ remote' = [remote EXCEPT ![s.id].status = MutatedStatus(s.op)]
                /\ step = "lock" => s.op = "delete"
    BY <1>8 DEF RemoteMutate, Op, CleansUpLocked
  <2>3. PICK step \in {"finish", "lock"} :
          /\ Goto(p, step) \/ Succeed(p, step)
          /\ \/ UNCHANGED remote /\ step = "finish"
             \/ /\ remote[s.id].status # "revoked"
                /\ remote' = [remote EXCEPT ![s.id].status = MutatedStatus(s.op)]
                /\ step = "lock" => s.op = "delete"
    BY <2>2
  <2>4. /\ proc'[p].pc = step /\ proc'[p].op = s.op /\ proc'[p].id = s.id
        /\ \A q \in Proc \ {p} : proc'[q] = proc[q]
    BY <2>3, GotoDoes
  <2>5. /\ \A j \in Id : remote'[j].gen = remote[j].gen
        /\ \A j \in Id \ {s.id} : remote'[j] = remote[j]
        /\ \/ UNCHANGED remote /\ step = "finish"
           \/ /\ remote[s.id].status # "revoked"
              /\ remote'[s.id] = [status |-> MutatedStatus(s.op), gen |-> remote[s.id].gen]
    BY <1>1, <2>1, <2>3 DEF Remote
  <2>6. /\ s.op = "enable" => MutatedStatus(s.op) = "active"
        /\ s.op = "delete" => MutatedStatus(s.op) = "revoked"
        /\ MutatedStatus(s.op) # "unissued"
    BY <2>1 DEF MutatedStatus
  <2>7. MountKeepsToken' /\ (mount' # None => remote'[mount'.id].status # "unissued")
    BY <1>1, <1>2, <1>4, <1>5, <2>1, <2>5, <2>6 DEF MountKeepsToken, Valid, MountUsesId
  <2>8. \A q \in Proc \ {p} : RotationKept(proc[q])'
    BY <1>2, <1>3, <2>4, <2>5, <2>6 DEF RotationKept, HoldsRotated, Kept
  <2>9. Checked(proc[p])' /\ RotationKept(proc[p])' /\ s.pc \notin Idle
    <3>1. proc'[p].pc = "lock" => remote'[proc'[p].id].status = "revoked"
      BY <2>1, <2>3, <2>4, <2>5, <2>6
    <3>2. proc'[p].pc \in {"lock", "finish"}
      BY <2>4
    <3> QED
      BY <2>1, <3>1, <3>2 DEF Checked, MountChecked, TokenChecked, RefreshChecked,
         RotationKept, HoldsRotated, Idle
  <2> QED
    BY <2>4, <2>7, <2>8, <2>9, AloneMoves
<1>9. CASE refreshRemote(p)
  <2> DEFINE t == s.token
  <2>1. /\ s.pc = "remoteRefresh" /\ t \in Plain /\ t.id \in Id /\ t.gen \in Nat /\ ~MountUses(t)
        /\ s.op = "refresh" => creds # None /\ creds.plain = t
    BY <1>1, <1>5, <1>9, TokenMgmtAssumption
    DEF refreshRemote, At, HoldsTokens, MountChecked, AloneInv, RefreshChecked, Plain
  <2>2. \A q \in Proc \ {p} : proc'[q] = proc[q]
    BY <1>1, <1>9 DEF refreshRemote, Goto
  <2>3. \/ UNCHANGED remote /\ proc'[p].pc \in {"finish", "unlock"}
        \/ /\ Valid(t) /\ remote' = [remote EXCEPT ![t.id].gen = t.gen + 1]
           /\ proc'[p].pc \in {"writeRecovery", "finish", "unlock"} /\ proc'[p].token = t
           /\ proc'[p].pc = "writeRecovery" =>
                s.op = "refresh" /\ proc'[p].new = [id |-> t.id, gen |-> t.gen + 1]
    BY <1>1, <1>9 DEF refreshRemote, Goto, Leave, ProcRecord, Op
  <2>4. CASE UNCHANGED remote /\ proc'[p].pc \in {"finish", "unlock"}
    <3>1. Checked(proc[p])' /\ proc'[p].pc # "crashed" /\ s.pc \notin Idle
      BY <2>1, <2>4 DEF Checked, MountChecked, TokenChecked, RefreshChecked, Idle
    <3> QED
      BY <1>2, <2>2, <2>4, <3>1, AloneQuiet
  <2>5. CASE /\ Valid(t) /\ remote' = [remote EXCEPT ![t.id].gen = t.gen + 1]
             /\ proc'[p].pc \in {"writeRecovery", "finish", "unlock"} /\ proc'[p].token = t
             /\ proc'[p].pc = "writeRecovery" =>
                  s.op = "refresh" /\ proc'[p].new = [id |-> t.id, gen |-> t.gen + 1]
    <3>1. /\ \A j \in Id \ {t.id} : remote'[j] = remote[j]
          /\ remote'[t.id].gen = t.gen + 1 /\ remote[t.id].gen = t.gen
          /\ remote'[t.id].status = "active" /\ remote[t.id].status = "active"
      BY <1>1, <2>1, <2>5 DEF Remote, Valid
    <3>2. mount # None /\ locator # None /\ locator.plain = mount => mount.id # t.id
      BY <1>4, <1>5, <2>1, <3>1 DEF MountKeepsToken, MountUses, Plain
    <3>3. MountKeepsToken'
      BY <1>2, <1>4, <1>5, <3>1, <3>2 DEF MountKeepsToken, Valid
    <3>4. mount' # None => remote'[mount'.id].status # "unissued"
      BY <1>2, <1>4, <3>1
    <3>5. \A q \in Proc \ {p} : RotationKept(proc[q])'
      BY <1>2, <1>3, <2>1, <2>2, <3>1 DEF RotationKept, HoldsRotated, Kept
    <3>6. Checked(proc[p])' /\ RotationKept(proc[p])' /\ s.pc \notin Idle
      BY <1>2, <2>1, <2>5, <3>1 DEF Checked, MountChecked, TokenChecked, RefreshChecked,
         RotationKept, HoldsRotated, Idle
    <3> QED
      BY <2>2, <3>3, <3>4, <3>5, <3>6, AloneMoves
  <2> QED
    BY <2>3, <2>4, <2>5
<1> QED
  BY <1>6, <1>7, <1>8, <1>9

(* The writes: store, delete, the recovery file and its commit.            *)
LEMMA AloneWrites ==
  ASSUME IInv, AloneInv, NEW p \in Proc,
         \/ StoreWrites(p) \/ DeleteRemoves(p) \/ WriteRecoveryCredential(p)
         \/ CommitRecoveryCredential(p)
  PROVE  AloneInv'
<1> DEFINE s == proc[p]
<1>1. /\ s \in ProcRecord /\ CommandAt(s) /\ HoldsTokens(s) /\ proc \in [Proc -> ProcRecord]
      /\ FileTypes /\ remote \in Remote
  BY DEF IInv, Sound, FileTypes
<1>2. UNCHANGED <<remote, mount, locator>>
  BY DEF StoreWrites, DeleteRemoves, WriteRecoveryCredential, CommitRecoveryCredential, mounts
<1>3. ASSUME NEW q \in Proc, HoldsRotated(proc[q])
      PROVE  proc[q].new \in Plain /\ RotationKept(proc[q])
  BY <1>3 DEF IInv, Sound, HoldsTokens, HoldsRotated, AloneInv
<1>4. TokenChecked(s) /\ RefreshChecked(s)
  BY DEF AloneInv
<1>5. MountKeepsToken' /\ (mount' # None => remote'[mount'.id].status # "unissued")
  BY <1>2 DEF AloneInv, MountKeepsToken, Valid
<1>6. \E step \in {"verify", "finish", "rollback", "unlock", "commit"} :
        /\ Goto(p, step) \/ Succeed(p, step)
        /\ s.pc \in {"write", "removeAll", "writeRecovery", "commit"}
        /\ step \in {"verify", "rollback"} => s.pc = "write"
        /\ step = "commit" => s.pc = "writeRecovery" /\ recovery' = s.new
  BY DEF StoreWrites, StoreFailed, DeleteRemoves, WriteRecoveryCredential, CommitRecoveryCredential, At
<1>7. PICK step \in {"verify", "finish", "rollback", "unlock", "commit"} :
        /\ Goto(p, step) \/ Succeed(p, step)
        /\ s.pc \in {"write", "removeAll", "writeRecovery", "commit"}
        /\ step \in {"verify", "rollback"} => s.pc = "write"
        /\ step = "commit" => s.pc = "writeRecovery" /\ recovery' = s.new
  BY <1>6
<1>8. /\ proc'[p].pc = step /\ proc'[p].op = s.op /\ proc'[p].arg = s.arg
      /\ proc'[p].new = s.new /\ \A q \in Proc \ {p} : proc'[q] = proc[q]
  BY <1>7, GotoDoes
<1>9. s.pc \notin Idle /\ proc'[p].pc # "crashed"
  BY <1>7, <1>8 DEF Idle
<1>10. Fresh(s.new.id) => Fresh(s.new.id)'
  BY <1>2, <1>8, <1>9, FreshStays
<1>11. Checked(proc[p])' /\ RotationKept(proc[p])'
  <2>1. MountChecked(proc[p])' /\ RotationKept(proc[p])'
    BY <1>7, <1>8 DEF MountChecked, RotationKept, HoldsRotated
  <2>2. TokenChecked(proc[p])'
    BY <1>2, <1>4, <1>7, <1>8, <1>10 DEF TokenChecked, Valid
  <2>3. RefreshChecked(proc[p])'
    BY <1>2, <1>4, <1>7, <1>8 DEF RefreshChecked
  <2> QED
    BY <2>1, <2>2, <2>3 DEF Checked
<1>12. SUFFICES ASSUME NEW q \in Proc \ {p}, HoldsRotated(proc[q]) PROVE Kept(proc[q].new)'
  <2>1. \A q \in Proc \ {p} : HoldsRotated(proc[q]) => Kept(proc[q].new)'
    BY <1>12
  <2>2. \A q \in Proc \ {p} : RotationKept(proc[q])'
    BY <1>2, <1>3, <1>8, <2>1 DEF RotationKept, HoldsRotated
  <2> QED
    BY <1>5, <1>8, <1>9, <1>11, <2>2, AloneMoves
<1> DEFINE t == proc[q].new
<1>13. t \in Plain /\ Kept(t) /\ proc'[q].new = t
  BY <1>3, <1>8, <1>12 DEF RotationKept
<1>14. CASE StoreWrites(p)
  <2>1. s.pc = "write" /\ creds' \in {creds, Record(p)} /\ UNCHANGED recovery
    BY <1>14 DEF StoreWrites, At
  <2>2. Record(p).plain.id = t.id /\ remote[t.id].gen = t.gen => Record(p).plain = t
    <3>1. CASE s.op \in Imports
      <4>1. Record(p).plain = s.arg /\ Valid(s.arg) /\ s.arg \in Plain
        BY <1>1, <1>4, <2>1, <3>1 DEF Record, Importing, Op, TokenChecked, HoldsTokens, Imports
      <4> QED
        BY <1>13, <4>1 DEF Valid, Plain
    <3>2. CASE s.op \notin Imports
      <4>1. Record(p).plain = s.new /\ Fresh(s.new.id)
        BY <1>1, <1>4, <2>1, <3>2 DEF Record, Importing, Op, TokenChecked, CommandAt, Imports
      <4> QED
        BY <1>12, <4>1 DEF Fresh
    <3> QED
      BY <3>1, <3>2
  <2> QED
    BY <1>2, <1>13, <2>1, <2>2 DEF Kept
<1>15. CASE DeleteRemoves(p)
  <2>1. /\ s.pc = "removeAll" /\ creds' \in {creds, None} /\ recovery' \in {recovery, None}
        /\ s.op = "delete"
    BY <1>1, <1>15 DEF DeleteRemoves, At, CommandAt
  <2>2. remote[s.id].status = "revoked" /\ (creds = None \/ creds.plain.id = s.id)
    BY <1>4, <2>1 DEF TokenChecked
  <2> QED
    BY <1>2, <1>13, <2>1, <2>2 DEF Kept
<1>16. CASE WriteRecoveryCredential(p)
  <2>1. s.pc = "writeRecovery" /\ recovery' \in {recovery, s.new} /\ UNCHANGED creds
    BY <1>16 DEF WriteRecoveryCredential, At
  <2>2. /\ creds.plain = s.token /\ remote[s.new.id].gen = s.new.gen
        /\ s.new \in Plain /\ s.new.id = s.token.id
    BY <1>1, <1>4, <2>1 DEF RefreshChecked, HoldsTokens
  <2>3. creds.plain.id = t.id /\ remote[t.id].gen = t.gen => s.new = t
    BY <1>13, <2>2 DEF Plain
  <2> QED
    BY <1>2, <1>13, <2>1, <2>3 DEF Kept
<1>17. CASE CommitRecoveryCredential(p)
  <2>1. /\ s.pc = "commit"
        /\ \/ creds' = [plain |-> recovery, known |-> TRUE] /\ recovery' = None
           \/ UNCHANGED <<creds, recovery>>
    BY <1>17 DEF CommitRecoveryCredential, At
  <2>2. recovery = s.new /\ remote[s.new.id].gen = s.new.gen /\ s.new \in Plain
    BY <1>1, <1>4, <2>1 DEF RefreshChecked, HoldsTokens
  <2>3. s.new.id = t.id /\ remote[t.id].gen = t.gen => s.new = t
    BY <1>13, <2>2 DEF Plain
  <2> QED
    BY <1>2, <1>13, <2>1, <2>2, <2>3 DEF Kept
<1> QED
  BY <1>14, <1>15, <1>16, <1>17

(* Mounting and unmounting.                                                *)
LEMMA AloneMounts ==
  ASSUME IInv, AloneInv, NEW p \in Proc,
         \/ CompanionMounts(p) \/ writeDrive9MountLocator(p) \/ UndoMount(p)
         \/ CompanionUnmounts(p) \/ RemoveLocator(p)
  PROVE  AloneInv'
<1> DEFINE s == proc[p]
<1>1. /\ s \in ProcRecord /\ HoldsTokens(s) /\ proc \in [Proc -> ProcRecord]
      /\ FileTypes /\ remote \in Remote
  BY DEF IInv, Sound, FileTypes
<1>2. UNCHANGED <<remote, creds, recovery>>
  BY DEF CompanionMounts, writeDrive9MountLocator, UndoMount, CompanionUnmounts, RemoveLocator, files
<1>3. \E step \in {"writeLocator", "finish", "waitReady", "undoMount", "removeLocator"} :
        /\ Goto(p, step) \/ Succeed(p, step)
        /\ s.pc \in {"companion", "writeLocator", "undoMount", "umount", "removeLocator"}
        /\ step = "writeLocator" => Valid(s.token) /\ mount' = s.token
  BY DEF CompanionMounts, writeDrive9MountLocator, UndoMount, CompanionUnmounts, RemoveLocator, At
<1>4. PICK step \in {"writeLocator", "finish", "waitReady", "undoMount", "removeLocator"} :
        /\ Goto(p, step) \/ Succeed(p, step)
        /\ s.pc \in {"companion", "writeLocator", "undoMount", "umount", "removeLocator"}
        /\ step = "writeLocator" => Valid(s.token) /\ mount' = s.token
  BY <1>3
<1>5. /\ proc'[p].pc = step /\ proc'[p].token = s.token
      /\ \A q \in Proc \ {p} : proc'[q] = proc[q]
  BY <1>4, GotoDoes
<1>6. s.pc \notin Idle
  BY <1>4 DEF Idle
<1>7. Checked(proc[p])' /\ RotationKept(proc[p])'
  BY <1>2, <1>4, <1>5 DEF Checked, MountChecked, TokenChecked, RefreshChecked, RotationKept,
     HoldsRotated, Valid
<1>8. \A q \in Proc \ {p} : RotationKept(proc[q])'
  BY <1>2, <1>5 DEF AloneInv, RotationKept, HoldsRotated, Kept
<1>9. /\ mount' = mount \/ mount' = None
         \/ (s.pc = "companion" /\ mount' = s.token /\ Valid(s.token))
      /\ \/ locator' = locator \/ locator' = None
         \/ /\ s.pc = "writeLocator" /\ mount' = mount
            /\ locator' = [plain |-> s.token, known |-> s.known]
  BY DEF CompanionMounts, writeDrive9MountLocator, UndoMount, CompanionUnmounts, RemoveLocator, At
<1>10. s.pc = "writeLocator" => mount = None \/ (mount = s.token /\ Valid(mount))
  BY DEF AloneInv, MountChecked
<1>11. mount' # None => remote'[mount'.id].status # "unissued"
  BY <1>2, <1>9 DEF AloneInv, Valid
<1>12. MountKeepsToken'
  BY <1>2, <1>9, <1>10 DEF AloneInv, MountKeepsToken, Valid
<1> QED
  BY <1>5, <1>6, <1>7, <1>8, <1>11, <1>12, AloneMoves

(* A killed command checks nothing any more; a refresh killed after it     *)
(* wrote its recovery file has left the rotated token there.               *)
LEMMA AloneCrash ==
  ASSUME IInv, AloneInv, NEW p \in Proc, Crash(p)
  PROVE  AloneInv'
<1> DEFINE s == proc[p]
<1>1. /\ s \in ProcRecord /\ HoldsTokens(s) /\ proc \in [Proc -> ProcRecord] /\ FileTypes
  BY DEF IInv, Sound
<1>2. s.pc \notin Idle /\ UNCHANGED <<remote, creds, recovery, mount, locator>>
  BY DEF Crash, Live, Idle, files, mounts
<1>3. /\ proc'[p].pc = "crashed" /\ proc'[p].at = s.pc /\ proc'[p].new = s.new
      /\ \A q \in Proc \ {p} : proc'[q] = proc[q]
  BY <1>1 DEF Crash, ProcRecord
<1>4. s.pc = "commit" => /\ remote[s.new.id].gen = s.new.gen /\ s.new.gen \in Nat
                         /\ remote[s.new.id].status # "unissued" /\ recovery = s.new
  BY <1>1, TokenMgmtAssumption DEF AloneInv, RefreshChecked, HoldsTokens, Plain
<1>5. RotationKept(proc[p])'
  BY <1>2, <1>3, <1>4 DEF RotationKept, HoldsRotated, Kept
<1>6. Checked(proc[p])'
  BY <1>3 DEF Checked, MountChecked, TokenChecked, RefreshChecked
<1>7. \A q \in Proc \ {p} : RotationKept(proc[q])'
  BY <1>2, <1>3 DEF AloneInv, RotationKept, HoldsRotated, Kept
<1>8. MountKeepsToken' /\ (mount' # None => remote'[mount'.id].status # "unissued")
  BY <1>2 DEF AloneInv, MountKeepsToken, Valid
<1> QED
  BY <1>2, <1>3, <1>5, <1>6, <1>7, <1>8, AloneMoves

(* The next command begins when no other runs.                             *)
LEMMA AloneBegin ==
  ASSUME IInv, AloneInv, MaxLive = 1, NEW p \in Proc, Begin(p)
  PROVE  AloneInv'
<1> DEFINE s == proc[p]
<1>1. proc \in [Proc -> ProcRecord]
  BY DEF IInv
<1>2. UNCHANGED <<remote, creds, recovery, mount, locator>> /\ Cardinality(Live) < 1
  BY DEF Begin, files, mounts
<1>3. Live = {}
  <2>1. IsFiniteSet(Live)
    BY TokenMgmtAssumption, FS_Subset DEF Live
  <2> QED
    BY <1>2, <2>1, FS_CardinalityType, FS_EmptySet
<1>4. PICK op \in Command : \E id, arg :
        proc' = [proc EXCEPT ![p].pc = FirstStep(op), ![p].op = op, ![p].id = id, ![p].arg = arg]
  BY TokenMgmtAssumption DEF Begin
<1>5. /\ proc'[p].pc = FirstStep(op) /\ proc'[p].op = op
      /\ \A q \in Proc \ {p} : proc'[q] = proc[q]
  BY <1>1, <1>4 DEF ProcRecord
<1>6. \/ FirstStep(op) \in Unchecked
      \/ FirstStep(op) = "lock" /\ op # "delete"
      \/ FirstStep(op) = "remoteMutate" /\ op = "enable"
  BY DEF FirstStep, Command, Storing, Unchecked
<1>7. Checked(proc[p])' /\ RotationKept(proc[p])'
  BY <1>5, <1>6 DEF Unchecked, Checked, MountChecked, TokenChecked, RefreshChecked, RotationKept,
     HoldsRotated
<1>8. \A q \in Proc \ {p} : proc'[q].pc \in Idle
  BY <1>3, <1>5 DEF Live, Idle
<1>9. \A q \in Proc \ {p} : Checked(proc[q])' /\ RotationKept(proc[q])'
  <2>1. \A q \in Proc \ {p} : RotationKept(proc[q])'
    BY <1>2, <1>5 DEF AloneInv, RotationKept, HoldsRotated, Kept
  <2>2. ASSUME NEW q \in Proc \ {p} PROVE Checked(proc[q])'
    <3>1. proc'[q].pc \in Idle
      BY <1>8
    <3> QED
      BY <3>1 DEF Idle, Checked, MountChecked, TokenChecked, RefreshChecked
  <2> QED
    BY <2>1, <2>2
<1>10. MountKeepsToken' /\ (mount' # None => remote'[mount'.id].status # "unissued")
  BY <1>2 DEF AloneInv, MountKeepsToken, Valid
<1>11. \A q \in Proc : Checked(proc[q])' /\ RotationKept(proc[q])'
  BY <1>7, <1>9
<1> QED
  BY <1>8, <1>10, <1>11 DEF AloneInv, Checked

(* A mount that dies, a lock file that ages, a step that changes nothing.  *)
LEMMA AloneWorld ==
  AloneInv /\ (LockAges \/ MountDies \/ UNCHANGED vars) => AloneInv'
<1> SUFFICES ASSUME AloneInv, LockAges \/ MountDies \/ UNCHANGED vars PROVE AloneInv'
  OBVIOUS
<1>1. UNCHANGED <<remote, creds, recovery, locator, proc>> /\ (mount' = mount \/ mount' = None)
  BY DEF LockAges, MountDies, vars, files, mounts
<1>2. MountKeepsToken' /\ (mount' # None => remote'[mount'.id].status # "unissued")
  BY <1>1 DEF AloneInv, MountKeepsToken, Valid
<1>3. \A i : Fresh(i) => Fresh(i)'
  BY <1>1 DEF Fresh, HoldsRotated
<1>4. ASSUME NEW p \in Proc PROVE Checked(proc[p])' /\ RotationKept(proc[p])'
  <2>1. MountChecked(proc[p])' /\ RefreshChecked(proc[p])' /\ RotationKept(proc[p])'
    BY <1>1 DEF AloneInv, MountChecked, MountUses, MountUsesId, RefreshChecked, RotationKept,
       HoldsRotated, Kept, Valid
  <2>2. TokenChecked(proc[p])'
    BY <1>1, <1>3 DEF AloneInv, TokenChecked, Valid
  <2> QED
    BY <2>1, <2>2 DEF Checked
<1> QED
  BY <1>1, <1>2, <1>4 DEF AloneInv, Checked

(* Every step is a quiet one, a remote call, a write to the files or a     *)
(* step on the mount.                                                      *)
LEMMA StepKinds ==
  ASSUME NEW p \in Proc, Step(p) \/ LockCancelled(p)
  PROVE  \/ QuietStep(p)
         \/ RemoteGenerate(p) \/ Rollback(p) \/ RemoteMutate(p) \/ refreshRemote(p)
         \/ StoreWrites(p) \/ DeleteRemoves(p) \/ WriteRecoveryCredential(p)
         \/ CommitRecoveryCredential(p)
         \/ CompanionMounts(p) \/ writeDrive9MountLocator(p) \/ UndoMount(p)
         \/ CompanionUnmounts(p) \/ RemoveLocator(p)
BY DEF Step, GenerateStep, StoreStep, MutateStep, RefreshStep, MountStep, QuietStep

(* At the start no command runs.                                           *)
LEMMA AloneInit == Init => AloneInv
<1> SUFFICES ASSUME Init PROVE AloneInv
  OBVIOUS
<1>1. \A p \in Proc : proc[p].pc = "new"
  BY DEF Init
<1> QED
  BY <1>1 DEF Init, AloneInv, Idle, MountKeepsToken, MountChecked, TokenChecked, RefreshChecked,
     RotationKept, HoldsRotated

(* Every step of commands that run alone.                                  *)
LEMMA AloneNext ==
  ASSUME MaxLive = 1, IInv, AloneInv, [Next]_vars
  PROVE  AloneInv'
BY StepKinds, AloneBegin, AloneQuietSteps, AloneRemote, AloneWrites, AloneMounts, AloneCrash,
   AloneWorld DEF Next

(* Commands that run alone keep their invariant.                           *)
LEMMA AloneInvariance == ASSUME MaxLive = 1 PROVE Spec => []AloneInv
BY AloneInit, AloneNext, Invariance, PTL DEF Spec

(* Commands that run one after the other, killed or not, do not rotate,    *)
(* disable or revoke the token a mount with a locator runs with            *)
(* (guardTokenFingerprintMount, guardTokenIDMount and the mount command).  *)
THEOREM MountTokenKept == ASSUME MaxLive = 1 PROVE Spec => []MountKeepsToken
<1>1. AloneInv => MountKeepsToken
  BY DEF AloneInv
<1> QED
  BY <1>1, AloneInvariance, PTL

(* A refresh killed between its recovery file and the rename leaves the    *)
(* rotated plaintext on disk, whichever commands run afterwards            *)
(* (WriteRecoveryCredential, CommitRecoveryCredential).                    *)
THEOREM RotationNotLost == ASSUME MaxLive = 1 PROVE Spec => []RotatedKept
<1>1. AloneInv => RotatedKept
  <2> SUFFICES ASSUME AloneInv, NEW p \in Proc, At(p, "crashed"), proc[p].at = "commit",
                      Valid(proc[p].new), creds # None, creds.plain.id = proc[p].new.id
               PROVE  recovery = proc[p].new \/ creds.plain = proc[p].new
    BY DEF RotatedKept
  <2>1. RotationKept(proc[p]) /\ HoldsRotated(proc[p])
    BY DEF AloneInv, HoldsRotated, At
  <2> QED
    BY <2>1 DEF RotationKept, Kept, Valid
<1> QED
  BY <1>1, AloneInvariance, PTL

-----------------------------------------------------------------------------
(* No command is killed.  Then the lock file is a lock: only the process   *)
(* that created it is between its create and its deferred remove.          *)
LockInv ==
  /\ crashes = 0
  /\ lockFile # None => ~lockFile.stale
  /\ \A p \in Proc : /\ proc[p].pc \notin {"crashed", "takeover"}
                     /\ Critical(p) => lockFile # None /\ lockFile.owner = p

(* A deleted token stays revoked, is not selected, and is not the one that *)
(* a generate or a refresh under the lock is about to store.               *)
Deleted(s) == s.op = "delete" /\ s.ok
InFlight(s) ==
  \/ s.pc \in {"store", "write", "verify"} /\ s.op \in Storing
  \/ s.pc \in {"writeRecovery", "commit"}
Selected(i) == creds # None /\ creds.known /\ creds.plain.id = i

DeleteInv ==
  /\ \A p \in Proc :
       /\ proc[p].pc = "new" => ~proc[p].ok
       /\ proc[p].op = "delete" /\ (proc[p].ok \/ proc[p].pc \in {"lock", "cleanup", "removeAll"})
            => remote[proc[p].id].status = "revoked"
       /\ proc[p].pc = "commit" => recovery = proc[p].new
       /\ Deleted(proc[p]) => ~Selected(proc[p].id)
  /\ \A p, q \in Proc : Deleted(proc[p]) /\ InFlight(proc[q]) => proc[q].new.id # proc[p].id

(* Between its check under the lock and its commit, a refresh has the      *)
(* credential it checked.                                                  *)
Rechecked(s) ==
  \/ s.pc \in {"guardAgain", "writeRecovery", "commit"}
  \/ s.pc = "remoteRefresh" /\ s.op = "refresh"
CheckedInv ==
  \A p \in Proc :
    /\ proc[p].op \in Commands \cup {None}
    /\ Rechecked(proc[p]) => creds # None /\ creds.plain = proc[p].token

NotCritical == {"new", "lock", "validate", "guardId", "remoteMutate", "resolve", "guardToken",
                "resolveMount", "companion", "writeLocator", "undoMount", "waitReady",
                "readLocator", "umount", "removeLocator", "finish", "end", "unshown"}
Imported == {"store", "write", "verify"}

(* Every step but those of the lock: a process gets no further into the    *)
(* locked section than it was.                                             *)
LEMMA StaysOutside ==
  ASSUME IInv, NEW p \in Proc,
         \/ GenerateStep(p) \/ StoreStep(p) \/ MutateStep(p) \/ RefreshStep(p) \/ MountStep(p)
         \/ Finish(p) \/ LockCancelled(p)
  PROVE  /\ UNCHANGED <<lockFile, crashes>>
         /\ \A q \in Proc \ {p} : proc'[q] = proc[q]
         /\ proc'[p].op = proc[p].op
         /\ proc'[p].pc \notin {"crashed", "takeover"}
         /\ Critical(p)' => Critical(p)
<1> DEFINE s == proc[p]
<1>1. s \in ProcRecord /\ CommandAt(s) /\ proc \in [Proc -> ProcRecord]
  BY DEF IInv, Sound
<1>2. UNCHANGED <<lockFile, crashes>>
  BY DEF GenerateStep, GeneratePreflight, RemoteGenerate, Rollback, StoreStep, ImportValidates,
     StoreLooks, StoreWrites, StoreVerifies, MutateStep, guardTokenIDMount, RemoteMutate,
     DeleteLooks, DeleteRemoves, RefreshStep, resolveRefresh, guardTokenFingerprintMount,
     RefreshRechecks, refreshRemote, WriteRecoveryCredential, CommitRecoveryCredential, MountStep,
     ResolveCredential, CompanionMounts, writeDrive9MountLocator, UndoMount, waitForMountReady,
     drive9MountLocatorProfile, CompanionUnmounts, RemoveLocator, Finish, LockCancelled, files
<1>3. ASSUME NEW step \in Steps \ {"crashed", "takeover"}, Goto(p, step) \/ Succeed(p, step),
             \/ Critical(p)
             \/ step \in NotCritical
             \/ step \in Imported /\ s.op \notin Storing
             \/ step = "remoteRefresh" /\ s.op # "refresh"
      PROVE  /\ \A q \in Proc \ {p} : proc'[q] = proc[q]
             /\ proc'[p].op = proc[p].op
             /\ proc'[p].pc \notin {"crashed", "takeover"}
             /\ Critical(p)' => Critical(p)
  <2>1. /\ proc'[p].pc = step /\ proc'[p].op = s.op
        /\ \A q \in Proc \ {p} : proc'[q] = proc[q]
    BY <1>3, GotoDoes
  <2> QED
    BY <1>3, <2>1 DEF Critical, Op, NotCritical, Imported
<1>4. ASSUME \A q \in Proc \ {p} : proc'[q] = proc[q], proc'[p].op = s.op,
             proc'[p].pc \in Steps \ {"crashed", "takeover"},
             Critical(p) \/ proc'[p].pc \in NotCritical
      PROVE  Critical(p)' => Critical(p)
  BY <1>4 DEF Critical, Op, NotCritical
<1>5. Leave(p) \in Steps \ {"crashed", "takeover"}
      /\ (s.pc \in {"remoteGenerate", "store", "verify", "remoteRefresh"} =>
            Critical(p) \/ Leave(p) \in NotCritical)
  BY <1>1 DEF Leave, Steps, NotCritical, Critical, Op, CommandAt, Imports, Storing
<1>6. CASE GeneratePreflight(p) \/ DeleteLooks(p) \/ DeleteRemoves(p) \/ RefreshRechecks(p)
             \/ WriteRecoveryCredential(p) \/ CommitRecoveryCredential(p)
  <2>1. Critical(p)
    BY <1>6 DEF GeneratePreflight, DeleteLooks, DeleteRemoves, RefreshRechecks,
       WriteRecoveryCredential, CommitRecoveryCredential, At, Critical
  <2>2. \E step \in Steps \ {"crashed", "takeover"} : Goto(p, step) \/ Succeed(p, step)
    BY <1>6 DEF GeneratePreflight, DeleteLooks, DeleteRemoves, RefreshRechecks,
       WriteRecoveryCredential, CommitRecoveryCredential, Steps
  <2> QED
    BY <1>2, <1>3, <2>1, <2>2
<1>7. CASE ImportValidates(p) \/ guardTokenIDMount(p) \/ RemoteMutate(p) \/ Finish(p) \/ LockCancelled(p)
  <2>1. \E step \in {"store", "finish", "remoteMutate", "lock", "end", "unshown"} :
          /\ Goto(p, step) \/ Succeed(p, step)
          /\ step = "store" => s.pc = "validate"
    BY <1>7 DEF ImportValidates, guardTokenIDMount, RemoteMutate, CleansUpLocked, Finish,
       LockCancelled, At
  <2>2. PICK step \in {"store", "finish", "remoteMutate", "lock", "end", "unshown"} :
          /\ Goto(p, step) \/ Succeed(p, step)
          /\ step = "store" => s.pc = "validate"
    BY <2>1
  <2>3. step \in NotCritical \/ (step \in Imported /\ s.op \notin Storing)
    BY <1>1, <2>2 DEF NotCritical, Imported, CommandAt, Imports, Storing
  <2>4. step \in Steps \ {"crashed", "takeover"}
    BY <2>2 DEF Steps
  <2> QED
    BY <1>2, <1>3, <2>2, <2>3, <2>4
<1>8. CASE MountStep(p)
  <2>1. CASE ResolveCredential(p)
    <3>1. /\ proc'[p].pc \in {"companion", "finish"} /\ proc'[p].op = s.op
          /\ \A q \in Proc \ {p} : proc'[q] = proc[q]
      BY <1>1, <2>1 DEF ResolveCredential, Goto, ProcRecord
    <3> QED
      BY <1>2, <1>4, <3>1 DEF NotCritical, Steps
  <2>2. CASE \/ CompanionMounts(p) \/ writeDrive9MountLocator(p) \/ UndoMount(p)
             \/ waitForMountReady(p) \/ drive9MountLocatorProfile(p) \/ CompanionUnmounts(p)
             \/ RemoveLocator(p)
    <3>1. \E step \in {"writeLocator", "finish", "waitReady", "undoMount", "umount", "removeLocator"} :
            Goto(p, step) \/ Succeed(p, step)
      BY <2>2 DEF CompanionMounts, writeDrive9MountLocator, UndoMount, waitForMountReady,
         drive9MountLocatorProfile, CompanionUnmounts, RemoveLocator
    <3> QED
      BY <1>2, <1>3, <3>1 DEF NotCritical, Steps
  <2> QED
    BY <1>8, <2>1, <2>2 DEF MountStep
<1>9. CASE RemoteGenerate(p) \/ Rollback(p)
  <2>1. CASE Rollback(p)
    <3>1. /\ proc'[p].pc = "unlock" /\ proc'[p].op = s.op /\ Critical(p)
          /\ \A q \in Proc \ {p} : proc'[q] = proc[q]
      BY <1>1, <2>1 DEF Rollback, Goto, ProcRecord, Critical, At
    <3> QED
      BY <1>2, <1>4, <3>1 DEF Steps
  <2>2. CASE RemoteGenerate(p)
    <3>1. s.pc = "remoteGenerate"
      BY <2>2 DEF RemoteGenerate, At
    <3>2. \/ Goto(p, Leave(p))
          \/ \E t \in {[id |-> i, gen |-> 0] : i \in Id} :
               \/ s.op \in Storing /\ proc' = [proc EXCEPT ![p].pc = "store", ![p].new = t]
               \/ proc' = [proc EXCEPT ![p].pc = "finish", ![p].new = t, ![p].out = t]
      BY <2>2 DEF RemoteGenerate, GenerateError, Op
    <3>3. \A q \in Proc \ {p} : proc'[q] = proc[q]
      BY <1>1, <3>2 DEF Goto
    <3>4. /\ proc'[p].op = s.op
          /\ \/ proc'[p].pc = Leave(p)
             \/ proc'[p].pc = "store" /\ s.op \in Storing
             \/ proc'[p].pc = "finish"
      <4> HIDE DEF Leave
      <4>1. Goto(p, Leave(p)) => proc'[p].pc = Leave(p) /\ proc'[p].op = s.op
        BY <1>1 DEF Goto, ProcRecord
      <4>2. ASSUME NEW t, proc' = [proc EXCEPT ![p].pc = "store", ![p].new = t]
            PROVE  proc'[p].pc = "store" /\ proc'[p].op = s.op
        BY <1>1, <4>2 DEF ProcRecord
      <4>3. ASSUME NEW t, proc' = [proc EXCEPT ![p].pc = "finish", ![p].new = t, ![p].out = t]
            PROVE  proc'[p].pc = "finish" /\ proc'[p].op = s.op
        BY <1>1, <4>3 DEF ProcRecord
      <4> QED
        BY <3>2, <4>1, <4>2, <4>3
    <3>5. s.op \in Storing => Critical(p)
      BY <3>1 DEF Critical, Op
    <3> QED
      BY <1>2, <1>4, <1>5, <3>1, <3>3, <3>4, <3>5 DEF NotCritical, Steps
  <2> QED
    BY <1>9, <2>1, <2>2
<1>10. CASE StoreLooks(p) \/ StoreWrites(p) \/ StoreVerifies(p)
  <2>1. s.pc \in Imported /\ (s.op \in Storing => Critical(p))
    BY <1>10 DEF StoreLooks, StoreWrites, StoreVerifies, At, Imported, Critical, Op
  <2>2. \/ Stored(p) /\ s.pc \in {"store", "verify"}
        \/ \E step \in {"finish", "rollback", "write", "verify"} :
             Goto(p, step) /\ (step = "rollback" => s.op \notin Imports)
    BY <1>10 DEF StoreLooks, StoreWrites, StoreVerifies, StoreFailed, Importing, Op, Imports, At
  <2>3. CASE Stored(p) /\ s.pc \in {"store", "verify"}
    <3>1. /\ proc'[p].pc = Leave(p) /\ proc'[p].op = s.op
          /\ \A q \in Proc \ {p} : proc'[q] = proc[q]
      BY <1>1, <2>3 DEF Stored, ProcRecord
    <3> QED
      BY <1>2, <1>4, <1>5, <2>3, <3>1
  <2>4. CASE \E step \in {"finish", "rollback", "write", "verify"} :
               Goto(p, step) /\ (step = "rollback" => s.op \notin Imports)
    <3>1. PICK step \in {"finish", "rollback", "write", "verify"} :
            Goto(p, step) /\ (step = "rollback" => s.op \notin Imports)
      BY <2>4
    <3>2. Critical(p) \/ step \in NotCritical \/ (step \in Imported /\ s.op \notin Storing)
      BY <1>1, <2>1, <3>1 DEF CommandAt, Imported, NotCritical
    <3>3. step \in Steps \ {"crashed", "takeover"}
      BY <3>1 DEF Steps
    <3> QED
      BY <1>2, <1>3, <3>1, <3>2, <3>3
  <2> QED
    BY <2>2, <2>3, <2>4
<1>11. CASE resolveRefresh(p) \/ guardTokenFingerprintMount(p) \/ refreshRemote(p)
  <2>1. CASE resolveRefresh(p)
    <3>1. /\ proc'[p].pc \in {"guardToken", "finish"} /\ proc'[p].op = s.op
          /\ \A q \in Proc \ {p} : proc'[q] = proc[q]
      BY <1>1, <2>1 DEF resolveRefresh, Goto, ProcRecord
    <3> QED
      BY <1>2, <1>4, <3>1 DEF NotCritical, Steps
  <2>2. CASE guardTokenFingerprintMount(p)
    <3>1. \E step \in {"finish", "lock", "remoteRefresh", "unlock"} :
            /\ Goto(p, step)
            /\ step \in {"finish", "lock"} \/ s.pc = "guardAgain"
                 \/ (step = "remoteRefresh" /\ s.op # "refresh")
      BY <2>2 DEF guardTokenFingerprintMount, At, Op
    <3>2. s.pc = "guardAgain" => Critical(p)
      BY DEF Critical
    <3> QED
      BY <1>2, <1>3, <3>1, <3>2 DEF NotCritical, Steps
  <2>3. CASE refreshRemote(p)
    <3>1. s.pc = "remoteRefresh"
      BY <2>3 DEF refreshRemote, At
    <3>2. \/ Goto(p, Leave(p))
          \/ \E n \in {[id |-> s.token.id, gen |-> s.token.gen + 1]} :
               \/ /\ s.op = "refresh"
                  /\ proc' = [proc EXCEPT ![p].pc = "writeRecovery", ![p].new = n, ![p].out = n]
               \/ proc' = [proc EXCEPT ![p].pc = "finish", ![p].new = n, ![p].out = n]
      BY <2>3 DEF refreshRemote, Op
    <3>3. \A q \in Proc \ {p} : proc'[q] = proc[q]
      BY <1>1, <3>2 DEF Goto
    <3>4. /\ proc'[p].op = s.op
          /\ \/ proc'[p].pc = Leave(p)
             \/ proc'[p].pc = "writeRecovery" /\ s.op = "refresh"
             \/ proc'[p].pc = "finish"
      BY <1>1, <3>2 DEF Goto, ProcRecord
    <3>5. s.op = "refresh" => Critical(p)
      BY <3>1 DEF Critical, Op
    <3> QED
      BY <1>2, <1>4, <1>5, <3>1, <3>3, <3>4, <3>5 DEF NotCritical, Steps
  <2> QED
    BY <1>11, <2>1, <2>2, <2>3
<1> QED
  BY <1>6, <1>7, <1>8, <1>9, <1>10, <1>11 DEF GenerateStep, StoreStep, MutateStep, RefreshStep

(* At the start nobody is inside.                                          *)
LEMMA LockInit == Init => LockInv
BY DEF Init, LockInv, Critical

(* Taking the lock, giving it back; nothing ages and nobody is killed.     *)
LEMMA LockNext ==
  ASSUME MaxCrashes = 0, IInv, LockInv, [Next]_vars
  PROVE  LockInv'
<1>1. proc \in [Proc -> ProcRecord]
  BY DEF IInv
<1>2. ASSUME NEW p \in Proc, Begin(p) PROVE LockInv'
  <2>1. PICK op \in Command : \E id, arg :
          proc' = [proc EXCEPT ![p].pc = FirstStep(op), ![p].op = op, ![p].id = id, ![p].arg = arg]
    BY <1>2, TokenMgmtAssumption DEF Begin
  <2>2. /\ proc'[p].pc = FirstStep(op) /\ proc'[p].op = op
        /\ \A q \in Proc \ {p} : proc'[q] = proc[q]
    BY <1>1, <2>1 DEF ProcRecord
  <2>3. /\ FirstStep(op) \in NotCritical \cup {"remoteGenerate"}
        /\ FirstStep(op) = "remoteGenerate" => op \notin Storing
    BY DEF FirstStep, Command, Storing, NotCritical
  <2>4. ~Critical(p)' /\ proc'[p].pc \notin {"crashed", "takeover"}
    BY <2>2, <2>3 DEF Critical, Op, NotCritical
  <2>5. UNCHANGED <<lockFile, crashes>>
    BY <1>2 DEF Begin, files
  <2> QED
    BY <2>2, <2>4, <2>5 DEF LockInv, Critical, Op
<1>3. ASSUME NEW p \in Proc,
             \/ GenerateStep(p) \/ StoreStep(p) \/ MutateStep(p) \/ RefreshStep(p) \/ MountStep(p)
             \/ Finish(p) \/ LockCancelled(p)
      PROVE  LockInv'
  BY <1>3, StaysOutside DEF LockInv, Critical, Op
<1>4. ASSUME NEW p \in Proc, LockStep(p) PROVE LockInv'
  <2>1. CASE AcquireLock(p)
    <3>1. \E step \in {"preflight", "recheck", "cleanup"} : Goto(p, step)
      BY <2>1 DEF AcquireLock, EnterStep
    <3>2. /\ proc'[p].pc \notin {"crashed", "takeover"} /\ \A q \in Proc \ {p} : proc'[q] = proc[q]
      BY <3>1, GotoDoes
    <3>3. lockFile = None /\ lockFile' = [owner |-> p, stale |-> FALSE] /\ UNCHANGED crashes
      BY <2>1 DEF AcquireLock, CreatesExclusively
    <3>4. lockFile' # None
      <4>1. [owner |-> p, stale |-> FALSE] \in [owner : Proc, stale : BOOLEAN]
        OBVIOUS
      <4> QED
        BY <3>3, <4>1, TokenMgmtAssumption
    <3> QED
      BY <3>2, <3>3, <3>4 DEF LockInv, Critical, Op
  <2>2. CASE SeeStaleLock(p) \/ RemoveStaleLock(p)
    BY <2>2 DEF SeeStaleLock, RemoveStaleLock, LockIsStale, LockInv, At
  <2>3. CASE ReleaseLock(p)
    <3>1. /\ proc'[p].pc = "finish" /\ \A q \in Proc \ {p} : proc'[q] = proc[q]
          /\ lockFile' = None /\ UNCHANGED crashes
      BY <2>3, GotoDoes DEF ReleaseLock
    <3>2. Critical(p)
      BY <2>3 DEF ReleaseLock, At, Critical
    <3>3. \A q \in Proc : ~Critical(q)'
      BY <3>1, <3>2 DEF LockInv, Critical, Op
    <3> QED
      BY <3>1, <3>3 DEF LockInv
  <2> QED
    BY <1>4, <2>1, <2>2, <2>3 DEF LockStep
<1>5. ASSUME NEW p \in Proc, Crash(p) PROVE LockInv'
  BY <1>5 DEF Crash, LockInv
<1>6. CASE LockAges
  <2>1. lockFile.owner \notin Proc \/ proc[lockFile.owner].pc # "crashed"
    BY DEF LockInv
  <2>2. lockFile.owner \in Proc
    BY <1>6 DEF LockAges, IInv, FileTypes, MayBeNone
  <2> QED
    BY <1>6, <2>1, <2>2 DEF LockAges, At
<1>7. CASE MountDies \/ UNCHANGED vars
  BY <1>7 DEF MountDies, vars, files, mounts, LockInv, Critical, Op
<1> QED
  BY <1>2, <1>3, <1>4, <1>5, <1>6, <1>7 DEF Next, Step

(* Two processes are not in the locked section at once.                    *)
LEMMA OneInside ==
  ASSUME LockInv, NEW p \in Proc, Critical(p), NEW q \in Proc \ {p}
  PROVE  ~Critical(q)
BY DEF LockInv

(* The lock file is a lock as long as nobody is killed.                    *)
LEMMA LockInvariance == ASSUME MaxCrashes = 0 PROVE Spec => []LockInv
BY LockInit, LockNext, Invariance, PTL DEF Spec

(* A step after which process p holds what it held, nothing revoked is     *)
(* taken back, and nothing is selected that was not.                       *)
LEMMA DeleteMoves ==
  ASSUME IInv, IInv', DeleteInv, NEW p \in Proc, \A q \in Proc \ {p} : proc'[q] = proc[q],
         \A t \in Plain : Revoked(t, remote) => Revoked(t, remote'),
         proc'[p].pc # "new",
         proc'[p].op = "delete" /\ (proc'[p].ok \/ proc'[p].pc \in {"lock", "cleanup", "removeAll"})
           => remote'[proc'[p].id].status = "revoked",
         \A q \in Proc : proc'[q].pc = "commit" => recovery' = proc'[q].new,
         \A q \in Proc : Deleted(proc'[q]) => ~Selected(proc[q].id)',
         Deleted(proc'[p]) => \A q \in Proc \ {p} : InFlight(proc[q]) => proc[q].new.id # proc'[p].id,
         InFlight(proc'[p]) => \A q \in Proc \ {p} : Deleted(proc[q]) => proc'[p].new.id # proc[q].id
  PROVE  DeleteInv'
<1>1. ASSUME NEW q \in Proc \ {p}, proc[q].op = "delete",
             proc[q].ok \/ proc[q].pc \in {"lock", "cleanup", "removeAll"}
      PROVE  remote'[proc[q].id].status = "revoked"
  <2>1. proc[q].id \in Id /\ remote[proc[q].id].status = "revoked"
    BY <1>1 DEF IInv, Sound, HoldsTokens, DeleteInv
  <2>2. [id |-> proc[q].id, gen |-> 0] \in Plain
    BY <2>1, TokenMgmtAssumption DEF Plain
  <2> QED
    BY <2>1, <2>2 DEF Revoked
<1>2. ~(Deleted(proc'[p]) /\ InFlight(proc'[p]))
  BY DEF IInv, Sound, CommandAt, Deleted, InFlight, Storing
<1>3. \A q, o \in Proc : Deleted(proc'[q]) /\ InFlight(proc'[o]) => proc'[o].new.id # proc'[q].id
  BY <1>2 DEF DeleteInv
<1> QED
  BY <1>1, <1>3 DEF DeleteInv

(* What is about to be stored under the lock.                              *)
LEMMA InFlightInside == ASSUME NEW q \in Proc, InFlight(proc[q]) PROVE Critical(q)
BY DEF InFlight, Critical, Op

(* What the steps between file operations and remote calls leave alone.    *)
LEMMA QuietRecord ==
  ASSUME IInv, NEW p \in Proc, QuietStep(p), ~DeleteLooks(p)
  PROVE  /\ proc'[p].op = proc[p].op /\ proc'[p].id = proc[p].id /\ proc'[p].new = proc[p].new
         /\ proc[p].op = "delete" => proc'[p].ok = proc[p].ok
<1>1. proc \in [Proc -> ProcRecord] /\ CommandAt(proc[p])
  BY DEF IInv, Sound
<1>2. ASSUME NEW step, Goto(p, step)
      PROVE  /\ proc'[p].op = proc[p].op /\ proc'[p].id = proc[p].id /\ proc'[p].new = proc[p].new
             /\ proc'[p].ok = proc[p].ok
  BY <1>1, <1>2 DEF Goto, ProcRecord
<1>3. CASE \/ LockStep(p) \/ LockCancelled(p) \/ GeneratePreflight(p) \/ ImportValidates(p)
           \/ guardTokenIDMount(p) \/ guardTokenFingerprintMount(p) \/ RefreshRechecks(p)
           \/ drive9MountLocatorProfile(p) \/ Finish(p)
  <2>1. \E step \in Steps : Goto(p, step)
    BY <1>3 DEF LockStep, AcquireLock, EnterStep, SeeStaleLock, RemoveStaleLock, ReleaseLock,
       LockCancelled, GeneratePreflight, ImportValidates, guardTokenIDMount,
       guardTokenFingerprintMount, RefreshRechecks, drive9MountLocatorProfile, Finish, Steps
  <2> QED
    BY <1>2, <2>1
<1>4. CASE waitForMountReady(p)
  <2>1. Goto(p, "finish") \/ (proc[p].pc = "waitReady" /\ Succeed(p, "finish"))
    BY <1>4 DEF waitForMountReady, At
  <2>2. proc[p].pc = "waitReady" => proc[p].op # "delete"
    BY <1>1 DEF CommandAt
  <2> QED
    BY <1>2, <2>1, <2>2, GotoDoes
<1>5. CASE StoreLooks(p) \/ StoreVerifies(p)
  <2>1. proc[p].pc \in {"store", "verify"} /\ (Stored(p) \/ \E step \in Steps : Goto(p, step))
    BY <1>5 DEF StoreLooks, StoreVerifies, StoreFailed, At, Steps
  <2>2. proc[p].op # "delete"
    BY <1>1, <2>1 DEF CommandAt, Storing, Imports
  <2>3. Stored(p) => proc'[p].op = proc[p].op /\ proc'[p].id = proc[p].id
                     /\ proc'[p].new = proc[p].new
    BY <1>1 DEF Stored, ProcRecord
  <2> QED
    BY <1>2, <2>1, <2>2, <2>3
<1>6. CASE resolveRefresh(p) \/ ResolveCredential(p)
  <2>1. \/ Goto(p, "finish")
        \/ \E t : proc' = [proc EXCEPT ![p].pc = "guardToken", ![p].token = t]
        \/ \E t, k : proc' = [proc EXCEPT ![p].pc = "companion", ![p].token = t, ![p].known = k]
    BY <1>6 DEF resolveRefresh, ResolveCredential
  <2>2. ASSUME NEW t, proc' = [proc EXCEPT ![p].pc = "guardToken", ![p].token = t]
        PROVE  /\ proc'[p].op = proc[p].op /\ proc'[p].id = proc[p].id
               /\ proc'[p].new = proc[p].new /\ proc'[p].ok = proc[p].ok
    BY <1>1, <2>2 DEF ProcRecord
  <2>3. ASSUME NEW t, NEW k,
               proc' = [proc EXCEPT ![p].pc = "companion", ![p].token = t, ![p].known = k]
        PROVE  /\ proc'[p].op = proc[p].op /\ proc'[p].id = proc[p].id
               /\ proc'[p].new = proc[p].new /\ proc'[p].ok = proc[p].ok
    BY <1>1, <2>3 DEF ProcRecord
  <2> QED
    BY <1>2, <2>1, <2>2, <2>3
<1> QED
  BY <1>3, <1>4, <1>5, <1>6 DEF QuietStep

(* The quiet steps; one of them is the look at the stored credential that  *)
(* ends a delete.                                                          *)
LEMMA DeleteQuiet ==
  ASSUME IInv, IInv', LockInv, DeleteInv, NEW p \in Proc, QuietStep(p)
  PROVE  DeleteInv'
<1> DEFINE s == proc[p]
<1>1. UNCHANGED <<remote, creds, recovery>>
  BY DEF QuietStep, LockStep, AcquireLock, SeeStaleLock, RemoveStaleLock, ReleaseLock, LockCancelled,
     GeneratePreflight, ImportValidates, StoreLooks, StoreVerifies, guardTokenIDMount, DeleteLooks,
     resolveRefresh, guardTokenFingerprintMount, RefreshRechecks, ResolveCredential,
     waitForMountReady, drive9MountLocatorProfile, Finish, files, mounts
<1>2. \A i : Selected(i) <=> Selected(i)'
  BY <1>1 DEF Selected
<1>3. CommandAt(s) /\ s \in ProcRecord /\ proc \in [Proc -> ProcRecord]
  BY DEF IInv, Sound
<1>4. CASE DeleteLooks(p)
  <2>1. s.pc = "cleanup" /\ s.op = "delete" /\ Critical(p)
    BY <1>3, <1>4 DEF DeleteLooks, At, CommandAt, Critical
  <2>2. /\ proc'[p].op = s.op /\ proc'[p].id = s.id /\ proc'[p].pc \in {"removeAll", "unlock"}
        /\ proc'[p].ok = s.ok \/ ~Selected(s.id)
        /\ \A q \in Proc \ {p} : proc'[q] = proc[q]
    BY <1>3, <1>4 DEF DeleteLooks, Selected, Goto, Succeed, ProcRecord
  <2>3. \A q \in Proc \ {p} : ~InFlight(proc[q])
    BY <2>1, OneInside, InFlightInside
  <2>4. \A q \in Proc : Deleted(proc'[q]) => ~Selected(proc[q].id)'
    BY <1>2, <2>1, <2>2 DEF DeleteInv, Deleted
  <2>5. remote'[proc'[p].id].status = "revoked"
    BY <1>1, <2>1, <2>2 DEF DeleteInv
  <2>6. \A q \in Proc : proc'[q].pc = "commit" => recovery' = proc'[q].new
    BY <1>1, <2>2 DEF DeleteInv
  <2>7. ~InFlight(proc'[p])
    BY <2>2 DEF InFlight
  <2> QED
    BY <1>1, <2>2, <2>3, <2>4, <2>5, <2>6, <2>7, DeleteMoves
<1>5. CASE ~DeleteLooks(p)
  <2>1. /\ proc'[p].op = s.op /\ proc'[p].id = s.id /\ proc'[p].new = s.new
        /\ s.op = "delete" => proc'[p].ok = s.ok
    BY <1>5, QuietRecord
  <2>2. /\ proc'[p].pc \notin {"new", "commit"} /\ \A q \in Proc \ {p} : proc'[q] = proc[q]
        /\ s.op = "delete" /\ proc'[p].pc \in {"lock", "cleanup", "removeAll"} =>
             s.pc \in {"lock", "cleanup"}
        /\ InFlight(proc'[p]) => InFlight(s)
    <3>1. CASE proc'[p].pc \in Unchecked /\ \A q \in Proc \ {p} : proc'[q] = proc[q]
      BY <3>1 DEF Unchecked, InFlight
    <3>2. CASE \E step \in Steps :
                 /\ Goto(p, step) \/ Succeed(p, step)
                 /\ \/ s.pc = "lock" /\ step \in {"lock", "takeover", "cleanup"}
                    \/ s.pc = "guardToken" /\ step = "lock" /\ s.op = "refresh"
                    \/ s.pc = "validate" /\ step = "store"
                    \/ s.pc = "store" /\ step = "write"
                    \/ s.pc = "cleanup" /\ step = "removeAll"
                    \/ step \in {"rollback", "remoteMutate", "guardAgain", "remoteRefresh"}
      <4>1. PICK step \in Steps :
                 /\ Goto(p, step) \/ Succeed(p, step)
                 /\ \/ s.pc = "lock" /\ step \in {"lock", "takeover", "cleanup"}
                    \/ s.pc = "guardToken" /\ step = "lock" /\ s.op = "refresh"
                    \/ s.pc = "validate" /\ step = "store"
                    \/ s.pc = "store" /\ step = "write"
                    \/ s.pc = "cleanup" /\ step = "removeAll"
                    \/ step \in {"rollback", "remoteMutate", "guardAgain", "remoteRefresh"}
        BY <3>2
      <4>2. proc'[p].pc = step /\ \A q \in Proc \ {p} : proc'[q] = proc[q]
        BY <4>1, GotoDoes
      <4>3. step = "store" => s.op \notin Storing
        BY <1>3, <4>1 DEF CommandAt, Imports, Storing
      <4> QED
        BY <2>1, <4>1, <4>2, <4>3 DEF InFlight
    <3>3. s.pc # "takeover"
      BY DEF LockInv
    <3> QED
      BY <3>1, <3>2, <3>3, QuietGoes
  <2>3. Deleted(proc'[p]) <=> Deleted(s)
    BY <2>1 DEF Deleted
  <2>4. \A q \in Proc : Deleted(proc'[q]) => ~Selected(proc[q].id)'
    BY <1>2, <2>1, <2>2, <2>3 DEF DeleteInv
  <2>5. proc'[p].op = "delete" /\ (proc'[p].ok \/ proc'[p].pc \in {"lock", "cleanup", "removeAll"})
           => remote'[proc'[p].id].status = "revoked"
    BY <1>1, <2>1, <2>2 DEF DeleteInv
  <2>6. \A q \in Proc : proc'[q].pc = "commit" => recovery' = proc'[q].new
    BY <1>1, <2>2 DEF DeleteInv
  <2>7. /\ Deleted(proc'[p]) =>
             \A q \in Proc \ {p} : InFlight(proc[q]) => proc[q].new.id # proc'[p].id
        /\ InFlight(proc'[p]) =>
             \A q \in Proc \ {p} : Deleted(proc[q]) => proc'[p].new.id # proc[q].id
    BY <2>1, <2>2, <2>3 DEF DeleteInv
  <2> QED
    BY <1>1, <2>2, <2>4, <2>5, <2>6, <2>7, DeleteMoves
<1> QED
  BY <1>4, <1>5

(* The remote calls.                                                       *)
LEMMA DeleteRemote ==
  ASSUME IInv, IInv', LockInv, DeleteInv, NEW p \in Proc,
         RemoteGenerate(p) \/ Rollback(p) \/ RemoteMutate(p) \/ refreshRemote(p)
  PROVE  DeleteInv'
<1> DEFINE s == proc[p]
<1>1. /\ s \in ProcRecord /\ CommandAt(s) /\ HoldsTokens(s) /\ proc \in [Proc -> ProcRecord]
      /\ remote \in Remote
  BY DEF IInv, Sound, FileTypes
<1>2. UNCHANGED <<creds, recovery>>
  BY DEF RemoteGenerate, Rollback, RemoteMutate, refreshRemote, files
<1>4. \A q \in Proc \ {p} : proc'[q] = proc[q]
  BY StaysOutside DEF GenerateStep, MutateStep, RefreshStep
<1>5. \A q \in Proc \ {p} : Deleted(proc[q]) =>
        remote[proc[q].id].status = "revoked" /\ ~Selected(proc[q].id)'
  BY <1>2, <1>4 DEF DeleteInv, Deleted, Selected
<1>6. \A q \in Proc \ {p} : proc[q].pc = "commit" => recovery' = proc[q].new
  BY <1>2 DEF DeleteInv
<1>7. CASE RemoteMutate(p)
  <2>1. /\ s.pc = "remoteMutate" /\ s.id \in Id /\ s.op \in {"delete", "disable", "enable"}
    BY <1>1, <1>7 DEF RemoteMutate, At, HoldsTokens, CommandAt
  <2>2. \E step \in {"finish", "lock"} :
          /\ Goto(p, step) \/ (Succeed(p, step) /\ s.op # "delete")
          /\ \/ UNCHANGED remote /\ step = "finish"
             \/ /\ remote[s.id].status # "revoked"
                /\ remote' = [remote EXCEPT ![s.id].status = MutatedStatus(s.op)]
                /\ step = "lock" => s.op = "delete"
    BY <1>7 DEF RemoteMutate, Op, CleansUpLocked
  <2>3. PICK step \in {"finish", "lock"} :
          /\ Goto(p, step) \/ (Succeed(p, step) /\ s.op # "delete")
          /\ \/ UNCHANGED remote /\ step = "finish"
             \/ /\ remote[s.id].status # "revoked"
                /\ remote' = [remote EXCEPT ![s.id].status = MutatedStatus(s.op)]
                /\ step = "lock" => s.op = "delete"
    BY <2>2
  <2>4. proc'[p].pc = step /\ proc'[p].op = s.op /\ proc'[p].id = s.id
    BY <2>3, GotoDoes
  <2>5. s.op = "delete" => proc'[p].ok = s.ok
    BY <1>1, <2>3 DEF Goto, ProcRecord
  <2>6. \A t \in Plain : Revoked(t, remote) => Revoked(t, remote')
    BY <1>1, <2>1, <2>3 DEF Remote, Revoked, Plain
  <2>7. s.op = "delete" /\ step = "lock" => remote'[s.id].status = "revoked"
    BY <1>1, <2>1, <2>3 DEF Remote, MutatedStatus
  <2>8. s.op = "delete" /\ s.ok => remote'[s.id].status = "revoked" /\ ~Selected(proc[p].id)'
    <3>1. s.op = "delete" /\ s.ok => remote[s.id].status = "revoked" /\ ~Selected(s.id)
      BY DEF DeleteInv, Deleted
    <3> QED
      BY <1>1, <1>2, <2>1, <2>3, <2>4, <3>1 DEF Remote, Selected
  <2>9. \A q \in Proc : Deleted(proc'[q]) => ~Selected(proc[q].id)'
    BY <1>4, <1>5, <2>4, <2>5, <2>8 DEF Deleted
  <2>10. /\ proc'[p].pc # "new" /\ ~InFlight(proc'[p])
         /\ \A q \in Proc : proc'[q].pc = "commit" => recovery' = proc'[q].new
    BY <1>4, <1>6, <2>3, <2>4 DEF InFlight
  <2>11. Deleted(proc'[p]) => \A q \in Proc \ {p} : InFlight(proc[q]) => proc[q].new.id # proc'[p].id
    BY <2>4, <2>5 DEF DeleteInv, Deleted
  <2>12. proc'[p].op = "delete" /\ (proc'[p].ok \/ proc'[p].pc \in {"lock", "cleanup", "removeAll"})
           => remote'[proc'[p].id].status = "revoked"
    BY <2>3, <2>4, <2>5, <2>7, <2>8
  <2> QED
    BY <1>4, <2>6, <2>9, <2>10, <2>11, <2>12, DeleteMoves
<1>8. ASSUME proc'[p].op = s.op, s.op # "delete", proc'[p].pc \notin {"new", "commit"},
             \A t \in Plain : Revoked(t, remote) => Revoked(t, remote'),
             InFlight(proc'[p]) => /\ proc'[p].new.id \in Id
                                   /\ remote[proc'[p].new.id].status # "revoked"
      PROVE  DeleteInv'
  <2>1. ~Deleted(proc'[p]) /\ proc'[p].op # "delete"
    BY <1>8 DEF Deleted
  <2>2. InFlight(proc'[p]) => \A q \in Proc \ {p} : Deleted(proc[q]) => proc'[p].new.id # proc[q].id
    BY <1>5, <1>8
  <2>3. \A q \in Proc : Deleted(proc'[q]) => ~Selected(proc[q].id)'
    BY <1>4, <1>5, <2>1
  <2>4. \A q \in Proc : proc'[q].pc = "commit" => recovery' = proc'[q].new
    BY <1>4, <1>6, <1>8
  <2> QED
    BY <1>4, <1>8, <2>1, <2>2, <2>3, <2>4, DeleteMoves
<1>9. CASE RemoteGenerate(p)
  <2>1. s.pc = "remoteGenerate" /\ s.op # "delete"
    BY <1>1, <1>9 DEF RemoteGenerate, At, CommandAt, Storing
  <2>2. proc'[p].op = s.op
    BY <1>9, StaysOutside DEF GenerateStep
  <2>3. \/ Goto(p, Leave(p)) /\ UNCHANGED remote
        \/ \E i \in Id : /\ remote[i].status = "unissued"
                         /\ remote' = [remote EXCEPT ![i] = [status |-> "active", gen |-> 0]]
                         /\ \E t \in {[id |-> i, gen |-> 0]} :
                              \/ proc' = [proc EXCEPT ![p].pc = "store", ![p].new = t]
                              \/ proc' = [proc EXCEPT ![p].pc = "finish", ![p].new = t, ![p].out = t]
                              \/ Goto(p, Leave(p))
    BY <1>9 DEF RemoteGenerate, GenerateError
  <2>4. \A t \in Plain : Revoked(t, remote) => Revoked(t, remote')
    BY <1>1, <2>3 DEF Remote, Revoked, Plain
  <2>5. \/ proc'[p].pc = Leave(p)
        \/ \E i \in Id : /\ remote[i].status = "unissued"
                         /\ \/ proc'[p].pc = "store" /\ proc'[p].new.id = i
                            \/ proc'[p].pc = "finish"
    <3> HIDE DEF Leave
    <3>1. Goto(p, Leave(p)) => proc'[p].pc = Leave(p)
      BY <1>1 DEF Goto, ProcRecord
    <3>2. ASSUME NEW i \in Id, NEW t \in {[id |-> i, gen |-> 0]},
                 proc' = [proc EXCEPT ![p].pc = "store", ![p].new = t]
          PROVE  proc'[p].pc = "store" /\ proc'[p].new.id = i
      BY <1>1, <3>2 DEF ProcRecord
    <3>3. ASSUME NEW t, proc' = [proc EXCEPT ![p].pc = "finish", ![p].new = t, ![p].out = t]
          PROVE  proc'[p].pc = "finish"
      BY <1>1, <3>3 DEF ProcRecord
    <3> QED
      BY <2>3, <3>1, <3>2, <3>3
  <2>6. Leave(p) \in {"unlock", "finish"}
    BY DEF Leave
  <2>7. proc'[p].pc \notin {"new", "commit"}
    BY <2>5, <2>6
  <2>8. InFlight(proc'[p]) => /\ proc'[p].new.id \in Id
                              /\ remote[proc'[p].new.id].status # "revoked"
    BY <2>5, <2>6 DEF InFlight
  <2> QED
    BY <1>8, <2>1, <2>2, <2>4, <2>7, <2>8
<1>10. CASE Rollback(p)
  <2>1. s.pc = "rollback" /\ s.op # "delete" /\ s.new.id \in Id
    BY <1>1, <1>10 DEF Rollback, At, CommandAt, Storing, HoldsTokens, Plain
  <2>2. proc'[p].op = s.op /\ proc'[p].pc = "unlock"
    BY <1>1, <1>10 DEF Rollback, Goto, ProcRecord
  <2>3. \A t \in Plain : Revoked(t, remote) => Revoked(t, remote')
    BY <1>1, <1>10, <2>1 DEF Rollback, Revoke, Remote, Revoked, Plain
  <2>4. ~InFlight(proc'[p])
    BY <2>2 DEF InFlight
  <2> QED
    BY <1>8, <2>1, <2>2, <2>3, <2>4
<1>11. CASE refreshRemote(p)
  <2>1. s.pc = "remoteRefresh" /\ s.op # "delete" /\ s.token \in Plain /\ s.token.id \in Id
    BY <1>1, <1>11 DEF refreshRemote, At, CommandAt, HoldsTokens, Plain
  <2>2. proc'[p].op = s.op
    BY <1>11, StaysOutside DEF RefreshStep
  <2>3. \/ Goto(p, Leave(p)) /\ UNCHANGED remote
        \/ \E n \in {[id |-> s.token.id, gen |-> s.token.gen + 1]} :
             /\ Valid(s.token) /\ remote' = [remote EXCEPT ![s.token.id].gen = n.gen]
             /\ \/ proc' = [proc EXCEPT ![p].pc = "writeRecovery", ![p].new = n, ![p].out = n]
                \/ proc' = [proc EXCEPT ![p].pc = "finish", ![p].new = n, ![p].out = n]
                \/ Goto(p, Leave(p))
    BY <1>11 DEF refreshRemote
  <2>4. \A t \in Plain : Revoked(t, remote) => Revoked(t, remote')
    BY <1>1, <2>1, <2>3 DEF Remote, Revoked, Plain
  <2>5. \/ proc'[p].pc = Leave(p)
        \/ Valid(s.token) /\ proc'[p].pc \in {"writeRecovery", "finish"}
           /\ proc'[p].new.id = s.token.id
    <3> HIDE DEF Leave
    <3>1. Goto(p, Leave(p)) => proc'[p].pc = Leave(p)
      BY <1>1 DEF Goto, ProcRecord
    <3>2. ASSUME NEW n \in {[id |-> s.token.id, gen |-> s.token.gen + 1]},
                 NEW step \in {"writeRecovery", "finish"},
                 proc' = [proc EXCEPT ![p].pc = step, ![p].new = n, ![p].out = n]
          PROVE  proc'[p].pc = step /\ proc'[p].new.id = s.token.id
      BY <1>1, <3>2 DEF ProcRecord
    <3> QED
      BY <2>3, <3>1, <3>2
  <2>6. Leave(p) \in {"unlock", "finish"}
    BY DEF Leave
  <2>7. proc'[p].pc \notin {"new", "commit"}
    BY <2>5, <2>6
  <2>8. InFlight(proc'[p]) => /\ proc'[p].new.id \in Id
                              /\ remote[proc'[p].new.id].status # "revoked"
    BY <2>1, <2>5, <2>6 DEF InFlight, Valid
  <2> QED
    BY <1>8, <2>1, <2>2, <2>4, <2>7, <2>8
<1> QED
  BY <1>7, <1>9, <1>10, <1>11

(* The writes: store, delete, the recovery file and its commit.            *)
LEMMA DeleteWrites ==
  ASSUME IInv, IInv', LockInv, DeleteInv, NEW p \in Proc,
         \/ StoreWrites(p) \/ DeleteRemoves(p) \/ WriteRecoveryCredential(p)
         \/ CommitRecoveryCredential(p)
  PROVE  DeleteInv'
<1> DEFINE s == proc[p]
<1>1. /\ s \in ProcRecord /\ CommandAt(s) /\ proc \in [Proc -> ProcRecord]
  BY DEF IInv, Sound
<1>2. UNCHANGED remote
  BY DEF StoreWrites, DeleteRemoves, WriteRecoveryCredential, CommitRecoveryCredential
<1>3. \E step \in {"verify", "finish", "rollback", "unlock", "commit"} :
        /\ Goto(p, step) \/ (Succeed(p, step) /\ s.pc \in {"removeAll", "commit"})
        /\ s.pc \in {"write", "removeAll", "writeRecovery", "commit"}
        /\ step \in {"verify", "rollback"} => s.pc = "write"
        /\ step = "commit" => s.pc = "writeRecovery" /\ recovery' = s.new
  BY DEF StoreWrites, StoreFailed, DeleteRemoves, WriteRecoveryCredential, CommitRecoveryCredential, At
<1>4. PICK step \in {"verify", "finish", "rollback", "unlock", "commit"} :
        /\ Goto(p, step) \/ (Succeed(p, step) /\ s.pc \in {"removeAll", "commit"})
        /\ s.pc \in {"write", "removeAll", "writeRecovery", "commit"}
        /\ step \in {"verify", "rollback"} => s.pc = "write"
        /\ step = "commit" => s.pc = "writeRecovery" /\ recovery' = s.new
  BY <1>3
<1>5. /\ proc'[p].pc = step /\ proc'[p].op = s.op /\ proc'[p].id = s.id
      /\ proc'[p].new = s.new /\ \A q \in Proc \ {p} : proc'[q] = proc[q]
  BY <1>4, GotoDoes
<1>6. s.op = "delete" <=> s.pc = "removeAll"
  BY <1>1, <1>4 DEF CommandAt, Storing, Imports
<1>7. recovery' = recovery \/ Critical(p)
  BY DEF StoreWrites, DeleteRemoves, WriteRecoveryCredential, CommitRecoveryCredential, At, Critical
<1>8. \A q \in Proc : proc'[q].pc = "commit" => recovery' = proc'[q].new
  <2>1. ASSUME NEW q \in Proc \ {p}, proc[q].pc = "commit" PROVE recovery' = proc[q].new
    <3>1. Critical(q)
      BY <2>1 DEF Critical
    <3>2. ~Critical(p)
      BY <3>1, OneInside
    <3> QED
      BY <1>7, <2>1, <3>2 DEF DeleteInv
  <2> QED
    BY <1>4, <1>5, <2>1
<1>9. proc'[p].op = "delete" /\ (proc'[p].ok \/ proc'[p].pc \in {"lock", "cleanup", "removeAll"})
        => remote'[proc'[p].id].status = "revoked"
  <2>1. s.pc = "removeAll" /\ s.op = "delete" => remote[s.id].status = "revoked"
    BY DEF DeleteInv
  <2> QED
    BY <1>2, <1>5, <1>6, <2>1
<1>10. Deleted(proc'[p]) => \A q \in Proc \ {p} : ~InFlight(proc[q])
  <2> SUFFICES ASSUME Deleted(proc'[p]) PROVE \A q \in Proc \ {p} : ~InFlight(proc[q])
    OBVIOUS
  <2>1. Critical(p)
    BY <1>5, <1>6 DEF Deleted, Critical
  <2> QED
    BY <2>1, OneInside, InFlightInside
<1>11. InFlight(proc'[p]) => InFlight(s)
  BY <1>4, <1>5 DEF InFlight
<1>12. InFlight(proc'[p]) => \A q \in Proc \ {p} : Deleted(proc[q]) => proc'[p].new.id # proc[q].id
  BY <1>5, <1>11 DEF DeleteInv
<1>13. ASSUME NEW q \in Proc, Deleted(proc'[q]), Selected(proc[q].id)' PROVE FALSE
  <2>1. proc'[q].id = proc[q].id
    BY <1>5
  <2>2. CASE DeleteRemoves(p)
    <3>1. s.pc = "removeAll" /\ s.op = "delete"
      BY <1>6, <2>2 DEF DeleteRemoves, At
    <3>2. creds' = None \/ (creds' = creds /\ Goto(p, "unlock"))
      BY <2>2 DEF DeleteRemoves
    <3>3. CASE creds' = creds /\ Goto(p, "unlock")
      <4>1. proc'[p].ok = s.ok
        BY <1>1, <3>3 DEF Goto, ProcRecord
      <4>2. Deleted(proc[q])
        BY <1>5, <1>13, <4>1 DEF Deleted
      <4> QED
        BY <1>13, <2>1, <3>3, <4>2 DEF DeleteInv, Selected
    <3> QED
      BY <1>13, <3>2, <3>3 DEF Selected
  <2>3. CASE ~DeleteRemoves(p)
    <3>1. s.pc # "removeAll"
      BY <2>3 DEF StoreWrites, WriteRecoveryCredential, CommitRecoveryCredential, At
    <3>2. q # p /\ Deleted(proc[q])
      BY <1>5, <1>6, <1>13, <3>1 DEF Deleted
    <3>3. ~Selected(proc[q].id) /\ (InFlight(s) => s.new.id # proc[q].id)
      BY <3>2 DEF DeleteInv
    <3>4. CASE StoreWrites(p)
      <4>1. s.pc = "write" /\ creds' \in {creds, Record(p)}
        BY <3>4 DEF StoreWrites, At
      <4>2. Record(p).known => InFlight(s) /\ Record(p).plain = s.new
        BY <1>1, <4>1 DEF Record, Importing, Op, CommandAt, InFlight, Imports
      <4> QED
        BY <1>13, <2>1, <3>3, <4>1, <4>2 DEF Selected
    <3>5. CASE WriteRecoveryCredential(p)
      BY <1>13, <2>1, <3>3, <3>5 DEF WriteRecoveryCredential, Selected
    <3>6. CASE CommitRecoveryCredential(p)
      <4>1. /\ s.pc = "commit"
            /\ creds' = creds \/ creds' = [plain |-> recovery, known |-> TRUE]
        BY <3>6 DEF CommitRecoveryCredential, At
      <4>2. recovery = s.new /\ InFlight(s)
        BY <4>1 DEF DeleteInv, InFlight
      <4> QED
        BY <1>13, <2>1, <3>3, <4>1, <4>2 DEF Selected
    <3> QED
      BY <2>3, <3>4, <3>5, <3>6
  <2> QED
    BY <2>2, <2>3
<1>14. proc'[p].pc # "new" /\ \A t \in Plain : Revoked(t, remote) => Revoked(t, remote')
  BY <1>2, <1>4, <1>5
<1> QED
  BY <1>5, <1>8, <1>9, <1>10, <1>12, <1>13, <1>14, DeleteMoves

(* The other steps touch neither tokens nor credentials.                   *)
LEMMA DeleteOther ==
  ASSUME IInv, IInv', DeleteInv, NEW p \in Proc,
         \/ Begin(p) \/ CompanionMounts(p) \/ writeDrive9MountLocator(p) \/ UndoMount(p)
         \/ CompanionUnmounts(p) \/ RemoveLocator(p)
  PROVE  DeleteInv'
<1> DEFINE s == proc[p]
<1>1. s \in ProcRecord /\ CommandAt(s) /\ proc \in [Proc -> ProcRecord]
  BY DEF IInv, Sound
<1>2. UNCHANGED <<remote, creds, recovery>>
  BY DEF Begin, CompanionMounts, writeDrive9MountLocator, UndoMount, CompanionUnmounts,
     RemoveLocator, files
<1>3. ASSUME \A q \in Proc \ {p} : proc'[q] = proc[q], proc'[p].op # "delete" \/ ~proc'[p].ok,
             proc'[p].pc \notin {"new", "lock", "cleanup", "removeAll", "commit"}
               \/ (proc'[p].pc = "lock" /\ proc'[p].op # "delete"),
             ~InFlight(proc'[p])
      PROVE  DeleteInv'
  <2>1. ~Deleted(proc'[p])
    BY <1>3 DEF Deleted
  <2>2. \A q \in Proc : Deleted(proc'[q]) => ~Selected(proc[q].id)'
    BY <1>2, <1>3, <2>1 DEF DeleteInv, Selected
  <2>3. \A q \in Proc : proc'[q].pc = "commit" => recovery' = proc'[q].new
    BY <1>2, <1>3 DEF DeleteInv
  <2>4. proc'[p].pc # "new" /\ \A t \in Plain : Revoked(t, remote) => Revoked(t, remote')
    BY <1>2, <1>3
  <2>5. ~(proc'[p].op = "delete" /\ (proc'[p].ok \/ proc'[p].pc \in {"lock", "cleanup", "removeAll"}))
    BY <1>3
  <2> QED
    BY <1>3, <2>1, <2>2, <2>3, <2>4, <2>5, DeleteMoves
<1>4. CASE Begin(p)
  <2>1. PICK op \in Command : \E id, arg :
          proc' = [proc EXCEPT ![p].pc = FirstStep(op), ![p].op = op, ![p].id = id, ![p].arg = arg]
    BY <1>4, TokenMgmtAssumption DEF Begin
  <2>2. s.pc = "new" /\ ~s.ok
    BY <1>4 DEF Begin, At, DeleteInv
  <2>3. /\ proc'[p].pc = FirstStep(op) /\ proc'[p].op = op /\ ~proc'[p].ok
        /\ \A q \in Proc \ {p} : proc'[q] = proc[q]
    BY <1>1, <2>1, <2>2 DEF ProcRecord
  <2>4. /\ FirstStep(op) \in {"remoteGenerate", "lock", "resolve", "guardId", "remoteMutate",
                              "validate", "resolveMount", "readLocator"}
        /\ FirstStep(op) = "lock" => op # "delete"
    BY DEF FirstStep, Command, Storing
  <2>5. ~InFlight(proc'[p])
    BY <2>3, <2>4 DEF InFlight
  <2> QED
    BY <1>3, <2>3, <2>4, <2>5
<1>5. CASE \/ CompanionMounts(p) \/ writeDrive9MountLocator(p) \/ UndoMount(p)
           \/ CompanionUnmounts(p) \/ RemoveLocator(p)
  <2>1. s.op # "delete"
    BY <1>1, <1>5 DEF CompanionMounts, writeDrive9MountLocator, UndoMount, CompanionUnmounts,
       RemoveLocator, At, CommandAt
  <2>2. \E step \in {"writeLocator", "finish", "waitReady", "undoMount", "removeLocator"} :
          Goto(p, step) \/ Succeed(p, step)
    BY <1>5 DEF CompanionMounts, writeDrive9MountLocator, UndoMount, CompanionUnmounts, RemoveLocator
  <2>3. /\ proc'[p].pc \in {"writeLocator", "finish", "waitReady", "undoMount", "removeLocator"}
        /\ proc'[p].op = s.op /\ \A q \in Proc \ {p} : proc'[q] = proc[q]
    BY <2>2, GotoDoes
  <2>4. ~InFlight(proc'[p])
    BY <2>3 DEF InFlight
  <2> QED
    BY <1>3, <2>1, <2>3, <2>4
<1> QED
  BY <1>4, <1>5

(* At the start nothing is deleted.                                        *)
LEMMA DeleteInit == Init => DeleteInv
<1> SUFFICES ASSUME Init PROVE DeleteInv
  OBVIOUS
<1>1. \A p \in Proc : proc[p].pc = "new" /\ ~proc[p].ok
  BY DEF Init
<1> QED
  BY <1>1 DEF DeleteInv, Deleted, InFlight

(* Every step keeps deleted tokens out.                                    *)
LEMMA DeleteNext ==
  ASSUME MaxCrashes = 0, IInv, IInv', LockInv, DeleteInv, [Next]_vars
  PROVE  DeleteInv'
<1>1. \A p \in Proc : ~Crash(p)
  BY DEF Crash, LockInv
<1>2. CASE LockAges \/ MountDies \/ UNCHANGED vars
  <2>1. UNCHANGED <<remote, creds, recovery, proc>>
    BY <1>2 DEF LockAges, MountDies, vars, files, mounts
  <2> QED
    BY <2>1 DEF DeleteInv, Selected
<1> QED
  BY <1>1, <1>2, StepKinds, DeleteQuiet, DeleteRemote, DeleteWrites, DeleteOther DEF Next

(* When no command is killed, a token that delete-file-system-token        *)
(* reported deleted is not selected again by a generate or a refresh that  *)
(* was in flight (WithCredentialLock, DeleteCredentialIfTokenID).          *)
THEOREM DeletedStaysOut == ASSUME MaxCrashes = 0 PROVE Spec => []DeletedNotSelected
<1>1. DeleteInv => DeletedNotSelected
  BY DEF DeleteInv, DeletedNotSelected, Deleted, Selected, Op, At
<1>2. Spec => []DeleteInv
  BY DeleteInit, DeleteNext, Invariance, LockInvariance, PTL DEF Spec
<1> QED
  BY <1>1, <1>2, PTL

(* A refresh that has checked is in the locked section.                    *)
LEMMA RecheckedInside == ASSUME NEW q \in Proc, Rechecked(proc[q]) PROVE Critical(q)
BY DEF Rechecked, Critical, Op

(* Without imports every writer of the credentials holds the lock.         *)
LEMMA CheckedNext ==
  ASSUME MaxCrashes = 0, Commands \cap {"import", "importReplace"} = {},
         IInv, LockInv, CheckedInv, [Next]_vars
  PROVE  CheckedInv'
<1>1. proc \in [Proc -> ProcRecord]
  BY DEF IInv
<1>2. ASSUME NEW p \in Proc, \A q \in Proc \ {p} : proc'[q] = proc[q],
             proc'[p].op \in Commands \cup {None}, creds' = creds \/ Critical(p),
             Rechecked(proc'[p]) => creds' # None /\ creds'.plain = proc'[p].token
      PROVE  CheckedInv'
  <2>1. ASSUME NEW q \in Proc \ {p}, Rechecked(proc[q])
        PROVE  creds' # None /\ creds'.plain = proc[q].token
    <3>1. ~Critical(p)
      BY <2>1, RecheckedInside, OneInside
    <3> QED
      BY <1>2, <2>1, <3>1 DEF CheckedInv
  <2> QED
    BY <1>2, <2>1 DEF CheckedInv
<1>3. ASSUME NEW p \in Proc, Begin(p) PROVE CheckedInv'
  <2>1. PICK op \in Commands : \E id, arg :
          proc' = [proc EXCEPT ![p].pc = FirstStep(op), ![p].op = op, ![p].id = id, ![p].arg = arg]
    BY <1>3 DEF Begin
  <2>2. /\ proc'[p].pc = FirstStep(op) /\ proc'[p].op = op
        /\ \A q \in Proc \ {p} : proc'[q] = proc[q]
    BY <1>1, <2>1 DEF ProcRecord
  <2>3. FirstStep(op) \in {"remoteGenerate", "lock", "resolve", "guardId", "remoteMutate",
                           "validate", "resolveMount", "readLocator"}
    BY TokenMgmtAssumption DEF FirstStep, Command, Storing
  <2>4. ~Rechecked(proc'[p]) /\ creds' = creds
    BY <1>3, <2>2, <2>3 DEF Rechecked, Begin, files
  <2> QED
    BY <1>2, <2>2, <2>4
<1>4. ASSUME NEW p \in Proc, Step(p) \/ LockCancelled(p)
      PROVE  /\ \A q \in Proc \ {p} : proc'[q] = proc[q]
             /\ proc'[p].op \in Commands \cup {None}
  <2>1. CASE LockStep(p)
    <3>1. \E step \in Steps : Goto(p, step)
      BY <2>1 DEF LockStep, AcquireLock, EnterStep, SeeStaleLock, RemoveStaleLock, ReleaseLock, Steps
    <3> QED
      BY <3>1, GotoDoes DEF CheckedInv
  <2>2. CASE ~LockStep(p)
    BY <1>4, <2>2, StaysOutside DEF Step, CheckedInv
  <2> QED
    BY <2>1, <2>2
<1>5. ASSUME NEW p \in Proc, QuietStep(p) PROVE CheckedInv'
  <2>1. Step(p) \/ LockCancelled(p)
    BY <1>5 DEF QuietStep, Step, GenerateStep, StoreStep, MutateStep, RefreshStep, MountStep
  <2>2. UNCHANGED creds
    BY <1>5 DEF QuietStep, LockStep, AcquireLock, SeeStaleLock, RemoveStaleLock, ReleaseLock,
       LockCancelled, GeneratePreflight, ImportValidates, StoreLooks, StoreVerifies,
       guardTokenIDMount, DeleteLooks, resolveRefresh, guardTokenFingerprintMount, RefreshRechecks,
       ResolveCredential, waitForMountReady, drive9MountLocatorProfile, Finish, files
  <2>3. Rechecked(proc'[p]) => creds # None /\ creds.plain = proc'[p].token
    <3>1. CASE proc'[p].pc \in Unchecked
      BY <3>1 DEF Unchecked, Rechecked
    <3>2. CASE \E step \in Steps :
                 /\ Goto(p, step) \/ Succeed(p, step)
                 /\ \/ step \notin {"guardAgain", "remoteRefresh", "writeRecovery", "commit"}
                    \/ step = "guardAgain" /\ creds # None /\ creds.plain = proc[p].token
                    \/ step = "remoteRefresh" /\ proc[p].pc = "guardAgain"
                    \/ step = "remoteRefresh" /\ proc[p].op # "refresh"
      <4>1. PICK step \in Steps :
                 /\ Goto(p, step) \/ Succeed(p, step)
                 /\ \/ step \notin {"guardAgain", "remoteRefresh", "writeRecovery", "commit"}
                    \/ step = "guardAgain" /\ creds # None /\ creds.plain = proc[p].token
                    \/ step = "remoteRefresh" /\ proc[p].pc = "guardAgain"
                    \/ step = "remoteRefresh" /\ proc[p].op # "refresh"
        BY <3>2
      <4>2. proc'[p].pc = step /\ proc'[p].op = proc[p].op /\ proc'[p].token = proc[p].token
        BY <4>1, GotoDoes
      <4> QED
        BY <4>1, <4>2 DEF Rechecked, CheckedInv
    <3> QED
      BY <1>5, <3>1, <3>2, QuietGoes
  <2> QED
    BY <1>2, <1>4, <2>1, <2>2, <2>3
<1>6. ASSUME NEW p \in Proc, Step(p), CommandAt(proc[p]), proc[p] \in ProcRecord,
             RemoteGenerate(p) \/ Rollback(p) \/ RemoteMutate(p)
      PROVE  CheckedInv'
  <2>1. Leave(p) \in {"unlock", "finish"} /\ UNCHANGED creds
    BY <1>6 DEF Leave, RemoteGenerate, Rollback, RemoteMutate, files
  <2>2. proc'[p].pc \in {"store", "finish", "unlock", "lock"}
    <3> HIDE DEF Leave
    <3>1. ASSUME NEW step, Goto(p, step) \/ Succeed(p, step) PROVE proc'[p].pc = step
      BY <1>1, <3>1 DEF Goto, Succeed, ProcRecord
    <3>2. ASSUME NEW t, proc' = [proc EXCEPT ![p].pc = "store", ![p].new = t]
          PROVE  proc'[p].pc = "store"
      BY <1>1, <3>2 DEF ProcRecord
    <3>3. ASSUME NEW t, proc' = [proc EXCEPT ![p].pc = "finish", ![p].new = t, ![p].out = t]
          PROVE  proc'[p].pc = "finish"
      BY <1>1, <3>3 DEF ProcRecord
    <3>4. CASE RemoteGenerate(p)
      <4>1. \/ Goto(p, Leave(p))
            \/ \E t : \/ proc' = [proc EXCEPT ![p].pc = "store", ![p].new = t]
                     \/ proc' = [proc EXCEPT ![p].pc = "finish", ![p].new = t, ![p].out = t]
        BY <3>4 DEF RemoteGenerate, GenerateError
      <4> QED
        BY <2>1, <3>1, <3>2, <3>3, <4>1
    <3>5. CASE Rollback(p)
      BY <1>1, <3>5 DEF Rollback, Goto, ProcRecord
    <3>6. CASE RemoteMutate(p)
      BY <3>1, <3>6 DEF RemoteMutate, CleansUpLocked
    <3> QED
      BY <1>6, <3>4, <3>5, <3>6
  <2>3. ~Rechecked(proc'[p])
    BY <2>2 DEF Rechecked
  <2> QED
    BY <1>2, <1>4, <1>6, <2>1, <2>3
<1>7. ASSUME NEW p \in Proc, refreshRemote(p) PROVE CheckedInv'
  <2>1. Leave(p) \in {"unlock", "finish"} /\ UNCHANGED creds /\ proc[p].pc = "remoteRefresh"
    BY <1>7 DEF Leave, refreshRemote, files, At
  <2>2. \/ proc'[p].pc \in {"unlock", "finish"}
        \/ proc'[p].pc = "writeRecovery" /\ proc[p].op = "refresh" /\ proc'[p].token = proc[p].token
    BY <1>1, <1>7, <2>1 DEF refreshRemote, Goto, ProcRecord, Op
  <2>3. Rechecked(proc'[p]) => creds # None /\ creds.plain = proc'[p].token
    BY <2>1, <2>2 DEF Rechecked, CheckedInv
  <2>4. Step(p)
    BY <1>7 DEF Step, RefreshStep
  <2> QED
    BY <1>2, <1>4, <2>1, <2>3, <2>4
<1>8. ASSUME NEW p \in Proc,
             \/ StoreWrites(p) \/ DeleteRemoves(p) \/ WriteRecoveryCredential(p)
             \/ CommitRecoveryCredential(p)
      PROVE  CheckedInv'
  <2>1. \E step \in {"verify", "finish", "rollback", "unlock", "commit"} :
          /\ Goto(p, step) \/ Succeed(p, step)
          /\ step = "commit" => proc[p].pc = "writeRecovery" /\ UNCHANGED creds
    BY <1>8 DEF StoreWrites, StoreFailed, DeleteRemoves, WriteRecoveryCredential,
       CommitRecoveryCredential, At
  <2>2. PICK step \in {"verify", "finish", "rollback", "unlock", "commit"} :
          /\ Goto(p, step) \/ Succeed(p, step)
          /\ step = "commit" => proc[p].pc = "writeRecovery" /\ UNCHANGED creds
    BY <2>1
  <2>3. proc'[p].pc = step /\ proc'[p].token = proc[p].token
    BY <2>2, GotoDoes
  <2>4. Rechecked(proc'[p]) => creds' # None /\ creds'.plain = proc'[p].token
    BY <2>2, <2>3 DEF Rechecked, CheckedInv
  <2>5. Critical(p)
    <3>1. CommandAt(proc[p]) /\ proc[p].op \notin Imports
      BY TokenMgmtAssumption DEF IInv, Sound, CheckedInv, Imports, Command
    <3> QED
      BY <1>8, <3>1 DEF StoreWrites, DeleteRemoves, WriteRecoveryCredential,
         CommitRecoveryCredential, At, Critical, Op, CommandAt
  <2>6. Step(p)
    BY <1>8 DEF Step, StoreStep, MutateStep, RefreshStep
  <2> QED
    BY <1>2, <1>4, <2>4, <2>5, <2>6
<1>9. ASSUME NEW p \in Proc,
             \/ CompanionMounts(p) \/ writeDrive9MountLocator(p) \/ UndoMount(p)
             \/ CompanionUnmounts(p) \/ RemoveLocator(p)
      PROVE  CheckedInv'
  <2>1. \E step \in {"writeLocator", "finish", "waitReady", "undoMount", "removeLocator"} :
          Goto(p, step) \/ Succeed(p, step)
    BY <1>9 DEF CompanionMounts, writeDrive9MountLocator, UndoMount, CompanionUnmounts, RemoveLocator
  <2>2. ~Rechecked(proc'[p]) /\ UNCHANGED creds
    BY <1>9, <2>1, GotoDoes
    DEF Rechecked, CompanionMounts, writeDrive9MountLocator, UndoMount, CompanionUnmounts,
        RemoveLocator, files
  <2>3. Step(p)
    BY <1>9 DEF Step, MountStep
  <2> QED
    BY <1>2, <1>4, <2>2, <2>3
<1>10. CASE LockAges \/ MountDies \/ UNCHANGED vars
  BY <1>10 DEF LockAges, MountDies, vars, files, mounts, CheckedInv
<1>11. \A p \in Proc : ~Crash(p) /\ CommandAt(proc[p]) /\ proc[p] \in ProcRecord
  BY DEF Crash, LockInv, IInv, Sound
<1>12. \A p \in Proc : RemoteGenerate(p) \/ Rollback(p) \/ RemoteMutate(p) => Step(p)
  BY DEF Step, GenerateStep, MutateStep
<1> QED
  BY <1>3, <1>5, <1>6, <1>7, <1>8, <1>9, <1>10, <1>11, <1>12, StepKinds DEF Next

(* When no command is killed and none imports a token, the recovery file   *)
(* is renamed over the very credential that refresh checked                *)
(* (WithCredentialLock, CommitRecoveryCredential).                         *)
THEOREM ReplacesWhatItChecked ==
  ASSUME MaxCrashes = 0, Commands \cap {"import", "importReplace"} = {}
  PROVE  Spec => []CommitReplacesChecked
<1>1. CheckedInv => CommitReplacesChecked
  BY DEF CheckedInv, CommitReplacesChecked, Rechecked, At
<1>2. Init => CheckedInv
  BY DEF Init, CheckedInv, Rechecked
<1>3. Spec => []CheckedInv
  BY <1>2, CheckedNext, Invariance, LockInvariance, PTL DEF Spec
<1> QED
  BY <1>1, <1>3, PTL
=============================================================================
