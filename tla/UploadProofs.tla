---------------------------- MODULE UploadProofs ----------------------------
(***************************************************************************)
(* Proofs about the multipart upload, for every plan and every number of   *)
(* workers.  That a committed upload is whole rests on two arguments: the  *)
(* plan reaches the pool part by part, so the parts without a goroutine    *)
(* are exactly those still presigned, on their way or not yet asked for;   *)
(* and whoever gives up on a part leaves evidence - an error in one of the *)
(* two channels of capacity one, or the user's cancellation - that is      *)
(* still there when the pool looks for the last time.                      *)
(***************************************************************************)
EXTENDS Upload, TLAPS, FiniteSetTheorems, SequenceTheorems

(* The pool's loop over presigned parts, and the whole of its work.        *)
Checking == {"checkPresign", "checkErr", "acquire"}
Feeding == {"range", "wait"} \cup Checking
Outside == {"initiate", "complete", "abort", "return", "fallback", "end"}

(* The first part number that no presigned batch has covered, and the next *)
(* one main will receive.                                                  *)
Limit == IF mode = "v2" /\ nextBatch <= totalParts THEN nextBatch ELSE totalParts + 1
NextPart == Limit - Len(outbox) - Len(presignCh)

(* The parts reach main in order, without a gap, and each gets a goroutine.*)
PlanInOrder ==
  /\ \A i \in 1 .. Len(presignCh) : presignCh[i] = NextPart + i - 1
  /\ \A i \in 1 .. Len(outbox) : outbox[i] = NextPart + Len(presignCh) + i - 1
  /\ NextPart >= 1
  /\ presigner = "request" => outbox = <<>>
  /\ main \in Checking => part = NextPart - 1 /\ part >= 1
  /\ \A p \in 1 .. totalParts :
       (worker[p] # "none") <=> p < (IF main \in Checking THEN part ELSE NextPart)

PlanInv ==
  /\ \A p \in Part : worker[p] # "none" => p \in 1 .. totalParts
  /\ main \in Feeding => PlanInOrder
  /\ main \in Feeding => presigner # "idle"
  /\ presigner \in {"request", "send"} => mode = "v2"
  /\ main = "wait" => presignCh = <<>> /\ presigner = "closed"

(* A pool buffer is free or in the hands of one goroutine; a patch does    *)
(* without the buffers.                                                    *)
BufferInv ==
  IF mode = "patch"
    THEN buffers = Parallelism /\ \A p \in Part : worker[p] \notin {"getBuffer", "putBuffer"}
    ELSE buffers + Cardinality(Holders) = Parallelism

(* A part that was given up, a pool that was cancelled, a presigner that   *)
(* stopped early: each is explained by an error nobody has taken yet, or   *)
(* by the user.                                                            *)
Explained == errCh # NoError \/ ctx.user
EvidenceInv ==
  /\ ctx.main => main \in {"fallback", "end"}
  /\ main = "initiate" => ~ctx.pool
  /\ main = "failWait" => outcome # "nil"
  /\ results \subseteq uploaded
  /\ \A p \in Part : p \in results => worker[p] \in {"putBuffer", "release", "gone"}
  /\ main \in Feeding =>
       /\ ctx.pool => Explained
       /\ \A p \in Part : worker[p] \in {"cancel", "putBuffer", "release", "gone"} =>
            p \in results \/ Explained
       /\ presigner = "closed" =>
            \/ Limit = totalParts + 1 /\ outbox = <<>>
            \/ presignErr # NoError \/ ctx.user

(* What the server's sessions can be while this command runs.              *)
SessionInv ==
  /\ session["resume"] # "aborted"
  /\ mode \in {"v2", "resume", "patch"} => session["v1"] = "none"
  /\ mode \in {"resume", "patch"} => session["v2"] = "none"
  /\ mode = "v1" => session["v2"] # "committed"
  /\ main \notin {"abort", "return", "fallback", "end"} => session[mode] # "committed"
  /\ mode = "v2" /\ outcome = "gap" => session["v2"] # "committed"
  /\ main = "complete" => outcome = "nil"
  /\ main = "fallback" => mode = "v2" /\ outcome = "gap"

(* No goroutine of the pool runs outside it.                               *)
NoneOutside == main \in Outside => Running = {}

IInv ==
  /\ TypeOK /\ PlanInv /\ BufferInv /\ EvidenceInv /\ SessionInv
  /\ NoneOutside /\ NoErrorSwallowed /\ CommittedIsWhole
-----------------------------------------------------------------------------
State == {"none", "getBuffer", "read", "put", "putAgain", "presignOne", "fail", "failGap",
          "cancel", "putBuffer", "release", "gone"}

(* What any step of a part's goroutine leaves alone, and where it may go.  *)
LEMMA WorkerFrame ==
  ASSUME NEW p \in Part, TypeOK, WorkerStep(p)
  PROVE  /\ UNCHANGED <<mode, totalParts, session, main, part, presignVars, outcome>>
         /\ worker[p] \notin {"none", "gone"} /\ worker'[p] # "none"
         /\ worker' \in [Part -> State]
         /\ \A q \in Part \ {p} : worker'[q] = worker[q]
         /\ ctx'.user = ctx.user /\ ctx'.main = ctx.main
         /\ ctx' \in [user : BOOLEAN, main : BOOLEAN, pool : BOOLEAN]
<1> USE DEF State, Goto, TypeOK
<1>1. CASE WorkerGetBuffer(p)
  BY <1>1 DEF WorkerGetBuffer
<1>2. CASE WorkerRead(p)
  BY <1>2 DEF WorkerRead
<1>3. CASE WorkerPut(p)
  BY <1>3 DEF WorkerPut, Leaving
<1>4. CASE PresignOnePart(p)
  BY <1>4 DEF PresignOnePart
<1>5. CASE WorkerSendsError(p)
  BY <1>5 DEF WorkerSendsError
<1>6. CASE WorkerCancels(p)
  BY <1>6 DEF WorkerCancels, Leaving
<1>7. CASE WorkerPutsBuffer(p)
  BY <1>7 DEF WorkerPutsBuffer
<1>8. CASE WorkerReleases(p)
  BY <1>8 DEF WorkerReleases
<1> QED
  BY <1>1, <1>2, <1>3, <1>4, <1>5, <1>6, <1>7, <1>8 DEF WorkerStep

(* The server's sessions, whatever the interleaving.                       *)
LEMMA SessionNext ==
  ASSUME TypeOK, SessionInv, [Next]_vars
  PROVE  SessionInv'
<1> USE DEF SessionInv, TypeOK, Error
<1>1. CASE Initiate
  BY <1>1 DEF Initiate
<1>2. CASE MainReceive
  BY <1>2 DEF MainReceive
<1>3. CASE MainCheckPresign
  BY <1>3 DEF MainCheckPresign, poolVars
<1>4. CASE MainCheckErr
  BY <1>4 DEF MainCheckErr
<1>5. CASE MainAcquire
  BY <1>5 DEF MainAcquire
<1>6. CASE PoolReturns
  BY <1>6 DEF PoolReturns
<1>7. CASE Complete
  BY <1>7 DEF Complete
<1>8. CASE Abort
  BY <1>8 DEF Abort, AbortsOnFailure
<1>9. CASE Return
  BY <1>9 DEF Return, isV2NotAvailable
<1>10. CASE Fallback
  BY <1>10 DEF Fallback
<1>11. CASE UNCHANGED <<mode, session, main, outcome>>
  BY <1>11
<1> QED
  BY <1>1, <1>2, <1>3, <1>4, <1>5, <1>6, <1>7, <1>8, <1>9, <1>10, <1>11, WorkerFrame
     DEF Next, MainStep, PresignStep, PresignRequest, PresignSend, Interrupt, Finished, vars

(* Every step of the loop, of the presigner and of the goroutines keeps it. *)
LEMMA OutsideNext ==
  ASSUME TypeOK, NoneOutside, [Next]_vars
  PROVE  NoneOutside'
<1> USE DEF NoneOutside, Outside, Running
<1>1. CASE Initiate
  BY <1>1 DEF Initiate, poolVars
<1>2. CASE MainReceive \/ MainCheckPresign \/ MainCheckErr \/ MainAcquire
  BY <1>2 DEF MainReceive, MainCheckPresign, MainCheckErr, MainAcquire
<1>3. CASE PoolReturns \/ Complete \/ Abort \/ Return \/ Fallback
  BY <1>3 DEF PoolReturns, WorkersDone, Complete, Abort, Return, Fallback, poolVars
<1>4. ASSUME NEW p \in Part, WorkerStep(p) PROVE NoneOutside'
  BY <1>4, WorkerFrame
<1>5. CASE UNCHANGED <<main, worker>>
  BY <1>5
<1> QED
  BY <1>1, <1>2, <1>3, <1>4, <1>5
     DEF Next, MainStep, PresignStep, PresignRequest, PresignSend, Interrupt, Finished,
         vars, poolVars
-----------------------------------------------------------------------------
(* The parts of the file are among those of some plan.                     *)
LEMMA PartBounds == totalParts \in PartCounts => totalParts \in Nat /\ 1 .. totalParts \subseteq Part
BY UploadAssumption DEF Part

(* There are finitely many buffers in use.                                 *)
LEMMA HoldersFinite ==
  ASSUME TypeOK
  PROVE  IsFiniteSet(Holders) /\ Cardinality(Holders) \in Nat
<1>1. totalParts \in Nat
  BY PartBounds DEF TypeOK
<1>2. IsFiniteSet(1 .. totalParts)
  BY <1>1, FS_Interval
<1> QED
  BY <1>2, FS_Subset, FS_CardinalityType DEF Holders

(* A goroutine that takes or gives back a buffer, and the others as before.*)
LEMMA HoldersChange ==
  ASSUME TypeOK, UNCHANGED totalParts, NEW p \in 1 .. totalParts,
         \A q \in (1 .. totalParts) \ {p} : worker'[q] = worker[q]
  PROVE  /\ IsFiniteSet(Holders) /\ Cardinality(Holders) \in Nat
         /\ Cardinality(Holders') \in Nat
         /\ worker'[p] \in Holding /\ worker[p] \notin Holding =>
              Cardinality(Holders') = Cardinality(Holders) + 1
         /\ worker'[p] \notin Holding /\ worker[p] \in Holding =>
              Cardinality(Holders') = Cardinality(Holders) - 1
         /\ (worker'[p] \in Holding <=> worker[p] \in Holding) => Holders' = Holders
<1>0. IsFiniteSet(Holders) /\ Cardinality(Holders) \in Nat
  BY HoldersFinite
<1>1. CASE worker'[p] \in Holding /\ worker[p] \notin Holding
  <2>1. Holders' = Holders \cup {p} /\ p \notin Holders
    BY <1>1 DEF Holders
  <2>2. Cardinality(Holders \cup {p}) = Cardinality(Holders) + 1
    BY <1>0, <2>1, FS_AddElement
  <2> QED
    BY <1>0, <1>1, <2>1, <2>2
<1>2. CASE worker'[p] \notin Holding /\ worker[p] \in Holding
  <2>1. Holders' = Holders \ {p} /\ p \in Holders
    BY <1>2 DEF Holders
  <2>2. Cardinality(Holders \ {p}) \in Nat
    BY <1>0, FS_RemoveElement, FS_CardinalityType
  <2> QED
    BY <1>0, <1>2, <2>1, <2>2, FS_RemoveElement
<1>3. CASE worker'[p] \in Holding <=> worker[p] \in Holding
  <2>1. Holders' = Holders
    BY <1>3 DEF Holders
  <2> QED
    BY <1>0, <1>3, <2>1
<1> QED
  BY <1>0, <1>1, <1>2, <1>3

(* The buffers in the pool and those in use always make up the whole.      *)
LEMMA BufferNext ==
  ASSUME TypeOK, PlanInv, BufferInv, SessionInv, [Next]_vars
  PROVE  BufferInv'
<1>0. totalParts \in Nat /\ 1 .. totalParts \subseteq Part
  BY PartBounds DEF TypeOK
<1>1. CASE Initiate
  <2>1. CASE FreshPool(mode)
    <3>1. Holders' = {}
      BY <1>0, <1>1, <2>1 DEF Initiate, FreshPool, Holders, Holding
    <3>2. buffers' = Parallelism /\ \A p \in Part : worker'[p] = "none"
      BY <2>1 DEF FreshPool
    <3> QED
      BY <1>1, <3>1, <3>2, FS_EmptySet, UploadAssumption DEF Initiate, BufferInv
  <2>2. CASE UNCHANGED poolVars
    BY <1>1, <2>2 DEF Initiate, poolVars, BufferInv, Holders
  <2> QED
    BY <1>1, <2>1, <2>2 DEF Initiate
<1>2. CASE MainAcquire
  <2>1. CASE UNCHANGED worker
    BY <1>2, <2>1 DEF MainAcquire, BufferInv, Holders
  <2>2. CASE worker' = [worker EXCEPT ![part] = IF mode = "patch" THEN "read" ELSE "getBuffer"]
    <3>1. part \in 1 .. totalParts /\ worker[part] = "none" /\ part \in Part
      BY <1>0, <1>2 DEF MainAcquire, TypeOK, PlanInv, PlanInOrder, Feeding, Checking
    <3>2. CASE mode = "patch"
      BY <1>2, <2>2, <3>1, <3>2 DEF MainAcquire, BufferInv, TypeOK
    <3>3. CASE mode # "patch"
      <4>1. Holders' = Holders
        BY <1>2, <2>2, <3>1, <3>3 DEF MainAcquire, Holders, Holding, TypeOK
      <4> QED
        BY <1>2, <3>3, <4>1 DEF MainAcquire, BufferInv
    <3> QED
      BY <3>2, <3>3
  <2> QED
    BY <1>2, <2>1, <2>2 DEF MainAcquire
<1>3. CASE Fallback
  BY <1>3 DEF Fallback, poolVars, BufferInv, Holders, SessionInv
<1>4. ASSUME NEW p \in Part, WorkerStep(p) PROVE BufferInv'
  <2>1. /\ p \in 1 .. totalParts /\ UNCHANGED <<mode, totalParts>>
        /\ worker' \in [Part -> State]
        /\ \A q \in Part \ {p} : worker'[q] = worker[q]
    BY <1>4, WorkerFrame DEF PlanInv
  <2>2. /\ Cardinality(Holders) \in Nat /\ Cardinality(Holders') \in Nat
        /\ worker'[p] \in Holding /\ worker[p] \notin Holding =>
             Cardinality(Holders') = Cardinality(Holders) + 1
        /\ worker'[p] \notin Holding /\ worker[p] \in Holding =>
             Cardinality(Holders') = Cardinality(Holders) - 1
        /\ (worker'[p] \in Holding <=> worker[p] \in Holding) =>
             Cardinality(Holders') = Cardinality(Holders)
    BY <1>0, <2>1, HoldersChange
  <2>3. CASE WorkerGetBuffer(p)
    BY <2>1, <2>2, <2>3, UploadAssumption
       DEF WorkerGetBuffer, Goto, BufferInv, TypeOK, Holding
  <2>4. CASE WorkerPutsBuffer(p)
    BY <2>1, <2>2, <2>4, UploadAssumption
       DEF WorkerPutsBuffer, Goto, BufferInv, TypeOK, Holding
  <2>5. CASE WorkerRead(p) \/ WorkerPut(p) \/ PresignOnePart(p) \/ WorkerSendsError(p)
               \/ WorkerCancels(p) \/ WorkerReleases(p)
    <3>1. /\ UNCHANGED buffers
          /\ mode # "patch" => (worker'[p] \in Holding <=> worker[p] \in Holding)
          /\ mode = "patch" => worker'[p] \notin {"getBuffer", "putBuffer"}
      BY <2>5 DEF WorkerRead, WorkerPut, PresignOnePart, WorkerSendsError, WorkerCancels,
         WorkerReleases, Goto, Leaving, TypeOK, Holding
    <3> QED
      BY <2>1, <2>2, <3>1 DEF BufferInv
  <2> QED
    BY <1>4, <2>3, <2>4, <2>5 DEF WorkerStep
<1>5. CASE UNCHANGED <<mode, totalParts, buffers, worker>>
  BY <1>5 DEF BufferInv, Holders
<1> QED
  BY <1>1, <1>2, <1>3, <1>4, <1>5
     DEF Next, MainStep, MainReceive, MainCheckPresign, MainCheckErr, PoolReturns, Complete,
         Abort, Return, PresignStep, PresignRequest, PresignSend, Interrupt, Finished,
         vars, poolVars
-----------------------------------------------------------------------------
(* The presigner and main hand the plan on part by part.                   *)
LEMMA PlanNext ==
  ASSUME TypeOK, PlanInv, NoneOutside, [Next]_vars
  PROVE  PlanInv'
<1>0. totalParts \in Nat /\ totalParts >= 1 /\ Parallelism \in Nat /\ Parallelism >= 1
      /\ 1 .. totalParts \subseteq Part /\ nextBatch \in Nat /\ nextBatch >= 1
      /\ outbox \in Seq(1 .. totalParts) /\ presignCh \in Seq(1 .. totalParts)
      /\ worker \in [Part -> State]
  BY PartBounds, UploadAssumption DEF TypeOK, State
<1>1. CASE Initiate
  <2>1. CASE FreshPool(mode) /\ main' = "range"
    <3>1. UNCHANGED <<mode, totalParts>>
      BY <1>1 DEF Initiate
    <3>2. CASE mode = "v2"
      <4>1. /\ outbox' = <<>> /\ presignCh' = <<>> /\ presigner' = "request"
            /\ nextBatch' = 1 /\ \A q \in Part : worker'[q] = "none"
        BY <2>1, <3>2 DEF FreshPool
      <4>2. NextPart' = 1
        BY <1>0, <3>1, <3>2, <4>1 DEF NextPart, Limit
      <4> QED
        BY <1>0, <2>1, <3>1, <3>2, <4>1, <4>2 DEF PlanInv, PlanInOrder, Feeding, Checking
    <3>3. CASE mode # "v2"
      <4>1. /\ outbox' = <<>> /\ presignCh' = [i \in 1 .. totalParts |-> i]
            /\ presigner' = "closed" /\ \A q \in Part : worker'[q] = "none"
        BY <2>1, <3>3 DEF FreshPool
      <4>2. Len(presignCh') = totalParts /\ Len(outbox') = 0
        BY <1>0, <4>1
      <4>3. NextPart' = 1
        BY <1>0, <3>1, <3>3, <4>2 DEF NextPart, Limit
      <4> QED
        BY <1>0, <2>1, <3>1, <3>3, <4>1, <4>2, <4>3 DEF PlanInv, PlanInOrder, Feeding, Checking
    <3> QED
      BY <3>2, <3>3
  <2>2. CASE UNCHANGED <<poolVars, presignVars>> /\ main' = "return"
    BY <1>1, <2>2 DEF Initiate, poolVars, presignVars, PlanInv, Feeding, Checking
  <2> QED
    BY <1>1, <2>1, <2>2 DEF Initiate
<1>2. CASE PresignRequest
  <2>0. /\ UNCHANGED <<mode, totalParts, main, part, worker, presignCh>>
        /\ presigner = "request" /\ mode = "v2"
    BY <1>2 DEF PresignRequest, poolVars, PlanInv
  <2>1. CASE UNCHANGED <<nextBatch, outbox>> /\ presigner' = "closed"
    BY <2>0, <2>1 DEF PlanInv, PlanInOrder, NextPart, Limit
  <2>2. CASE /\ nextBatch <= totalParts /\ presigner' = "send"
             /\ outbox' = [i \in 1 .. LastOfBatch(nextBatch) - nextBatch + 1 |-> nextBatch + i - 1]
             /\ nextBatch' = nextBatch + Parallelism
    <3>1. ASSUME main \in Feeding PROVE PlanInOrder'
      <4>1. PlanInOrder /\ outbox = <<>>
        BY <2>0, <3>1 DEF PlanInv, PlanInOrder
      <4> DEFINE size == LastOfBatch(nextBatch) - nextBatch + 1
      <4>2. size \in Nat /\ nextBatch + size = Limit'
        BY <1>0, <2>0, <2>2 DEF LastOfBatch, Limit
      <4>3. Len(outbox') = size /\ \A i \in 1 .. size : outbox'[i] = nextBatch + i - 1
        BY <2>2, <4>2
      <4>4. Limit = nextBatch /\ Len(outbox) = 0 /\ Len(presignCh) \in Nat
        BY <1>0, <2>0, <2>2, <4>1 DEF Limit
      <4> HIDE DEF size
      <4>5. NextPart' = NextPart /\ nextBatch = NextPart + Len(presignCh) /\ NextPart \in Int
        BY <1>0, <2>0, <4>2, <4>3, <4>4 DEF NextPart
      <4>6. /\ \A i \in 1 .. Len(presignCh') : presignCh'[i] = NextPart' + i - 1
            /\ \A i \in 1 .. Len(outbox') : outbox'[i] = NextPart' + Len(presignCh') + i - 1
        BY <2>0, <4>1, <4>3, <4>5 DEF PlanInOrder
      <4> QED
        BY <2>0, <2>2, <4>1, <4>5, <4>6 DEF PlanInOrder
    <3> QED
      BY <2>0, <2>2, <3>1 DEF PlanInv, Feeding, Checking
  <2> QED
    BY <1>2, <2>1, <2>2 DEF PresignRequest
<1>3. CASE PresignSend
  <2>0. /\ UNCHANGED <<mode, totalParts, main, part, worker, nextBatch>>
        /\ presigner = "send" /\ mode = "v2"
    BY <1>3 DEF PresignSend, poolVars, PlanInv
  <2>1. CASE outbox = <<>> /\ UNCHANGED <<outbox, presignCh>> /\ presigner' = "request"
    BY <2>0, <2>1 DEF PlanInv, PlanInOrder, NextPart, Limit
  <2>2. CASE UNCHANGED <<outbox, presignCh>> /\ presigner' = "closed"
    BY <2>0, <2>2 DEF PlanInv, PlanInOrder, NextPart, Limit
  <2>3. CASE /\ outbox # <<>> /\ presignCh' = Append(presignCh, Head(outbox))
             /\ outbox' = Tail(outbox) /\ UNCHANGED presigner
    <3>1. ASSUME main \in Feeding PROVE PlanInOrder'
      <4>1. PlanInOrder
        BY <3>1 DEF PlanInv
      <4>2. /\ Len(presignCh') = Len(presignCh) + 1 /\ Len(outbox') = Len(outbox) - 1
            /\ Len(outbox) \in Nat /\ Len(presignCh) \in Nat /\ Len(outbox) >= 1
            /\ \A i \in 1 .. Len(presignCh) : presignCh'[i] = presignCh[i]
            /\ presignCh'[Len(presignCh) + 1] = outbox[1]
            /\ \A i \in 1 .. Len(outbox) - 1 : outbox'[i] = outbox[i + 1]
        BY <1>0, <2>3
      <4>3. Limit' = Limit /\ Limit \in Int
        BY <1>0, <2>0 DEF Limit
      <4>4. NextPart' = NextPart /\ NextPart \in Int
        BY <4>2, <4>3 DEF NextPart
      <4>5. /\ \A i \in 1 .. Len(presignCh') : presignCh'[i] = NextPart' + i - 1
            /\ \A i \in 1 .. Len(outbox') : outbox'[i] = NextPart' + Len(presignCh') + i - 1
        <5>1. outbox[1] = NextPart + Len(presignCh) + 1 - 1
          BY <4>1, <4>2 DEF PlanInOrder
        <5>2. ASSUME NEW i \in 1 .. Len(presignCh')
              PROVE  presignCh'[i] = NextPart' + i - 1
          <6>1. CASE i = Len(presignCh) + 1
            BY <4>2, <4>4, <5>1, <6>1
          <6>2. CASE i \in 1 .. Len(presignCh)
            <7>1. presignCh[i] = NextPart + i - 1
              BY <4>1, <6>2 DEF PlanInOrder
            <7> QED
              BY <4>2, <4>4, <6>2, <7>1
          <6> QED
            BY <4>2, <5>2, <6>1, <6>2
        <5>3. ASSUME NEW i \in 1 .. Len(outbox')
              PROVE  outbox'[i] = NextPart' + Len(presignCh') + i - 1
          <6>1. outbox[i + 1] = NextPart + Len(presignCh) + (i + 1) - 1
            BY <4>1, <4>2, <5>3 DEF PlanInOrder
          <6> QED
            BY <4>2, <4>4, <5>3, <6>1
        <5> QED
          BY <5>2, <5>3
      <4> QED
        BY <2>0, <2>3, <4>1, <4>4, <4>5 DEF PlanInOrder
    <3> QED
      BY <2>0, <2>3, <3>1 DEF PlanInv, Feeding, Checking
  <2> QED
    BY <1>3, <2>1, <2>2, <2>3 DEF PresignSend
<1>4. CASE MainReceive
  <2>0. /\ UNCHANGED <<mode, totalParts, worker, presigner, nextBatch, outbox>>
        /\ main = "range" /\ PlanInOrder /\ presigner # "idle"
    BY <1>4 DEF MainReceive, PlanInv, Feeding
  <2>1. CASE presignCh = <<>> /\ presigner = "closed" /\ main' = "wait"
             /\ UNCHANGED <<part, presignCh>>
    BY <2>0, <2>1 DEF PlanInv, PlanInOrder, NextPart, Limit, Feeding, Checking
  <2>2. CASE presignCh # <<>> /\ part' = Head(presignCh) /\ presignCh' = Tail(presignCh)
             /\ main' = "checkPresign"
    <3>1. /\ Len(presignCh) \in Nat /\ Len(presignCh) >= 1 /\ Len(outbox) \in Nat
          /\ Len(presignCh') = Len(presignCh) - 1 /\ part' = presignCh[1]
          /\ \A i \in 1 .. Len(presignCh) - 1 : presignCh'[i] = presignCh[i + 1]
      BY <1>0, <2>2
    <3>2. Limit' = Limit /\ Limit \in Int
      BY <1>0, <2>0 DEF Limit
    <3>3. NextPart' = NextPart + 1 /\ NextPart \in Int /\ part' = NextPart
      <4>1. NextPart' = NextPart + 1 /\ NextPart \in Int
        BY <2>0, <3>1, <3>2 DEF NextPart
      <4>2. presignCh[1] = NextPart + 1 - 1
        BY <2>0, <3>1 DEF PlanInOrder
      <4> QED
        BY <3>1, <4>1, <4>2
    <3>4. ASSUME NEW i \in 1 .. Len(presignCh') PROVE presignCh'[i] = NextPart' + i - 1
      <4>1. presignCh[i + 1] = NextPart + (i + 1) - 1
        BY <2>0, <3>1, <3>4 DEF PlanInOrder
      <4> QED
        BY <3>1, <3>3, <3>4, <4>1
    <3>5. ASSUME NEW i \in 1 .. Len(outbox')
          PROVE  outbox'[i] = NextPart' + Len(presignCh') + i - 1
      <4>1. outbox[i] = NextPart + Len(presignCh) + i - 1
        BY <2>0, <3>5 DEF PlanInOrder
      <4> QED
        BY <2>0, <3>1, <3>3, <3>5, <4>1
    <3>6. PlanInOrder'
      BY <2>0, <2>2, <3>3, <3>4, <3>5 DEF PlanInOrder, Checking
    <3> QED
      BY <2>0, <2>2, <3>6 DEF PlanInv
  <2> QED
    BY <1>4, <2>1, <2>2 DEF MainReceive
<1>5. CASE MainCheckPresign \/ MainCheckErr
  BY <1>5 DEF MainCheckPresign, MainCheckErr, poolVars, presignVars, PlanInv, PlanInOrder,
     NextPart, Limit, Feeding, Checking
<1>6. CASE MainAcquire
  <2>0. /\ UNCHANGED <<mode, totalParts, part, presigner, nextBatch, outbox, presignCh>>
        /\ PlanInOrder /\ presigner # "idle" /\ main \in Checking
    BY <1>6 DEF MainAcquire, presignVars, PlanInv, Feeding, Checking
  <2>1. CASE main' = "failWait" /\ UNCHANGED worker
    BY <2>0, <2>1 DEF PlanInv, Feeding, Checking
  <2>2. CASE /\ worker' = [worker EXCEPT ![part] = IF mode = "patch" THEN "read"
                                                   ELSE "getBuffer"]
             /\ main' = "range"
    <3>1. part \in 1 .. totalParts /\ part = NextPart - 1
      BY <1>0, <2>0 DEF TypeOK, PlanInOrder
    <3>2. worker'[part] # "none" /\ \A q \in Part \ {part} : worker'[q] = worker[q]
      BY <1>0, <2>2, <3>1
    <3>3. NextPart' = NextPart /\ NextPart \in Int
      BY <1>0, <2>0 DEF NextPart, Limit
    <3>4. \A p \in 1 .. totalParts : (worker'[p] # "none") <=> p < NextPart
      <4>1. \A p \in 1 .. totalParts : (worker[p] # "none") <=> p < part
        BY <2>0 DEF PlanInOrder
      <4>2. \A p \in 1 .. totalParts : p < NextPart <=> p < part \/ p = part
        BY <1>0, <3>1, <3>3
      <4>3. \A p \in 1 .. totalParts : p # part => worker'[p] = worker[p]
        BY <1>0, <3>2
      <4> QED
        BY <3>2, <4>1, <4>2, <4>3
    <3>5. PlanInOrder'
      BY <2>0, <2>2, <3>3, <3>4 DEF PlanInOrder, Checking
    <3>6. \A p \in Part : worker'[p] # "none" => p \in 1 .. totalParts'
      BY <2>0, <3>1, <3>2 DEF PlanInv
    <3> QED
      BY <2>0, <2>2, <3>5, <3>6 DEF PlanInv, Checking
  <2> QED
    BY <1>6, <2>1, <2>2 DEF MainAcquire
<1>7. CASE PoolReturns \/ Complete \/ Abort \/ Return
  BY <1>7 DEF PoolReturns, Complete, Abort, Return, poolVars, presignVars, PlanInv,
     Feeding, Checking
<1>8. CASE Fallback
  BY <1>8 DEF Fallback, poolVars, presignVars, PlanInv, Feeding, Checking
<1>9. ASSUME NEW q \in Part, WorkerStep(q) PROVE PlanInv'
  <2>1. UNCHANGED <<mode, totalParts, main, part, presigner, nextBatch, outbox, presignCh>>
    BY <1>9, WorkerFrame DEF presignVars
  <2>2. \A p \in Part : worker'[p] # "none" <=> worker[p] # "none"
    BY <1>9, WorkerFrame
  <2>3. NextPart' = NextPart
    BY <2>1 DEF NextPart, Limit
  <2>4. PlanInOrder => PlanInOrder'
    BY <1>0, <2>1, <2>2, <2>3 DEF PlanInOrder
  <2> QED
    BY <2>1, <2>2, <2>4 DEF PlanInv
<1>10. CASE UNCHANGED <<mode, totalParts, main, poolVars, presignVars>>
  BY <1>10 DEF poolVars, presignVars, PlanInv, PlanInOrder, NextPart, Limit
<1> QED
  BY <1>1, <1>2, <1>3, <1>4, <1>5, <1>6, <1>7, <1>8, <1>9, <1>10
     DEF Next, MainStep, PresignStep, Interrupt, Finished, vars
-----------------------------------------------------------------------------
(* sendUploadErr leaves an error in the channel unless the context is done.*)
LEMMA ErrorOffered ==
  ASSUME NEW done \in BOOLEAN, NEW ch, NEW err \in Error, NEW new,
         new \in sendUploadErr(done, ch, err)
  PROVE  (ch # NoError => new # NoError) /\ (~done => new # NoError)
BY DEF sendUploadErr, Error, NoError

(* The evidence of a goroutine, a pool or a presigner that gave up stays.  *)
LEMMA EvidenceNext ==
  ASSUME TypeOK, PlanInv, NoneOutside, EvidenceInv, [Next]_vars
  PROVE  EvidenceInv'
<1>0. totalParts \in Nat /\ totalParts >= 1 /\ 1 .. totalParts \subseteq Part
      /\ worker \in [Part -> State] /\ nextBatch \in Nat
      /\ ctx \in [user : BOOLEAN, main : BOOLEAN, pool : BOOLEAN]
  BY PartBounds, UploadAssumption DEF TypeOK, State
<1>1. CASE Initiate
  <2>1. CASE FreshPool(mode) /\ main' = "range" /\ ~ctx.user
    <3>1. UNCHANGED <<mode, totalParts, ctx>> /\ ~ctx.main /\ ~ctx.pool
      BY <1>1 DEF Initiate, EvidenceInv
    <3>2. /\ results' = {} /\ uploaded' = {} /\ outbox' = <<>> /\ errCh' = NoError
          /\ \A q \in Part : worker'[q] = "none"
          /\ presigner' = "closed" => mode # "v2"
      BY <2>1 DEF FreshPool
    <3>3. mode # "v2" => Limit' = totalParts + 1
      BY <3>1 DEF Limit
    <3> QED
      BY <2>1, <3>1, <3>2, <3>3 DEF EvidenceInv, Explained
  <2>2. CASE UNCHANGED <<poolVars, presignVars>> /\ main' = "return"
    BY <1>1, <2>2 DEF Initiate, poolVars, EvidenceInv, Feeding, Checking
  <2> QED
    BY <1>1, <2>1, <2>2 DEF Initiate
<1>2. CASE PresignRequest
  <2>0. /\ UNCHANGED <<mode, totalParts, main, poolVars, ctx, outcome>>
        /\ presigner = "request" /\ mode = "v2"
    BY <1>2 DEF PresignRequest, PlanInv
  <2>1. CASE presigner' = "send"
    BY <2>0, <2>1 DEF poolVars, EvidenceInv, Explained
  <2>2. CASE nextBatch > totalParts /\ UNCHANGED <<nextBatch, outbox>>
    <3>1. Limit' = totalParts + 1
      BY <1>0, <2>0, <2>2 DEF Limit
    <3>2. main \in Feeding => outbox' = <<>>
      BY <2>0, <2>2 DEF PlanInv, PlanInOrder
    <3> QED
      BY <2>0, <2>2, <3>1, <3>2 DEF poolVars, EvidenceInv, Explained
  <2>3. ASSUME NEW err \in Error, presignErr' \in sendUploadErr(MainDone, presignErr, err)
        PROVE  EvidenceInv'
    <3>1. main \in Feeding => MainDone = ctx.user
      BY <1>0 DEF MainDone, EvidenceInv, Feeding, Checking
    <3>2. MainDone \in BOOLEAN
      BY <1>0 DEF MainDone
    <3>3. main \in Feeding => presignErr' # NoError \/ ctx'.user
      BY <2>0, <2>3, <3>1, <3>2, ErrorOffered
    <3> QED
      BY <2>0, <3>3 DEF poolVars, EvidenceInv, Explained
  <2> QED
    BY <1>2, <2>1, <2>2, <2>3 DEF PresignRequest, Error
<1>3. CASE PresignSend
  <2>0. UNCHANGED <<mode, totalParts, main, poolVars, ctx, outcome>>
    BY <1>3 DEF PresignSend
  <2>1. CASE presigner' # "closed"
    BY <2>0, <2>1 DEF poolVars, EvidenceInv, Explained
  <2>2. CASE presignErr' \in sendUploadErr(FALSE, presignErr, "other")
    <3>1. presignErr' # NoError
      BY <2>2, ErrorOffered DEF Error
    <3> QED
      BY <2>0, <3>1 DEF poolVars, EvidenceInv, Explained
  <2> QED
    BY <1>3, <2>1, <2>2 DEF PresignSend
<1>4. CASE MainReceive
  BY <1>4 DEF MainReceive, EvidenceInv, Explained, Limit, Feeding, Checking
<1>5. CASE MainCheckPresign \/ MainCheckErr
  <2>1. CASE main' = "checkErr" /\ UNCHANGED <<presignErr, outcome, ctx>>
    BY <1>5, <2>1 DEF MainCheckPresign, MainCheckErr, poolVars, EvidenceInv, Explained,
       Limit, Feeding, Checking
  <2>2. CASE main' = "acquire" /\ UNCHANGED <<errCh, outcome, ctx>>
    BY <1>5, <2>2 DEF MainCheckPresign, MainCheckErr, presignVars, EvidenceInv, Explained,
       Limit, Feeding, Checking
  <2>3. CASE /\ main' = "failWait" /\ outcome' \in Error
             /\ ctx' = [ctx EXCEPT !.pool = TRUE]
    <3>1. ctx'.main = ctx.main /\ ctx'.user = ctx.user
      BY <1>0, <2>3
    <3> QED
      BY <1>5, <2>3, <3>1 DEF MainCheckPresign, MainCheckErr, poolVars, EvidenceInv,
         Error, Feeding, Checking
  <2> QED
    BY <1>5, <2>1, <2>2, <2>3 DEF MainCheckPresign, MainCheckErr, TypeOK, NoError
<1>6. CASE MainAcquire
  <2>1. CASE main' = "failWait" /\ outcome' = "other" /\ UNCHANGED worker
    BY <1>6, <2>1 DEF MainAcquire, EvidenceInv, Feeding, Checking
  <2>2. CASE /\ worker' = [worker EXCEPT ![part] = IF mode = "patch" THEN "read"
                                                   ELSE "getBuffer"]
             /\ main' = "range" /\ UNCHANGED outcome
    <3>1. part \in 1 .. totalParts /\ worker[part] = "none"
      BY <1>0, <1>6 DEF MainAcquire, TypeOK, PlanInv, PlanInOrder, Feeding, Checking
    <3>2. part \notin results /\ worker'[part] \in {"read", "getBuffer"}
          /\ \A q \in Part \ {part} : worker'[q] = worker[q]
      BY <1>0, <2>2, <3>1 DEF EvidenceInv
    <3> QED
      BY <1>6, <2>2, <3>2 DEF MainAcquire, presignVars, EvidenceInv, Explained, Limit,
         Feeding, Checking
  <2> QED
    BY <1>6, <2>1, <2>2 DEF MainAcquire
<1>7. CASE PoolReturns
  <2>1. ctx'.main = ctx.main /\ ctx'.user = ctx.user
    BY <1>0, <1>7 DEF PoolReturns
  <2> QED
    BY <1>7, <2>1 DEF PoolReturns, poolVars, EvidenceInv, Feeding, Checking
<1>8. CASE Complete \/ Abort
  BY <1>8 DEF Complete, Abort, poolVars, EvidenceInv, Feeding, Checking
<1>9. CASE Return
  BY <1>9 DEF Return, poolVars, EvidenceInv, Feeding, Checking
<1>10. CASE Fallback
  <2>1. ~ctx'.main /\ ~ctx'.pool
    BY <1>0, <1>10 DEF Fallback
  <2> QED
    BY <1>10, <2>1 DEF Fallback, poolVars, EvidenceInv, Feeding, Checking
<1>11. ASSUME NEW p \in Part, WorkerStep(p) PROVE EvidenceInv'
  <2>0. /\ UNCHANGED <<mode, totalParts, main, presigner, nextBatch, outbox, presignErr,
                       outcome>>
        /\ ctx'.user = ctx.user /\ ctx'.main = ctx.main
        /\ \A q \in Part \ {p} : worker'[q] = worker[q]
        /\ worker[p] \notin {"none", "gone"}
    BY <1>11, WorkerFrame DEF presignVars
  <2>1. /\ results' \subseteq uploaded'
        /\ results \subseteq results' /\ results' \subseteq results \cup {p}
        /\ p \in results' => worker'[p] \in {"putBuffer", "release", "gone"}
    BY <1>0, <1>11 DEF WorkerStep, WorkerGetBuffer, WorkerRead, WorkerPut, PresignOnePart,
       WorkerSendsError, WorkerCancels, WorkerPutsBuffer, WorkerReleases, Goto, Leaving,
       EvidenceInv
  <2>a. main = "initiate" => ~ctx'.pool
    BY <1>0, <1>11, <2>0 DEF NoneOutside, Outside, Running
  <2>2. ASSUME main \in Feeding PROVE Explained => Explained'
    <3>1. CASE WorkerSendsError(p)
      <4>1. PoolDone \in BOOLEAN
        BY <1>0 DEF PoolDone, MainDone
      <4>2. errCh # NoError => errCh' # NoError
        BY <3>1, <4>1, ErrorOffered DEF WorkerSendsError, Error
      <4> QED
        BY <2>0, <4>2 DEF Explained
    <3>2. CASE UNCHANGED errCh
      BY <2>0, <3>2 DEF Explained
    <3> QED
      BY <1>11, <3>1, <3>2 DEF WorkerStep, WorkerGetBuffer, WorkerRead, WorkerPut,
         PresignOnePart, WorkerCancels, WorkerPutsBuffer, WorkerReleases
  <2>3. ASSUME main \in Feeding PROVE ctx'.pool => Explained'
    <3>1. CASE WorkerCancels(p)
      <4>1. worker[p] = "cancel" /\ p \notin results
        BY <3>1 DEF WorkerCancels, EvidenceInv
      <4> QED
        BY <2>2, <2>3, <4>1 DEF EvidenceInv
    <3>2. CASE UNCHANGED ctx
      BY <2>2, <2>3, <3>2 DEF EvidenceInv
    <3> QED
      BY <1>11, <3>1, <3>2 DEF WorkerStep, WorkerGetBuffer, WorkerRead, WorkerPut,
         PresignOnePart, WorkerSendsError, WorkerPutsBuffer, WorkerReleases
  <2>4. ASSUME main \in Feeding,
               worker'[p] \in {"cancel", "putBuffer", "release", "gone"}
        PROVE  p \in results' \/ Explained'
    <3>1. CASE WorkerGetBuffer(p)
      <4>1. PoolDone
        BY <1>0, <2>4, <3>1 DEF WorkerGetBuffer, Goto
      <4>2. Explained
        BY <2>4, <4>1 DEF PoolDone, MainDone, EvidenceInv, Explained, Feeding, Checking
      <4> QED
        BY <2>2, <2>4, <4>2
    <3>2. CASE WorkerSendsError(p)
      <4>1. PoolDone \in BOOLEAN
        BY <1>0 DEF PoolDone, MainDone
      <4>2. ~PoolDone => errCh' # NoError
        BY <3>2, <4>1, ErrorOffered DEF WorkerSendsError, Error
      <4>3. PoolDone => Explained
        BY <2>4 DEF PoolDone, MainDone, EvidenceInv, Explained, Feeding, Checking
      <4> QED
        BY <2>2, <2>4, <4>2, <4>3 DEF Explained
    <3>3. CASE WorkerPut(p)
      BY <1>0, <2>4, <3>3 DEF WorkerPut, Goto
    <3>4. CASE WorkerCancels(p) \/ WorkerPutsBuffer(p) \/ WorkerReleases(p)
      <4>1. worker[p] \in {"cancel", "putBuffer", "release", "gone"}
        BY <3>4 DEF WorkerCancels, WorkerPutsBuffer, WorkerReleases
      <4> QED
        BY <2>1, <2>2, <2>4, <4>1 DEF EvidenceInv
    <3>5. CASE WorkerRead(p) \/ PresignOnePart(p)
      BY <1>0, <2>4, <3>5 DEF WorkerRead, PresignOnePart, Goto
    <3> QED
      BY <1>11, <3>1, <3>2, <3>3, <3>4, <3>5 DEF WorkerStep
  <2>5. Limit' = Limit
    BY <2>0 DEF Limit
  <2> QED
    BY <2>0, <2>1, <2>a, <2>2, <2>3, <2>4, <2>5 DEF EvidenceInv
<1>12. CASE Interrupt
  <2>1. ctx'.user /\ ctx'.main = ctx.main /\ ctx'.pool = ctx.pool
    BY <1>0, <1>12 DEF Interrupt
  <2> QED
    BY <1>12, <2>1 DEF Interrupt, poolVars, presignVars, EvidenceInv, Explained, Limit
<1>13. CASE UNCHANGED vars
  BY <1>13 DEF vars, poolVars, presignVars, EvidenceInv, Explained, Limit
<1> QED
  BY <1>1, <1>2, <1>3, <1>4, <1>5, <1>6, <1>7, <1>8, <1>9, <1>10, <1>11, <1>12, <1>13
     DEF Next, MainStep, PresignStep, Finished
-----------------------------------------------------------------------------
(* The pool reports success only when every part has its result.           *)
LEMMA ErrorsNext ==
  ASSUME IInv, [Next]_vars
  PROVE  NoErrorSwallowed'
<1>0. /\ TypeOK /\ PlanInv /\ EvidenceInv /\ NoneOutside /\ NoErrorSwallowed
      /\ totalParts \in Nat /\ 1 .. totalParts \subseteq Part
      /\ results \subseteq 1 .. totalParts /\ worker \in [Part -> State]
      /\ ctx \in [user : BOOLEAN, main : BOOLEAN, pool : BOOLEAN]
  BY PartBounds DEF IInv, TypeOK, State
<1>1. CASE PoolReturns
  <2> SUFFICES ASSUME main' = "complete", ~ctx.user PROVE results = 1 .. totalParts
    BY <1>0, <1>1 DEF PoolReturns, poolVars, NoErrorSwallowed
  <2>1. main = "wait" /\ presignErr = NoError /\ errCh = NoError /\ Running = {}
    BY <1>0, <1>1 DEF PoolReturns, WorkersDone, EvidenceInv, TypeOK, Error, NoError
  <2>2. main \in Feeding /\ main \notin Checking
    BY <2>1 DEF Feeding, Checking
  <2>3. PlanInOrder /\ presignCh = <<>> /\ Limit = totalParts + 1 /\ outbox = <<>>
    BY <1>0, <2>1, <2>2 DEF PlanInv, EvidenceInv
  <2>4. NextPart = totalParts + 1
    BY <1>0, <2>3 DEF NextPart
  <2>5. ASSUME NEW p \in 1 .. totalParts PROVE p \in results
    <3>1. worker[p] # "none"
      BY <1>0, <2>2, <2>3, <2>4, <2>5 DEF PlanInOrder
    <3>2. worker[p] = "gone"
      BY <1>0, <2>1, <2>5, <3>1 DEF Running
    <3> QED
      BY <1>0, <2>1, <2>2, <2>5, <3>2 DEF EvidenceInv, Explained
  <2> QED
    BY <1>0, <2>5
<1>2. ASSUME NEW p \in Part, WorkerStep(p) PROVE NoErrorSwallowed'
  <2>1. main' = main /\ worker[p] \notin {"none", "gone"}
    BY <1>0, <1>2, WorkerFrame
  <2>2. main # "complete"
    BY <1>0, <2>1 DEF NoneOutside, Outside, Running
  <2> QED
    BY <2>1, <2>2 DEF NoErrorSwallowed
<1>3. CASE main' # "complete"
  BY <1>3 DEF NoErrorSwallowed
<1>4. CASE UNCHANGED <<main, totalParts, results>> /\ (ctx.user => ctx'.user)
  BY <1>0, <1>4 DEF NoErrorSwallowed
<1> QED
  BY <1>0, <1>1, <1>2, <1>3, <1>4
     DEF Next, MainStep, Initiate, MainReceive, MainCheckPresign, MainCheckErr, MainAcquire,
         Complete, Abort, Return, Fallback, PresignStep, PresignRequest, PresignSend,
         Interrupt, Finished, vars, poolVars

(* What is committed stays whole.                                          *)
LEMMA CommittedNext ==
  ASSUME IInv, [Next]_vars, TypeOK'
  PROVE  CommittedIsWhole'
<1>0. /\ TypeOK /\ EvidenceInv /\ SessionInv /\ NoErrorSwallowed /\ CommittedIsWhole
  BY DEF IInv
<1>1. CASE Initiate
  <2>1. mode \in {"v2", "v1", "resume", "patch"}
    BY <1>0, UploadAssumption DEF TypeOK
  <2>2. session'[mode] # "committed" /\ mode' = mode
    BY <1>0, <1>1, <2>1 DEF Initiate, TypeOK, SessionInv
  <2> QED
    BY <2>2 DEF CommittedIsWhole
<1>2. CASE Complete
  <2>1. CASE session' = session
    BY <1>0, <1>2, <2>1 DEF Complete, SessionInv, CommittedIsWhole
  <2>2. CASE ~ctx.user
    <3>1. results = 1 .. totalParts /\ uploaded = 1 .. totalParts
      BY <1>0, <1>2, <2>2 DEF Complete, NoErrorSwallowed, EvidenceInv, TypeOK
    <3> QED
      BY <1>2, <3>1 DEF Complete, poolVars, CommittedIsWhole
  <2> QED
    BY <1>2, <2>1, <2>2 DEF Complete, CompleteCancelled
<1>3. CASE Abort
  BY <1>0, <1>3 DEF Abort, TypeOK, poolVars, CommittedIsWhole
<1>4. CASE Fallback
  BY <1>0, <1>4 DEF Fallback, SessionInv, CommittedIsWhole
<1>5. ASSUME NEW p \in Part, WorkerStep(p) PROVE CommittedIsWhole'
  <2>1. UNCHANGED <<mode, session, totalParts>>
    BY <1>0, <1>5, WorkerFrame
  <2>2. results \subseteq results' /\ uploaded \subseteq uploaded'
    BY <1>5 DEF WorkerStep, WorkerGetBuffer, WorkerRead, WorkerPut, PresignOnePart,
       WorkerSendsError, WorkerCancels, WorkerPutsBuffer, WorkerReleases
  <2> QED
    BY <1>0, <2>1, <2>2 DEF CommittedIsWhole, TypeOK
<1>6. CASE UNCHANGED <<mode, session, totalParts, results, uploaded>>
  BY <1>0, <1>6 DEF CommittedIsWhole
<1> QED
  BY <1>1, <1>2, <1>3, <1>4, <1>5, <1>6
     DEF Next, MainStep, MainReceive, MainCheckPresign, MainCheckErr, MainAcquire,
         PoolReturns, Return, PresignStep, PresignRequest, PresignSend,
         Interrupt, Finished, vars, poolVars

-----------------------------------------------------------------------------
(* The types, of which the buffers and the parts need the invariants.      *)
LEMMA TypeNext ==
  ASSUME IInv, [Next]_vars
  PROVE  TypeOK'
<1>0. /\ TypeOK /\ PlanInv /\ BufferInv /\ totalParts \in Nat /\ totalParts >= 1
      /\ Parallelism \in Nat /\ Parallelism >= 1
  BY PartBounds, UploadAssumption DEF IInv, TypeOK
<1>1. buffers' \in 0 .. Parallelism
  <2>1. SessionInv /\ buffers \in Nat
    BY <1>0 DEF IInv, TypeOK
  <2>2. BufferInv'
    BY <1>0, <2>1, BufferNext
  <2>3. totalParts' = totalParts
    BY <1>0, WorkerFrame DEF Next, MainStep, Initiate, MainReceive, MainCheckPresign,
       MainCheckErr, MainAcquire, PoolReturns, Complete, Abort, Return, Fallback,
       PresignStep, PresignRequest, PresignSend, Interrupt, Finished, vars
  <2>4. Cardinality(Holders') \in Nat
    <3>1. IsFiniteSet(1 .. totalParts) /\ Holders' \subseteq 1 .. totalParts
      BY <1>0, <2>3, FS_Interval DEF Holders
    <3> QED
      BY <3>1, FS_Subset, FS_CardinalityType
  <2>5. buffers' \in Nat
    <3>1. \/ buffers' \in {buffers, Parallelism, buffers + 1}
          \/ buffers > 0 /\ buffers' = buffers - 1
      BY DEF Next, MainStep, Initiate, FreshPool, MainReceive, MainCheckPresign, MainCheckErr,
             MainAcquire, PoolReturns, Complete, Abort, Return, Fallback, PresignStep,
             PresignRequest, PresignSend, Interrupt, Finished, WorkerStep, WorkerGetBuffer,
             WorkerRead, WorkerPut, PresignOnePart, WorkerSendsError, WorkerCancels,
             WorkerPutsBuffer, WorkerReleases, vars, poolVars
    <3> QED
      BY <1>0, <2>1, <3>1
  <2>6. CASE mode' = "patch"
    BY <1>0, <2>2, <2>6 DEF BufferInv
  <2>7. CASE mode' # "patch"
    <3>1. buffers' + Cardinality(Holders') = Parallelism
      BY <2>2, <2>7 DEF BufferInv
    <3> HIDE DEF Holders
    <3> QED
      BY <1>0, <2>4, <2>5, <3>1
  <2> QED
    BY <2>6, <2>7
<1>2. CASE Initiate
  <2>1. mode \in {"v2", "v1", "resume", "patch"}
    BY <1>0, UploadAssumption DEF TypeOK
  <2>2. session' \in [{"v2", "v1", "resume", "patch"} ->
                        {"none", "open", "committed", "aborted"}]
    BY <1>0, <1>2, <2>1 DEF Initiate, TypeOK
  <2>3. CASE FreshPool(mode) /\ main' = "range" /\ UNCHANGED outcome
    <3>1. <<>> \in Seq(1 .. totalParts) /\ [i \in 1 .. totalParts |-> i] \in Seq(1 .. totalParts)
      BY <1>0
    <3>2. outbox' \in Seq(1 .. totalParts) /\ presignCh' \in Seq(1 .. totalParts)
      BY <2>3, <3>1 DEF FreshPool
    <3>3. /\ part' = 0 /\ nextBatch' = 1 /\ presigner' \in {"request", "closed"}
          /\ presignErr' = NoError /\ errCh' = NoError /\ results' = {} /\ uploaded' = {}
          /\ worker' = [p \in Part |-> "none"]
      BY <2>3 DEF FreshPool
    <3> QED
      BY <1>0, <1>1, <1>2, <2>2, <2>3, <3>2, <3>3 DEF Initiate, TypeOK
  <2>4. CASE UNCHANGED <<poolVars, presignVars>> /\ main' = "return" /\ outcome' \in Error
    BY <1>0, <1>1, <1>2, <2>2, <2>4 DEF Initiate, poolVars, presignVars, TypeOK
  <2> QED
    BY <1>2, <2>3, <2>4 DEF Initiate
<1>3. CASE PresignRequest
  <2>1. /\ presigner = "request"
        /\ presigner' \in {"send", "closed"} /\ presignErr' \in Error \cup {NoError}
    BY <1>0, <1>3 DEF PresignRequest, sendUploadErr, TypeOK, Error
  <2>2. /\ nextBatch' \in 1 .. totalParts + Parallelism
        /\ outbox' \in Seq(1 .. totalParts)
    <3>1. CASE UNCHANGED <<nextBatch, outbox>>
      BY <1>0, <3>1 DEF TypeOK
    <3>2. CASE /\ nextBatch <= totalParts /\ nextBatch' = nextBatch + Parallelism
               /\ outbox' = [i \in 1 .. LastOfBatch(nextBatch) - nextBatch + 1
                               |-> nextBatch + i - 1]
      <4> DEFINE size == LastOfBatch(nextBatch) - nextBatch + 1
      <4>1. nextBatch \in 1 .. totalParts
        BY <1>0, <3>2 DEF TypeOK
      <4>2. size \in Nat /\ nextBatch + size <= totalParts + 1
        BY <1>0, <4>1 DEF LastOfBatch
      <4>3. outbox' = [i \in 1 .. size |-> nextBatch + i - 1]
        BY <3>2
      <4> HIDE DEF size
      <4>4. \A i \in 1 .. size : nextBatch + i - 1 \in 1 .. totalParts
        BY <1>0, <4>1, <4>2
      <4>5. outbox' \in Seq(1 .. totalParts)
        BY <4>2, <4>3, <4>4
      <4> QED
        BY <1>0, <3>2, <4>1, <4>5
    <3> QED
      BY <1>3, <3>1, <3>2 DEF PresignRequest
  <2> QED
    BY <1>0, <1>1, <1>3, <2>1, <2>2 DEF PresignRequest, poolVars, TypeOK
<1>4. CASE PresignSend
  <2>1. /\ presigner' \in {"send", "closed", "request"} /\ presignErr' \in Error \cup {NoError}
    <3>1. presigner' \in {"send", "closed", "request"}
      BY <1>4 DEF PresignSend
    <3>2. UNCHANGED presignErr \/ presignErr' \in sendUploadErr(FALSE, presignErr, "other")
      BY <1>4 DEF PresignSend
    <3> QED
      BY <1>0, <3>1, <3>2 DEF sendUploadErr, TypeOK, Error
  <2>2. outbox' \in Seq(1 .. totalParts) /\ presignCh' \in Seq(1 .. totalParts)
    <3>1. outbox \in Seq(1 .. totalParts) /\ presignCh \in Seq(1 .. totalParts)
      BY <1>0 DEF TypeOK
    <3>2. CASE UNCHANGED <<outbox, presignCh>>
      BY <3>1, <3>2
    <3>3. CASE outbox # <<>> /\ presignCh' = Append(presignCh, Head(outbox))
               /\ outbox' = Tail(outbox)
      <4>1. Head(outbox) \in 1 .. totalParts /\ Tail(outbox) \in Seq(1 .. totalParts)
        BY <3>1, <3>3, HeadTailProperties
      <4>2. Append(presignCh, Head(outbox)) \in Seq(1 .. totalParts)
        BY <3>1, <4>1
      <4> QED
        BY <3>3, <4>1, <4>2
    <3> QED
      BY <1>4, <3>2, <3>3 DEF PresignSend
  <2> QED
    <3>1. UNCHANGED <<mode, totalParts, session, main, poolVars, nextBatch, ctx, outcome>>
      BY <1>4 DEF PresignSend
    <3> QED
      BY <1>0, <1>1, <2>1, <2>2, <3>1 DEF poolVars, TypeOK
<1>5. CASE MainReceive
  <2>1. part' \in 0 .. totalParts /\ presignCh' \in Seq(1 .. totalParts)
    <3>1. part \in 0 .. totalParts /\ presignCh \in Seq(1 .. totalParts)
      BY <1>0 DEF TypeOK
    <3>2. CASE UNCHANGED <<part, presignCh>>
      BY <3>1, <3>2
    <3>3. CASE presignCh # <<>> /\ part' = Head(presignCh) /\ presignCh' = Tail(presignCh)
      <4>1. Head(presignCh) \in 1 .. totalParts /\ Tail(presignCh) \in Seq(1 .. totalParts)
        BY <3>1, <3>3, HeadTailProperties
      <4> QED
        BY <1>0, <3>3, <4>1
    <3> QED
      BY <1>5, <3>2, <3>3 DEF MainReceive
  <2> QED
    BY <1>0, <1>1, <1>5, <2>1 DEF MainReceive, TypeOK
<1>6. CASE MainCheckPresign \/ MainCheckErr
  <2>1. /\ ctx' \in [user : BOOLEAN, main : BOOLEAN, pool : BOOLEAN]
        /\ presignErr' \in Error \cup {NoError} /\ errCh' \in Error \cup {NoError}
        /\ outcome' \in Error \cup {"running", "nil"}
        /\ main' \in {"checkErr", "acquire", "failWait"}
    BY <1>0, <1>6 DEF MainCheckPresign, MainCheckErr, poolVars, presignVars, TypeOK, NoError
  <2> QED
    BY <1>0, <1>1, <1>6, <2>1 DEF MainCheckPresign, MainCheckErr, poolVars, presignVars, TypeOK
<1>7. CASE MainAcquire
  <2>1. worker' \in [Part -> State]
    BY <1>0, <1>7 DEF MainAcquire, TypeOK, State
  <2> QED
    BY <1>0, <1>1, <1>7, <2>1 DEF MainAcquire, presignVars, TypeOK, State, Error
<1>8. CASE PoolReturns
  <2>1. /\ ctx' \in [user : BOOLEAN, main : BOOLEAN, pool : BOOLEAN]
        /\ outcome' \in Error \cup {"running", "nil"} /\ main' \in {"complete", "abort"}
    BY <1>0, <1>8 DEF PoolReturns, TypeOK, NoError
  <2> QED
    BY <1>0, <1>1, <1>8, <2>1 DEF PoolReturns, poolVars, presignVars, TypeOK
<1>9. CASE Complete \/ Abort
  <2>1. mode \in {"v2", "v1", "resume", "patch"}
    BY <1>0, UploadAssumption DEF TypeOK
  <2>2. session' \in [{"v2", "v1", "resume", "patch"} ->
                        {"none", "open", "committed", "aborted"}]
    BY <1>0, <1>9, <2>1 DEF Complete, Abort, TypeOK
  <2> QED
    BY <1>0, <1>1, <1>9, <2>2 DEF Complete, Abort, poolVars, presignVars, TypeOK, Error
<1>10. CASE Return \/ Fallback \/ Interrupt
  <2>1. ctx' \in [user : BOOLEAN, main : BOOLEAN, pool : BOOLEAN]
    BY <1>0, <1>10 DEF Return, Fallback, Interrupt, TypeOK
  <2> QED
    BY <1>0, <1>1, <1>10, <2>1 DEF Return, Fallback, Interrupt, poolVars, presignVars, TypeOK
<1>11. ASSUME NEW p \in Part, WorkerStep(p) PROVE TypeOK'
  <2>1. /\ worker' \in [Part -> State] /\ p \in 1 .. totalParts
        /\ UNCHANGED <<mode, totalParts, session, main, part, presignVars, outcome>>
        /\ ctx' \in [user : BOOLEAN, main : BOOLEAN, pool : BOOLEAN]
    BY <1>0, <1>11, WorkerFrame DEF PlanInv
  <2>2. results' \subseteq 1 .. totalParts /\ uploaded' \subseteq 1 .. totalParts
    BY <1>0, <1>11, <2>1 DEF TypeOK, WorkerStep, WorkerGetBuffer, WorkerRead, WorkerPut,
       PresignOnePart, WorkerSendsError, WorkerCancels, WorkerPutsBuffer, WorkerReleases
  <2>3. errCh' \in Error \cup {NoError}
    BY <1>0, <1>11 DEF TypeOK, Error, sendUploadErr, WorkerStep, WorkerGetBuffer, WorkerRead,
       WorkerPut, PresignOnePart, WorkerSendsError, WorkerCancels, WorkerPutsBuffer,
       WorkerReleases
  <2> QED
    BY <1>0, <1>1, <2>1, <2>2, <2>3 DEF presignVars, TypeOK, State
<1>12. CASE UNCHANGED vars
  BY <1>0, <1>12 DEF vars, poolVars, presignVars, TypeOK
<1> QED
  BY <1>2, <1>3, <1>4, <1>5, <1>6, <1>7, <1>8, <1>9, <1>10, <1>11, <1>12
     DEF Next, MainStep, PresignStep, Finished

-----------------------------------------------------------------------------
(* The first state satisfies the invariant.                                *)
LEMMA InitIInv == Init => IInv
<1> SUFFICES ASSUME Init PROVE IInv
  OBVIOUS
<1>0. totalParts \in Nat /\ totalParts >= 1 /\ Parallelism \in Nat /\ Parallelism >= 1
  BY PartBounds, UploadAssumption DEF Init
<1>1. mode \in {"v2", "v1", "resume", "patch"} /\ \A m \in {"v2", "v1", "resume", "patch"} :
        session[m] = IF m = "resume" THEN "open" ELSE "none"
  BY UploadAssumption DEF Init
<1>2. TypeOK
  <2>1. outbox \in Seq(1 .. totalParts) /\ presignCh \in Seq(1 .. totalParts)
    BY DEF Init
  <2> QED
    BY <1>0, <2>1 DEF Init, TypeOK, NoError, Error
<1>3. Holders = {} /\ Running = {}
  BY PartBounds DEF Init, Holders, Holding, Running
<1>4. PlanInv /\ EvidenceInv
  BY DEF Init, PlanInv, EvidenceInv, Feeding, Checking
<1>5. BufferInv
  BY <1>0, <1>3, FS_EmptySet DEF Init, BufferInv
<1>6. SessionInv /\ CommittedIsWhole /\ NoErrorSwallowed /\ NoneOutside
  BY <1>1, <1>3 DEF Init, SessionInv, CommittedIsWhole, NoErrorSwallowed, NoneOutside
<1> QED
  BY <1>2, <1>4, <1>5, <1>6 DEF IInv

(* Every step keeps the invariant.                                         *)
LEMMA NextIInv == IInv /\ [Next]_vars => IInv'
<1> SUFFICES ASSUME IInv, [Next]_vars PROVE IInv'
  OBVIOUS
<1>1. TypeOK /\ PlanInv /\ BufferInv /\ EvidenceInv /\ SessionInv /\ NoneOutside
  BY DEF IInv
<1>2. TypeOK'
  BY TypeNext
<1>3. PlanInv' /\ BufferInv' /\ EvidenceInv' /\ SessionInv' /\ NoneOutside'
  BY <1>1, PlanNext, BufferNext, EvidenceNext, SessionNext, OutsideNext
<1>4. NoErrorSwallowed' /\ CommittedIsWhole'
  BY <1>2, ErrorsNext, CommittedNext
<1> QED
  BY <1>2, <1>3, <1>4 DEF IInv

(* IInv holds in every reachable state.                                    *)
THEOREM Invariance == Spec => []IInv
BY InitIInv, NextIInv, PTL DEF Spec

(* The type invariant of the upload.                                       *)
THEOREM TypeCorrect == Spec => []TypeOK
<1>1. IInv => TypeOK
  BY DEF IInv
<1> QED
  BY <1>1, Invariance, PTL

(* Whatever failed, was cancelled or raced, a commit has every part.       *)
THEOREM CommitsWhole == Spec => []CommittedIsWhole
<1>1. IInv => CommittedIsWhole
  BY DEF IInv
<1> QED
  BY <1>1, Invariance, PTL

(* A missing part is always reported, unless the user cancelled.           *)
THEOREM ErrorsReported == Spec => []NoErrorSwallowed
<1>1. IInv => NoErrorSwallowed
  BY DEF IInv
<1> QED
  BY <1>1, Invariance, PTL

(* The v1 fallback never follows a v2 commit with one of its own.          *)
THEOREM CommitsOnce == Spec => []OneCommit
<1>1. IInv => OneCommit
  BY UploadAssumption DEF IInv, SessionInv, TypeOK, OneCommit
<1> QED
  BY <1>1, Invariance, PTL

(* No part's goroutine outlives the pool.                                  *)
THEOREM WorkersAwaited == Spec => []NoStrayWorker
<1>1. IInv => NoStrayWorker
  BY DEF IInv, NoneOutside, Outside, NoStrayWorker
<1> QED
  BY <1>1, Invariance, PTL

(* No buffer of the pool is lost or handed out twice.                      *)
THEOREM BuffersKept == Spec => []BuffersAccounted
<1>1. IInv => BuffersAccounted
  <2> SUFFICES ASSUME IInv PROVE BuffersAccounted
    OBVIOUS
  <2>1. BufferInv /\ TypeOK
    BY DEF IInv
  <2>2. CASE mode = "patch"
    BY <2>1, <2>2, UploadAssumption DEF BufferInv, BuffersAccounted
  <2>3. CASE mode # "patch"
    BY <2>1, <2>3 DEF BufferInv, BuffersAccounted
  <2> QED
    BY <2>2, <2>3
<1> QED
  BY <1>1, Invariance, PTL
=============================================================================
