------------------------------- MODULE Upload -------------------------------
(***************************************************************************)
(* Multipart upload of one file (internal/api/fs/upload.go): UploadFile    *)
(* tries the v2 protocol (a presign goroutine feeding a bounded channel, a *)
(* semaphore-bounded pool of part workers, a pool of part buffers, then    *)
(* complete or abort) and falls back to v1, where the plan holds every     *)
(* part up front.  A resumed upload and a patch run the same pool over a   *)
(* given plan; a resumed upload is never aborted.                          *)
(*                                                                         *)
(* A channel operation, a critical remote call or a context cancellation   *)
(* is one step.  The user may interrupt the command at any moment, any     *)
(* remote call may fail, and a call that fails may still have taken effect.*)
(***************************************************************************)
EXTENDS Naturals, Sequences, FiniteSets

CONSTANTS
  PartCounts,   \* numbers of parts a plan may have
  Parallelism,  \* boundedUploadParallelism: workers, buffers, channel room
  Modes         \* the entry points considered: "v2", "v1", "resume", "patch"

ASSUME UploadAssumption ==
  /\ PartCounts \subseteq Nat \ {0}
  /\ Parallelism \in Nat \ {0} /\ \A n \in PartCounts : Parallelism <= n
  /\ Modes \subseteq {"v2", "v1", "resume", "patch"}

Part == UNION {1 .. n : n \in PartCounts}
(* "gap": a 404/405-like answer that isV2NotAvailable recognises.           *)
Error == {"gap", "other"}
NoError == "none"

VARIABLES
  mode,       \* the protocol being run
  totalParts, \* plan.TotalParts: the parts of the file
  session,    \* session[m]: the server's upload session opened in mode m
  main,       \* control state of the calling goroutine
  part,       \* the part main has received from presignCh
  presigner,  \* control state of the presign goroutine
  nextBatch,  \* first part number of the next presign batch
  outbox,     \* presigned parts not yet sent
  presignCh,  \* the channel of presigned parts (the plan, outside v2)
  presignErr, \* content of presignErrCh
  errCh,      \* content of errCh
  worker,     \* control state of each part's goroutine
  buffers,    \* free buffers in the pool
  results,    \* parts whose result was recorded
  uploaded,   \* parts the object store holds for the session
  ctx,        \* which contexts are cancelled: the user's, main's, the pool's
  outcome     \* what the pool, then the command, returned

poolVars == <<part, errCh, worker, buffers, results, uploaded>>
presignVars == <<presigner, nextBatch, outbox, presignCh, presignErr>>
vars == <<mode, totalParts, session, main, poolVars, presignVars, ctx, outcome>>

MainDone == ctx.user \/ ctx.main
PoolDone == MainDone \/ ctx.pool

(* Mutant: an error channel without a buffer, which nobody is receiving on. *)
sendUnbuffered(done, ch, err) == {ch}

(* sendUploadErr(ctx, ch, err): a non-blocking send on a channel of         *)
(* capacity one, in one select with ctx.Done().                             *)
sendUploadErr(done, ch, err) ==
  IF ch # NoError THEN {ch} ELSE IF done THEN {err, ch} ELSE {err}

(* newUploadBufferPool, the channels and the pool's context.                *)
FreshPool(m) ==
  /\ part' = 0 /\ errCh' = NoError /\ buffers' = Parallelism
  /\ worker' = [p \in Part |-> "none"] /\ results' = {} /\ uploaded' = {}
  /\ presigner' = IF m = "v2" THEN "request" ELSE "closed"
  /\ nextBatch' = 1 /\ outbox' = <<>> /\ presignErr' = NoError
  /\ presignCh' = IF m = "v2" THEN <<>> ELSE [i \in 1 .. totalParts |-> i]

Init ==
  /\ mode \in Modes /\ totalParts \in PartCounts
  /\ session = [m \in {"v2", "v1", "resume", "patch"} |->
                  IF m = "resume" THEN "open" ELSE "none"]
  /\ main = "initiate" /\ outcome = "running"
  /\ part = 0 /\ errCh = NoError /\ buffers = Parallelism
  /\ worker = [p \in Part |-> "none"] /\ results = {} /\ uploaded = {}
  /\ presigner = "idle" /\ nextBatch = 1 /\ outbox = <<>>
  /\ presignErr = NoError /\ presignCh = <<>>
  /\ ctx = [user |-> FALSE, main |-> FALSE, pool |-> FALSE]

-----------------------------------------------------------------------------
(* InitiateUploadV2, InitiateUpload, ActiveUpload and RequestResume (on the *)
(* session an earlier command left open) or the PATCH request.              *)
Initiate ==
  /\ main = "initiate"
  /\ \/ /\ ~ctx.user
        /\ session' = [session EXCEPT ![mode] = "open"]
        /\ main' = "range"
        /\ FreshPool(mode)
        /\ UNCHANGED outcome
     \/ \E err \in Error, s \in {"none", "open"} :
          /\ err = "gap" => s = "none"
          /\ ctx.user => err = "other" /\ s = "none"
          /\ session' = [session EXCEPT ![mode] = IF mode = "resume" THEN @ ELSE s]
          /\ outcome' = err
          /\ main' = "return"
          /\ UNCHANGED <<poolVars, presignVars>>
  /\ UNCHANGED <<mode, totalParts, ctx>>

-----------------------------------------------------------------------------
(* Mutant: the last batch is not cut at plan.TotalParts.                    *)
LastUncut(start) == start + Parallelism - 1
LastOfBatch(start) ==
  IF start + Parallelism - 1 > totalParts THEN totalParts ELSE start + Parallelism - 1

(* Mutant: the send on presignCh is not in a select with ctx.Done().        *)
SendNotCancellable == FALSE
SendCancelled == MainDone

(* presignPipeline: ask for a batch of URLs, hand them out one by one,      *)
(* close the channel at the end or at the first error.                      *)
PresignRequest ==
  /\ presigner = "request"
  /\ \/ /\ nextBatch > totalParts
        /\ presigner' = "closed"
        /\ UNCHANGED <<nextBatch, outbox, presignErr>>
     \/ /\ nextBatch <= totalParts /\ ~MainDone
        /\ outbox' = [i \in 1 .. LastOfBatch(nextBatch) - nextBatch + 1 |-> nextBatch + i - 1]
        /\ nextBatch' = nextBatch + Parallelism
        /\ presigner' = "send"
        /\ UNCHANGED presignErr
     \/ /\ nextBatch <= totalParts
        /\ \E err \in IF MainDone THEN {"other"} ELSE Error :
             presignErr' \in sendUploadErr(MainDone, presignErr, err)
        /\ presigner' = "closed"
        /\ UNCHANGED <<nextBatch, outbox>>
  /\ UNCHANGED <<mode, totalParts, session, main, poolVars, presignCh, ctx, outcome>>

PresignSend ==
  /\ presigner = "send"
  /\ \/ /\ outbox = <<>>
        /\ presigner' = "request"
        /\ UNCHANGED <<outbox, presignCh, presignErr>>
     \/ /\ outbox # <<>> /\ Len(presignCh) < Parallelism
        /\ presignCh' = Append(presignCh, Head(outbox))
        /\ outbox' = Tail(outbox)
        /\ UNCHANGED <<presigner, presignErr>>
     \/ /\ outbox # <<>> /\ SendCancelled
        /\ presignErr' \in sendUploadErr(FALSE, presignErr, "other")
        /\ presigner' = "closed"
        /\ UNCHANGED <<outbox, presignCh>>
  /\ UNCHANGED <<mode, totalParts, session, main, poolVars, nextBatch, ctx, outcome>>

-----------------------------------------------------------------------------
(* uploadPartsV2 / UploadPlanParts / UploadPatchParts, the calling side.    *)
MainReceive ==
  /\ main = "range"
  /\ \/ /\ presignCh # <<>>
        /\ part' = Head(presignCh)
        /\ presignCh' = Tail(presignCh)
        /\ main' = "checkPresign"
     \/ /\ presignCh = <<>> /\ presigner = "closed"
        /\ main' = "wait"
        /\ UNCHANGED <<part, presignCh>>
  /\ UNCHANGED <<mode, totalParts, session, errCh, worker, buffers, results, uploaded,
                 presigner,
                 nextBatch, outbox, presignErr, ctx, outcome>>

MainCheckPresign ==
  /\ main = "checkPresign"
  /\ IF presignErr # NoError
       THEN /\ presignErr' = NoError /\ outcome' = presignErr
            /\ ctx' = [ctx EXCEPT !.pool = TRUE]
            /\ main' = "failWait"
       ELSE main' = "checkErr" /\ UNCHANGED <<presignErr, outcome, ctx>>
  /\ UNCHANGED <<mode, totalParts, session, poolVars, presigner, nextBatch, outbox, presignCh>>

MainCheckErr ==
  /\ main = "checkErr"
  /\ IF errCh # NoError
       THEN /\ errCh' = NoError /\ outcome' = errCh
            /\ ctx' = [ctx EXCEPT !.pool = TRUE]
            /\ main' = "failWait"
       ELSE main' = "acquire" /\ UNCHANGED <<errCh, outcome, ctx>>
  /\ UNCHANGED <<mode, totalParts, session, part, worker, buffers, results, uploaded,
                 presignVars>>

Running == {p \in Part : worker[p] \notin {"none", "gone"}}

SemaphoreFree == Cardinality(Running) < Parallelism

(* sem <- struct{}{} and the go statement, or the pool's context is done.   *)
MainAcquire ==
  /\ main = "acquire"
  /\ \/ /\ SemaphoreFree
        /\ worker' = [worker EXCEPT ![part] = IF mode = "patch" THEN "read" ELSE "getBuffer"]
        /\ main' = "range"
        /\ UNCHANGED outcome
     \/ /\ PoolDone
        /\ main' = "failWait" /\ outcome' = "other"
        /\ UNCHANGED worker
  /\ UNCHANGED <<mode, totalParts, session, part, errCh, buffers, results, uploaded,
                 presignVars, ctx>>

(* Mutant: the pool returns without wg.Wait().                              *)
NotAwaited == TRUE
WorkersDone == Running = {}

(* wg.Wait(), the last look at both error channels, and the deferred cancel.*)
PoolReturns ==
  /\ main \in {"wait", "failWait"}
  /\ WorkersDone
  /\ outcome' = IF main = "failWait" THEN outcome
                ELSE IF presignErr # NoError THEN presignErr
                ELSE IF errCh # NoError THEN errCh ELSE "nil"
  /\ main' = IF outcome' = "nil" THEN "complete" ELSE "abort"
  /\ ctx' = [ctx EXCEPT !.pool = TRUE]
  /\ UNCHANGED <<mode, totalParts, session, poolVars, presignVars>>

-----------------------------------------------------------------------------
(* A part's goroutine.  The deferred calls run in reverse order: the buffer *)
(* goes back before the semaphore is released.                              *)
Goto(p, state) == worker' = [worker EXCEPT ![p] = state]
(* Mutant: the buffer is not given back on the way out.                     *)
LeavesWithBuffer == "release"
(* UploadPatchParts works without the buffer pool.                          *)
Leaving == IF mode = "patch" THEN "release" ELSE "putBuffer"

WorkerGetBuffer(p) ==
  /\ worker[p] = "getBuffer"
  /\ \/ buffers > 0 /\ buffers' = buffers - 1 /\ Goto(p, "read")
     \/ PoolDone /\ UNCHANGED buffers /\ Goto(p, "release")
  /\ UNCHANGED <<mode, totalParts, session, main, part, errCh, results, uploaded,
                 presignVars, ctx, outcome>>

(* ReadAt may fail or come up short.                                        *)
WorkerRead(p) ==
  /\ worker[p] = "read"
  /\ Goto(p, "put") \/ Goto(p, "fail")
  /\ UNCHANGED <<mode, totalParts, session, main, part, errCh, buffers, results, uploaded,
                 presignVars,
                 ctx, outcome>>

(* uploadPresignedPartV2: a 403 in v2 is retried once with a fresh URL.     *)
WorkerPut(p) ==
  /\ worker[p] \in {"put", "putAgain"}
  /\ \/ /\ ~PoolDone
        /\ uploaded' = uploaded \cup {p} /\ results' = results \cup {p}
        /\ Goto(p, Leaving)
     \/ /\ uploaded' \in {uploaded, uploaded \cup {p}}
        /\ UNCHANGED results
        /\ Goto(p, "fail")
     \/ /\ worker[p] = "put" /\ mode = "v2" /\ ~PoolDone
        /\ UNCHANGED <<uploaded, results>>
        /\ Goto(p, "presignOne")
  /\ UNCHANGED <<mode, totalParts, session, main, part, errCh, buffers, presignVars, ctx,
                 outcome>>

PresignOnePart(p) ==
  /\ worker[p] = "presignOne"
  /\ \/ ~PoolDone /\ Goto(p, "putAgain")
     \/ ~PoolDone /\ Goto(p, "failGap")
     \/ Goto(p, "fail")
  /\ UNCHANGED <<mode, totalParts, session, main, part, errCh, buffers, results, uploaded,
                 presignVars,
                 ctx, outcome>>

(* The error is offered to errCh before the pool's context is cancelled.    *)
WorkerSendsError(p) ==
  /\ worker[p] \in {"fail", "failGap"}
  /\ errCh' \in sendUploadErr(PoolDone, errCh, IF worker[p] = "fail" THEN "other" ELSE "gap")
  /\ Goto(p, "cancel")
  /\ UNCHANGED <<mode, totalParts, session, main, part, buffers, results, uploaded,
                 presignVars, ctx, outcome>>

WorkerCancels(p) ==
  /\ worker[p] = "cancel"
  /\ ctx' = [ctx EXCEPT !.pool = TRUE]
  /\ Goto(p, Leaving)
  /\ UNCHANGED <<mode, totalParts, session, main, part, errCh, buffers, results, uploaded,
                 presignVars, outcome>>

WorkerPutsBuffer(p) ==
  /\ worker[p] = "putBuffer"
  /\ buffers' = buffers + 1
  /\ Goto(p, "release")
  /\ UNCHANGED <<mode, totalParts, session, main, part, errCh, results, uploaded,
                 presignVars, ctx, outcome>>

WorkerReleases(p) ==
  /\ worker[p] = "release"
  /\ Goto(p, "gone")
  /\ UNCHANGED <<mode, totalParts, session, main, part, errCh, buffers, results, uploaded,
                 presignVars,
                 ctx, outcome>>

-----------------------------------------------------------------------------
(* Mutant: complete is called with context.Background().                    *)
CompleteUncancellable == FALSE
CompleteCancelled == ctx.user

(* CompleteUpload(V2) under the command's context.                          *)
Complete ==
  /\ main = "complete"
  /\ \/ /\ ~CompleteCancelled
        /\ session' = [session EXCEPT ![mode] = "committed"]
        /\ main' = "return"
        /\ UNCHANGED outcome
     \/ /\ \E err \in IF CompleteCancelled THEN {"other"} ELSE Error : outcome' = err
        /\ session' \in {session} \cup
             IF CompleteCancelled \/ outcome' = "gap" THEN {}
             ELSE {[session EXCEPT ![mode] = "committed"]}
        /\ main' = "abort"
  /\ UNCHANGED <<mode, totalParts, poolVars, presignVars, ctx>>

AbortsOnFailure == mode # "resume"

(* AbortUpload(V2) runs under a context the user cannot cancel, and its     *)
(* failure is ignored; a resumed upload keeps its session.                  *)
Abort ==
  /\ main = "abort"
  /\ session' \in {session} \cup
       IF AbortsOnFailure /\ session[mode] = "open"
         THEN {[session EXCEPT ![mode] = "aborted"]} ELSE {}
  /\ main' = "return"
  /\ UNCHANGED <<mode, totalParts, poolVars, presignVars, ctx, outcome>>

(* Mutant: any failure of v2 falls back to v1.                              *)
AnyErrorFallsBack(err) == err # "nil"
isV2NotAvailable(err) == err = "gap"

(* The command returns, and its deferred cancel releases the presigner; or  *)
(* UploadFile falls back from v2 to v1, after that cancel.                  *)
Return ==
  /\ main = "return"
  /\ ctx' = [ctx EXCEPT !.main = TRUE]
  /\ main' = IF mode = "v2" /\ isV2NotAvailable(outcome) THEN "fallback" ELSE "end"
  /\ UNCHANGED <<mode, totalParts, session, poolVars, presignVars, outcome>>

(* The v1 attempt has contexts and channels of its own.  The code does not  *)
(* wait for the cancelled v2 presigner, whose channels nobody reads any     *)
(* more; waiting for it here lets one set of presigner variables serve both.*)
Fallback ==
  /\ main = "fallback"
  /\ presigner \in {"idle", "closed"}
  /\ mode' = "v1" /\ outcome' = "running" /\ main' = "initiate"
  /\ ctx' = [ctx EXCEPT !.main = FALSE, !.pool = FALSE]
  /\ UNCHANGED <<totalParts, session, poolVars, presignVars>>

Interrupt ==
  /\ ~ctx.user
  /\ main # "end"
  /\ ctx' = [ctx EXCEPT !.user = TRUE]
  /\ UNCHANGED <<mode, totalParts, session, main, poolVars, presignVars, outcome>>

Finished == main = "end" /\ presigner \in {"idle", "closed"} /\ UNCHANGED vars

WorkerStep(p) == WorkerGetBuffer(p) \/ WorkerRead(p) \/ WorkerPut(p) \/ PresignOnePart(p)
                   \/ WorkerSendsError(p) \/ WorkerCancels(p) \/ WorkerPutsBuffer(p)
                   \/ WorkerReleases(p)
PresignStep == PresignRequest \/ PresignSend
MainStep == Initiate \/ MainReceive \/ MainCheckPresign \/ MainCheckErr \/ MainAcquire
              \/ PoolReturns \/ Complete \/ Abort \/ Return \/ Fallback

Next == MainStep \/ PresignStep \/ (\E p \in Part : WorkerStep(p)) \/ Interrupt \/ Finished

Spec == Init /\ [][Next]_vars

(* Goroutines are scheduled, and every remote call returns.                 *)
Fairness == /\ WF_vars(MainStep) /\ WF_vars(PresignStep)
            /\ \A p \in Part : WF_vars(WorkerStep(p))
FairSpec == Spec /\ Fairness

-----------------------------------------------------------------------------
TypeOK ==
  /\ mode \in Modes \cup {"v1"} /\ totalParts \in PartCounts
  /\ session \in [{"v2", "v1", "resume", "patch"} -> {"none", "open", "committed", "aborted"}]
  /\ main \in {"initiate", "range", "checkPresign", "checkErr", "acquire", "wait", "failWait",
               "complete", "abort", "return", "fallback", "end"}
  /\ part \in 0 .. totalParts
  /\ presigner \in {"idle", "request", "send", "closed"}
  /\ nextBatch \in 1 .. totalParts + Parallelism
  /\ outbox \in Seq(1 .. totalParts) /\ presignCh \in Seq(1 .. totalParts)
  /\ presignErr \in Error \cup {NoError} /\ errCh \in Error \cup {NoError}
  /\ worker \in [Part -> {"none", "getBuffer", "read", "put", "putAgain", "presignOne", "fail",
                          "failGap", "cancel", "putBuffer", "release", "gone"}]
  /\ buffers \in 0 .. Parallelism
  /\ results \subseteq 1 .. totalParts /\ uploaded \subseteq 1 .. totalParts
  /\ ctx \in [user : BOOLEAN, main : BOOLEAN, pool : BOOLEAN]
  /\ outcome \in Error \cup {"running", "nil"}

(* Whatever failed, was cancelled or raced, an upload is committed only     *)
(* when every one of its parts was uploaded: a worker that gives up silently*)
(* on a cancelled context (bufferPool.get, sendUploadErr) never leads to a  *)
(* commit with a hole.                                                      *)
CommittedIsWhole ==
  session[mode] = "committed" => results = 1 .. totalParts /\ uploaded = 1 .. totalParts

(* uploadPartsV2 and UploadPlanParts return nil with a part missing only if *)
(* the user cancelled: no failure of a worker or of the presigner is        *)
(* swallowed by the capacity-one error channels or by an early cancel.      *)
NoErrorSwallowed == main = "complete" => results = 1 .. totalParts \/ ctx.user

(* The v1 fallback never commits a file the v2 attempt already committed.   *)
OneCommit == ~(session["v2"] = "committed" /\ session["v1"] = "committed")

(* No worker outlives the call that started it: none still reads the file,  *)
(* puts a part or writes results once complete, abort or the fallback runs. *)
NoStrayWorker ==
  main \in {"complete", "abort", "return", "fallback", "end"} => Running = {}

(* Every buffer of the pool is free or held by exactly one goroutine,       *)
(* whichever way a goroutine took out (a short read, an expired URL, a      *)
(* refused presign, a cancelled pool, success): one lost or returned twice  *)
(* would stop a later part for ever, or let two parts share their bytes.    *)
Holding == {"read", "put", "putAgain", "presignOne", "fail", "failGap", "cancel", "putBuffer"}
Holders == {p \in 1 .. totalParts : worker[p] \in Holding}
BuffersAccounted ==
  buffers + (IF mode = "patch" THEN 0 ELSE Cardinality(Holders)) = Parallelism

(* Every command ends and leaves no goroutine behind: the presigner blocked *)
(* on a full channel is released by the deferred cancel.                    *)
NoGoroutineLeak == <>(main = "end" /\ presigner \in {"idle", "closed"} /\ Running = {})
=============================================================================
