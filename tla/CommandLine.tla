---------------------------- MODULE CommandLine ----------------------------
(***************************************************************************)
(* One invocation of ti, for every command of Commands.tla, against a      *)
(* server that may refuse, lose a reply after acting on the request, or be *)
(* used by somebody else at the same time, on a machine where every local  *)
(* step may fail and the user may press Ctrl-C at any moment.              *)
(*                                                                         *)
(* The module gives every kind of step its meaning: which calls are made   *)
(* again after a transient failure (drive9RunTransientRetry,               *)
(* drive9RunIdempotentDelete, api.Client.do), which failures a command     *)
(* swallows, which it undoes, and when it reports success.                 *)
(***************************************************************************)
EXTENDS Commands, Naturals

CONSTANTS MaxAttempts,  \* attempts of a repeated call (three in the code)
          MaxChanges    \* changes another client makes to the object

ASSUME CommandLineAssumptions == MaxAttempts \in Nat \ {0} /\ MaxChanges \in Nat

VARIABLES
    command,   \* the command that runs
    dryRun,    \* with --dry-run
    script,    \* what its flags make it do
    pc,        \* the step it is at
    tries,     \* attempts of this step that failed transiently
    failed,    \* an error is remembered while a later step still runs
    exit,      \* "starting", "refused", "running", "ok" or "error"
    canceled,  \* the context of the command is done
    object,    \* the remote object: "absent", "theirs" (as it was) or "ours"
    seen,      \* every value that object has had since the command began
    acts,      \* how often an "act" was applied
    applied,   \* the effects that the server applied for this command
    files,     \* what the command changed in the local files
    changes    \* changes made by the other client

vars == <<command, dryRun, script, pc, tries, failed, exit, canceled,
          object, seen, acts, applied, files, changes>>
remoteVars == <<object, seen, acts, applied>>

CompanionKinds ==
    {"companion", "retried", "deleted", "probe", "ignored", "tolerated", "observed", "deferred"}
RemoteKinds == CompanionKinds \cup {"api", "once"}
WaitKinds == {"poll", "attempts"}

\* What a command leaves beside its effects, a dry run included: the home it
\* migrates and the id of the installation, the operation log, the home of the
\* companion, and the empty root of a mount's overlay.
Housekeeping == {"state", "log", "companionHome", "overlay"}

-----------------------------------------------------------------------------
\* A mutating command decides between its dry run and itself; a command without
\* the flag has no dry run.
Init ==
    /\ command \in DOMAIN newRootCommand
    /\ dryRun \in BOOLEAN
    /\ script \in (IF dryRun THEN newRootCommand[command].dryRun ELSE newRootCommand[command].run)
    /\ pc = 1 /\ tries = 0 /\ failed = FALSE
    /\ exit = "starting" /\ canceled = FALSE
    /\ object \in {"absent", "theirs"} /\ seen = {object}
    /\ acts = 0 /\ applied = {} /\ files = {} /\ changes = 0

Going == exit \in {"starting", "running"}
Running == exit = "running" /\ pc <= Len(script)
step == script[pc]
Advance == pc' = pc + 1 /\ tries' = 0 /\ UNCHANGED exit
End(status) == exit' = status /\ UNCHANGED <<pc, tries>>

-----------------------------------------------------------------------------
\* Around every command.

\* The environment is looked at and ~/.tdc migrated, or the command is refused;
\* the id that telemetry reports is made.  ti update does neither.  (A short flag is
\* refused a little later; it counts as one of the flags a command checks.)
Execute ==
    /\ exit = "starting"
    /\ IF command = "update"
       THEN exit' = "running" /\ UNCHANGED files
       ELSE exit' \in {"running", "refused"} /\ files' \in {files, files \cup {"state"}}
    /\ UNCHANGED <<command, dryRun, script, pc, tries, failed, canceled, changes, remoteVars>>

\* Each request and the end of the command are added to the operation log,
\* unless it is off or cannot be written.
Record ==
    /\ exit \in {"running", "ok", "error"} /\ command # "update" /\ "log" \notin files
    /\ files' = files \cup {"log"}
    /\ UNCHANGED <<command, dryRun, script, pc, tries, failed, exit, canceled, changes, remoteVars>>

\* A run of the companion first makes the home it is given, unless it is there;
\* a mount without its locator is stopped by such a run.
RunsCompanion(s) ==
    s.kind \in CompanionKinds \cup {"attempts"} \/ (s.kind = "guard" /\ s.effect = "locator")
prepareHome(s) ==
    files' = files \/ (RunsCompanion(s) /\ files' = files \cup {"companionHome"})

-----------------------------------------------------------------------------
\* The server.

Answer(effect) ==
    CASE effect = "create" /\ object # "absent" -> "refused"
      [] effect = "delete" /\ object = "absent" -> "missing"
      [] OTHER -> "ok"

Apply(effect) ==
    /\ object' = CASE effect \in {"set", "create"} -> "ours"
                   [] effect = "delete" -> "absent"
                   [] OTHER -> object
    /\ seen' = seen \cup {object'}
    /\ acts' = IF effect = "act" THEN acts + 1 ELSE acts
    /\ applied' = IF effect = "none" THEN applied ELSE applied \cup {effect}

\* One exchange and what the client learns of it.  A transient failure says
\* nothing about whether the request was carried out.
Exchange(effect, result) ==
    \/ /\ result = Answer(effect)
       /\ IF result = "ok" THEN Apply(effect) ELSE UNCHANGED remoteVars
    \/ /\ result = "transient"
       /\ \/ Answer(effect) = "ok" /\ Apply(effect)
          \/ UNCHANGED remoteVars
    \/ result = "refused" /\ UNCHANGED remoteVars

\* The probe of an upload reads whether the target is there.
ProbeAnswer(result) ==
    /\ result \in {"transient", "refused", IF object = "absent" THEN "missing" ELSE "ok"}
    /\ UNCHANGED remoteVars

-----------------------------------------------------------------------------
\* The client: what it makes of a result, per kind of call.

RetriesEveryMethod(s) == TRUE
\* Only a request without side effects is sent again by the transport.
retryableRequest(s) == s.method = "GET"

RetriesOnceMore(s) ==
    s.kind \in {"retried", "deleted", "probe"} \/ (s.kind = "api" /\ retryableRequest(s))
Repeats(s, result) ==
    result = "transient" /\ RetriesOnceMore(s) /\ tries + 1 < MaxAttempts

AcceptsExhausted(s, result) == result = "ok" \/ (result = "transient" /\ tries + 1 = MaxAttempts)
drive9RunTransientRetry(s, result) == result = "ok"
\* A repeated delete that finds nothing has been carried out by an attempt
\* whose reply was lost.
drive9RunIdempotentDelete(s, result) == result = "ok" \/ (result = "missing" /\ tries > 0)
ProbeTakesErrorsForAbsence(result) == result # "ok"
ProbeAccepts(result) == result = "missing"

Accepts(s, result) ==
    CASE s.kind = "retried" -> drive9RunTransientRetry(s, result)
      [] s.kind = "deleted" -> drive9RunIdempotentDelete(s, result)
      [] s.kind = "probe" -> ProbeAccepts(result)
      [] s.kind = "ignored" -> result \in {"ok", "missing"}
      [] s.kind \in {"tolerated", "observed"} -> TRUE
      [] OTHER -> result = "ok"

Rejected(s) ==
    IF s.kind = "deferred" THEN failed' = TRUE /\ Advance ELSE End("error") /\ UNCHANGED failed

\* A call that the server answers, or whose answer is lost.
Call ==
    /\ Running /\ ~canceled /\ step.kind \in RemoteKinds
    /\ \E result \in {"ok", "missing", "refused", "transient"} :
        /\ IF step.kind = "probe" THEN ProbeAnswer(result) ELSE Exchange(step.effect, result)
        /\ \/ Accepts(step, result) /\ Advance /\ UNCHANGED failed
           \/ /\ ~Accepts(step, result) /\ Repeats(step, result)
              /\ tries' = tries + 1 /\ UNCHANGED <<pc, exit, failed>>
           \/ ~Accepts(step, result) /\ ~Repeats(step, result) /\ Rejected(step)
    /\ prepareHome(step)
    /\ UNCHANGED <<command, dryRun, script, canceled, changes>>

\* After Ctrl-C no call is started any more: the step fails with the context's
\* error, also in the pause between two attempts.
CallCanceled ==
    /\ Running /\ canceled /\ step.kind \in RemoteKinds \cup WaitKinds
    /\ \/ step.kind \in {"tolerated", "observed"} /\ Advance /\ UNCHANGED failed
       \/ step.kind \notin {"tolerated", "observed"} /\ Rejected(step)
    /\ prepareHome(step)
    /\ UNCHANGED <<command, dryRun, script, canceled, changes, remoteVars>>

\* A wait loop ends: ready, failed for good, or at its deadline.
PollEnds ==
    /\ Running /\ ~canceled /\ step.kind \in WaitKinds
    /\ (Advance \/ End("error"))
    /\ prepareHome(step)
    /\ UNCHANGED <<command, dryRun, script, failed, canceled, changes, remoteVars>>

\* Validation, configuration, credentials.
LocalCheck ==
    /\ Running /\ step.kind \in {"check", "profile", "resolve"}
    /\ (Advance \/ End("error"))
    /\ UNCHANGED <<command, dryRun, script, failed, canceled, files, changes, remoteVars>>

\* A record without which there is nothing to do.
LookUp ==
    /\ Running /\ step.kind = "known"
    /\ (Advance \/ End("ok") \/ End("error"))
    /\ UNCHANGED <<command, dryRun, script, failed, canceled, files, changes, remoteVars>>

\* A local write succeeds; the legacy registry may have nothing to migrate, and
\* the audit of an unpacked overlay may pass without touching anything.
LocalWrite ==
    /\ Running /\ step.kind \in {"write", "offer", "guard", "migrate", "audit"}
    /\ \/ files' = files \cup {step.effect}
       \/ step.kind \in {"migrate", "audit"} /\ UNCHANGED files
    /\ Advance
    /\ UNCHANGED <<command, dryRun, script, failed, canceled, changes, remoteVars>>

\* It fails: the command fails, unless the write was only offered.  A mount or
\* token that could not be recorded is first taken back, with the same context.
LocalWriteFails ==
    /\ Running /\ step.kind \in {"write", "offer", "guard", "migrate", "audit"}
    /\ End(IF step.kind = "offer" THEN "ok" ELSE "error")
    /\ IF step.kind = "guard" /\ ~canceled
       THEN \E result \in {"ok", "missing", "refused", "transient"} : Exchange("delete", result)
       ELSE UNCHANGED remoteVars
    /\ prepareHome(step)
    /\ UNCHANGED <<command, dryRun, script, failed, canceled, changes>>

\* The result is rendered; an error that was remembered is reported now, and a
\* --query that cannot be applied is only noticed here.
Return ==
    /\ exit = "running" /\ pc > Len(script)
    /\ exit' \in (IF failed THEN {"error"} ELSE {"ok", "error"})
    /\ UNCHANGED <<command, dryRun, script, pc, tries, failed, canceled, files, changes, remoteVars>>

Interrupt ==
    /\ Going /\ ~canceled
    /\ canceled' = TRUE
    /\ UNCHANGED <<command, dryRun, script, pc, tries, failed, exit, files, changes, remoteVars>>

\* Another client creates, replaces or removes the object.
OtherClient ==
    /\ Going /\ changes < MaxChanges
    /\ changes' = changes + 1
    /\ object' \in {"absent", "theirs"} /\ seen' = seen \cup {object'}
    /\ UNCHANGED <<command, dryRun, script, pc, tries, failed, exit, canceled, acts, applied, files>>

Ended == ~Going /\ UNCHANGED vars

CommandStep ==
    \/ Call \/ CallCanceled \/ PollEnds \/ LocalCheck \/ LookUp
    \/ LocalWrite \/ LocalWriteFails \/ Return \/ Execute \/ Record

Next == CommandStep \/ Interrupt \/ OtherClient \/ Ended

Spec == Init /\ [][Next]_vars

-----------------------------------------------------------------------------
\* --dry-run makes no request that mutates, and stores, selects and removes
\* nothing here: no credential, no entry of the name registry, no locator, no
\* password.  What it leaves behind is the housekeeping of every command.
DryRunOnlyPrepares == dryRun => applied = {} /\ files \subseteq Housekeeping

\* A request whose repetition would count is applied at most once, whatever is
\* lost or interrupted: it is never sent again after it may have reached the
\* server.  create-layer-checkpoint is the exception: it is repeated.
AtMostOnce == command # "create_layer_checkpoint" => acts <= 1

Owed == {script[i] : i \in 1 .. (pc - 1)}

\* What a step that succeeded must have brought about at some moment since the
\* command began.
BroughtAbout(s) ==
    s.kind \notin {"ignored", "tolerated", "observed", "migrate", "audit"} =>
      CASE s.effect \in {"set", "create"} -> "ours" \in seen
        [] s.effect = "delete" -> "absent" \in seen
        [] s.effect = "act" -> acts > 0
        [] s.effect = "none" -> TRUE
        [] OTHER -> s.effect \in files

\* A command that reports success has done all it is for: nothing that a retry
\* loop, a swallowed error or a lost reply hides is missing.
SuccessMeansDone == exit = "ok" /\ ~failed => \A s \in Owed : BroughtAbout(s)

\* An upload without --overwrite never replaces a file that was there when the
\* command began and that nobody else has touched.
KeepsExisting ==
    changes = 0 /\ (\E i \in DOMAIN script : script[i].kind = "probe") /\ "theirs" \in seen
        => object = "theirs"
=============================================================================
