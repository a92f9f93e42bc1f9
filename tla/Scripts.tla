------------------------------ MODULE Scripts ------------------------------
(***************************************************************************)
(* The vocabulary in which the operations of ti are written down: what one *)
(* invocation does, in the order in which it does it.                      *)
(*                                                                         *)
(* An operation is a SET of scripts, one for every choice its flags leave  *)
(* open, and a script is a sequence of steps.  A step that fails ends the  *)
(* command unless its kind says otherwise; CommandLine.tla gives every     *)
(* kind its meaning.  The kinds are the ways the Go code calls something   *)
(* that can fail:                                                          *)
(*                                                                         *)
(*   check     flags, local input or a response is validated               *)
(*   profile   the configuration profile is loaded                         *)
(*   migrate   the legacy name registry is folded into the credential file *)
(*   resolve   a file system credential is selected                        *)
(*   api       one HTTP exchange through api.Client                        *)
(*   companion one run of the companion, never repeated                    *)
(*   retried   drive9RunTransientRetry                                     *)
(*   deleted   drive9RunIdempotentDelete                                   *)
(*   probe     ensureDrive9UploadTargetAbsent                              *)
(*   ignored   a companion run whose "not found" is not an error           *)
(*   tolerated a companion run whose failure is not an error               *)
(*   observed  a companion run whose failure is the answer                 *)
(*   deferred  a companion run whose failure is reported at the end        *)
(*   once      another call, never repeated, that leaves nothing here: a   *)
(*             SQL statement, the companion in a temporary home            *)
(*   poll      a wait loop with a deadline                                 *)
(*   attempts  a wait loop that runs the companion                         *)
(*   write     a local file is written or removed                          *)
(*   audit     what was unpacked is looked through, and links are removed  *)
(*   offer     a local write whose failure ends the command with success   *)
(*   guard     a local write whose failure is undone by a companion run    *)
(*   known     a local record is looked up; without it the command is done *)
(*                                                                         *)
(* An effect is what a remote step does to the object the command is       *)
(* about: "none" (a read), "set" (replaces, may be repeated), "create"     *)
(* (refused when the object exists), "delete" (not found when it does      *)
(* not), "act" (every application counts: the server names what it         *)
(* creates, or the operation advances something).                          *)
(***************************************************************************)
EXTENDS Sequences

Effects == {"none", "set", "create", "delete", "act"}

Step(kind, effect) == {<<[kind |-> kind, effect |-> effect]>>}

\* One after the other, for every choice of both.
A ++ B == {a \o b : a \in A, b \in B}

\* What a flag may leave out.
Optional(A) == A \cup {<<>>}

Check == Step("check", "none")
Profile == Step("profile", "none")
Migrate == Step("migrate", "registry")
Resolve == Step("resolve", "none")

Api(method, effect) ==
    {<<[kind |-> "api", effect |-> effect, method |-> method]>>}
Get == Api("GET", "none")
Companion(effect) == Step("companion", effect)
Retried(effect) == Step("retried", effect)
Once(effect) == Step("once", effect)
Deleted == Step("deleted", "delete")
Poll == Step("poll", "none")
Attempts == Step("attempts", "none")
Write(file) == Step("write", file)

\* A command of the CLI: what it does, and what it does under --dry-run (no
\* script at all when the command has no such flag).
Command(run, dryRun) == [run |-> run, dryRun |-> dryRun]
ReadOnly(run) == Command(run, {})
=============================================================================
