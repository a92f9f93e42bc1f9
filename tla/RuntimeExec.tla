---------------------------- MODULE RuntimeExec -----------------------------
(***************************************************************************)
(* `ti exec` (cli/exec.go, runtimeexec/service.go, fswrap/runner.go,       *)
(* interrupt/context.go): the local companion is probed, the credential is *)
(* resolved, and then one companion process runs the remote command.  Once *)
(* it is started ti only relays: its signals to the companion and the exit *)
(* status back.  Three parties move: the signal relay of NotifyContext,    *)
(* the command, and the companion.                                         *)
(***************************************************************************)
EXTENDS Naturals

CONSTANTS MaxSignals,  \* how often the user interrupts
          ChannelSize  \* the buffer of the two signal channels

VARIABLES
    signals,    \* signals that signal.Notify put in the first channel
    incoming,   \* of them, the ones still in that channel
    relay,      \* the goroutine of notifyContext: "idle", "sending" or "gone"
    outgoing,   \* signals in the second channel
    cause,      \* why the context is done: "none", "signal" or "parent"
    parentDone, \* the context around it was canceled
    command,    \* where the command stands
    armed,      \* waitStreaming still listens to ctx.Done
    child,      \* the companion: "none", "running", "zero", "nonzero" or "killed"
    forwarded,  \* signals the companion was sent
    outcome     \* what ti reports

execVars == <<signals, incoming, relay, outgoing, cause, parentDone, command,
              armed, child, forwarded, outcome>>
relayVars == <<signals, incoming, relay, outgoing, cause, parentDone>>

Init ==
    /\ signals = 0 /\ incoming = 0 /\ relay = "idle" /\ outgoing = 0
    /\ cause = "none" /\ parentDone = FALSE
    /\ command = "probe" /\ armed = TRUE /\ child = "none"
    /\ forwarded = 0 /\ outcome = "none"

Done == cause # "none"
Running == outcome = "none"

-----------------------------------------------------------------------------
\* The process receives SIGINT or SIGTERM; one that finds the channel full is lost.
Signal ==
    /\ Running /\ signals < MaxSignals /\ incoming < ChannelSize
    /\ signals' = signals + 1 /\ incoming' = incoming + 1
    /\ UNCHANGED <<relay, outgoing, cause, parentDone, command, armed, child, forwarded, outcome>>

Cancel(why) == cause' = IF Done THEN cause ELSE why

\* The context around the command is canceled, which main never does and a caller
\* of the package may do.
CancelParent ==
    /\ Running /\ ~parentDone
    /\ parentDone' = TRUE /\ Cancel("parent")
    /\ UNCHANGED <<signals, incoming, relay, outgoing, command, armed, child, forwarded, outcome>>

\* notifyContext: the context is canceled before the signal is passed on, so that
\* whoever sees the one may not see the other yet.
RelayTake ==
    /\ Running /\ relay = "idle" /\ incoming > 0
    /\ incoming' = incoming - 1 /\ relay' = "sending" /\ Cancel("signal")
    /\ UNCHANGED <<signals, outgoing, parentDone, command, armed, child, forwarded, outcome>>

EndsAfterFirst == "gone"
relayNext == "idle"

RelaySend ==
    /\ Running /\ relay = "sending" /\ outgoing < ChannelSize
    /\ outgoing' = outgoing + 1 /\ relay' = relayNext
    /\ UNCHANGED <<signals, incoming, cause, parentDone, command, armed, child, forwarded, outcome>>

RelayEnd ==
    /\ Running /\ parentDone /\ relay # "gone"
    /\ relay' = "gone"
    /\ UNCHANGED <<signals, incoming, outgoing, cause, parentDone, command, armed, child, forwarded, outcome>>

-----------------------------------------------------------------------------
Return(what) == outcome' = what /\ command' = "ended"

\* Preflight: the probe is killed after ten seconds or when the context is done.
Preflight ==
    /\ command = "probe" /\ Running
    /\ \/ Done /\ Return("canceled")
       \/ ~Done /\ Return("refused")
       \/ ~Done /\ command' = "resolve" /\ UNCHANGED outcome
    /\ UNCHANGED <<relayVars, armed, child, forwarded>>

\* LoadLocalProfile and fsResolveAuthenticatedProfile, which may fail.
ResolveCredential ==
    /\ command = "resolve" /\ Running
    /\ \/ Return("refused")
       \/ command' = "prepare" /\ UNCHANGED outcome
    /\ UNCHANGED <<relayVars, armed, child, forwarded>>

\* RunStreaming, up to the second look at the context.
RunStreaming ==
    /\ command = "prepare" /\ Running
    /\ \/ Done /\ Return("canceled")
       \/ ~Done /\ Return("refused")
       \/ ~Done /\ command' = "start" /\ UNCHANGED outcome
    /\ UNCHANGED <<relayVars, armed, child, forwarded>>

\* The context may become done between its last check and cmd.Start.
StartCompanion ==
    /\ command = "start" /\ Running
    /\ \/ Return("refused") /\ UNCHANGED child
       \/ command' = "wait" /\ child' = "running" /\ UNCHANGED outcome
    /\ UNCHANGED <<relayVars, armed, forwarded>>

\* The companion runs the remote command to its end, whatever it was sent.
CompanionExits ==
    /\ child = "running"
    /\ child' \in {"zero", "nonzero", "killed"}
    /\ UNCHANGED <<relayVars, command, armed, forwarded, outcome>>

\* An exit code is passed on; everything else says that the command may have run.
Report(status) ==
    CASE status = "zero" -> "ok" [] status = "nonzero" -> "exit code" [] OTHER -> "unknown"

\* interruptProcess: an error that is not "process done" gives up on the companion.
Forward ==
    \/ /\ child = "running" /\ forwarded' = forwarded + 1
       /\ UNCHANGED <<command, child>>
    \/ /\ child # "running" /\ command' = "drain" /\ UNCHANGED <<child, forwarded>>
    \/ /\ child = "running" /\ command' = "kill" /\ UNCHANGED <<child, forwarded>>

ForwardsBoth(why) == TRUE
forwardsCancel(why) == why # "signal"

\* The three cases of the select of waitStreaming.
WaitDone ==
    /\ command \in {"wait", "drain"} /\ child \notin {"none", "running"}
    /\ Return(Report(child))
    /\ UNCHANGED <<relayVars, armed, child, forwarded>>

WaitSignal ==
    /\ command = "wait" /\ outgoing > 0
    /\ outgoing' = outgoing - 1
    /\ Forward
    /\ UNCHANGED <<signals, incoming, relay, cause, parentDone, armed, outcome>>

WaitCanceled ==
    /\ command = "wait" /\ armed /\ Done
    /\ armed' = FALSE
    /\ \/ forwardsCancel(cause) /\ Forward
       \/ ~forwardsCancel(cause) /\ UNCHANGED <<command, child, forwarded>>
    /\ UNCHANGED <<relayVars, outcome>>

KillCompanion ==
    /\ command = "kill"
    /\ child' = IF child = "running" THEN "killed" ELSE child
    /\ Return("unknown")
    /\ UNCHANGED <<relayVars, armed, forwarded>>

Command == Preflight \/ ResolveCredential \/ RunStreaming \/ StartCompanion
           \/ WaitDone \/ WaitSignal \/ WaitCanceled \/ KillCompanion
Relay == RelayTake \/ RelaySend \/ RelayEnd
Next == Signal \/ CancelParent \/ Relay \/ Command \/ CompanionExits

\* The goroutines keep running; neither the user nor the companion must do anything.
Fairness == WF_execVars(Command) /\ WF_execVars(Relay)
Spec == Init /\ [][Next]_execVars /\ Fairness

-----------------------------------------------------------------------------
\* "ti forwards each one exactly once" (process_unix.go): the companion is sent no
\* more signals than ti received, although the first one also cancels the context;
\* a cancellation from elsewhere counts as one.  And ti reports an ending of its own
\* ("canceled", "refused") only while no companion was started, so that a command
\* that may have run is never called one that did not.
RelayedOnce ==
    /\ forwarded + outgoing + incoming <= signals + (IF parentDone THEN 1 ELSE 0)
    /\ outcome \in {"canceled", "refused"} => child = "none"
    /\ outcome = "ok" => child = "zero"

\* Every signal that was received, the second one that detaches included, reaches
\* the companion unless the command is over first; and the end of the companion
\* ends the command.
SignalsArrive ==
    /\ \A n \in 1..MaxSignals :
         (signals >= n) ~> (forwarded >= n \/ outcome # "none" \/ parentDone)
    /\ (child \notin {"none", "running"}) ~> (outcome # "none")
=============================================================================
