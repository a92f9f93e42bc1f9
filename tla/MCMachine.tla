----------------------------- MODULE MCMachine ------------------------------
(***************************************************************************)
(* The parts that keep their own files and processes on a machine and do   *)
(* not touch each other's, checked side by side: a behaviour picks one of  *)
(* them, and only that one moves.  The state space is the sum of the parts *)
(* and not their product.                                                  *)
(***************************************************************************)
EXTENDS Integers, Sequences, FiniteSets

CONSTANTS Releases, MaxUpdates, Runs, MaxPrepares, Workers, FileCount, MaxBatch,
          MaxDownloads, MaxSignals, ChannelSize,
          Clients, Handlers, Rate, Burst, MaxBuckets, ForgetAfter, MaxDelay, MaxTime, MaxRequests

\* Numbers of commands, workers, files and clients; no command draws the id that
\* stands for none.  Rate and burst are any positive numbers, all that Config.Validate
\* (internal/telemetrybackend/config.go:135) asks; a handler waits less than half of
\* the ten minutes for the mutex.
ASSUME RunsAssumption == 0 \notin Runs
ASSUME DownloadAssumption ==
    IsFiniteSet(Workers) /\ FileCount \in Nat /\ MaxBatch \in Nat \ {0}
ASSUME ServerAssumption ==
    /\ IsFiniteSet(Clients) /\ MaxBuckets \in Nat /\ ForgetAfter \in Nat /\ MaxDelay \in Nat
    /\ Rate \in Nat \ {0} /\ Burst \in Nat \ {0}
    /\ 2 * MaxDelay <= ForgetAfter

VARIABLES part,
    target, backup, companion, companionBackup, staged, updater, updates,
    idFile, session, sessionId, received,
    users, document, local, listed, preparing, prepared, prepares, drawn,
    disk, next, urls, batchEnd, fetcher, working, phase, job, status, result,
    counted, downloads,
    signals, incoming, relay, outgoing, cause, parentDone, command, armed, child,
    forwarded, outcome,
    buckets, handlers, time, allowed, requests

SQLPlans == <<"read_only", "read_write", "admin">>

Update == INSTANCE SelfUpdate
Id == INSTANCE InstallationId
Sql == INSTANCE SqlAccess WITH Plans <- SQLPlans
Export == INSTANCE ExportDownload
Exec == INSTANCE RuntimeExec
Server == INSTANCE TelemetryServer

Parts == {"update", "id", "sql", "export", "exec", "server"}
updateVars == <<target, backup, companion, companionBackup, staged, updater, updates>>
idVars == <<idFile, session, sessionId, received>>
sqlVars == <<users, document, local, listed, preparing, prepared, prepares, drawn>>
exportVars == <<disk, next, urls, batchEnd, fetcher, working, phase, job, status,
                result, counted, downloads>>
execVars == <<signals, incoming, relay, outgoing, cause, parentDone, command,
              armed, child, forwarded, outcome>>
serverVars == <<buckets, handlers, time, allowed, requests>>
vars == <<part, updateVars, idVars, sqlVars, exportVars, execVars, serverVars>>

\* Of the parts that do not move, one initial state is enough.
Start(name, init, one) == IF part = name THEN init ELSE init /\ one

Init ==
    /\ part \in Parts
    /\ Start("update", Update!Init, target = CHOOSE r \in Releases : TRUE)
    /\ Id!Init
    /\ Start("sql", Sql!Init, users = [m \in Sql!Modes |-> Sql!NoUser])
    /\ Start("export", Export!Init, disk = [f \in Export!Files |-> "absent"])
    /\ Exec!Init
    /\ Server!Init

Next ==
    /\ UNCHANGED part
    /\ \/ part = "update" /\ Update!Next
          /\ UNCHANGED <<idVars, sqlVars, exportVars, execVars, serverVars>>
       \/ part = "id" /\ Id!Next
          /\ UNCHANGED <<updateVars, sqlVars, exportVars, execVars, serverVars>>
       \/ part = "sql" /\ Sql!Next
          /\ UNCHANGED <<updateVars, idVars, exportVars, execVars, serverVars>>
       \/ part = "export" /\ Export!Next
          /\ UNCHANGED <<updateVars, idVars, sqlVars, execVars, serverVars>>
       \/ part = "exec" /\ Exec!Next
          /\ UNCHANGED <<updateVars, idVars, sqlVars, exportVars, serverVars>>
       \/ part = "server" /\ Server!Next
          /\ UNCHANGED <<updateVars, idVars, sqlVars, exportVars, execVars>>

\* The goroutines of the parts that have any keep running.
Fairness == part = "exec" => Exec!Fairness
Spec == Init /\ [][Next]_vars /\ Fairness

-----------------------------------------------------------------------------
\* The update leaves a ti that starts (SelfUpdate).
RecoverableInstall == Update!RecoverableInstall
\* One installation id per home directory (InstallationId).
OneInstallationId == Id!OneInstallationId
\* SQL passwords stored under the name of their user are accepted (SqlAccess).
StoredPasswordsWork == Sql!StoredPasswordsWork
\* An export download accounts for every file (ExportDownload).
DownloadsAccounted == Export!DownloadsAccounted
\* Signals reach the companion at most once, and no outcome is invented (RuntimeExec).
RelayedOnce == Exec!RelayedOnce
\* The limits of the telemetry server hold (TelemetryServer).
RateBounded == Server!RateBounded
\* Every signal and the end of the companion get through (RuntimeExec).
SignalsArrive == part = "exec" => Exec!SignalsArrive
=============================================================================
