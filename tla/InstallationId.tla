--------------------------- MODULE InstallationId ---------------------------
(***************************************************************************)
(* The anonymous installation id that telemetry events carry               *)
(* (internal/telemetry/telemetry.go): commands that start at once on a     *)
(* fresh home directory all find no id, each draws one, and hard-links its *)
(* finished file under the id's name, which only one of them can do.       *)
(***************************************************************************)
EXTENDS Naturals

CONSTANTS Runs  \* the commands that run, all at once or one after another

VARIABLES
    idFile,    \* the id under ~/.ti/.telemetry-installation-id, or 0
    session,   \* per command: where Start and Finish stand
    sessionId, \* per command: the id in its session, or 0
    received   \* the ids of the events that reached the server

idVars == <<idFile, session, sessionId, received>>

NoId == 0
\* randomIdentifier draws a fresh id, here the number of the command.
randomIdentifier(r) == r

Init ==
    /\ idFile = NoId /\ received = {}
    /\ session = [r \in Runs |-> "start"] /\ sessionId = [r \in Runs |-> NoId]

Goto(r, step) == session' = [session EXCEPT ![r] = step]
Identify(r, id) ==
    /\ Goto(r, "running")
    /\ sessionId' = [sessionId EXCEPT ![r] = id]

\* Start, up to the first read of readInstallationID.  Telemetry that is switched
\* off, an unreadable file and an invalid one leave the command without a session.
Start(r) ==
    /\ session[r] = "start"
    /\ \/ Goto(r, "over") /\ UNCHANGED sessionId
       \/ idFile # NoId /\ Identify(r, idFile)
       \/ idFile = NoId /\ Goto(r, "link") /\ UNCHANGED sessionId
    /\ UNCHANGED <<idFile, received>>

\* What a command does whose os.Link found the name taken.
KeepsOwnId(r) == Identify(r, randomIdentifier(r))
readPersisted(r) == Identify(r, idFile)

\* loadOrCreateInstallationID: the temporary file is written, synced and closed
\* before it is linked.  A failed write or link ends the session, and so does a
\* failed chmod although the id is linked by then.
loadOrCreateInstallationID(r) ==
    /\ session[r] = "link"
    /\ \/ Goto(r, "over") /\ UNCHANGED <<idFile, sessionId>>
       \/ /\ idFile = NoId /\ idFile' = randomIdentifier(r)
          /\ \/ Identify(r, randomIdentifier(r))
             \/ Goto(r, "over") /\ UNCHANGED sessionId
       \/ idFile # NoId /\ readPersisted(r) /\ UNCHANGED idFile
    /\ UNCHANGED received

\* One request with a timeout and no second attempt; it may not arrive.
Finish(r) ==
    /\ session[r] = "running"
    /\ received' \in {received, received \cup {sessionId[r]}}
    /\ Goto(r, "over")
    /\ UNCHANGED <<idFile, sessionId>>

Killed(r) ==
    /\ session[r] \in {"link", "running"}
    /\ Goto(r, "over")
    /\ UNCHANGED <<idFile, sessionId, received>>

Next == \E r \in Runs : Start(r) \/ loadOrCreateInstallationID(r) \/ Finish(r) \/ Killed(r)

Spec == Init /\ [][Next]_idVars

-----------------------------------------------------------------------------
\* Every event of this home directory carries the same id, the one that is in the
\* file: commands that race to create it, or die on the way, do not make a second.
OneInstallationId == \A id \in received : id = idFile
=============================================================================
