---------------------------- MODULE MachineProofs ----------------------------
(***************************************************************************)
(* Proofs about the parts that keep their own files and processes on a     *)
(* machine, for every choice of the constants: the self update, the        *)
(* installation id, the stored SQL passwords and the companion runner.     *)
(* Each invariant speaks of one part and a step of another leaves its      *)
(* variables alone.                                                        *)
(***************************************************************************)
EXTENDS MCMachine, TLAPS, FiniteSetTheorems

(* A step of the machine is a step of one part, and the others stand still.*)
LEMMA PartSteps ==
  ASSUME [Next]_vars
  PROVE  /\ Update!Next \/ UNCHANGED updateVars
         /\ Id!Next \/ UNCHANGED idVars
         /\ Sql!Next \/ UNCHANGED sqlVars
         /\ Exec!Next \/ UNCHANGED execVars
         /\ Export!Next \/ UNCHANGED exportVars
         /\ Server!Next \/ UNCHANGED serverVars
BY DEF Next, vars

(* Every part starts in its first state, whichever one moves.              *)
LEMMA PartStarts ==
  ASSUME Init
  PROVE  Update!Init /\ Id!Init /\ Sql!Init /\ Exec!Init /\ Export!Init /\ Server!Init
BY DEF Init, Start

-----------------------------------------------------------------------------
(* Where the running ti is while replaceBinary works: at its path until it *)
(* is moved aside, in the backup until a new one has been seen to start.   *)
UpdateInv ==
  /\ RecoverableInstall
  /\ updater \in {"install", "validate", "roll back: remove", "roll back: rename"} =>
       Update!Works(backup)
  /\ updater \in {"remove backup", "move aside", "drop backup", "companion: remove backup",
                  "companion: move aside", "companion: install", "companion: install new",
                  "companion: roll back"} =>
       Update!Works(target)

(* It holds at first: a released ti is installed.                          *)
LEMMA UpdateInit == Init => UpdateInv
BY PartStarts DEF UpdateInv, RecoverableInstall, Update!RecoverableInstall, Update!Works,
   Update!Init

(* Every rename, removal and kill keeps it; the other parts do not touch it.*)
LEMMA UpdateNext == UpdateInv /\ [Next]_vars => UpdateInv'
<1> SUFFICES ASSUME UpdateInv, [Next]_vars PROVE UpdateInv'
  OBVIOUS
<1> USE DEF UpdateInv, RecoverableInstall, Update!RecoverableInstall, Update!Works,
        Update!Goto, Update!EndUpdate
<1>1. CASE Update!Apply
  BY <1>1 DEF Update!Apply
<1>2. CASE Update!RemoveBackup
  BY <1>2 DEF Update!RemoveBackup
<1>3. CASE Update!MoveAside
  BY <1>3 DEF Update!MoveAside
<1>4. CASE Update!Install
  BY <1>4 DEF Update!Install
<1>5. CASE Update!Validate
  BY <1>5 DEF Update!Validate, Update!validateInstalledBinary
<1>6. CASE Update!RollbackRemove
  BY <1>6 DEF Update!RollbackRemove
<1>7. CASE Update!RollbackRename
  BY <1>7 DEF Update!RollbackRename
<1>8. CASE Update!DropBackup
  BY <1>8 DEF Update!DropBackup
<1>9. CASE Update!CompanionRemoveBackup
  BY <1>9 DEF Update!CompanionRemoveBackup
<1>10. CASE Update!CompanionMoveAside
  BY <1>10 DEF Update!CompanionMoveAside
<1>11. CASE Update!CompanionInstall
  BY <1>11 DEF Update!CompanionInstall
<1>12. CASE Update!CompanionRollback
  BY <1>12 DEF Update!CompanionRollback
<1>13. CASE Update!Kill
  BY <1>13 DEF Update!Kill
<1>14. CASE UNCHANGED updateVars
  BY <1>14 DEF updateVars
<1> QED
  BY <1>1, <1>2, <1>3, <1>4, <1>5, <1>6, <1>7, <1>8, <1>9, <1>10, <1>11, <1>12, <1>13,
     <1>14, PartSteps DEF Update!Next

(* Wherever an update fails or is killed, a ti that starts is left.        *)
THEOREM InstallRecoverable == Spec => []RecoverableInstall
<1>1. UpdateInv => RecoverableInstall
  BY DEF UpdateInv
<1> QED
  BY <1>1, UpdateInit, UpdateNext, PTL DEF Spec

-----------------------------------------------------------------------------
(* Every session that runs carries the id in the file, which is written    *)
(* once.                                                                   *)
IdInv ==
  /\ session \in [Runs -> {"start", "link", "running", "over"}]
  /\ sessionId \in [Runs -> Runs \cup {Id!NoId}] /\ idFile \in Runs \cup {Id!NoId}
  /\ \A r \in Runs : session[r] = "running" => sessionId[r] = idFile /\ idFile # Id!NoId
  /\ \A id \in received : id = idFile /\ idFile # Id!NoId

(* No session runs and no id is written at first.                          *)
LEMMA IdInit == Init => IdInv
BY PartStarts DEF IdInv, Id!Init

(* The link that makes the file fails for all but one command.             *)
LEMMA IdNext == IdInv /\ [Next]_vars => IdInv'
<1> SUFFICES ASSUME IdInv, [Next]_vars PROVE IdInv'
  OBVIOUS
<1> USE DEF IdInv, Id!Goto, Id!Identify, Id!NoId
<1>1. ASSUME NEW r \in Runs, Id!Start(r) PROVE IdInv'
  BY <1>1 DEF Id!Start
<1>2. ASSUME NEW r \in Runs, Id!loadOrCreateInstallationID(r) PROVE IdInv'
  BY <1>2, RunsAssumption
     DEF Id!loadOrCreateInstallationID, Id!readPersisted, Id!randomIdentifier
<1>3. ASSUME NEW r \in Runs, Id!Finish(r) PROVE IdInv'
  BY <1>3 DEF Id!Finish
<1>4. ASSUME NEW r \in Runs, Id!Killed(r) PROVE IdInv'
  BY <1>4 DEF Id!Killed
<1>5. CASE UNCHANGED idVars
  BY <1>5 DEF idVars
<1> QED
  BY <1>1, <1>2, <1>3, <1>4, <1>5, PartSteps DEF Id!Next

(* Commands that race for a fresh home directory send one id.              *)
THEOREM IdUnique == Spec => []OneInstallationId
<1>1. IdInv => OneInstallationId
  BY DEF IdInv, OneInstallationId, Id!OneInstallationId
<1> QED
  BY <1>1, IdInit, IdNext, PTL DEF Spec

-----------------------------------------------------------------------------
(* While the command is at plan i, the modes before i have a password that *)
(* is known and accepted, and those from i on are as they were when the    *)
(* users were listed and the document was read: a mode that is given a new *)
(* password is one the document has none for under the name of its user.   *)
Ready(m) ==
  /\ users[m] # Sql!NoUser /\ local[m] # Sql!NoUser /\ local[m].password = users[m].password
  /\ local[m].name = users[m].name \/ listed[m] = Sql!NoUser
Untouched(m) == local[m] = document[m] /\ listed[m] = users[m]

SqlTypes ==
  /\ users \in [Sql!Modes -> Sql!Account] /\ document \in [Sql!Modes -> Sql!Account]
  /\ local \in [Sql!Modes -> Sql!Account] /\ listed \in [Sql!Modes -> Sql!Account]
  /\ drawn \in Nat /\ prepares \in Nat /\ preparing \in 0 .. Len(SQLPlans) + 1
  /\ \A m \in Sql!Modes : /\ users[m].name = "none" => users[m] = Sql!NoUser
                          /\ users[m] = Sql!NoUser => document[m] = Sql!NoUser

SqlInv ==
  /\ SqlTypes /\ StoredPasswordsWork
  /\ preparing # 0 =>
       \A i \in DOMAIN SQLPlans :
         IF i < preparing THEN Ready(SQLPlans[i]) ELSE Untouched(SQLPlans[i])

(* The plans are a list of different modes.                                *)
LEMMA PlansDiffer ==
  /\ DOMAIN SQLPlans = 1 .. Len(SQLPlans) /\ Len(SQLPlans) \in Nat
  /\ \A i, j \in DOMAIN SQLPlans : i # j => SQLPlans[i] # SQLPlans[j]
  /\ Sql!Modes = {SQLPlans[i] : i \in DOMAIN SQLPlans}
BY DEF SQLPlans, Sql!Modes

(* It holds at first: no command runs and nothing is stored.               *)
LEMMA SqlInit == Init => SqlInv
<1> SUFFICES ASSUME Init PROVE SqlInv
  OBVIOUS
<1> USE PartStarts, PlansDiffer
<1>1. /\ preparing = 0 /\ prepares = 0 /\ drawn = 0 /\ listed = document /\ local = document
      /\ document = [m \in Sql!Modes |-> Sql!NoUser]
  BY DEF Sql!Init
<1>2. /\ Sql!NoUser = [name |-> "none", password |-> 0] /\ Sql!NoUser \in Sql!Account
      /\ Sql!Foreign \in Sql!Account /\ Sql!Foreign.name = "foreign"
      /\ \A name \in {"suffix", "prefixed"} :
           Sql!User(name, 0) \in Sql!Account /\ Sql!User(name, 0).name = name
  BY DEF Sql!NoUser, Sql!Foreign, Sql!User, Sql!Account
<1>3. /\ users \in [Sql!Modes -> Sql!Account]
      /\ \A m \in Sql!Modes : users[m].name = "none" => users[m] = Sql!NoUser
  BY <1>2 DEF Sql!Init
<1>4. document \in [Sql!Modes -> Sql!Account]
  BY <1>1, <1>2
<1>5. StoredPasswordsWork
  BY <1>1, <1>2, <1>3 DEF StoredPasswordsWork, Sql!StoredPasswordsWork
<1>6. SqlTypes
  <2>1. 0 \in Nat /\ 0 \in 0 .. Len(SQLPlans) + 1
    OBVIOUS
  <2>2. \A m \in Sql!Modes : users[m] = Sql!NoUser => document[m] = Sql!NoUser
    BY <1>1
  <2> QED
    BY <1>1, <1>3, <1>4, <2>1, <2>2 DEF SqlTypes
<1> QED
  BY <1>1, <1>5, <1>6 DEF SqlInv

(* One mode gets a new password, which the document has not under its name.*)
LEMMA SqlRotates ==
  ASSUME SqlInv, preparing \in DOMAIN SQLPlans, ~Sql!exists, listed[Sql!mode] # Sql!Foreign,
         NEW name, name = IF Sql!found THEN listed[Sql!mode].name ELSE "prefixed",
         NEW m, m = SQLPlans[preparing], drawn' = drawn + 1,
         users' = [users EXCEPT ![m] = Sql!User(name, drawn')], UNCHANGED document
  PROVE  /\ m \in Sql!Modes /\ name \in {"foreign", "suffix", "prefixed"} /\ drawn' \in Nat \ {0}
         /\ users' \in [Sql!Modes -> Sql!Account]
         /\ \A n \in Sql!Modes \ {m} : users'[n] = users[n]
         /\ users'[m] = [name |-> name, password |-> drawn']
         /\ \A n \in Sql!Modes : /\ document'[n].name = users'[n].name => document'[n] = users'[n]
                                 /\ users'[n].name = "none" => users'[n] = Sql!NoUser
                                 /\ users'[n] = Sql!NoUser => document'[n] = Sql!NoUser
<1> USE PlansDiffer
<1>1. m \in Sql!Modes /\ Sql!mode = m /\ drawn' \in Nat \ {0}
  BY DEF SqlInv, SqlTypes, Sql!mode
<1>2. /\ listed[m] = users[m] /\ local[m] = document[m]
      /\ users[m] \in Sql!Account /\ document[m] \in Sql!Account
      /\ users[m].name = "none" => users[m] = Sql!NoUser
      /\ users[m] = Sql!NoUser => document[m] = Sql!NoUser
  BY <1>1 DEF SqlInv, SqlTypes, Untouched
<1>3. name \in {"foreign", "suffix", "prefixed"}
  BY <1>1, <1>2 DEF Sql!found, Sql!Account
<1>4. document[m].name # name
  <2>1. CASE ~Sql!found
    BY <1>1, <1>2, <2>1 DEF Sql!found, Sql!NoUser, Sql!User
  <2>2. CASE Sql!found /\ ~Sql!hasLocal
    BY <1>1, <1>2, <1>3, <2>2 DEF Sql!hasLocal, Sql!NoUser, Sql!User
  <2>3. CASE Sql!found /\ Sql!hasLocal
    BY <1>1, <1>2, <2>3 DEF Sql!exists
  <2> QED
    BY <2>1, <2>2, <2>3
<1>5. Sql!User(name, drawn') = [name |-> name, password |-> drawn'] /\ Sql!User(name, drawn') \in Sql!Account
  BY <1>1, <1>3 DEF Sql!User, Sql!Account
<1>6. /\ users' \in [Sql!Modes -> Sql!Account] /\ users'[m] = [name |-> name, password |-> drawn']
      /\ \A n \in Sql!Modes \ {m} : users'[n] = users[n]
  BY <1>1, <1>5 DEF SqlInv, SqlTypes
<1>7. \A n \in Sql!Modes \ {m} :
        /\ document[n].name = users[n].name => document[n] = users[n]
        /\ users[n].name = "none" => users[n] = Sql!NoUser
        /\ users[n] = Sql!NoUser => document[n] = Sql!NoUser
  BY DEF SqlInv, SqlTypes, StoredPasswordsWork, Sql!StoredPasswordsWork
<1>8. users'[m].name = name /\ name # "none" /\ users'[m] # Sql!NoUser
  BY <1>3, <1>6 DEF Sql!NoUser, Sql!User
<1> QED
  BY <1>1, <1>3, <1>4, <1>6, <1>7, <1>8

(* Every reply, lost reply, failed write and kill keeps it.                *)
LEMMA SqlNext == SqlInv /\ [Next]_vars => SqlInv'
<1> SUFFICES ASSUME SqlInv, [Next]_vars PROVE SqlInv'
  OBVIOUS
<1>0. ASSUME NEW what, Sql!EndWith(what) PROVE preparing' = 0 /\ prepared' = what
  BY <1>0 DEF Sql!EndWith
<1> USE PlansDiffer
<1>1. CASE Sql!PrepareQueryAccess
  BY <1>1 DEF SqlInv, SqlTypes, StoredPasswordsWork, Sql!StoredPasswordsWork, Untouched,
     Sql!PrepareQueryAccess, Sql!EndWith
<1>2. CASE Sql!Prepare
  <2>1. /\ preparing \in DOMAIN SQLPlans /\ SQLPlans[preparing] \in Sql!Modes
        /\ UNCHANGED <<document, listed, prepares>>
    BY <1>2 DEF Sql!Prepare
  <2>2. CASE preparing' = 0 /\ prepared' = "error" /\ UNCHANGED <<users, local, drawn>>
    <3>1. SqlTypes'
      BY <2>1, <2>2 DEF SqlInv, SqlTypes
    <3>2. StoredPasswordsWork'
      BY <2>1, <2>2 DEF SqlInv, StoredPasswordsWork, Sql!StoredPasswordsWork
    <3> QED
      BY <2>2, <3>1, <3>2 DEF SqlInv
  <2>3. CASE /\ Sql!exists /\ preparing' = preparing + 1
             /\ UNCHANGED <<users, local, prepared, drawn>>
    <3> DEFINE m == SQLPlans[preparing]
    <3>1. Ready(m)
      <4>1. /\ Untouched(m) /\ Sql!mode = m
            /\ document[m].name = users[m].name => document[m] = users[m]
        BY <2>1 DEF SqlInv, StoredPasswordsWork, Sql!StoredPasswordsWork, Sql!mode
      <4>2. local[m] # Sql!NoUser /\ listed[m] # Sql!NoUser /\ local[m].name = listed[m].name
        BY <2>3, <4>1 DEF Sql!exists, Sql!hasLocal, Sql!found
      <4> QED
        BY <4>1, <4>2 DEF Untouched, Ready
    <3>2. ASSUME NEW i \in DOMAIN SQLPlans
          PROVE  IF i < preparing' THEN Ready(SQLPlans[i])' ELSE Untouched(SQLPlans[i])'
      <4>1. i < preparing' <=> (i < preparing \/ i = preparing)
        BY <2>1, <2>3, <3>2
      <4>2. IF i < preparing THEN Ready(SQLPlans[i]) ELSE Untouched(SQLPlans[i])
        BY <2>1 DEF SqlInv
      <4> QED
        BY <2>1, <2>3, <3>1, <4>1, <4>2 DEF Ready, Untouched
    <3>3. SqlTypes'
      BY <2>1, <2>3 DEF SqlInv, SqlTypes
    <3>4. StoredPasswordsWork'
      BY <2>1, <2>3 DEF SqlInv, StoredPasswordsWork, Sql!StoredPasswordsWork
    <3> QED
      BY <3>2, <3>3, <3>4 DEF SqlInv
  <2>4. CASE ~Sql!exists /\ listed[Sql!mode] # Sql!Foreign /\ Sql!SetPassword
    <3> PICK m \in Sql!Modes : m = SQLPlans[preparing]
      BY <2>1
    <3> DEFINE name == IF Sql!found THEN listed[Sql!mode].name ELSE "prefixed"
               answers == IF Sql!found THEN {name} ELSE {name, "suffix"}
    <3>1. drawn' = drawn + 1 /\ drawn' \in Nat \ {0} /\ Sql!mode = m
      BY <2>1, <2>4 DEF Sql!SetPassword, SqlInv, SqlTypes, Sql!mode
    <3>2. CASE preparing' = 0 /\ prepared' = "error" /\ UNCHANGED <<users, local>>
      <4>1. preparing' \in 0 .. Len(SQLPlans) + 1
        BY <3>2 DEF SqlInv, SqlTypes
      <4>2. SqlTypes'
        BY <2>1, <3>1, <3>2, <4>1 DEF SqlInv, SqlTypes
      <4>3. StoredPasswordsWork'
        BY <2>1, <3>2 DEF SqlInv, StoredPasswordsWork, Sql!StoredPasswordsWork
      <4> QED
        BY <3>2, <4>2, <4>3 DEF SqlInv
    <3>3. ASSUME users' = [users EXCEPT ![m] = Sql!User(name, drawn')],
                 \/ preparing' = 0 /\ prepared' = "error" /\ UNCHANGED local
                 \/ \E answered \in answers :
                       /\ local' = [local EXCEPT ![m] = Sql!User(answered, drawn')]
                       /\ preparing' = preparing + 1 /\ UNCHANGED prepared
          PROVE  SqlInv'
      <4>1. /\ m \in Sql!Modes /\ name \in {"foreign", "suffix", "prefixed"}
            /\ users' \in [Sql!Modes -> Sql!Account]
            /\ \A n \in Sql!Modes \ {m} : users'[n] = users[n]
            /\ users'[m] = [name |-> name, password |-> drawn']
            /\ \A n \in Sql!Modes : /\ document'[n].name = users'[n].name => document'[n] = users'[n]
                                    /\ users'[n].name = "none" => users'[n] = Sql!NoUser
                                    /\ users'[n] = Sql!NoUser => document'[n] = Sql!NoUser
        BY <2>1, <2>4, <3>1, <3>3, SqlRotates
      <4>2. CASE preparing' = 0 /\ prepared' = "error" /\ UNCHANGED local
        <5>1. SqlTypes'
          <6>1. /\ local' \in [Sql!Modes -> Sql!Account] /\ document' \in [Sql!Modes -> Sql!Account]
                /\ listed' \in [Sql!Modes -> Sql!Account]
                /\ prepares' \in Nat /\ preparing' \in 0 .. Len(SQLPlans) + 1
            BY <2>1, <4>2 DEF SqlInv, SqlTypes
          <6> QED
            BY <3>1, <4>1, <6>1 DEF SqlTypes
        <5>2. StoredPasswordsWork'
          BY <4>1, <4>2 DEF StoredPasswordsWork, Sql!StoredPasswordsWork
        <5> QED
          BY <4>2, <5>1, <5>2 DEF SqlInv
      <4>3. ASSUME NEW answered \in answers, local' = [local EXCEPT ![m] = Sql!User(answered, drawn')],
                   preparing' = preparing + 1, UNCHANGED prepared
            PROVE  SqlInv'
        <5>1. answered \in {"foreign", "suffix", "prefixed"}
          BY <4>1, <4>3
        <5>2. Sql!User(answered, drawn') = [name |-> answered, password |-> drawn']
              /\ Sql!User(answered, drawn') \in Sql!Account
          BY <3>1, <5>1 DEF Sql!User, Sql!Account
        <5>3. /\ local' \in [Sql!Modes -> Sql!Account]
              /\ local'[m] = [name |-> answered, password |-> drawn']
              /\ \A n \in Sql!Modes \ {m} : local'[n] = local[n]
          BY <4>1, <4>3, <5>2 DEF SqlInv, SqlTypes
        <5>4. preparing' # 0 /\ preparing' \in 0 .. Len(SQLPlans) + 1
          BY <2>1, <4>3
        <5>5. SqlTypes'
          <6>1. /\ document' \in [Sql!Modes -> Sql!Account]
                /\ listed' \in [Sql!Modes -> Sql!Account] /\ prepares' \in Nat
            BY <2>1 DEF SqlInv, SqlTypes
          <6> QED
            BY <3>1, <4>1, <5>3, <5>4, <6>1 DEF SqlTypes
        <5>6. StoredPasswordsWork'
          BY <4>1, <5>4 DEF StoredPasswordsWork, Sql!StoredPasswordsWork
        <5>7. Ready(m)'
          <6>1. answered = name \/ listed'[m] = Sql!NoUser
            BY <2>1, <3>1, <4>3 DEF Sql!found
          <6>2. users'[m] # Sql!NoUser /\ local'[m] # Sql!NoUser
            BY <4>1, <5>1, <5>3 DEF Sql!NoUser, Sql!User
          <6> QED
            BY <4>1, <5>3, <6>1, <6>2 DEF Ready
        <5>8. ASSUME NEW i \in DOMAIN SQLPlans
              PROVE  IF i < preparing' THEN Ready(SQLPlans[i])' ELSE Untouched(SQLPlans[i])'
          <6>1. CASE i = preparing
            BY <2>1, <4>3, <5>7, <6>1
          <6>2. CASE i # preparing
            <7>1. SQLPlans[i] # m /\ SQLPlans[i] \in Sql!Modes /\ (i < preparing' <=> i < preparing)
              BY <2>1, <4>3, <5>8, <6>2
            <7>2. IF i < preparing THEN Ready(SQLPlans[i]) ELSE Untouched(SQLPlans[i])
              BY <2>1 DEF SqlInv
            <7> QED
              BY <2>1, <4>1, <5>3, <7>1, <7>2 DEF Ready, Untouched
          <6> QED
            BY <6>1, <6>2
        <5> QED
          BY <5>5, <5>6, <5>8 DEF SqlInv
      <4> HIDE DEF answers
      <4>4. \/ preparing' = 0 /\ prepared' = "error" /\ UNCHANGED local
            \/ \E answered \in answers :
                  /\ local' = [local EXCEPT ![m] = Sql!User(answered, drawn')]
                  /\ preparing' = preparing + 1 /\ UNCHANGED prepared
        BY <3>3
      <4> QED
        BY <4>2, <4>3, <4>4
    <3>4. \/ preparing' = 0 /\ prepared' = "error" /\ UNCHANGED <<users, local>>
          \/ /\ users' = [users EXCEPT ![m] = Sql!User(name, drawn')]
             /\ \/ preparing' = 0 /\ prepared' = "error" /\ UNCHANGED local
                \/ \E answered \in answers :
                      /\ local' = [local EXCEPT ![m] = Sql!User(answered, drawn')]
                      /\ preparing' = preparing + 1 /\ UNCHANGED prepared
      BY <2>4, <3>1 DEF Sql!SetPassword, Sql!EndWith
    <3> HIDE DEF name, answers
    <3> QED
      BY <3>2, <3>3, <3>4
  <2> QED
    BY <1>2, <2>2, <2>3, <2>4 DEF Sql!Prepare, Sql!EndWith
<1>3. CASE Sql!WriteDocument
  <2>1. /\ UNCHANGED <<users, local, listed, prepares, drawn>> /\ preparing' = 0
        /\ preparing = Len(SQLPlans) + 1
        /\ document' = local \/ (document' = document /\ prepared' = "error")
    BY <1>3 DEF Sql!WriteDocument, Sql!EndWith
  <2>2. \A m \in Sql!Modes : Ready(m)
    BY <2>1 DEF SqlInv
  <2>3. CASE document' = local
    <3>1. \A m \in Sql!Modes : users[m] \in Sql!Account /\ local[m] \in Sql!Account
      BY DEF SqlInv, SqlTypes
    <3>2. \A m \in Sql!Modes : document'[m].name = users'[m].name => document'[m] = users'[m]
      BY <2>1, <2>2, <2>3, <3>1 DEF Ready, Sql!Account
    <3>3. StoredPasswordsWork'
      BY <2>1, <2>2, <2>3, <3>2 DEF Ready, StoredPasswordsWork, Sql!StoredPasswordsWork, Sql!NoUser
    <3>4. SqlTypes'
      BY <2>1, <2>2, <2>3 DEF Ready, SqlInv, SqlTypes
    <3> QED
      BY <2>1, <3>3, <3>4 DEF SqlInv
  <2>4. CASE document' = document /\ prepared' = "error"
    BY <2>1, <2>4 DEF SqlInv, SqlTypes, StoredPasswordsWork, Sql!StoredPasswordsWork
  <2> QED
    BY <2>1, <2>3, <2>4
<1>4. CASE Sql!KillPrepare
  BY <1>4 DEF SqlInv, SqlTypes, StoredPasswordsWork, Sql!StoredPasswordsWork, Sql!KillPrepare,
     Sql!EndWith
<1>5. CASE UNCHANGED sqlVars
  BY <1>5 DEF sqlVars, SqlInv, SqlTypes, StoredPasswordsWork, Sql!StoredPasswordsWork, Ready,
     Untouched
<1> QED
  BY <1>1, <1>2, <1>3, <1>4, <1>5, PartSteps DEF Sql!Next

(* Through failed, killed and repeated commands, a password stored under   *)
(* the name of its user is the one the server accepts, and a command that  *)
(* succeeds has stored them all (Prepare, sqlcred.Write).                  *)
THEOREM PasswordsWork == Spec => []StoredPasswordsWork
<1>1. SqlInv => StoredPasswordsWork
  BY DEF SqlInv
<1> QED
  BY <1>1, SqlInit, SqlNext, PTL DEF Spec

-----------------------------------------------------------------------------
(* Where the signals are that came in: still in a channel, in the hand of  *)
(* the relay, or sent on.  The one beyond them that a canceled parent adds *)
(* is forwarded in the step that stops the command from listening to it.   *)
ExecInv ==
  /\ signals \in Nat /\ incoming \in Nat /\ outgoing \in Nat /\ forwarded \in Nat
  /\ forwarded + outgoing + incoming + (IF relay = "sending" THEN 1 ELSE 0)
       <= signals + (IF parentDone /\ ~armed THEN 1 ELSE 0)
  /\ cause \in {"none", "signal", "parent"} /\ (cause = "parent" => parentDone)
  /\ command \in {"probe", "resolve", "prepare", "start"} => child = "none"
  /\ outcome \in {"canceled", "refused"} => child = "none"
  /\ outcome = "ok" => child = "zero"

(* It holds at first: nothing came in and no companion runs.               *)
LEMMA ExecInit == Init => ExecInv
BY PartStarts DEF ExecInv, Exec!Init

(* A signal that is forwarded has been taken from the channel, and the     *)
(* companion is started by a command that has reported nothing.            *)
LEMMA ExecNext == ExecInv /\ [Next]_vars => ExecInv'
<1> SUFFICES ASSUME ExecInv, [Next]_vars PROVE ExecInv'
  OBVIOUS
<1> USE DEF ExecInv, Exec!Running, Exec!Done, Exec!Cancel, Exec!Return, Exec!relayVars
<1>1. CASE Exec!Signal
  BY <1>1 DEF Exec!Signal
<1>2. CASE Exec!CancelParent
  BY <1>2 DEF Exec!CancelParent
<1>3. CASE Exec!Relay
  BY <1>3 DEF Exec!Relay, Exec!RelayTake, Exec!RelaySend, Exec!RelayEnd, Exec!relayNext
<1>4. CASE Exec!Preflight
  BY <1>4 DEF Exec!Preflight
<1>5. CASE Exec!ResolveCredential
  BY <1>5 DEF Exec!ResolveCredential
<1>6. CASE Exec!RunStreaming
  BY <1>6 DEF Exec!RunStreaming
<1>7. CASE Exec!StartCompanion
  BY <1>7 DEF Exec!StartCompanion
<1>8. CASE Exec!WaitDone
  BY <1>8 DEF Exec!WaitDone, Exec!Report
<1>9. CASE Exec!WaitSignal
  BY <1>9 DEF Exec!WaitSignal, Exec!Forward
<1>10. CASE Exec!WaitCanceled
  BY <1>10 DEF Exec!WaitCanceled, Exec!Forward, Exec!forwardsCancel
<1>11. CASE Exec!KillCompanion
  BY <1>11 DEF Exec!KillCompanion
<1>12. CASE Exec!CompanionExits
  BY <1>12 DEF Exec!CompanionExits
<1>13. CASE UNCHANGED execVars
  BY <1>13 DEF execVars
<1> QED
  BY <1>1, <1>2, <1>3, <1>4, <1>5, <1>6, <1>7, <1>8, <1>9, <1>10, <1>11, <1>12, <1>13,
     PartSteps DEF Exec!Next, Exec!Command

(* The companion is sent no signal twice, and what ti reports of a remote  *)
(* command is what became of it.                                           *)
THEOREM SignalsOnce == Spec => []RelayedOnce
<1>1. ExecInv => RelayedOnce
  BY DEF ExecInv, RelayedOnce, Exec!RelayedOnce
<1> QED
  BY <1>1, ExecInit, ExecNext, PTL DEF Spec

-----------------------------------------------------------------------------
(* Running: the files before next are each held by one worker or counted,  *)
(* those from next on are neither.                                         *)
Downloading == fetcher \in {"batch", "handing", "closed"}
Counted == {f \in Export!Files : result[f] # "none"}
Statuses == {"failed", "skipped", "succeeded"}

ExportTypes ==
  /\ disk \in [Export!Files -> {"absent", "theirs", "partial", "whole"}]
  /\ next \in 1 .. FileCount + 1 /\ batchEnd \in 0 .. FileCount
  /\ fetcher \in {"idle", "batch", "handing", "closed", "ok", "error"}
  /\ working \in [Workers -> 0 .. FileCount + 1]
  /\ phase \in [Workers -> {"stat", "create", "copy", "account"}]
  /\ job \in [Workers -> {"url", "empty", "error"}]
  /\ status \in [Workers -> Statuses \cup {"none"}]
  /\ result \in [Export!Files -> Statuses \cup {"none"}]

FetchInv ==
  /\ fetcher = "handing" => next <= batchEnd
  /\ fetcher = "closed" => next = FileCount + 1
  /\ \A w \in Workers : working[w] = Export!Gone => fetcher \notin {"batch", "handing"}
  /\ \A w \in Workers : ~Downloading => working[w] = Export!Gone

HeldOnce ==
  /\ \A v, w \in Workers : working[v] \in Export!Files /\ working[v] = working[w] => v = w
  /\ \A w \in Workers : working[w] \in Export!Files =>
       working[w] < next /\ result[working[w]] = "none"

AccountInv ==
  /\ counted = Cardinality(Counted)
  /\ Downloading => \A f \in Export!Files :
       /\ result[f] # "none" => f < next
       /\ f < next /\ result[f] = "none" => \E w \in Workers : working[w] = f
  /\ fetcher \in {"ok", "error"} => counted = 0 \/ \A f \in Export!Files : result[f] # "none"

DiskInv ==
  /\ \A f \in Export!Files : result[f] = "succeeded" => disk[f] = "whole"
  /\ \A w \in Workers : working[w] \in Export!Files =>
       /\ phase[w] = "copy" => disk[working[w]] = "partial"
       /\ phase[w] = "account" =>
            status[w] \in Statuses /\ (status[w] = "succeeded" => disk[working[w]] = "whole")

ExportInv == ExportTypes /\ FetchInv /\ HeldOnce /\ AccountInv /\ DiskInv

(* A batch has at least one file.                                          *)
LEMMA BatchSize == Export!exportDownloadBatchSize \in Nat \ {0}
<1>1. Cardinality(Workers) \in Nat
  BY DownloadAssumption, FS_CardinalityType
<1>2. Export!Cardinality(Workers) = Cardinality(Workers)
  BY DEF Cardinality, Export!Cardinality
<1> QED
  BY <1>1, <1>2, DownloadAssumption DEF Export!exportDownloadBatchSize

(* The number of files that are counted is that of the files.              *)
LEMMA CountedAll ==
  ASSUME \A f \in Export!Files : result[f] # "none"
  PROVE  Cardinality(Counted) = FileCount
<1>1. Counted = 1 .. FileCount
  BY DEF Counted, Export!Files
<1> QED
  BY <1>1, FS_Interval, DownloadAssumption

(* No file is counted before one has a result.                             *)
LEMMA CountedNone ==
  ASSUME \A f \in Export!Files : result[f] = "none"
  PROVE  Cardinality(Counted) = 0
<1>1. Counted = {}
  BY DEF Counted
<1> QED
  BY <1>1, FS_EmptySet

(* It holds at first: no worker runs and no file is counted.               *)
LEMMA ExportInit == Init => ExportInv
<1> SUFFICES ASSUME Init PROVE ExportInv
  OBVIOUS
<1>1. Export!Init
  BY DEF Init, Start
<1>2. Cardinality(Counted) = 0
  BY <1>1, CountedNone DEF Export!Init
<1> QED
  BY <1>1, <1>2, DownloadAssumption
     DEF Export!Init, ExportInv, ExportTypes, FetchInv, HeldOnce, AccountInv, DiskInv,
         Downloading, Statuses, Export!Files, Export!Gone

(* A file is handed to one worker, which alone writes and counts it.       *)
LEMMA ExportNext == ExportInv /\ [Next]_vars => ExportInv'
<1> SUFFICES ASSUME ExportInv, [Next]_vars PROVE ExportInv'
  OBVIOUS
<1> USE DownloadAssumption DEF ExportInv, ExportTypes, FetchInv, HeldOnce, AccountInv, DiskInv,
        Downloading, Statuses, Export!Files, Export!Gone, Export!Idle, Export!poolVars,
        Export!Report
<1>1. CASE Export!DownloadExportedData
  <2>1. Cardinality(Counted)' = 0
    <3>1. \A f \in Export!Files : result'[f] = "none"
      BY <1>1 DEF Export!DownloadExportedData
    <3>2. Counted' = {}
      BY <3>1 DEF Counted
    <3> QED
      BY <3>2, FS_EmptySet
  <2> QED
    BY <1>1, <2>1 DEF Export!DownloadExportedData
<1>2. CASE Export!FetchURLs
  <2>1. Counted' = Counted
    BY <1>2 DEF Export!FetchURLs, Counted
  <2> QED
    BY <1>2, <2>1, BatchSize DEF Export!FetchURLs
<1>3. ASSUME NEW w \in Workers, Export!HandOver(w) PROVE ExportInv'
  <2>1. Counted' = Counted
    BY <1>3 DEF Export!HandOver, Counted
  <2>2. ExportTypes'
    BY <1>3 DEF Export!HandOver
  <2>3. FetchInv'
    BY <1>3 DEF Export!HandOver
  <2>4. HeldOnce'
    <3>1. /\ next \in Export!Files /\ next' = next + 1
          /\ working' = [working EXCEPT ![w] = next] /\ UNCHANGED result
          /\ Downloading
      BY <1>3 DEF Export!HandOver
    <3>2. \A v \in Workers : v # w /\ working[v] \in Export!Files => working[v] # next
      BY <3>1
    <3>3. result[next] = "none"
      BY <3>1
    <3>4. ASSUME NEW u \in Workers, NEW v \in Workers,
                 working'[u] \in Export!Files, working'[u] = working'[v]
          PROVE  u = v
      <4>1. \A x \in Workers : working'[x] = IF x = w THEN next ELSE working[x]
        BY <3>1
      <4>2. CASE u = w \/ v = w
        <5>1. working'[u] = next /\ working'[v] = next
          BY <3>4, <4>1, <4>2
        <5>2. \A x \in Workers : x # w => working'[x] # next
          BY <3>1, <3>2, <4>1
        <5> QED
          BY <5>1, <5>2
      <4>3. CASE u # w /\ v # w
        BY <3>4, <4>1, <4>3
      <4> QED
        BY <4>2, <4>3
    <3>5. ASSUME NEW v \in Workers, working'[v] \in Export!Files
          PROVE  working'[v] < next' /\ result'[working'[v]] = "none"
      BY <3>1, <3>3, <3>5
    <3> QED
      BY <3>4, <3>5
  <2>5. AccountInv'
    BY <1>3, <2>1 DEF Export!HandOver
  <2>6. DiskInv'
    BY <1>3 DEF Export!HandOver
  <2> QED
    BY <2>2, <2>3, <2>4, <2>5, <2>6
<1>4. ASSUME NEW w \in Workers, Export!Stat(w) PROVE ExportInv'
  <2>1. Counted' = Counted
    BY <1>4 DEF Export!Stat, Counted
  <2>2. ExportTypes'
    <3>1. UNCHANGED <<disk, next, batchEnd, fetcher, working, job, result>>
      BY <1>4 DEF Export!Stat
    <3>2. /\ \/ phase' = [phase EXCEPT ![w] = "account"]
            \/ phase' = [phase EXCEPT ![w] = "create"]
          /\ \/ status' = status
             \/ status' = [status EXCEPT ![w] = "failed"]
             \/ status' = [status EXCEPT ![w] = "skipped"]
      BY <1>4 DEF Export!Stat
    <3>3. /\ phase' \in [Workers -> {"stat", "create", "copy", "account"}]
          /\ status' \in [Workers -> Statuses \cup {"none"}]
      <4>1. \A p \in {"create", "copy", "account"} : [phase EXCEPT ![w] = p] \in [Workers -> {"stat", "create", "copy", "account"}]
        OBVIOUS
      <4>2. \A t \in Statuses : [status EXCEPT ![w] = t] \in [Workers -> Statuses \cup {"none"}]
        OBVIOUS
      <4>3. /\ phase \in [Workers -> {"stat", "create", "copy", "account"}]
            /\ status \in [Workers -> Statuses \cup {"none"}]
        BY DEF ExportInv, ExportTypes
      <4>4. phase' \in [Workers -> {"stat", "create", "copy", "account"}]
        BY <3>2, <4>1
      <4>5. status' \in [Workers -> Statuses \cup {"none"}]
        BY <3>2, <4>2, <4>3 DEF Statuses
      <4> QED
        BY <4>4, <4>5
    <3> QED
      BY <3>1, <3>3
  <2>3. FetchInv'
    BY <1>4 DEF Export!Stat
  <2>4. HeldOnce'
    BY <1>4 DEF Export!Stat
  <2>5. AccountInv'
    BY <1>4, <2>1 DEF Export!Stat
  <2>6. DiskInv'
    BY <1>4 DEF Export!Stat
  <2> QED
    BY <2>2, <2>3, <2>4, <2>5, <2>6
<1>5. ASSUME NEW w \in Workers, Export!Create(w) PROVE ExportInv'
  <2>1. Counted' = Counted
    BY <1>5 DEF Export!Create, Counted
  <2>2. ExportTypes'
    <3> HIDE DEF FetchInv, HeldOnce, AccountInv, DiskInv
    <3>1. UNCHANGED <<next, batchEnd, fetcher, working, job, result>>
      BY <1>5 DEF Export!Create
    <3>2. /\ \/ phase' = [phase EXCEPT ![w] = "account"]
            \/ phase' = [phase EXCEPT ![w] = "copy"]
          /\ \/ status' = status
             \/ status' = [status EXCEPT ![w] = "failed"]
      BY <1>5 DEF Export!Create
    <3>4. /\ phase' \in [Workers -> {"stat", "create", "copy", "account"}]
          /\ status' \in [Workers -> Statuses \cup {"none"}]
      <4>1. \A p \in {"create", "copy", "account"} : [phase EXCEPT ![w] = p] \in [Workers -> {"stat", "create", "copy", "account"}]
        OBVIOUS
      <4>2. \A t \in Statuses : [status EXCEPT ![w] = t] \in [Workers -> Statuses \cup {"none"}]
        OBVIOUS
      <4> QED
        BY <3>2, <4>1, <4>2
    <3>3. /\ working[w] \in Export!Files
          /\ disk' = disk \/ disk' = [disk EXCEPT ![working[w]] = "partial"]
      BY <1>5 DEF Export!Create
    <3>5. disk' \in [Export!Files -> {"absent", "theirs", "partial", "whole"}]
      <4>1. [disk EXCEPT ![working[w]] = "partial"] \in [Export!Files -> {"absent", "theirs", "partial", "whole"}]
        BY <3>3
      <4> QED
        BY <3>3, <4>1
    <3> QED
      BY <3>1, <3>4, <3>5
  <2>3. FetchInv'
    BY <1>5 DEF Export!Create
  <2>4. HeldOnce'
    BY <1>5 DEF Export!Create
  <2>5. AccountInv'
    BY <1>5, <2>1 DEF Export!Create
  <2>6. DiskInv'
    <3>1. UNCHANGED <<working, result>> /\ working[w] \in Export!Files
      BY <1>5 DEF Export!Create
    <3>2. CASE Export!Report(w, "failed") /\ UNCHANGED disk
      BY <3>1, <3>2
    <3>3. CASE /\ disk[working[w]] = "absent"
               /\ disk' = [disk EXCEPT ![working[w]] = "partial"]
               /\ phase' = [phase EXCEPT ![w] = "copy"] /\ UNCHANGED status
      BY <3>1, <3>3
    <3> QED
      BY <1>5, <3>2, <3>3 DEF Export!Create
  <2> QED
    BY <2>2, <2>3, <2>4, <2>5, <2>6
<1>6. ASSUME NEW w \in Workers, Export!Copy(w) PROVE ExportInv'
  <2>1. Counted' = Counted
    BY <1>6 DEF Export!Copy, Counted
  <2>2. ExportTypes'
    <3> HIDE DEF FetchInv, HeldOnce, AccountInv, DiskInv
    <3>1. UNCHANGED <<next, batchEnd, fetcher, working, job, result>>
      BY <1>6 DEF Export!Copy
    <3>2. /\ \/ phase' = [phase EXCEPT ![w] = "account"]
          /\ \/ status' = [status EXCEPT ![w] = "failed"]
             \/ status' = [status EXCEPT ![w] = "succeeded"]
      BY <1>6 DEF Export!Copy
    <3>4. /\ phase' \in [Workers -> {"stat", "create", "copy", "account"}]
          /\ status' \in [Workers -> Statuses \cup {"none"}]
      <4>1. \A p \in {"create", "copy", "account"} : [phase EXCEPT ![w] = p] \in [Workers -> {"stat", "create", "copy", "account"}]
        OBVIOUS
      <4>2. \A t \in Statuses : [status EXCEPT ![w] = t] \in [Workers -> Statuses \cup {"none"}]
        OBVIOUS
      <4> QED
        BY <3>2, <4>1, <4>2
    <3>3. /\ working[w] \in Export!Files
          /\ disk' = disk \/ disk' = [disk EXCEPT ![working[w]] = "whole"] \/ disk' = [disk EXCEPT ![working[w]] = "absent"]
      BY <1>6 DEF Export!Copy
    <3>5. disk' \in [Export!Files -> {"absent", "theirs", "partial", "whole"}]
      <4>1. [disk EXCEPT ![working[w]] = "whole"] \in [Export!Files -> {"absent", "theirs", "partial", "whole"}]
        BY <3>3
      <4>2. [disk EXCEPT ![working[w]] = "absent"] \in [Export!Files -> {"absent", "theirs", "partial", "whole"}]
        BY <3>3
      <4> QED
        BY <3>3, <4>1, <4>2
    <3> QED
      BY <3>1, <3>4, <3>5
  <2>3. FetchInv'
    BY <1>6 DEF Export!Copy
  <2>4. HeldOnce'
    BY <1>6 DEF Export!Copy
  <2>5. AccountInv'
    BY <1>6, <2>1 DEF Export!Copy
  <2>6. DiskInv'
    BY <1>6 DEF Export!Copy
  <2> QED
    BY <2>2, <2>3, <2>4, <2>5, <2>6
<1>7. ASSUME NEW w \in Workers, Export!Account(w) PROVE ExportInv'
  <2> DEFINE f == working[w]
  <2>1. f \in Export!Files /\ status[w] \in Statuses /\ result[f] = "none" /\ f < next
    BY <1>7 DEF Export!Account
  <2>2. Counted' = Counted \cup {f} /\ f \notin Counted
    BY <1>7, <2>1 DEF Export!Account, Counted
  <2>3. IsFiniteSet(Counted) /\ Cardinality(Counted) \in Nat
    <3>1. IsFiniteSet(1 .. FileCount)
      BY FS_Interval
    <3>2. Counted \subseteq 1 .. FileCount
      BY DEF Counted
    <3> HIDE DEF Counted
    <3> QED
      BY <3>1, <3>2, FS_Subset, FS_CardinalityType
  <2>4. Cardinality(Counted') = counted + 1
    BY <2>2, <2>3, FS_AddElement
  <2> QED
    BY <1>7, <2>1, <2>4 DEF Export!Account
<1>8. ASSUME NEW w \in Workers, Export!WorkerDone(w) PROVE ExportInv'
  <2>1. Counted' = Counted
    BY <1>8 DEF Export!WorkerDone, Counted
  <2> QED
    BY <1>8, <2>1 DEF Export!WorkerDone
<1>9. CASE Export!Return
  <2>1. Counted' = Counted
    BY <1>9 DEF Export!Return, Counted
  <2> QED
    BY <1>9, <2>1 DEF Export!Return, Export!allWorkersDone
<1>10. ASSUME NEW f \in Export!Files, Export!SomebodyCreates(f) PROVE ExportInv'
  <2>1. Counted' = Counted
    BY <1>10 DEF Export!SomebodyCreates, Counted
  <2> QED
    BY <1>10, <2>1 DEF Export!SomebodyCreates
<1>11. CASE Export!KillDownload
  <2>1. \A f \in Export!Files : result'[f] = "none"
    BY <1>11 DEF Export!KillDownload
  <2>2. Counted' = {}
    BY <2>1 DEF Counted
  <2> QED
    BY <1>11, <2>2, FS_EmptySet DEF Export!KillDownload
<1>12. CASE UNCHANGED exportVars
  BY <1>12 DEF exportVars, Counted
<1> QED
  BY <1>1, <1>2, <1>3, <1>4, <1>5, <1>6, <1>7, <1>8, <1>9, <1>10, <1>11, <1>12, PartSteps
     DEF Export!Next

(* A download that returns has counted every file, once, has no goroutine  *)
(* left, and calls no file downloaded that is not whole.                   *)
THEOREM FilesAccounted == Spec => []DownloadsAccounted
<1>1. ExportInv => DownloadsAccounted
  BY CountedAll DEF ExportInv, FetchInv, AccountInv, DiskInv, Downloading, DownloadsAccounted,
     Export!DownloadsAccounted
<1> QED
  BY <1>1, ExportInit, ExportNext, PTL DEF Spec
=============================================================================
