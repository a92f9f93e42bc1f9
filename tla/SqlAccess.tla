----------------------------- MODULE SqlAccess ------------------------------
(***************************************************************************)
(* `ti db create-db-sql-users` (starter/sql.go, sqlaccess/sqlaccess.go,    *)
(* sqlcred/store.go): one managed SQL user per access mode is found,       *)
(* created or given a new password, one after another, and the passwords   *)
(* are stored on this machine in one document once all of them are known.  *)
(* The command is run again and again; it may be killed, refused, or lose  *)
(* the reply to a request that the server carried out.                     *)
(***************************************************************************)
EXTENDS Naturals, Sequences

CONSTANTS Plans,      \* the access modes in the order of sqlaccess.Plans
          MaxPrepares \* how often the command is run

VARIABLES
    users,     \* per mode: the account of the remote user
    document,  \* per mode: the account in the stored document
    local,     \* per mode: the document the running command works on
    listed,    \* per mode: the remote user as the command listed it
    preparing, \* the plan it is at, 0 when none runs, one more than all to store
    prepared,  \* how the last one ended: "ok" or "error"
    prepares,  \* how often it was run
    drawn      \* passwords that GeneratePassword has drawn

sqlVars == <<users, document, local, listed, preparing, prepared, prepares, drawn>>

\* A user's name is the suffix of its plan, or that with the prefix of the cluster.
\* "foreign" stands for a user with the suffix and another role or authentication
\* method, which findManagedUser refuses to touch.  A password is the number of the
\* draw it came from, 0 for one made elsewhere.
User(name, password) == [name |-> name, password |-> password]
NoUser == User("none", 0)
Foreign == User("foreign", 0)
Account == [name : {"none", "foreign", "suffix", "prefixed"}, password : Nat]
Modes == {Plans[i] : i \in DOMAIN Plans}

Init ==
    /\ users \in [Modes -> {NoUser, Foreign, User("suffix", 0), User("prefixed", 0)}]
    /\ document = [m \in Modes |-> NoUser] /\ local = document /\ listed = document
    /\ preparing = 0 /\ prepared = "ok" /\ prepares = 0 /\ drawn = 0

EndWith(status) == preparing' = 0 /\ prepared' = status

\* PrepareQueryAccess up to the list of users: sqlcred.Read, then listAllSQLUsers.
\* A failure of either, or of a check before them, ends the command.
PrepareQueryAccess ==
    /\ preparing = 0 /\ prepares < MaxPrepares
    /\ prepares' = prepares + 1
    /\ \/ EndWith("error") /\ UNCHANGED <<local, listed>>
       \/ /\ local' = document /\ listed' = users
          /\ preparing' = 1 /\ UNCHANGED prepared
    /\ UNCHANGED <<users, document, drawn>>

mode == Plans[preparing]
found == listed[mode] # NoUser
hasLocal == local[mode] # NoUser

\* Mutant: a password stored under another user name counts as stored.
StoredAnyhow == found /\ hasLocal
\* A user that is found and whose password is stored under its name is left as it is.
exists == found /\ hasLocal /\ local[mode].name = listed[mode].name

\* UpdateSQLUser for a user that is found, CreateSQLUser with AutoPrefix otherwise:
\* the server carries the request out and answers, carries it out and the answer is
\* lost, or does not carry it out.  Only after an answer is the password set in the
\* document; when the answer to a creation names no user, under the bare suffix.
SetPassword ==
    LET name == IF found THEN listed[mode].name ELSE "prefixed" IN
    /\ drawn' = drawn + 1
    /\ \/ /\ users' = [users EXCEPT ![mode] = User(name, drawn')]
          /\ \/ /\ \E answered \in IF found THEN {name} ELSE {name, "suffix"} :
                     local' = [local EXCEPT ![mode] = User(answered, drawn')]
                /\ preparing' = preparing + 1 /\ UNCHANGED prepared
             \/ EndWith("error") /\ UNCHANGED local
       \/ EndWith("error") /\ UNCHANGED <<users, local>>

\* One round of the loop of Prepare.
Prepare ==
    /\ preparing \in DOMAIN Plans
    /\ \/ /\ found /\ listed[mode] = Foreign
          /\ EndWith("error") /\ UNCHANGED <<users, local, drawn>>
       \/ /\ listed[mode] # Foreign /\ exists
          /\ preparing' = preparing + 1 /\ UNCHANGED <<users, local, prepared, drawn>>
       \/ listed[mode] # Foreign /\ ~exists /\ SetPassword
    /\ UNCHANGED <<document, listed, prepares>>

\* sqlcred.Write: a temporary file renamed over the document, or an error; the
\* chmod after the rename may fail as well.
WriteDocument ==
    /\ preparing = Len(Plans) + 1
    /\ \/ document' = local /\ \E status \in {"ok", "error"} : EndWith(status)
       \/ UNCHANGED document /\ EndWith("error")
    /\ UNCHANGED <<users, local, listed, prepares, drawn>>

KillPrepare ==
    /\ preparing # 0
    /\ EndWith("error")
    /\ UNCHANGED <<users, document, local, listed, prepares, drawn>>

Next == PrepareQueryAccess \/ Prepare \/ WriteDocument \/ KillPrepare

Spec == Init /\ [][Next]_sqlVars

-----------------------------------------------------------------------------
\* On one machine, whose commands run one at a time and whose users nobody else
\* changes: a password stored under the name that the user has on the server is the
\* one the server accepts, through any sequence of failed, killed and repeated
\* commands.  A command that succeeds has stored the password of every mode, and
\* under that name, unless it created the user and was not told the name: then the
\* next one that succeeds mends it (docs/spec/done/0008: "idempotent and re-entrant").
StoredPasswordsWork ==
    /\ \A m \in Modes : document[m].name = users[m].name => document[m] = users[m]
    /\ (prepares > 0 /\ preparing = 0 /\ prepared = "ok") =>
         \A m \in Modes :
            /\ document[m] # NoUser /\ document[m].password = users[m].password
            /\ document[m].name = users[m].name \/ listed[m] = NoUser
=============================================================================
