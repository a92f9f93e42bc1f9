---------------------------- MODULE ConfigStore -----------------------------
(***************************************************************************)
(* `ti configure` and the two files it writes (config/configure/wizard.go, *)
(* config/store/store.go): ~/.ti/config holds the region of every profile  *)
(* and ~/.ti/credentials the keys.  Each file is read whole, one profile   *)
(* of it is changed, and it is put back by a rename; there is no lock.     *)
(***************************************************************************)
EXTENDS Naturals

CONSTANTS Commands,  \* the configure commands, numbered from 1
          Profiles

VARIABLES
    config,      \* per profile: the command whose region is stored, or 0
    credentials, \* per profile: the command whose keys are stored, or 0
    at,          \* per command: where writeProfile stands
    profile,     \* per command: the profile it configures
    configDoc,   \* per command: the config it has read and changed
    credsDoc     \* per command: the credentials it has read and changed

storeVars == <<config, credentials, at, profile, configDoc, credsDoc>>

Empty == [p \in Profiles |-> 0]

Init ==
    /\ config = Empty /\ credentials = Empty
    /\ at = [c \in Commands |-> "start"]
    /\ profile \in [Commands -> Profiles]
    /\ configDoc = [c \in Commands |-> Empty] /\ credsDoc = configDoc

Goto(c, step) == at' = [at EXCEPT ![c] = step]

\* Run asks for the region and both keys; a missing or invalid one ends the command.
\* ReadConfig, and the new region in the copy.
ReadConfig(c) ==
    /\ at[c] = "start"
    /\ \/ Goto(c, "error") /\ UNCHANGED configDoc
       \/ /\ configDoc' = [configDoc EXCEPT ![c] = [config EXCEPT ![profile[c]] = c]]
          /\ Goto(c, "credentials")
    /\ UNCHANGED <<config, credentials, profile, credsDoc>>

ReadCredentials(c) ==
    /\ at[c] = "credentials"
    /\ \/ Goto(c, "error") /\ UNCHANGED credsDoc
       \/ /\ credsDoc' = [credsDoc EXCEPT ![c] = [credentials EXCEPT ![profile[c]] = c]]
          /\ Goto(c, "write config")
    /\ UNCHANGED <<config, credentials, profile, configDoc>>

\* writeTOML, twice.  An error of the chmod after a rename is an error as well.
WriteConfig(c) ==
    /\ at[c] = "write config"
    /\ \/ Goto(c, "error") /\ config' \in {config, configDoc[c]}
       \/ Goto(c, "write credentials") /\ config' = configDoc[c]
    /\ UNCHANGED <<credentials, profile, configDoc, credsDoc>>

WriteCredentials(c) ==
    /\ at[c] = "write credentials"
    /\ \/ Goto(c, "error") /\ credentials' \in {credentials, credsDoc[c]}
       \/ Goto(c, "ok") /\ credentials' = credsDoc[c]
    /\ UNCHANGED <<config, profile, configDoc, credsDoc>>

Kill(c) ==
    /\ at[c] \notin {"start", "ok", "error"}
    /\ Goto(c, "error")
    /\ UNCHANGED <<config, credentials, profile, configDoc, credsDoc>>

\* The commands run one after another.
Turn(c) == \A d \in Commands : d < c => at[d] \in {"ok", "error"}

Next ==
    \E c \in Commands :
        Turn(c) /\ (ReadConfig(c) \/ ReadCredentials(c) \/ WriteConfig(c)
                    \/ WriteCredentials(c) \/ Kill(c))

Spec == Init /\ [][Next]_storeVars

-----------------------------------------------------------------------------
\* docs/priciples.md: "Configure validates the local inputs and stores them
\* atomically": between two commands the region and the keys of a profile are the
\* ones that were entered together.
StoredTogether ==
    (\A c \in Commands : at[c] \in {"start", "ok", "error"}) =>
        \A p \in Profiles : config[p] = credentials[p]
=============================================================================
