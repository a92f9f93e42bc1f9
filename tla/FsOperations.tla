---------------------------- MODULE FsOperations ----------------------------
(***************************************************************************)
(* The file system operations as scripts: the companion calls of           *)
(* internal/fs/drive9_companion.go, file systems over the tenant API       *)
(* (tenant_control.go, control.go), mounts and packs, token management     *)
(* (tokenmgmt) and AI provider configuration (aiconfig).  Definitions have *)
(* the names of the functions they stand for.                              *)
(***************************************************************************)
EXTENDS Scripts

\* ---- Validation ---------------------------------------------------------

\* Each of these reads its arguments, or a response, and may refuse them.
drive9CopyArgs == Check
drive9VaultSetFieldsFromDirectory == Check
drive9VaultGrantScopes == Check
journalAppendStdin == Check
parseVaultPath == Check
validateVaultSecretName == Check
normalizeLayerMountOptions == Check
resolvePackFileSystemRequest == Check
resolveUnpackFileSystemRequest == resolvePackFileSystemRequest
validateCreateMetadata == Check
validateAdminTenantListOptions == Check
validateGenerate == Check
validateGenerateScoped == Check
validateTokenID == Check
controlClient == Check
resolveBearer == Resolve
resolveManagementAuth == Check ++ Optional(resolveBearer)
validateExtractUpdate == Check
validateEmbeddingUpdate == Check
extractInputs == Check
embeddingInputs == Check
validateResponse == Check

\* The overlay root of a mount profile is made on the way, in a dry run too.
mountOverlayInputs == Write("overlay")
mountInputs == Check ++ Optional(mountOverlayInputs)

\* Where a credential will be stored is made and probed before it is asked for.
PrepareCredentialStore == Write("credentialStore")
PrepareCredentialTarget == PrepareCredentialStore

\* ---- Capabilities -------------------------------------------------------

\* The help texts of the companion tell what it can do.  Each run prepares its
\* home, also for a dry run.
requireDrive9Capabilities == Companion("none") ++ Optional(Companion("none")) ++ Check

\* ---- Files --------------------------------------------------------------

drive9CheckFileSystem == Step("observed", "none")

\* A local-to-remote upload without --overwrite, --append or --resume first asks
\* whether the target exists (a remote-to-remote copy never does).  Streams and
\* appends run once; everything else is repeated after a transient failure.
ensureDrive9UploadTargetAbsent == Check ++ Step("probe", "none")

drive9CopyFile ==
    LET Upload == ensureDrive9UploadTargetAbsent ++ (Companion("set") \cup Retried("set"))
        Replace == Companion("act") \cup Companion("set") \cup Retried("set")
        Download == Optional(Check) ++ (Companion("none") \cup Retried("none"))
    IN  drive9CopyArgs ++ (Upload \cup Replace \cup Download)

drive9ReadFile == Check ++ Retried("none")
drive9ListFiles == Check ++ Companion("none")
drive9DescribeFile == Check ++ Companion("none") ++ Check
drive9MoveFile == Check ++ Companion("act")
drive9DeleteFile == Check ++ Companion("delete")
drive9CreateDirectory == Check ++ Companion("create")
drive9ChmodFile == Check ++ Retried("set")
drive9SymlinkFile == Check ++ Companion("create")
drive9HardlinkFile == Check ++ Companion("create")
drive9SearchFileContent == Check ++ Companion("none")
drive9FindFiles == Check ++ Companion("none")

\* ---- Layers -------------------------------------------------------------

drive9CreateLayer == Check ++ Companion("act") ++ Check
drive9ListLayers == Retried("none") ++ Check
drive9ForkLayer == requireDrive9Capabilities ++ Companion("act") ++ Check
drive9ListLayerChain == requireDrive9Capabilities ++ Retried("none") ++ Check
drive9DeleteLayer == requireDrive9Capabilities ++ Companion("delete")
drive9DescribeLayer == Retried("none") ++ Check
drive9DiffLayer == Retried("none") ++ Check
\* With --checkpoint-id the checkpoint has a name and a repeated request is
\* refused; without it the server names every one it creates.
drive9CreateLayerCheckpoint == (Retried("create") \cup Retried("act")) ++ Check
drive9RollbackLayer == Companion("act")
drive9CommitLayer == Companion("act")

\* ---- Git workspaces and journals ----------------------------------------

drive9GitCloneWorkspace == Check ++ Companion("create")
drive9GitHydrateWorkspace == Check ++ Companion("set")
drive9GitAddWorktree == Check ++ Companion("create")
drive9GitRemoveWorktree == Check ++ Companion("delete")

drive9CreateJournal == Check ++ Companion("act") ++ Check
drive9AppendJournalEntries == Check ++ journalAppendStdin ++ Companion("act") ++ Check
drive9ReadJournalEntries == Check ++ Companion("none") ++ Check
drive9SearchJournal == Companion("none") ++ Check
drive9VerifyJournal == Check ++ Companion("none") ++ Check

\* ---- Vault --------------------------------------------------------------

drive9CreateVaultSecret == validateVaultSecretName ++ Companion("set")
\* The old secret is removed, then the new one is set: two requests.
drive9ReplaceVaultSecret ==
    parseVaultPath ++ drive9VaultSetFieldsFromDirectory ++ Step("ignored", "delete")
        ++ Companion("set")
drive9ReadVaultSecret == Check ++ Companion("none") ++ Check
drive9ListVaultSecrets == Companion("none") ++ Check
drive9DeleteVaultSecret == Check ++ Deleted
drive9CreateVaultGrant == drive9VaultGrantScopes ++ Companion("act") ++ Check
drive9DeleteVaultGrant == Check ++ Deleted
drive9ListVaultAuditEvents == Companion("none") ++ Check
drive9RunWithVaultSecret == Check ++ Companion("act")

\* ---- Mounts, packs ------------------------------------------------------

\* The mount starts in the background; without its locator it is stopped again.
writeDrive9MountLocator == Step("guard", "locator")

drive9MountFileSystem ==
    normalizeLayerMountOptions ++ Optional(requireDrive9Capabilities) ++ Companion("create")
        ++ writeDrive9MountLocator ++ Poll
drive9MountVault == Check ++ Companion("create") ++ writeDrive9MountLocator ++ Poll

\* With --ignore-absent a missing locator ends the command, and a failed run of
\* the companion counts as "absent".
drive9UnmountFileSystem ==
    UNION {Resolve ++ Companion("delete") ++ Write("noLocator"),
          Step("known", "none") ++ Step("tolerated", "delete") ++ Write("noLocator")}
drive9DrainFileSystem == Resolve ++ Companion("act")

drive9PackFileSystem == Check ++ Companion("set")
\* The overlay is snapshotted, unpacked into and audited; the audit also runs
\* after a companion that failed.
unpackAuditLocalRoot == Check
scanOverlayEntries == Check
auditUnpackedOverlaySymlinks == Step("audit", "audit")
drive9UnpackFileSystem ==
    unpackAuditLocalRoot ++ scanOverlayEntries ++ Step("deferred", "act")
        ++ auditUnpackedOverlaySymlinks

\* ---- File systems over the tenant API -----------------------------------

adminTenantClient == Check
adminCreateInputs == validateCreateMetadata ++ adminTenantClient
adminItemInputs == Check ++ adminTenantClient
adminDeleteInputs == adminItemInputs

\* The wait for a usable file system: a credential, then attempts until one
\* succeeds, fails for good or the deadline passes.
waitUntilFileSystemReady == Resolve ++ Attempts

\* The token is returned once.  When it cannot be stored the command says so
\* and succeeds, without waiting.
CreateFileSystem ==
    adminCreateInputs ++ Migrate ++ PrepareCredentialStore ++ Api("POST", "act") ++ Check
        ++ Step("offer", "credential") ++ Optional(waitUntilFileSystemReady)
ListFileSystems ==
    validateAdminTenantListOptions ++ Migrate ++ adminTenantClient ++ Get ++ Optional(Check ++ Get) ++ Check
DescribeFileSystem == adminItemInputs ++ Get ++ Check ++ Migrate
DeleteFileSystem ==
    adminDeleteInputs ++ Api("DELETE", "delete") ++ Check ++ Write("noCredential")
DryRunCreateFileSystem == adminCreateInputs
DryRunDeleteFileSystem == adminDeleteInputs

\* The token is tried in a temporary home before it is stored.
importFileSystemToken == Check ++ Once("none") ++ Check
ImportFileSystemToken == importFileSystemToken ++ Write("credential")
DryRunImportFileSystemToken == importFileSystemToken

DryRunMountFileSystem ==
    normalizeLayerMountOptions ++ Optional(requireDrive9Capabilities) ++ mountInputs
DryRunUnmountFileSystem == Check
DryRunDrainFileSystem == Check
vaultMountInputs == Check ++ Get ++ Check
DryRunMountVault == vaultMountInputs
DryRunLayerMutation == Check ++ Optional(requireDrive9Capabilities)
DryRunPackFileSystem == resolvePackFileSystemRequest
DryRunUnpackFileSystem == resolveUnpackFileSystemRequest

\* ---- Tokens (TokenMgmt.tla has the concurrent commands) ------------------

\* The new token is stored when asked for; a failed store revokes it again.
generate ==
    LET request == controlClient ++ Api("POST", "act") ++ Check
    IN  request \cup (PrepareCredentialTarget ++ Check ++ request ++ Step("guard", "credential"))
Generate == validateGenerate ++ generate
generateScoped ==
    LET request == Check ++ Api("POST", "act") ++ Check
    IN  request \cup (PrepareCredentialTarget ++ Check ++ request ++ Step("guard", "credential"))
GenerateScoped == validateGenerateScoped ++ resolveBearer ++ generateScoped
List == resolveManagementAuth ++ Get
setEnabled == validateTokenID ++ resolveManagementAuth ++ Api("POST", "set") ++ Check
Delete ==
    validateTokenID ++ resolveManagementAuth ++ Check ++ Api("DELETE", "delete") ++ Optional(Write("noCredential"))
\* A token kept here is rotated into a recovery file first.
refreshRemote == Check ++ Api("POST", "act") ++ Check
Refresh ==
    LET stored == Check ++ PrepareCredentialTarget ++ Check ++ refreshRemote
                        ++ Write("recovery") ++ Write("credential")
    IN  resolveBearer ++ Check ++ (refreshRemote \cup stored)
DryRunGenerate == validateGenerate ++ controlClient ++ Check
DryRunGenerateScoped == validateGenerateScoped ++ resolveBearer ++ Check
DryRunMutation == validateTokenID ++ resolveManagementAuth ++ Optional(Check)
DryRunRefresh == resolveBearer ++ Check

\* ---- AI provider configuration ------------------------------------------

DescribeExtract == extractInputs ++ Get ++ validateResponse
UpdateExtract ==
    validateExtractUpdate ++ extractInputs ++ Api("PUT", "set") ++ validateResponse
DescribeEmbedding == embeddingInputs ++ Get ++ validateResponse
UpdateEmbedding ==
    validateEmbeddingUpdate ++ embeddingInputs ++ Api("PUT", "set") ++ validateResponse
DryRunUpdateExtract == validateExtractUpdate ++ extractInputs
DryRunUpdateEmbedding == validateEmbeddingUpdate ++ embeddingInputs
=============================================================================
