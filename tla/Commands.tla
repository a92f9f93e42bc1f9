------------------------------ MODULE Commands ------------------------------
(***************************************************************************)
(* The command table of internal/cli/commands.go: for every command, the   *)
(* profile it loads, the options it reads from its flags, and the          *)
(* operation it then calls, with and without --dry-run.  Definitions have  *)
(* the names of the constructors they stand for.                           *)
(***************************************************************************)
EXTENDS FsOperations, DbOperations

\* ---- Profiles and credentials -------------------------------------------

dbServiceAndProfile == Profile
fsTIServiceAndProfile == Profile
fsLocalServiceAndProfile == Profile
fsTokenTIServiceAndProfile == Profile
fsTokenLocalServiceAndProfile == Profile
fsTokenManagementServiceAndProfile == Check ++ Profile
fsAIConfigurationServiceAndProfile == Profile

AlwaysMigrates(dryRun) == Migrate ++ Resolve
\* The legacy name registry is migrated on the way, except in a dry run.
fsResolveAuthenticatedProfile(dryRun) ==
    (IF dryRun THEN {<<>>} ELSE Migrate) ++ Resolve

fsServiceAndProfile(dryRun) ==
    fsLocalServiceAndProfile ++ fsResolveAuthenticatedProfile(dryRun)
fsVaultServiceAndProfile(dryRun) == Check ++ fsServiceAndProfile(dryRun)

\* The dry run of a command that has none of its own: configuration and
\* credentials are loaded, nothing is asked of a server.
defaultControlPlaneDryRun == Profile ++ fsServiceAndProfile(TRUE)

\* The two shapes of an authenticated file system command.
FsReadOnly(options, operation) == ReadOnly(fsServiceAndProfile(FALSE) ++ options ++ operation)
FsMutating(options, operation) ==
    Command(fsServiceAndProfile(FALSE) ++ options ++ operation, defaultControlPlaneDryRun)
FsMutatingDryRun(options, operation, dryRun) ==
    Command(fsServiceAndProfile(FALSE) ++ options ++ operation,
            fsServiceAndProfile(TRUE) ++ options ++ dryRun)
DbReadOnly(options, operation) == ReadOnly(dbServiceAndProfile ++ options ++ operation)
DbMutating(options, operation, dryRun) ==
    Command(dbServiceAndProfile ++ options ++ operation,
            dbServiceAndProfile ++ options ++ dryRun)

\* ---- Configuration and update -------------------------------------------

\* Neither is a control-plane command; ConfigStore and SelfUpdate have their writes.
newConfigureCommand == Command(Check ++ Write("configuration"), {})
newUpdateCommand ==
    Command(Check ++ Get ++ Optional(Get ++ Check ++ Write("executable")), Check ++ Get)

\* ---- Database -----------------------------------------------------------

createClusterOptions == Check
updateClusterOptions == Check
deleteClusterOptions == Check
createBranchOptions == Check
deleteBranchOptions == Check
connectionStringOptions == Check
executeSQLOptions == Check
downloadExportedDataOptions == Check

newDBCreateClusterCommand ==
    DbMutating(createClusterOptions, DispatchCreateCluster, DispatchDryRunCreateCluster)
newDBListClustersCommand == DbReadOnly(Check, DispatchListClusters)
newDBDescribeClusterCommand == DbReadOnly(Check, DispatchDescribeCluster)
newDBUpdateClusterCommand ==
    DbMutating(updateClusterOptions, DispatchUpdateCluster, DispatchDryRunUpdateCluster)
newDBDeleteClusterCommand ==
    DbMutating(deleteClusterOptions, DispatchDeleteCluster, DispatchDryRunDeleteCluster)
newDBCreateBranchCommand ==
    DbMutating(createBranchOptions, DispatchCreateBranch, DispatchDryRunCreateBranch)
newDBListBranchesCommand == DbReadOnly(Check, DispatchListBranches)
newDBDescribeBranchCommand == DbReadOnly(Check, DispatchDescribeBranch)
newDBDeleteBranchCommand ==
    DbMutating(deleteBranchOptions, DispatchDeleteBranch, DispatchDryRunDeleteBranch)
newDBPrepareQueryAccessCommand ==
    DbMutating(Check, DispatchPrepareQueryAccess, DispatchDryRunPrepareQueryAccess)
newDBCreateConnectionStringCommand ==
    DbReadOnly(connectionStringOptions, DispatchCreateConnectionString)
newDBExecuteSQLCommand == DbReadOnly(executeSQLOptions, DispatchExecuteSQL)
newDBListExportTasksCommand == DbReadOnly(Check, DispatchListExportTasks)
newDBDownloadExportedDataCommand ==
    DbMutating(downloadExportedDataOptions, DispatchDownloadExportedData,
               DispatchDryRunDownloadExportedData)

\* ---- File system tokens -------------------------------------------------

fsGenerateTokenOptions == Check
fsGenerateScopedTokenOptions == Check
fsTokenMutationOptions == Check
fsRefreshTokenOptions == Check

newFSGenerateFileSystemTokenCommand ==
    LET before == fsTokenTIServiceAndProfile ++ fsGenerateTokenOptions
    IN  Command(before ++ Generate, before ++ DryRunGenerate)
newFSGenerateFileSystemScopedTokenCommand ==
    LET before == fsTokenLocalServiceAndProfile ++ fsGenerateScopedTokenOptions
    IN  Command(before ++ GenerateScoped, before ++ DryRunGenerateScoped)
newFSListFileSystemTokensCommand == ReadOnly(fsTokenManagementServiceAndProfile ++ Check ++ List)
newFSTokenMutationCommand(operation) ==
    LET before == fsTokenManagementServiceAndProfile ++ fsTokenMutationOptions
    IN  Command(before ++ operation, before ++ DryRunMutation)
newFSEnableFileSystemTokenCommand == newFSTokenMutationCommand(setEnabled)
newFSDisableFileSystemTokenCommand == newFSTokenMutationCommand(setEnabled)
newFSDeleteFileSystemTokenCommand == newFSTokenMutationCommand(Delete)
newFSRefreshFileSystemTokenCommand ==
    LET before == fsTokenLocalServiceAndProfile ++ fsRefreshTokenOptions
    IN  Command(before ++ Refresh, before ++ DryRunRefresh)

\* ---- File systems -------------------------------------------------------

fsCreateFileSystemOptions == Check
fsListFileSystemFilters == Check
fsImportTokenOptions == Check
fsDescribeExtractConfigurationOptions == Check
fsUpdateExtractConfigurationOptions == Check
fsDescribeEmbeddingConfigurationOptions == Check
fsUpdateEmbeddingConfigurationOptions == Check

newFSCreateFileSystemCommand ==
    Command(fsTIServiceAndProfile ++ Migrate ++ fsCreateFileSystemOptions ++ CreateFileSystem,
            fsTIServiceAndProfile ++ fsCreateFileSystemOptions ++ DryRunCreateFileSystem)
newFSListFileSystemsCommand ==
    ReadOnly(fsTIServiceAndProfile ++ fsListFileSystemFilters ++ ListFileSystems)
newFSDescribeFileSystemCommand == ReadOnly(fsTIServiceAndProfile ++ DescribeFileSystem)
newFSDescribeFileSystemExtractConfigurationCommand ==
    ReadOnly(fsAIConfigurationServiceAndProfile ++ fsDescribeExtractConfigurationOptions
             ++ DescribeExtract)
newFSUpdateFileSystemExtractConfigurationCommand ==
    LET before == fsAIConfigurationServiceAndProfile ++ fsUpdateExtractConfigurationOptions
    IN  Command(before ++ UpdateExtract, before ++ DryRunUpdateExtract)
newFSDescribeFileSystemEmbeddingConfigurationCommand ==
    ReadOnly(fsAIConfigurationServiceAndProfile ++ fsDescribeEmbeddingConfigurationOptions
             ++ DescribeEmbedding)
newFSUpdateFileSystemEmbeddingConfigurationCommand ==
    LET before == fsAIConfigurationServiceAndProfile ++ fsUpdateEmbeddingConfigurationOptions
    IN  Command(before ++ UpdateEmbedding, before ++ DryRunUpdateEmbedding)
newFSDeleteFileSystemCommand ==
    Command(fsTIServiceAndProfile ++ DeleteFileSystem,
            fsTIServiceAndProfile ++ DryRunDeleteFileSystem)
newFSImportFileSystemTokenCommand ==
    LET before == fsLocalServiceAndProfile ++ fsImportTokenOptions
    IN  Command(before ++ ImportFileSystemToken, before ++ DryRunImportFileSystemToken)
newFSCheckFileSystemCommand == FsReadOnly(Check, drive9CheckFileSystem)

\* ---- Files --------------------------------------------------------------

fsCopyFileOptions == Check
fsFindFilesOptions == Check

newFSCopyFileCommand == FsMutating(fsCopyFileOptions, drive9CopyFile \cup drive9ReadFile)
newFSReadFileCommand == FsReadOnly(Check, drive9ReadFile)
newFSListFilesCommand == FsReadOnly(Check, drive9ListFiles)
newFSDescribeFileCommand == FsReadOnly(Check, drive9DescribeFile)
newFSMoveFileCommand == FsMutating(Check, drive9MoveFile)
newFSDeleteFileCommand == FsMutating(Check, drive9DeleteFile)
newFSCreateDirectoryCommand == FsMutating(Check, drive9CreateDirectory)
newFSChmodFileCommand == FsMutating(Check, drive9ChmodFile)
newFSSymlinkFileCommand == FsMutating(Check, drive9SymlinkFile)
newFSHardlinkFileCommand == FsMutating(Check, drive9HardlinkFile)
newFSSearchFileContentCommand == FsReadOnly(Check, drive9SearchFileContent)
newFSFindFilesCommand == FsReadOnly(fsFindFilesOptions, drive9FindFiles)

\* ---- Layers -------------------------------------------------------------

fsCreateLayerOptions == Check
fsForkLayerOptions == Check
fsDeleteLayerOptions == Check
fsLayerEntriesOptions == Check
fsCreateLayerCheckpointOptions == Check

newFSCreateLayerCommand ==
    FsMutatingDryRun(fsCreateLayerOptions, drive9CreateLayer, DryRunLayerMutation)
newFSListLayersCommand == FsReadOnly(Check, drive9ListLayers)
newFSForkLayerCommand == FsMutatingDryRun(fsForkLayerOptions, drive9ForkLayer, DryRunLayerMutation)
newFSListLayerChainCommand == FsReadOnly(Check, drive9ListLayerChain)
newFSDescribeLayerCommand == FsReadOnly(Check, drive9DescribeLayer)
newFSDiffLayerCommand == FsReadOnly(fsLayerEntriesOptions, drive9DiffLayer)
newFSCreateLayerCheckpointCommand ==
    FsMutatingDryRun(fsCreateLayerCheckpointOptions, drive9CreateLayerCheckpoint,
                     DryRunLayerMutation)
newFSDeleteLayerCommand ==
    FsMutatingDryRun(fsDeleteLayerOptions, drive9DeleteLayer, DryRunLayerMutation)
newFSRollbackLayerCommand == FsMutatingDryRun(Check, drive9RollbackLayer, DryRunLayerMutation)
newFSCommitLayerCommand == FsMutatingDryRun(Check, drive9CommitLayer, DryRunLayerMutation)

\* ---- Packs and mounts ---------------------------------------------------

fsPackFileSystemOptions == Check
fsUnpackFileSystemOptions == Check
fsMountOptions == Check
fsUnmountOptions == Check

newFSPackFileSystemCommand ==
    FsMutatingDryRun(fsPackFileSystemOptions, drive9PackFileSystem, DryRunPackFileSystem)
newFSUnpackFileSystemCommand ==
    FsMutatingDryRun(fsUnpackFileSystemOptions, drive9UnpackFileSystem, DryRunUnpackFileSystem)
newFSMountFileSystemCommand ==
    FsMutatingDryRun(fsMountOptions, drive9MountFileSystem, DryRunMountFileSystem)
newFSUnmountFileSystemCommand ==
    LET before == fsLocalServiceAndProfile ++ fsUnmountOptions
    IN  Command(before ++ drive9UnmountFileSystem, before ++ DryRunUnmountFileSystem)
newFSDrainFileSystemCommand ==
    Command(fsLocalServiceAndProfile ++ drive9DrainFileSystem,
            fsLocalServiceAndProfile ++ DryRunDrainFileSystem)

\* ---- Vault, Git workspaces, journals ------------------------------------

vaultToken == Check
vaultCreateGrantOptions == Check
vaultMountOptions == Check
gitWorkspaceCloneOptions == Check
gitWorktreeAddOptions == Check

newVaultCreateSecretCommand == FsMutating(Check, drive9CreateVaultSecret)
newVaultReplaceSecretCommand == FsMutating(Check, drive9ReplaceVaultSecret)
newVaultReadSecretCommand ==
    ReadOnly(fsVaultServiceAndProfile(FALSE) ++ vaultToken ++ drive9ReadVaultSecret)
newVaultListSecretsCommand ==
    ReadOnly(fsVaultServiceAndProfile(FALSE) ++ vaultToken ++ drive9ListVaultSecrets)
newVaultDeleteSecretCommand == FsMutating(Check, drive9DeleteVaultSecret)
newVaultCreateGrantCommand == FsMutating(vaultCreateGrantOptions, drive9CreateVaultGrant)
newVaultDeleteGrantCommand == FsMutating(Check, drive9DeleteVaultGrant)
newVaultListAuditEventsCommand == FsReadOnly(Check, drive9ListVaultAuditEvents)
newVaultRunWithSecretCommand ==
    ReadOnly(fsVaultServiceAndProfile(FALSE) ++ vaultToken ++ drive9RunWithVaultSecret)
newVaultMountCommand ==
    Command(fsVaultServiceAndProfile(FALSE) ++ vaultMountOptions ++ drive9MountVault,
            fsVaultServiceAndProfile(TRUE) ++ vaultMountOptions ++ DryRunMountVault)
newVaultUnmountCommand ==
    Command(fsLocalServiceAndProfile ++ drive9UnmountFileSystem,
            fsLocalServiceAndProfile ++ DryRunUnmountFileSystem)

newGitCloneWorkspaceCommand == FsMutating(gitWorkspaceCloneOptions, drive9GitCloneWorkspace)
newGitHydrateWorkspaceCommand == FsReadOnly(Check, drive9GitHydrateWorkspace)
newGitAddWorktreeCommand == FsMutating(gitWorktreeAddOptions, drive9GitAddWorktree)
newGitRemoveWorktreeCommand == FsMutating(Check, drive9GitRemoveWorktree)

newJournalCreateCommand == FsMutating(Check, drive9CreateJournal)
newJournalAppendEntriesCommand == FsMutating(Check, drive9AppendJournalEntries)
newJournalReadEntriesCommand == FsReadOnly(Check, drive9ReadJournalEntries)
newJournalSearchEntriesCommand == FsReadOnly(Check, drive9SearchJournal)
newJournalVerifyCommand == FsReadOnly(Check, drive9VerifyJournal)

\* ---- The command tree ---------------------------------------------------

newDBCommand ==
    [create_db_cluster |-> newDBCreateClusterCommand,
     list_db_clusters |-> newDBListClustersCommand,
     describe_db_cluster |-> newDBDescribeClusterCommand,
     update_db_cluster |-> newDBUpdateClusterCommand,
     delete_db_cluster |-> newDBDeleteClusterCommand,
     create_db_cluster_branch |-> newDBCreateBranchCommand,
     list_db_cluster_branches |-> newDBListBranchesCommand,
     describe_db_cluster_branch |-> newDBDescribeBranchCommand,
     delete_db_cluster_branch |-> newDBDeleteBranchCommand,
     create_db_sql_users |-> newDBPrepareQueryAccessCommand,
     format_db_connection_string |-> newDBCreateConnectionStringCommand,
     execute_sql_statement |-> newDBExecuteSQLCommand,
     list_export_tasks |-> newDBListExportTasksCommand,
     download_exported_data |-> newDBDownloadExportedDataCommand]

newFSCommand ==
    [generate_file_system_token |-> newFSGenerateFileSystemTokenCommand,
     generate_file_system_scoped_token |-> newFSGenerateFileSystemScopedTokenCommand,
     list_file_system_tokens |-> newFSListFileSystemTokensCommand,
     enable_file_system_token |-> newFSEnableFileSystemTokenCommand,
     disable_file_system_token |-> newFSDisableFileSystemTokenCommand,
     delete_file_system_token |-> newFSDeleteFileSystemTokenCommand,
     refresh_file_system_token |-> newFSRefreshFileSystemTokenCommand,
     create_file_system |-> newFSCreateFileSystemCommand,
     list_file_systems |-> newFSListFileSystemsCommand,
     describe_file_system |-> newFSDescribeFileSystemCommand,
     describe_extract_configuration |-> newFSDescribeFileSystemExtractConfigurationCommand,
     update_extract_configuration |-> newFSUpdateFileSystemExtractConfigurationCommand,
     describe_embedding_configuration |-> newFSDescribeFileSystemEmbeddingConfigurationCommand,
     update_embedding_configuration |-> newFSUpdateFileSystemEmbeddingConfigurationCommand,
     delete_file_system |-> newFSDeleteFileSystemCommand,
     import_file_system_token |-> newFSImportFileSystemTokenCommand,
     check_file_system |-> newFSCheckFileSystemCommand,
     copy_file |-> newFSCopyFileCommand,
     read_file |-> newFSReadFileCommand,
     list_files |-> newFSListFilesCommand,
     describe_file |-> newFSDescribeFileCommand,
     move_file |-> newFSMoveFileCommand,
     delete_file |-> newFSDeleteFileCommand,
     create_directory |-> newFSCreateDirectoryCommand,
     chmod_file |-> newFSChmodFileCommand,
     create_symlink |-> newFSSymlinkFileCommand,
     create_hardlink |-> newFSHardlinkFileCommand,
     search_file_content |-> newFSSearchFileContentCommand,
     find_files |-> newFSFindFilesCommand,
     create_layer |-> newFSCreateLayerCommand,
     list_layers |-> newFSListLayersCommand,
     fork_layer |-> newFSForkLayerCommand,
     list_layer_chain |-> newFSListLayerChainCommand,
     describe_layer |-> newFSDescribeLayerCommand,
     diff_layer |-> newFSDiffLayerCommand,
     create_layer_checkpoint |-> newFSCreateLayerCheckpointCommand,
     delete_layer |-> newFSDeleteLayerCommand,
     rollback_layer |-> newFSRollbackLayerCommand,
     commit_layer |-> newFSCommitLayerCommand,
     pack_file_system |-> newFSPackFileSystemCommand,
     unpack_file_system |-> newFSUnpackFileSystemCommand,
     mount_file_system |-> newFSMountFileSystemCommand,
     unmount_file_system |-> newFSUnmountFileSystemCommand,
     drain_file_system |-> newFSDrainFileSystemCommand]

newFSVaultCommand ==
    [create_secret |-> newVaultCreateSecretCommand,
     replace_secret |-> newVaultReplaceSecretCommand,
     read_secret |-> newVaultReadSecretCommand,
     list_secrets |-> newVaultListSecretsCommand,
     delete_secret |-> newVaultDeleteSecretCommand,
     create_grant |-> newVaultCreateGrantCommand,
     delete_grant |-> newVaultDeleteGrantCommand,
     list_audit_events |-> newVaultListAuditEventsCommand,
     run_with_secret |-> newVaultRunWithSecretCommand,
     mount_vault |-> newVaultMountCommand,
     unmount_vault |-> newVaultUnmountCommand]

newFSGitCommand ==
    [clone_workspace |-> newGitCloneWorkspaceCommand,
     hydrate_workspace |-> newGitHydrateWorkspaceCommand,
     add_worktree |-> newGitAddWorktreeCommand,
     remove_worktree |-> newGitRemoveWorktreeCommand]

newFSJournalCommand ==
    [create_journal |-> newJournalCreateCommand,
     append_entries |-> newJournalAppendEntriesCommand,
     read_entries |-> newJournalReadEntriesCommand,
     search_entries |-> newJournalSearchEntriesCommand,
     verify_journal |-> newJournalVerifyCommand]

\* The commands of two groups in one table.
f @@ g == [c \in DOMAIN f \cup DOMAIN g |-> IF c \in DOMAIN f THEN f[c] ELSE g[c]]

newRootCommand ==
    [configure |-> newConfigureCommand, update |-> newUpdateCommand]
        @@ newDBCommand @@ newFSCommand @@ newFSVaultCommand @@ newFSGitCommand
        @@ newFSJournalCommand
=============================================================================
