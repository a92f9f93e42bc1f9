---------------------------- MODULE DbOperations ----------------------------
(***************************************************************************)
(* The database operations as scripts: the dispatcher of internal/db,      *)
(* which finds out which product a cluster belongs to, and the Starter     *)
(* product behind it (internal/db/product/starter).  A method that both    *)
(* have is named Dispatch... for the dispatcher's half.                    *)
(***************************************************************************)
EXTENDS Scripts

\* ---- Choosing the product -----------------------------------------------

\* From the cluster type given on the command line.
selectedProvider == Check

\* From the cluster itself: it is read, its plan decides, and the product must
\* support the operation and grant its permission.
ResolveCluster == Check ++ Get ++ Check
discoveredProvider == Check ++ ResolveCluster ++ Check

starterClient == Check
ensureStarterCluster == Check
\* What the dispatcher read is used when there is such a snapshot (on every path
\* from a command there is); otherwise the cluster is read again.
clusterFromDispatchOrRead == Check \cup (starterClient ++ Get ++ ensureStarterCluster)

\* ---- Clusters -----------------------------------------------------------

waitUntilClusterActive == Poll
waitUntilClusterDeleted == Poll

createRequestAndEndpoint == Check
updateRequestAndEndpoint == Check
deleteRequestAndEndpoint == Check

\* The plan of what was created or updated is verified afterwards, in the
\* response: the request has been made by then.
CreateCluster ==
    createRequestAndEndpoint ++ starterClient ++ Api("POST", "act")
        ++ ensureStarterCluster ++ Optional(waitUntilClusterActive)
ListClusterPage == starterClient ++ Get ++ Check
DescribeCluster == clusterFromDispatchOrRead
UpdateCluster ==
    updateRequestAndEndpoint ++ starterClient ++ clusterFromDispatchOrRead
        ++ Api("PATCH", "set") ++ ensureStarterCluster
DeleteCluster ==
    Check ++ starterClient ++ clusterFromDispatchOrRead
        ++ Api("DELETE", "delete") ++ Optional(waitUntilClusterDeleted)
DryRunCreateCluster == createRequestAndEndpoint
DryRunUpdateCluster == updateRequestAndEndpoint
DryRunDeleteCluster == deleteRequestAndEndpoint

\* ---- Branches -----------------------------------------------------------

validateBranchIdentity == Check
createBranchRequestAndEndpoint == Check
deleteBranchRequestAndEndpoint == validateBranchIdentity
waitUntilBranchActive == Poll

ListBranches == Check ++ starterClient ++ clusterFromDispatchOrRead ++ Get
CreateBranch ==
    createBranchRequestAndEndpoint ++ starterClient ++ clusterFromDispatchOrRead
        ++ Api("POST", "act") ++ Optional(waitUntilBranchActive)
DescribeBranch ==
    validateBranchIdentity ++ starterClient ++ clusterFromDispatchOrRead ++ Get
DeleteBranch ==
    deleteBranchRequestAndEndpoint ++ starterClient ++ clusterFromDispatchOrRead
        ++ Get ++ Api("DELETE", "delete")
DryRunCreateBranch == createBranchRequestAndEndpoint
DryRunDeleteBranch == deleteBranchRequestAndEndpoint

\* ---- SQL users, SQL and exports -----------------------------------------

\* The part of Prepare that the command as a whole sees (SqlAccess.tla has
\* the users): list them, create or rotate some, store the passwords.
Prepare ==
    Check ++ Get ++ Optional(Api("POST", "act") \cup Api("PATCH", "set"))
        ++ Write("passwords")
PrepareQueryAccess == Check ++ clusterFromDispatchOrRead ++ Prepare
DryRunPrepareQueryAccess == Check

\* A connection needs the stored password of the wanted role.
accessMode == Check
sqlConnectionInputs == accessMode ++ clusterFromDispatchOrRead ++ Resolve
CreateConnectionString == Check ++ sqlConnectionInputs ++ Check
\* One attempt over the chosen transport; the other is never tried instead.
ValidateEndpoint == Check
validateTransport == Check
sqlsingleValidate == Check
sqlhttpExecute == Check ++ Api("POST", "act") ++ Check
sqlmysqlExecute == Once("act")
ExecuteSQL ==
    sqlsingleValidate ++ validateTransport ++ sqlConnectionInputs
        ++ (sqlhttpExecute \cup (ValidateEndpoint ++ sqlmysqlExecute))

ListExportTasks == Check ++ starterClient ++ clusterFromDispatchOrRead ++ Get
listAllExportFiles == Get ++ Optional(Get)
safeExportRelativePath == Check
prepareExportDownload ==
    Check ++ clusterFromDispatchOrRead ++ starterClient ++ listAllExportFiles
        ++ safeExportRelativePath
\* ExportDownload.tla has the worker pool; here it is one local write.
DownloadExportedData == prepareExportDownload ++ Get ++ Write("exports")
DryRunDownloadExportedData == prepareExportDownload

\* ---- The dispatcher -----------------------------------------------------

DispatchCreateCluster == selectedProvider ++ CreateCluster
DispatchDryRunCreateCluster == selectedProvider ++ DryRunCreateCluster
\* Clusters of all products, page by page; a cursor that names a page which has
\* changed since, or that does not advance, is refused.
decodeListCursor == Check
DispatchListClusters ==
    decodeListCursor ++ ListClusterPage ++ Check ++ Optional(ListClusterPage ++ Check)
DispatchDescribeCluster == discoveredProvider ++ DescribeCluster
DispatchUpdateCluster == discoveredProvider ++ UpdateCluster
DispatchDryRunUpdateCluster == discoveredProvider ++ DryRunUpdateCluster
DispatchDeleteCluster == discoveredProvider ++ DeleteCluster
DispatchDryRunDeleteCluster == discoveredProvider ++ DryRunDeleteCluster
DispatchListBranches == discoveredProvider ++ ListBranches
DispatchCreateBranch == discoveredProvider ++ CreateBranch
DispatchDryRunCreateBranch == discoveredProvider ++ DryRunCreateBranch
DispatchDescribeBranch == discoveredProvider ++ DescribeBranch
DispatchDeleteBranch == discoveredProvider ++ DeleteBranch
DispatchDryRunDeleteBranch == discoveredProvider ++ DryRunDeleteBranch
DispatchPrepareQueryAccess == discoveredProvider ++ PrepareQueryAccess
DispatchDryRunPrepareQueryAccess == discoveredProvider ++ DryRunPrepareQueryAccess
DispatchCreateConnectionString == discoveredProvider ++ CreateConnectionString
DispatchExecuteSQL == discoveredProvider ++ ExecuteSQL
DispatchListExportTasks == discoveredProvider ++ ListExportTasks
DispatchDownloadExportedData == discoveredProvider ++ DownloadExportedData
DispatchDryRunDownloadExportedData == discoveredProvider ++ DryRunDownloadExportedData
=============================================================================
