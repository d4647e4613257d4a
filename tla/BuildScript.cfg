CONSTANTS
    Commits = {"c0", "c1", "c2"}
    Tip <- MCTip
    Requests <- MCRequests
    GoVersions <- OneGo
    Platform = "linux"
    Machine = "x86_64"
    Edits <- MCEdits
    MaxInvocations = 2
SPECIFICATION Spec
INVARIANT TypeOK
INVARIANT PackagesHoldTheirBuild
INVARIANT SuccessIsComplete
INVARIANT CleanBuildIsClean
PROPERTY HeadComesBack
