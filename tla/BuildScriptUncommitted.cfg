CONSTANTS
    Commits = {"c0", "c1", "c2"}
    Tip <- MCTip
    Requests <- UncommittedRequests
    GoVersions <- OneGo
    Platform = "linux"
    Machine = "x86_64"
    Edits <- AllEdits
    MaxInvocations = 1
SPECIFICATION Spec
INVARIANT NoUncommittedBuild
