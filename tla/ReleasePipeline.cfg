SPECIFICATION FairSpec
CONSTANTS
    None = None
    fix = fix
    cutover = cutover
    feature = feature
    sync = sync
    docs = docs
    files = files
    otherFiles = otherFiles
    zip = zip
    otherZip = otherZip
    core = core
    extra = extra
    Pr <- MCPr
    Pull <- MCPull
    PrePolicy <- MCPrePolicy
    Baseline <- MCBaseline
    BaselineBuild <- MCBaselineBuild
    Trees <- MCTrees
    Zips <- MCZips
    Archives <- MCArchives
    Untitled <- MCUntitled
    Edits <- MCEdits
    Attached <- MCArchives
    Builds <- MCBuilds
    MaxFailures = 2
INVARIANTS
    OfficialIsDistributed
    ShippedOnce
    VersionCoversPlan
PROPERTIES
    KeepsContract
    EventuallyOfficial
