SPECIFICATION FairSpec
CONSTANTS
    None = None
    fix = fix
    cutover = cutover
    feature = feature
    sync = sync
    docs = docs
    files = files
    otherFiles = otherFiles
    zip = zip
    otherZip = otherZip
    core = core
    extra = extra
    Pr <- MCPr
    Pull <- MCPull
    PrePolicy <- MCPrePolicy
    Baseline <- MCBaseline
    BaselineBuild <- MCBaselineBuild
    Trees <- MCTrees
    Zips <- MCZips
    Archives <- MCArchives
    Untitled <- MCUntitled
    Edits <- MCEdits
    Attached <- MCAttached
    Builds <- OneBuild
    MaxFailures = 0
PROPERTIES
    RecoveryFinishes
