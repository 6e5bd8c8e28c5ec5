SPECIFICATION Spec
CONSTANTS
    helper = helper
    unit = unit
    integration = integration
    data = data
    guard = guard
    scanner = scanner
    doc = doc
    workflow = workflow
    script = script
    readme = readme
    None = None
    Path <- MCPath
    Area <- MCArea
    Python <- MCPython
    TestModule <- MCTestModule
    Dropped <- MCDropped
    RouterFiles <- MCGuards
    Guards <- MCGuards
    ScanGuard = guard
    Scanners <- MCScanners
    Reviewed <- MCNoPath
    FactOnly <- MCNoPath
    Inits <- MCInits
    Directory <- MCDirectory
    Draft <- MCDraft
    Seed <- MCSeed
    MaxEdits = 3
INVARIANTS
    NothingEscapes
    AddingNeverLowers
CHECK_DEADLOCK FALSE
