\* A second, local pass beside the workflow's, either of which may die.
SPECIFICATION FairSpec
CONSTANTS
    workflow = workflow
    once = once
    None = None
    sentinel = sentinel
    comprehensive = comprehensive
    r1 = r1
    r2 = r2
    m = m
    Pass = {workflow, once}
    Local = {once}
    Lane = {sentinel}
    Run = {r1, r2}
    RunInfo <- Runs
    MaxGap <- Gaps
    Interval = 2
    Seeded = {r1}
    MaxScanned = 3
    SweepOutcome = {FALSE}
    Horizon = 3
    MaxMoves = 0
    MaxFailures = 1
PROPERTIES
    EventuallyAlarmed
    EventuallyCleared
    ExtrasCollapse
