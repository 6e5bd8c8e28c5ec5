\* One pass at a time: gaps that open and close, passes that die anywhere, an
\* activation that moves.
SPECIFICATION Spec
CONSTANTS
    workflow = workflow
    once = once
    None = None
    sentinel = sentinel
    comprehensive = comprehensive
    r1 = r1
    r2 = r2
    m = m
    Pass = {workflow}
    Local = {}
    Lane = {sentinel, comprehensive}
    Run = {r1, r2, m}
    RunInfo <- Runs
    MaxGap <- Gaps
    Interval = 2
    Seeded = {r1}
    MaxScanned = 2
    SweepOutcome = {TRUE, FALSE}
    Horizon = 4
    MaxMoves = 1
    MaxFailures = 1
INVARIANTS
    NoticeRate
    ResolvedOnce
    OneAlarm
PROPERTIES
    RecoveredByNewRecord
    StatusIsTrue
