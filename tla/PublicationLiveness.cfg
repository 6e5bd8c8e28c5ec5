\* One pass at a time, a manual dispatch, and staging refs that outlive their receipts.
SPECIFICATION FairSpec
CONSTANTS
    workflow = workflow
    once = once
    None = None
    sentinel = sentinel
    comprehensive = comprehensive
    s0 = s0
    s1 = s1
    s2 = s2
    c0 = c0
    c1 = c1
    S0 = S0
    S1 = S1
    S2 = S2
    C0 = C0
    C1 = C1
    C1clean = C1clean
    S1late = S1late
    C1unattributed = C1unattributed
    C1foreign = C1foreign
    C0last = C0last
    C1onLast = C1onLast
    C1boot = C1boot
    S1one = S1one
    f1 = f1
    f2 = f2
    Pass = {workflow}
    Lane = {sentinel, comprehensive}
    Run <- Runs
    Result = {S0, S1, S1late, C0last, C1onLast, C1unattributed, C1foreign}
    Fingerprint = {f1, f2}
    LaneOf <- RunLane
    StartedAt <- RunStart
    Body <- Bodies
    Seeded <- SentinelSeeded
    Unloadable = {}
    MaxNewIssues = 1
    MaxFailures = 1
    Dispatched = {c1}
    Ageing = {s1}
    Maintainer = {"keep-open"}
PROPERTIES
    EventuallyPublished
    EventuallyRetired
