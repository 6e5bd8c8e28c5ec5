SPECIFICATION FairSpec
CONSTANTS
    None = None
    first = first
    second = second
    Fixture = {first, second}
    Order <- MCOrder
    Worker = {w1, w2}
    Slot = {s1, s2}
    ParentGrace = 15
    ChildGrace = 5
    KillWait = 3
    MaxFaults = 1
CHECK_DEADLOCK FALSE
INVARIANTS
    StopMissesOnlyStarting
    SealedIsTrue
    OrphansExplained
PROPERTY EventuallySealed
