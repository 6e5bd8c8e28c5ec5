SPECIFICATION Spec
CONSTANTS
    alice = alice
    bob = bob
    mia = mia
    i1 = i1
    i2 = i2
    None = None
    Actor <- MCActor
    Issue <- MCIssue
    Maintainer <- MCMaintainer
    Commands <- MCCommands
    Triaged <- MCTriaged
    Labelled <- MCLabelled
    Threshold = 2
    Window = 1
    Cooldown = 3
    MaxCommands = 3
    MaxFailures = 1
    Horizon = 2
INVARIANTS
    CooldownNotExtended
    LabelFollowsState
PROPERTIES
    KeptUntilReleased
    CooldownBlocks
CHECK_DEADLOCK FALSE
