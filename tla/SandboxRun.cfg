SPECIFICATION FairSpec
CONSTANTS
    main = main
    child = child
    grandchild = grandchild
    None = None
    Process <- MCProcess
    Hosts <- MCHosts
    MaxOutput = 1
    Deadline = 1
    MaxGrowth = 0
    MaxFailures = 1
INVARIANTS
    NothingTrackedRemains
    OutcomeIsTrue
PROPERTIES
    EventuallyReturns
CHECK_DEADLOCK FALSE
