\* Two processes, two rows of each kind, one process that dies.
SPECIFICATION FairSpec
CONSTANTS
    Caller = {c1, c2}
    MaxObservation = 2
    MaxProjection = 2
    MaxInvocation = 2
    MaxCrash = 1
INVARIANTS TypeOK OneAnswerShown
PROPERTY AdoptedIsShown
CHECK_DEADLOCK FALSE
