\* Two callers and two admitted results, two generation operations,
\* two presentation generations, one call that dies.
SPECIFICATION FairSpec
CONSTANTS
    Caller = {c1, c2}
    MaxResult = 2
    MaxInvocation = 2
    MaxGeneration = 2
    MaxCrash = 1
INVARIANTS TypeOK OneAnswer ShownOnceAsRecorded
CHECK_DEADLOCK FALSE
PROPERTY ShownIsRecorded
