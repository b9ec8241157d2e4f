\* One caller; the credential may be replaced once.
CONSTANTS
    Nothing = Nothing
    Worker = {w1}
    Credential = {c1, c2}
    Route = {r1}
    PlanOperation = {run}
    RunPlan = run
    MaxGeneration = 1
    MaxChange = 1
    MaxCrash = 1
SPECIFICATION FairSpec
PROPERTY AcceptanceIsRecorded
CHECK_DEADLOCK FALSE
