\* Two callers, a retried plan, two presentation generations, one change, one crash.
CONSTANTS
    Nothing = Nothing
    Worker = {w1, w2}
    Credential = {c1}
    Route = {r1}
    PlanOperation = {run, again}
    RunPlan = run
    MaxGeneration = 2
    MaxChange = 1
    MaxCrash = 1
SPECIFICATION FairSpec
INVARIANTS TypeOK ShownAtMostOnce ReportedIsReal OneLivePlan RecordMatchesSink
PROPERTY ShownIsRecorded
CHECK_DEADLOCK FALSE
