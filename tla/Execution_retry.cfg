\* Three generations, three dispatch commands; only w1 runs with the terminal-negative
\* contract.  The services together keep the promise of ActionOutcome.
CONSTANTS
    NoOperation = NoOperation
    Worker = {w1, w2}
    Operation = {op1, op2, op3}
    WriteHead = {approval}
    ReadHead = {}
    Permanent = {}
    NegativeWorker = {w1}
    MaxAttempt = 3
    MaxRevision = 1
    MaxProbe = 1
SYMMETRY OperationSymmetry
SPECIFICATION Spec
INVARIANTS AtMostOneEvent
PROPERTIES ImplementsOutcome
CHECK_DEADLOCK FALSE
