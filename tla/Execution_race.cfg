\* Two callers of the same dispatch command, two attempts, one revocable approval.
CONSTANTS
    NoOperation = NoOperation
    Worker = {w1, w2}
    Operation = {op1, op2}
    WriteHead = {approval}
    ReadHead = {readPermission}
    Permanent = {approval}
    NegativeWorker = {w1, w2}
    MaxAttempt = 2
    MaxRevision = 2
    MaxProbe = 2
SYMMETRY Symmetry
SPECIFICATION Spec
INVARIANTS TypeOK AtMostOneEvent EffectIsReal NoEffectIsFinal GuardCoherence
PROPERTIES FenceUnderCurrentAuthority OutcomesAreFinal OneRequestPerAttempt
CHECK_DEADLOCK FALSE
