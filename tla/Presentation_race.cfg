SPECIFICATION Spec
CONSTANTS
    Caller = {c1, c2}
    FrameCount = 2
    MaxGeneration = 2
    MaxTimeline = 3
SYMMETRY CallerSymmetry
INVARIANTS
    TypeOK
    RecordMatchesSink
    OneCanonicalPresentation
    InterruptionInWindow
PROPERTIES
    InterruptionIsFinal
    ImplementsPrefix
CHECK_DEADLOCK FALSE
