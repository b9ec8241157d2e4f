\* Two callers, one restart, two pages per traversal; the calendar is edited once and
\* one authority head may change once; three traversals in all.
SPECIFICATION Spec
CONSTANTS
    Caller = {c1, c2}
    Authority = {resource, permission}
    Resource = resource
    MaxObservation = 2
    MaxRestarts = 1
    MaxTraversal = 3
    MaxPages = 2
    MaxSnapshot = 2
    MaxChange = 1
SYMMETRY CallerSymmetry
INVARIANTS
    TypeOK
    OneCoherentSnapshot
    FreshnessIsConservative
    EveryPageFenced
PROPERTIES
    FencedUnderCurrentAuthority
CHECK_DEADLOCK FALSE
