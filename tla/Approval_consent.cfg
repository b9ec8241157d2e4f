\* Two callers, one calendar, a Timeline of four events: grant, request, two replies,
\* or two grants.
CONSTANTS
    Worker = {w1, w2}
    Calendar = {work}
    NoCalendar = NoCalendar
    MaxTimeline = 4
    MaxPolicy = 2
SYMMETRY Symmetry
SPECIFICATION Spec
INVARIANTS InformedConsent OneActivePermission
PROPERTIES AdmittedUnderAuthority RevokedStaysRevoked
CHECK_DEADLOCK FALSE
