\* A grant arrives while a calendar is being registered.
CONSTANTS
    Worker = {w1, w2}
    Calendar = {home, work}
    NoCalendar = NoCalendar
    MaxTimeline = 1
    MaxPolicy = 2
SYMMETRY Symmetry
SPECIFICATION Spec
INVARIANTS GrantFollowsActivation
CHECK_DEADLOCK FALSE
