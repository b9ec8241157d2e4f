\* A calendar was deactivated; two callers register its two replacements.
CONSTANTS
    Worker = {w1, w2}
    Calendar = {home, spare, work}
    NoCalendar = NoCalendar
    MaxTimeline = 1
    MaxPolicy = 1
SYMMETRY Symmetry
SPECIFICATION Spec
INVARIANTS OneActiveCalendar
CHECK_DEADLOCK FALSE
