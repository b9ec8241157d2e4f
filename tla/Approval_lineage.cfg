\* One calendar is replaced by another, with Permissions for both; one caller
\* between all the other changes.
CONSTANTS
    Worker = {w1}
    Calendar = {home, work}
    NoCalendar = NoCalendar
    MaxTimeline = 3
    MaxPolicy = 2
SYMMETRY Symmetry
SPECIFICATION Spec
INVARIANTS TypeOK ConsentLineage
CHECK_DEADLOCK FALSE
