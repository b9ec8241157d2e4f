-------------------------- MODULE MCCalendarResult --------------------------
(* Instances of CalendarResult for TLC. *)
EXTENDS CalendarResult

ASSUME FiniteInstance == IsFiniteSet(Worker) /\ IsFiniteSet(PlanOperation)

=============================================================================
