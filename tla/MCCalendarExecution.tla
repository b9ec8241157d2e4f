------------------------ MODULE MCCalendarExecution ------------------------
(* Small instances of CalendarExecution for TLC. *)
EXTENDS CalendarExecution, TLC

OperationSymmetry == Permutations(Operation)

Symmetry == Permutations(Worker) \cup Permutations(Operation)


=============================================================================
