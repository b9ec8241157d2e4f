------------------------ MODULE MCCalendarApproval ------------------------
(* Small instances of CalendarApproval for TLC. *)
EXTENDS CalendarApproval, TLC

Symmetry == Permutations(Worker) \cup Permutations(Calendar)

=============================================================================
