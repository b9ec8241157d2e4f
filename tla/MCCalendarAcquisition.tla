----------------------- MODULE MCCalendarAcquisition -----------------------
(* CalendarAcquisition on a small instance: callers are interchangeable. *)
EXTENDS CalendarAcquisition, TLC

CallerSymmetry == Permutations(Caller)
=============================================================================
