--------------------------- MODULE MCCalendarAnswer ---------------------------
(* CalendarAnswer on a small instance; symmetry is not used, as the run checks a *)
(* liveness property.                                                            *)
EXTENDS CalendarAnswer, TLC
=============================================================================
