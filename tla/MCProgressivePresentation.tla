--------------------- MODULE MCProgressivePresentation ---------------------
(* ProgressivePresentation on a small instance: callers are interchangeable. *)
EXTENDS ProgressivePresentation, TLC

CallerSymmetry == Permutations(Caller)
=============================================================================
