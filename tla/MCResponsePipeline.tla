------------------------- MODULE MCResponsePipeline -------------------------
(* ResponsePipeline on a small instance; symmetry is not used, as the run checks a *)
(* liveness property.                                                              *)
EXTENDS ResponsePipeline, TLC
=============================================================================
