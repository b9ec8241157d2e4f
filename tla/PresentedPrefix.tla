-------------------------- MODULE PresentedPrefix --------------------------
(***************************************************************************)
(* What presenting one output progressively promises to the counterpart:   *)
(* its frames are seen one after the other, each exactly once, and when    *)
(* the relationship's history tells what was presented, it tells exactly   *)
(* what was seen, and nothing of this output is seen afterwards.           *)
(***************************************************************************)
EXTENDS Integers, Sequences

CONSTANT FrameCount  \* frames the output was rendered into

VARIABLES
    seen,  \* ordinals of the frames shown to the counterpart, in order
    told   \* the extent that history tells, or NotTold

vars == <<seen, told>>

NotTold == -1

Init == seen = <<>> /\ told = NotTold

\* The next frame is shown.
Show ==
    /\ told = NotTold
    /\ Len(seen) < FrameCount
    /\ seen' = Append(seen, Len(seen) + 1)
    /\ UNCHANGED told

\* History records how much was presented, once and for all.
Tell ==
    /\ told = NotTold
    /\ told' = Len(seen)
    /\ UNCHANGED seen

Next == Show \/ Tell

Spec == Init /\ [][Next]_vars
=============================================================================
