--------------------------- MODULE MCBreakpoints ---------------------------
(* Instances of Breakpoints for TLC.                                       *)
EXTENDS Breakpoints

CONSTANTS a1, a2, a3, g1, g2

MCAddr == {a1, a2, a3}
MCGoRoutine == {g1, g2}

=============================================================================
