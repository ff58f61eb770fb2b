--------------------------- MODULE MCTracerLibrary ---------------------------
(* Instances of TracerLibrary for TLC.                                      *)
EXTENDS TracerLibrary

CONSTANTS t1, t2, a1, a2

TwoThreads == {t1, t2}
TwoPoints == {a1, a2}
AllPoints == {a1, a2, Stop}
NoRequests == {[k \in Kind |-> <<>>]}

=============================================================================
