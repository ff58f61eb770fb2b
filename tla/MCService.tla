----------------------------- MODULE MCService -----------------------------
(* Instances of Service for TLC.                                           *)
EXTENDS Service

CONSTANTS t1, t2, a1, c1, c2

TwoThreads == {t1, t2}
MCTracePoint == {a1}
MCCaller == {c1, c2}
NoRequests == {[k \in Kind |-> <<>>]}

=============================================================================
