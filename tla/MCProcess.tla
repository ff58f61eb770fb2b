------------------------------ MODULE MCProcess ------------------------------
(* Instances of Process for TLC: a loop of four instructions, of which the *)
(* third may create a thread.                                              *)
EXTENDS Process

CONSTANTS t1, t2, t3

MCThread == {t1, t2, t3}

MCAddr == 0..3
MCSuccessors == [a \in MCAddr |-> {(a + 1) % 4} \cup (IF a = 1 THEN {3} ELSE {})]
MCBreakAddr == {0, 1}
MCCloneAddr == {2}

Launched == [threads |-> {t1, t2, t3}, started |-> {}, happens |-> {"clone"}]
Quiet == Happening \ {"signal", "early stop"}

LaunchedUnsignalled == [threads |-> {t1, t2, t3}, started |-> {}, happens |-> Quiet]
AttachedUnsignalled == [threads |-> {t1, t2}, started |-> {t1}, happens |-> Quiet]
LaunchedSignalled == [threads |-> {t1, t2, t3}, started |-> {}, happens |-> {"clone", "signal", "early stop"}]
AttachedAlive == [threads |-> {t1, t2, t3}, started |-> {t1, t2}, happens |-> {"clone", "signal", "interrupt"}]
LaunchedDisturbed == [threads |-> {t1, t2}, started |-> {}, happens |-> Happening]
Attached == [threads |-> {t1, t2}, started |-> {t1}, happens |-> Happening]
AttachedSignalled == [threads |-> {t1}, started |-> {t1}, happens |-> {"signal"}]

Scenarios == {Launched, LaunchedUnsignalled, AttachedUnsignalled,
              LaunchedSignalled, LaunchedDisturbed, Attached, AttachedAlive}
Signalled == {AttachedSignalled}

=============================================================================
