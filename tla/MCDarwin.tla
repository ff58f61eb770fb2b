------------------------------ MODULE MCDarwin ------------------------------
(* Instances of DarwinProcess for TLC: two or three threads in a loop of   *)
(* three instructions with a breakpoint.                                   *)
EXTENDS DarwinProcess

CONSTANTS t1, t2, t3

MCThreadList == <<t1, t2, t3>>

MCAddr == 0..2
MCHelper == 10
MCHelperEnd == 11
MCSuccessors == [a \in MCAddr |-> {(a + 1) % 3}]
MCBreakAddr == {0}

Scenarios == {{"refusal", "interrupt", "exit"}, {"lost reply", "output"}, {"signal", "lost reply"},
              {"bad access", "output"}, {"overtaking"}, {"last thread"}}
Overtaking == {{"overtaking"}}

=============================================================================
