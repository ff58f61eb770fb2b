------------------------- MODULE BreakpointPromise -------------------------
(***************************************************************************)
(* What the controller relies on when it uses tracer.Breakpoints, without  *)
(* any table: a conditional breakpoint has to be cleared by a go routine   *)
(* as often as that go routine has set it (recursive calls set the same    *)
(* return address several times), an unconditional one counts for all, and *)
(* the tracee traps at exactly the addresses that count for someone.       *)
(***************************************************************************)
EXTENDS Naturals

CONSTANTS Addr, GoRoutine

VARIABLES everyone,  \* addresses that count for every go routine
          wanted,    \* wanted[a][g]: conditional sets not yet cleared
          trapping,  \* addresses with a trap instruction
          call       \* the last call: its method, its arguments, whether it failed

vars == <<everyone, wanted, trapping, call>>

Nobody == [g \in GoRoutine |-> 0]

Needed(e, w) == e \cup {a \in Addr : \E g \in GoRoutine : w[a][g] > 0}

Init ==
  /\ everyone = {}
  /\ wanted = [a \in Addr |-> Nobody]
  /\ trapping = {}
  /\ call.op = "none"

Called(op) == call'.op = op /\ ~call'.err

Want(a, g) ==
  /\ Called("SetConditional") /\ call'.addr = a /\ call'.go = g
  /\ wanted' = IF a \in everyone THEN wanted ELSE [wanted EXCEPT ![a][g] = @ + 1]
  /\ UNCHANGED everyone

Unwant(a, g) ==
  /\ Called("ClearConditional") /\ call'.addr = a /\ call'.go = g
  /\ wanted' = IF wanted[a][g] = 0 THEN wanted ELSE [wanted EXCEPT ![a][g] = @ - 1]
  /\ UNCHANGED everyone

WantForAll(a) ==
  /\ Called("Set") /\ call'.addr = a
  /\ everyone' = everyone \cup {a}
  /\ wanted' = [wanted EXCEPT ![a] = Nobody]

Forget(a) ==
  /\ Called("Clear") /\ call'.addr = a
  /\ everyone' = everyone \ {a}
  /\ wanted' = [wanted EXCEPT ![a] = Nobody]

UnwantAll(g) ==
  /\ Called("ClearAll") /\ call'.go = g
  /\ wanted' = [a \in Addr |-> [wanted[a] EXCEPT ![g] = 0]]
  /\ UNCHANGED everyone

Step ==
  \/ \E a \in Addr, g \in GoRoutine : Want(a, g) \/ Unwant(a, g)
  \/ \E a \in Addr : WantForAll(a) \/ Forget(a)
  \/ \E g \in GoRoutine : UnwantAll(g)

\* A call that fails changes nothing.
Refuse == call'.err /\ UNCHANGED <<everyone, wanted, trapping>>

Next == (Step /\ trapping' = Needed(everyone', wanted')) \/ Refuse

Spec == Init /\ [][Next]_vars

=============================================================================
