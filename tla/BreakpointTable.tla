-------------------------- MODULE BreakpointTable --------------------------
(***************************************************************************)
(* The data structure of tracer/breakpoints.go: one entry per address that *)
(* has a breakpoint, with the go routines for which reaching the address   *)
(* counts as a hit.  The operators are pure: they return the next table.   *)
(* The list of associated go routines is kept as a count per go routine,   *)
(* since the code never depends on the order of the list.                  *)
(***************************************************************************)
EXTENDS Naturals

CONSTANTS Addr,        \* instruction addresses of the tracee
          GoRoutine    \* go routine ids

ConditionalBreakpoint == [associateAll : BOOLEAN,
                          associations : [GoRoutine -> Nat]]

IsTable(T) == DOMAIN T \subseteq Addr /\ T \in [DOMAIN T -> ConditionalBreakpoint]

NoBreakpoints == [a \in {} |-> [associateAll |-> FALSE,
                                associations |-> [g \in GoRoutine |-> 0]]]

-----------------------------------------------------------------------------
(* One entry (type conditionalBreakpoint).                                 *)

BreakpointHit(bp, g) == bp.associateAll \/ bp.associations[g] > 0

\* Defect: the list of go routines alone decides.
NoAssociation_IgnoresAll(bp) == \A g \in GoRoutine : bp.associations[g] = 0

NoAssociation(bp) ==
  ~bp.associateAll /\ \A g \in GoRoutine : bp.associations[g] = 0

Associate(bp, g) ==
  IF bp.associateAll THEN bp ELSE [bp EXCEPT !.associations[g] = @ + 1]

\* Defect: all associations at once.
Disassociate_All(bp, g) ==
  IF bp.associateAll THEN bp ELSE [bp EXCEPT !.associations[g] = 0]

Disassociate(bp, g) ==
  IF BreakpointHit(bp, g) /\ ~bp.associateAll
    THEN [bp EXCEPT !.associations[g] = @ - 1]
    ELSE bp

\* Defect: one association only.
DisassociateFully_Once(bp, g) == Disassociate(bp, g)

\* for bp.Disassociate(goRoutineID) {}
DisassociateFully(bp, g) ==
  IF bp.associateAll THEN bp ELSE [bp EXCEPT !.associations[g] = 0]

Unconditional == [associateAll |-> TRUE,
                  associations |-> [g \in GoRoutine |-> 0]]

ConditionalFor(g) == [associateAll |-> FALSE,
                      associations |-> [h \in GoRoutine |-> IF h = g THEN 1 ELSE 0]]

-----------------------------------------------------------------------------
(* The table (type Breakpoints), when doSet and doClear succeed.           *)

Put(T, a, bp) == [x \in DOMAIN T \cup {a} |-> IF x = a THEN bp ELSE T[x]]

Exist(T, a) == a \in DOMAIN T

Hit(T, a, g) == Exist(T, a) /\ BreakpointHit(T[a], g)

Set(T, a) == Put(T, a, Unconditional)

\* Defect: an existing entry is taken to be enough.
SetConditional_OnlyNew(T, a, g) == IF Exist(T, a) THEN T ELSE Put(T, a, ConditionalFor(g))

\* An entry that no go routine is associated with is left as it is.
SetConditional(T, a, g) ==
  IF Exist(T, a)
    THEN IF NoAssociation(T[a]) THEN T ELSE Put(T, a, Associate(T[a], g))
    ELSE Put(T, a, ConditionalFor(g))

Clear(T, a) == [x \in DOMAIN T \ {a} |-> T[x]]

\* As if the entry went with its first association.
ClearConditional_Always(T, a, g) == IF Exist(T, a) THEN Clear(T, a) ELSE T

ClearConditional(T, a, g) ==
  IF ~Exist(T, a) THEN T
  ELSE IF NoAssociation(Disassociate(T[a], g))
    THEN Clear(T, a)
    ELSE Put(T, a, Disassociate(T[a], g))

ClearAllByGoRoutineID(T, g) ==
  [x \in {y \in DOMAIN T : ~NoAssociation(DisassociateFully(T[y], g))}
     |-> DisassociateFully(T[x], g)]

(* What is left when doClear fails: the disassociation is not undone, the  *)
(* entry stays.  ClearAllByGoRoutineID visits the entries in an arbitrary  *)
(* order and returns at the first failure; V is what it had visited then.  *)

\* Defect: the entry is dropped before doClear.
ClearConditionalFailed_Dropped(T, a, g) == Clear(T, a)

ClearConditionalFailed(T, a, g) == Put(T, a, Disassociate(T[a], g))

ClearAllFailed(T, g, V, a) ==
  [x \in {y \in DOMAIN T : y \notin V \/ ~NoAssociation(DisassociateFully(T[y], g))}
     |-> IF x \in V \cup {a} THEN DisassociateFully(T[x], g) ELSE T[x]]

(* Several calls in a row for one go routine, in the closed form of their  *)
(* joint effect: addresses do not influence each other.                    *)

SetAll(T, A) == [x \in DOMAIN T \cup A |-> IF x \in A THEN Unconditional ELSE T[x]]

SetConditionalAll(T, A, g) ==
  [x \in DOMAIN T \cup A |-> IF x \in A THEN SetConditional(T, x, g)[x] ELSE T[x]]

DisassociateTimes(bp, g, n) ==
  IF bp.associateAll THEN bp
  ELSE [bp EXCEPT !.associations[g] = IF n < @ THEN @ - n ELSE 0]

\* ClearConditional(a, g) called times[a] times for every a.
ClearConditionalTimes(T, times, g) ==
  LET after(x) == DisassociateTimes(T[x], g, times[x])
  IN  [x \in {y \in DOMAIN T : times[y] = 0 \/ ~NoAssociation(after(y))} |-> after(x)]

=============================================================================
