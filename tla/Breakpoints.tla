---------------------------- MODULE Breakpoints ----------------------------
(***************************************************************************)
(* tracer.Breakpoints as a component: every method as an action, with the  *)
(* outcome of the calls to doSet and doClear.  In the tracer these are     *)
(* Process.SetBreakpoint and Process.ClearBreakpoint, which write to the   *)
(* tracee's memory and can fail; inserted is the map Process.breakpoints.  *)
(* lastCall is what the last call was and whether it returned an error;    *)
(* clearFailed, whether doClear has failed in any call so far.             *)
(***************************************************************************)
EXTENDS BreakpointTable

CONSTANTS NoGoRoutine,     \* "go routine" of the calls that name none
          NoAddr,          \* "address" of the calls that name none
          MaxAssociations  \* bound: associations of one go routine per address

ASSUME NoGoRoutineAssumption == NoGoRoutine \notin GoRoutine
ASSUME NoAddrAssumption == NoAddr \notin Addr

VARIABLES currBreakpoints, inserted, lastCall, clearFailed

vars == <<currBreakpoints, inserted, lastCall, clearFailed>>

Operation == {"none", "Set", "SetConditional", "Clear", "ClearConditional", "ClearAll"}

TypeOK ==
  /\ IsTable(currBreakpoints)
  /\ inserted \subseteq Addr
  /\ lastCall \in [op : Operation, addr : Addr \cup {NoAddr},
                   go : GoRoutine \cup {NoGoRoutine}, err : BOOLEAN]
  /\ clearFailed \in BOOLEAN

Init ==
  /\ currBreakpoints = NoBreakpoints
  /\ inserted = {}
  /\ lastCall = [op |-> "none", addr |-> NoAddr, go |-> NoGoRoutine, err |-> FALSE]
  /\ clearFailed = FALSE

Clearing == {"Clear", "ClearConditional", "ClearAll"}

Return(op, a, g, err) ==
  /\ lastCall' = [op |-> op, addr |-> a, go |-> g, err |-> err]
  /\ clearFailed' = (clearFailed \/ (err /\ op \in Clearing))

\* doSet is only called for an address that has no entry.
InsertedAfterSet(a) == IF Exist(currBreakpoints, a) THEN inserted ELSE inserted \cup {a}

\* The entries ClearAllByGoRoutineID(g) finds without association.
Orphaned(g) == {x \in DOMAIN currBreakpoints :
                  NoAssociation(DisassociateFully(currBreakpoints[x], g))}

-----------------------------------------------------------------------------
(* Calls that return nil.                                                  *)

CallSet(a) ==
  /\ currBreakpoints' = Set(currBreakpoints, a)
  /\ inserted' = InsertedAfterSet(a)
  /\ Return("Set", a, NoGoRoutine, FALSE)

CallSetConditional(a, g) ==
  /\ Exist(currBreakpoints, a) => currBreakpoints[a].associations[g] < MaxAssociations
  /\ currBreakpoints' = SetConditional(currBreakpoints, a, g)
  /\ inserted' = InsertedAfterSet(a)
  /\ Return("SetConditional", a, g, FALSE)

CallClear(a) ==
  /\ currBreakpoints' = Clear(currBreakpoints, a)
  /\ inserted' = inserted \ (DOMAIN currBreakpoints \cap {a})
  /\ Return("Clear", a, NoGoRoutine, FALSE)

CallClearConditional(a, g) ==
  /\ currBreakpoints' = ClearConditional(currBreakpoints, a, g)
  /\ inserted' = IF /\ Exist(currBreakpoints, a)
                    /\ NoAssociation(Disassociate(currBreakpoints[a], g))
                   THEN inserted \ {a} ELSE inserted
  /\ Return("ClearConditional", a, g, FALSE)

CallClearAll(g) ==
  /\ currBreakpoints' = ClearAllByGoRoutineID(currBreakpoints, g)
  /\ inserted' = inserted \ Orphaned(g)
  /\ Return("ClearAll", NoAddr, g, FALSE)

-----------------------------------------------------------------------------
(* Calls that return the error of doSet or doClear.                        *)

SetFails(a) ==
  /\ ~Exist(currBreakpoints, a)
  /\ UNCHANGED <<currBreakpoints, inserted>>
  /\ Return("Set", a, NoGoRoutine, TRUE)

SetConditionalFails(a, g) ==
  /\ ~Exist(currBreakpoints, a)
  /\ UNCHANGED <<currBreakpoints, inserted>>
  /\ Return("SetConditional", a, g, TRUE)

ClearFails(a) ==
  /\ Exist(currBreakpoints, a)
  /\ UNCHANGED <<currBreakpoints, inserted>>
  /\ Return("Clear", a, NoGoRoutine, TRUE)

ClearConditionalFails(a, g) ==
  /\ Exist(currBreakpoints, a)
  /\ NoAssociation(Disassociate(currBreakpoints[a], g))
  /\ currBreakpoints' = ClearConditionalFailed(currBreakpoints, a, g)
  /\ UNCHANGED inserted
  /\ Return("ClearConditional", a, g, TRUE)

ClearAllFails(g) ==
  \E a \in Orphaned(g) : \E V \in SUBSET (DOMAIN currBreakpoints \ {a}) :
    /\ currBreakpoints' = ClearAllFailed(currBreakpoints, g, V, a)
    /\ inserted' = inserted \ (Orphaned(g) \cap V)
    /\ Return("ClearAll", NoAddr, g, TRUE)

-----------------------------------------------------------------------------

Succeeds ==
  \/ \E a \in Addr : CallSet(a) \/ CallClear(a)
  \/ \E a \in Addr, g \in GoRoutine : CallSetConditional(a, g) \/ CallClearConditional(a, g)
  \/ \E g \in GoRoutine : CallClearAll(g)

ClearingFails ==
  \/ \E a \in Addr : ClearFails(a)
  \/ \E a \in Addr, g \in GoRoutine : ClearConditionalFails(a, g)
  \/ \E g \in GoRoutine : ClearAllFails(g)

SettingFails ==
  \/ \E a \in Addr : SetFails(a)
  \/ \E a \in Addr, g \in GoRoutine : SetConditionalFails(a, g)

ReliableNext == Succeeds \/ SettingFails

Next == ReliableNext \/ ClearingFails

Spec == Init /\ [][Next]_vars

-----------------------------------------------------------------------------
(* Properties.                                                             *)

EveryoneOf(T) == {a \in DOMAIN T : T[a].associateAll}

\* The trap instructions in the tracee are exactly those of the table, also
\* after a call that failed half way (breakpoints.go Clear, Set): an entry
\* without trap would miss calls, a trap without entry could not be removed.
InsertedMatchesTable == inserted = DOMAIN currBreakpoints

\* A call made for one go routine never changes what another go routine hits,
\* whatever the two share and even when it fails half way through
\* ClearAllByGoRoutineID.
OthersKeep ==
  \A h \in GoRoutine :
    lastCall'.go \in GoRoutine \ {h} =>
      \A a \in Addr : Hit(currBreakpoints', a, h) <=> Hit(currBreakpoints, a, h)
OthersKeepTheirHits == [][OthersKeep]_vars

\* A breakpoint that counts for every go routine (a trace point) only goes away
\* by Clear of its own address: not by conditional calls, not by ClearAll.
OnlyClearRemoves ==
  \A a \in EveryoneOf(currBreakpoints) :
    \/ a \in EveryoneOf(currBreakpoints')
    \/ lastCall'.op = "Clear" /\ lastCall'.addr = a
UnconditionalStays == [][OnlyClearRemoves]_vars

\* When ClearAllByGoRoutineID(g) returns nil, g hits unconditional breakpoints
\* only: the go routine that left the traced part is not stopped any more.
ClearAllSilences ==
  lastCall.op = "ClearAll" /\ ~lastCall.err =>
    \A a \in DOMAIN currBreakpoints :
      Hit(currBreakpoints, a, lastCall.go) => currBreakpoints[a].associateAll

\* SetConditional returning nil means that the go routine hits the address
\* ("sets the conditional breakpoint which only the specified go routine is
\* considered as hit", breakpoints.go:91), as long as doClear has not failed.
NilIsHit ==
  lastCall.op = "SetConditional" /\ ~lastCall.err =>
    Hit(currBreakpoints, lastCall.addr, lastCall.go)
NilMeansHit == clearFailed \/ NilIsHit

\* No entry stays behind that no go routine is associated with: it would stop
\* every thread that passes and count for none.  A doClear that fails leaves one.
AllOwned == \A a \in DOMAIN currBreakpoints : ~NoAssociation(currBreakpoints[a])
NoOrphan == clearFailed \/ AllOwned

-----------------------------------------------------------------------------
(* What callers may rely on, see BreakpointPromise: a conditional          *)
(* breakpoint is wanted as often as it was set and not yet cleared.        *)

WantedOf(T) ==
  [a \in Addr |-> [g \in GoRoutine |->
     IF a \in DOMAIN T /\ ~T[a].associateAll THEN T[a].associations[g] ELSE 0]]

Promise == INSTANCE BreakpointPromise
             WITH everyone <- EveryoneOf(currBreakpoints),
                  wanted <- WantedOf(currBreakpoints),
                  trapping <- inserted,
                  call <- lastCall

\* Breakpoints implements the promise until doClear fails for the first time.
KeepsPromise == Promise!Init /\ [][clearFailed' \/ Promise!Next]_(Promise!vars)

=============================================================================
