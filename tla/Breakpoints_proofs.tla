------------------------- MODULE Breakpoints_proofs -------------------------
(***************************************************************************)
(* Proofs about Breakpoints for any set of addresses and go routines and   *)
(* any number of associations.                                             *)
(***************************************************************************)
EXTENDS Breakpoints, TLAPS

-----------------------------------------------------------------------------
(* What the operators on the table return.                                 *)

\* Every operation on an entry returns an entry.
LEMMA EntryTypes ==
  ASSUME NEW bp \in ConditionalBreakpoint, NEW g \in GoRoutine
  PROVE  /\ Associate(bp, g) \in ConditionalBreakpoint
         /\ Disassociate(bp, g) \in ConditionalBreakpoint
         /\ DisassociateFully(bp, g) \in ConditionalBreakpoint
         /\ Unconditional \in ConditionalBreakpoint
         /\ ConditionalFor(g) \in ConditionalBreakpoint
  BY DEF ConditionalBreakpoint, Associate, Disassociate, DisassociateFully,
         BreakpointHit, Unconditional, ConditionalFor

\* Writing an entry to a table gives a table with that address in it.
LEMMA PutType ==
  ASSUME NEW T, IsTable(T), NEW a \in Addr, NEW bp \in ConditionalBreakpoint
  PROVE  /\ IsTable(Put(T, a, bp))
         /\ DOMAIN Put(T, a, bp) = DOMAIN T \cup {a}
         /\ \A x \in DOMAIN T \cup {a} : Put(T, a, bp)[x] = IF x = a THEN bp ELSE T[x]
  BY DEF IsTable, Put

\* Removing an address from a table gives a table.
LEMMA ClearType ==
  ASSUME NEW T, IsTable(T), NEW a \in Addr
  PROVE  /\ IsTable(Clear(T, a))
         /\ DOMAIN Clear(T, a) = DOMAIN T \ {a}
         /\ \A x \in DOMAIN T \ {a} : Clear(T, a)[x] = T[x]
  BY DEF IsTable, Clear

\* Set leaves a table behind.
LEMMA SetType ==
  ASSUME NEW T, IsTable(T), NEW a \in Addr
  PROVE  IsTable(Set(T, a))
  BY PutType DEF Set, Unconditional, ConditionalBreakpoint

\* ClearAllByGoRoutineID leaves a table behind.
LEMMA ClearAllType ==
  ASSUME NEW T, IsTable(T), NEW g \in GoRoutine
  PROVE  IsTable(ClearAllByGoRoutineID(T, g))
<1>1. \A x \in DOMAIN T : DisassociateFully(T[x], g) \in ConditionalBreakpoint
  BY EntryTypes DEF IsTable
<1> QED BY <1>1 DEF ClearAllByGoRoutineID, IsTable

\* The conditional methods leave a table behind, also when they fail.
LEMMA TableTypes ==
  ASSUME NEW T, IsTable(T), NEW a \in Addr, NEW g \in GoRoutine, NEW V
  PROVE  /\ IsTable(SetConditional(T, a, g))
         /\ IsTable(ClearConditional(T, a, g))
         /\ a \in DOMAIN T => IsTable(ClearConditionalFailed(T, a, g))
         /\ IsTable(ClearAllFailed(T, g, V, a))
<1>0. \A x \in DOMAIN T : T[x] \in ConditionalBreakpoint
  BY DEF IsTable
<1>1. ConditionalFor(g) \in ConditionalBreakpoint
  BY DEF ConditionalFor, ConditionalBreakpoint
<1>3. IsTable(SetConditional(T, a, g))
  <2>1. CASE ~Exist(T, a)
    BY <2>1, <1>1, PutType DEF SetConditional
  <2>2. CASE Exist(T, a)
    <3>1. Associate(T[a], g) \in ConditionalBreakpoint
      BY <2>2, <1>0, EntryTypes DEF Exist
    <3>2. IsTable(Put(T, a, Associate(T[a], g)))
      BY <3>1, PutType
    <3> QED BY <2>2, <3>2 DEF SetConditional
  <2> QED BY <2>1, <2>2
<1>4. a \in DOMAIN T => IsTable(ClearConditionalFailed(T, a, g))
  <2> SUFFICES ASSUME a \in DOMAIN T PROVE IsTable(ClearConditionalFailed(T, a, g))
    OBVIOUS
  <2>1. Disassociate(T[a], g) \in ConditionalBreakpoint
    BY <1>0, EntryTypes
  <2> QED BY <2>1, PutType DEF ClearConditionalFailed
<1>5. IsTable(ClearConditional(T, a, g))
  BY <1>4, ClearType DEF ClearConditional, ClearConditionalFailed, Exist
<1>6. \A x \in DOMAIN T : DisassociateFully(T[x], g) \in ConditionalBreakpoint
  BY <1>0, EntryTypes
<1>7. IsTable(ClearAllFailed(T, g, V, a))
  BY <1>0, <1>6 DEF ClearAllFailed, IsTable
<1> QED BY <1>3, <1>4, <1>5, <1>7

\* What one go routine does to an entry does not change whether another hits it,
\* and an entry that nobody is associated with is hit by nobody.
LEMMA EntryHits ==
  ASSUME NEW bp \in ConditionalBreakpoint, NEW g \in GoRoutine, NEW h \in GoRoutine \ {g}
  PROVE  /\ BreakpointHit(Associate(bp, g), h) <=> BreakpointHit(bp, h)
         /\ BreakpointHit(Disassociate(bp, g), h) <=> BreakpointHit(bp, h)
         /\ BreakpointHit(DisassociateFully(bp, g), h) <=> BreakpointHit(bp, h)
         /\ NoAssociation(bp) => ~BreakpointHit(bp, h)
         /\ ~BreakpointHit(ConditionalFor(g), h)
  BY DEF ConditionalBreakpoint, Associate, Disassociate, DisassociateFully,
         BreakpointHit, NoAssociation, ConditionalFor

\* The conditional methods, called for g, leave alone what h hits.
LEMMA ConditionalCallsAreLocal ==
  ASSUME NEW T, IsTable(T), NEW a \in Addr, NEW g \in GoRoutine,
         NEW h \in GoRoutine \ {g}, NEW x \in Addr
  PROVE  /\ Hit(SetConditional(T, a, g), x, h) <=> Hit(T, x, h)
         /\ Hit(ClearConditional(T, a, g), x, h) <=> Hit(T, x, h)
         /\ Hit(ClearAllByGoRoutineID(T, g), x, h) <=> Hit(T, x, h)
         /\ a \in DOMAIN T => (Hit(ClearConditionalFailed(T, a, g), x, h) <=> Hit(T, x, h))
         /\ \A V : a \in DOMAIN T => (Hit(ClearAllFailed(T, g, V, a), x, h) <=> Hit(T, x, h))
<1>1. ASSUME NEW y \in DOMAIN T
      PROVE  /\ T[y] \in ConditionalBreakpoint
             /\ BreakpointHit(Associate(T[y], g), h) <=> BreakpointHit(T[y], h)
             /\ BreakpointHit(Disassociate(T[y], g), h) <=> BreakpointHit(T[y], h)
             /\ BreakpointHit(DisassociateFully(T[y], g), h) <=> BreakpointHit(T[y], h)
             /\ NoAssociation(Disassociate(T[y], g)) => ~BreakpointHit(T[y], h)
             /\ NoAssociation(DisassociateFully(T[y], g)) => ~BreakpointHit(T[y], h)
  <2>1. T[y] \in ConditionalBreakpoint
    BY DEF IsTable
  <2>2. /\ Disassociate(T[y], g) \in ConditionalBreakpoint
        /\ DisassociateFully(T[y], g) \in ConditionalBreakpoint
    BY <2>1, EntryTypes
  <2> QED BY <2>1, <2>2, EntryHits
<1>2. ~BreakpointHit(ConditionalFor(g), h)
  BY DEF BreakpointHit, ConditionalFor
<1>3. Hit(SetConditional(T, a, g), x, h) <=> Hit(T, x, h)
  BY <1>1, <1>2 DEF SetConditional, Hit, Exist, Put
<1>4. Hit(ClearConditional(T, a, g), x, h) <=> Hit(T, x, h)
  BY <1>1 DEF ClearConditional, Clear, Hit, Exist, Put
<1>5. Hit(ClearAllByGoRoutineID(T, g), x, h) <=> Hit(T, x, h)
  BY <1>1 DEF ClearAllByGoRoutineID, Hit, Exist
<1>6. a \in DOMAIN T => (Hit(ClearConditionalFailed(T, a, g), x, h) <=> Hit(T, x, h))
  BY <1>1 DEF ClearConditionalFailed, Hit, Exist, Put
<1>7. ASSUME NEW V, a \in DOMAIN T
      PROVE  Hit(ClearAllFailed(T, g, V, a), x, h) <=> Hit(T, x, h)
  BY <1>1, <1>7 DEF ClearAllFailed, Hit, Exist
<1> QED BY <1>3, <1>4, <1>5, <1>6, <1>7

-----------------------------------------------------------------------------
(* Invariants and action properties of Spec.                               *)

\* Every state has a well-formed table, set of trap instructions and result.
THEOREM TypeCorrect == Spec => []TypeOK
<1>1. Init => TypeOK
  <2> SUFFICES ASSUME Init PROVE TypeOK
    OBVIOUS
  <2>1. IsTable(NoBreakpoints)
    BY DEF IsTable, NoBreakpoints
  <2>2. clearFailed \in BOOLEAN
    BY DEF Init
  <2> QED BY <2>1, <2>2 DEF Init, TypeOK, Operation
<1>2. TypeOK /\ [Next]_vars => TypeOK'
  <2> SUFFICES ASSUME TypeOK, [Next]_vars PROVE TypeOK'
    OBVIOUS
  <2> USE DEF TypeOK, Return, Operation, Clearing
  <2>1. ASSUME NEW a \in Addr, CallSet(a) PROVE TypeOK'
    BY <2>1, SetType DEF CallSet, InsertedAfterSet
  <2>2. ASSUME NEW a \in Addr, CallClear(a) PROVE TypeOK'
    BY <2>2, ClearType DEF CallClear
  <2>3. ASSUME NEW a \in Addr, NEW g \in GoRoutine, CallSetConditional(a, g) PROVE TypeOK'
    BY <2>3, TableTypes DEF CallSetConditional, InsertedAfterSet
  <2>4. ASSUME NEW a \in Addr, NEW g \in GoRoutine, CallClearConditional(a, g) PROVE TypeOK'
    BY <2>4, TableTypes DEF CallClearConditional
  <2>5. ASSUME NEW g \in GoRoutine, CallClearAll(g) PROVE TypeOK'
    BY <2>5, ClearAllType DEF CallClearAll
  <2>6. ASSUME NEW a \in Addr, SetFails(a) PROVE TypeOK'
    BY <2>6 DEF SetFails
  <2>11. ASSUME NEW a \in Addr, NEW g \in GoRoutine, SetConditionalFails(a, g) PROVE TypeOK'
    BY <2>11 DEF SetConditionalFails
  <2>7. ASSUME NEW a \in Addr, ClearFails(a) PROVE TypeOK'
    BY <2>7 DEF ClearFails
  <2>8. ASSUME NEW a \in Addr, NEW g \in GoRoutine, ClearConditionalFails(a, g) PROVE TypeOK'
    BY <2>8, TableTypes DEF ClearConditionalFails, Exist
  <2>9. ASSUME NEW g \in GoRoutine, ClearAllFails(g) PROVE TypeOK'
    <3>1. Orphaned(g) \subseteq Addr
      BY DEF Orphaned, IsTable
    <3> QED BY <2>9, <3>1, TableTypes DEF ClearAllFails
  <2>10. CASE UNCHANGED vars
    BY <2>10 DEF vars
  <2> QED BY <2>1, <2>2, <2>3, <2>4, <2>5, <2>6, <2>7, <2>8, <2>9, <2>10, <2>11
          DEF Next, ReliableNext, SettingFails, Succeeds, ClearingFails
<1> QED BY <1>1, <1>2, PTL DEF Spec

\* The trap instructions in the tracee are exactly those of the table.
THEOREM InsertedCorrect == Spec => []InsertedMatchesTable
<1>1. Init => InsertedMatchesTable
  BY DEF Init, InsertedMatchesTable, NoBreakpoints
<1>2. InsertedMatchesTable /\ [Next]_vars => InsertedMatchesTable'
  <2> SUFFICES ASSUME InsertedMatchesTable, [Next]_vars PROVE InsertedMatchesTable'
    OBVIOUS
  <2> USE DEF InsertedMatchesTable
  <2>1. ASSUME NEW a \in Addr, CallSet(a) PROVE InsertedMatchesTable'
    BY <2>1 DEF CallSet, InsertedAfterSet, Set, Put, Exist
  <2>2. ASSUME NEW a \in Addr, CallClear(a) PROVE InsertedMatchesTable'
    BY <2>2 DEF CallClear, Clear
  <2>3. ASSUME NEW a \in Addr, NEW g \in GoRoutine, CallSetConditional(a, g)
        PROVE  InsertedMatchesTable'
    BY <2>3 DEF CallSetConditional, InsertedAfterSet, SetConditional, Put, Exist
  <2>4. ASSUME NEW a \in Addr, NEW g \in GoRoutine, CallClearConditional(a, g)
        PROVE  InsertedMatchesTable'
    BY <2>4 DEF CallClearConditional, ClearConditional, Clear, Put, Exist
  <2>5. ASSUME NEW g \in GoRoutine, CallClearAll(g) PROVE InsertedMatchesTable'
    BY <2>5 DEF CallClearAll, ClearAllByGoRoutineID, Orphaned
  <2>6. ASSUME NEW a \in Addr, NEW g \in GoRoutine, ClearConditionalFails(a, g)
        PROVE  InsertedMatchesTable'
    BY <2>6 DEF ClearConditionalFails, ClearConditionalFailed, Put, Exist
  <2>7. ASSUME NEW g \in GoRoutine, ClearAllFails(g) PROVE InsertedMatchesTable'
    BY <2>7 DEF ClearAllFails, ClearAllFailed, Orphaned
  <2>8. ASSUME UNCHANGED <<currBreakpoints, inserted>> PROVE InsertedMatchesTable'
    BY <2>8
  <2> QED BY <2>1, <2>2, <2>3, <2>4, <2>5, <2>6, <2>7, <2>8
          DEF Next, ReliableNext, Succeeds, SettingFails, ClearingFails,
              SetFails, SetConditionalFails, ClearFails, vars
<1> QED BY <1>1, <1>2, PTL DEF Spec

\* A call made for one go routine, successful or failed half way, never changes
\* what another go routine hits.
THEOREM Isolation == Spec => OthersKeepTheirHits
<1>1. TypeOK /\ [Next]_vars => [OthersKeep]_vars
  <2> SUFFICES ASSUME TypeOK, Next, NEW h \in GoRoutine, lastCall'.go \in GoRoutine \ {h},
                      NEW x \in Addr
               PROVE  Hit(currBreakpoints', x, h) <=> Hit(currBreakpoints, x, h)
    BY DEF OthersKeep
  <2>0. IsTable(currBreakpoints)
    BY DEF TypeOK
  <2>1. ASSUME NEW a \in Addr, CallSet(a) \/ CallClear(a) \/ SetFails(a) \/ ClearFails(a)
        PROVE  FALSE
    BY <2>1, NoGoRoutineAssumption DEF CallSet, CallClear, SetFails, ClearFails, Return
  <2>2. ASSUME NEW a \in Addr, NEW g \in GoRoutine,
               \/ CallSetConditional(a, g)     \/ SetConditionalFails(a, g)
               \/ CallClearConditional(a, g)   \/ ClearConditionalFails(a, g)
        PROVE  Hit(currBreakpoints', x, h) <=> Hit(currBreakpoints, x, h)
    <3>1. h \in GoRoutine \ {g}
      BY <2>2 DEF CallSetConditional, SetConditionalFails, CallClearConditional,
                  ClearConditionalFails, Return
    <3>2. CASE CallSetConditional(a, g)
      BY <2>0, <3>1, <3>2, ConditionalCallsAreLocal DEF CallSetConditional
    <3>3. CASE CallClearConditional(a, g)
      BY <2>0, <3>1, <3>3, ConditionalCallsAreLocal DEF CallClearConditional
    <3>4. CASE ClearConditionalFails(a, g)
      BY <2>0, <3>1, <3>4, ConditionalCallsAreLocal DEF ClearConditionalFails, Exist
    <3>5. CASE SetConditionalFails(a, g)
      BY <3>5 DEF SetConditionalFails
    <3> QED BY <2>2, <3>2, <3>3, <3>4, <3>5
  <2>3. ASSUME NEW g \in GoRoutine, CallClearAll(g)
        PROVE  Hit(currBreakpoints', x, h) <=> Hit(currBreakpoints, x, h)
    <3>1. h \in GoRoutine \ {g}
      BY <2>3 DEF CallClearAll, Return
    <3> QED BY <2>0, <2>3, <3>1, ConditionalCallsAreLocal DEF CallClearAll
  <2>4. ASSUME NEW g \in GoRoutine, ClearAllFails(g)
        PROVE  Hit(currBreakpoints', x, h) <=> Hit(currBreakpoints, x, h)
    <3>1. h \in GoRoutine \ {g}
      BY <2>4 DEF ClearAllFails, Return
    <3>2. PICK a \in Orphaned(g) :
            \E V : currBreakpoints' = ClearAllFailed(currBreakpoints, g, V, a)
      BY <2>4 DEF ClearAllFails
    <3>3. a \in DOMAIN currBreakpoints /\ a \in Addr
      BY <2>0 DEF Orphaned, IsTable
    <3> QED BY <2>0, <3>1, <3>2, <3>3, ConditionalCallsAreLocal
  <2> QED BY <2>1, <2>2, <2>3, <2>4
          DEF Next, ReliableNext, Succeeds, SettingFails, ClearingFails
<1> QED BY <1>1, TypeCorrect, PTL DEF Spec, OthersKeepTheirHits

\* Only Clear of its own address takes an unconditional breakpoint away.
THEOREM TracePointsStay == Spec => UnconditionalStays
<1>1. TypeOK /\ [Next]_vars => [OnlyClearRemoves]_vars
  <2> SUFFICES ASSUME TypeOK, Next, NEW x \in EveryoneOf(currBreakpoints),
                      ~(lastCall'.op = "Clear" /\ lastCall'.addr = x)
               PROVE  x \in EveryoneOf(currBreakpoints')
    BY DEF OnlyClearRemoves
  <2>0. /\ x \in DOMAIN currBreakpoints
        /\ currBreakpoints[x].associateAll
        /\ ~NoAssociation(currBreakpoints[x])
    BY DEF EveryoneOf, NoAssociation
  <2>1. ASSUME NEW g \in GoRoutine
        PROVE  /\ Associate(currBreakpoints[x], g) = currBreakpoints[x]
               /\ Disassociate(currBreakpoints[x], g) = currBreakpoints[x]
               /\ DisassociateFully(currBreakpoints[x], g) = currBreakpoints[x]
    BY <2>0 DEF Associate, Disassociate, DisassociateFully
  <2>2. ASSUME NEW a \in Addr, CallSet(a) PROVE x \in EveryoneOf(currBreakpoints')
    BY <2>0, <2>2 DEF CallSet, Set, Put, Unconditional, EveryoneOf
  <2>3. ASSUME NEW a \in Addr, CallClear(a) PROVE x \in EveryoneOf(currBreakpoints')
    BY <2>0, <2>3 DEF CallClear, Clear, Return, EveryoneOf
  <2>4. ASSUME NEW a \in Addr, NEW g \in GoRoutine, CallSetConditional(a, g)
        PROVE  x \in EveryoneOf(currBreakpoints')
    BY <2>0, <2>1, <2>4 DEF CallSetConditional, SetConditional, Put, Exist, EveryoneOf
  <2>5. ASSUME NEW a \in Addr, NEW g \in GoRoutine, CallClearConditional(a, g)
        PROVE  x \in EveryoneOf(currBreakpoints')
    BY <2>0, <2>1, <2>5 DEF CallClearConditional, ClearConditional, Clear, Put, Exist, EveryoneOf
  <2>6. ASSUME NEW g \in GoRoutine, CallClearAll(g) PROVE x \in EveryoneOf(currBreakpoints')
    BY <2>0, <2>1, <2>6 DEF CallClearAll, ClearAllByGoRoutineID, EveryoneOf
  <2>7. ASSUME NEW a \in Addr, NEW g \in GoRoutine, ClearConditionalFails(a, g)
        PROVE  x \in EveryoneOf(currBreakpoints')
    BY <2>0, <2>1, <2>7 DEF ClearConditionalFails, ClearConditionalFailed, Put, EveryoneOf
  <2>8. ASSUME NEW g \in GoRoutine, ClearAllFails(g) PROVE x \in EveryoneOf(currBreakpoints')
    BY <2>0, <2>1, <2>8 DEF ClearAllFails, ClearAllFailed, EveryoneOf
  <2>9. ASSUME UNCHANGED currBreakpoints PROVE x \in EveryoneOf(currBreakpoints')
    BY <2>9
  <2> QED BY <2>2, <2>3, <2>4, <2>5, <2>6, <2>7, <2>8, <2>9
          DEF Next, ReliableNext, Succeeds, SettingFails, ClearingFails,
              SetFails, SetConditionalFails, ClearFails
<1> QED BY <1>1, TypeCorrect, PTL DEF Spec, UnconditionalStays

\* After a successful ClearAllByGoRoutineID(g), g hits unconditional breakpoints
\* only, although the entries that g shares with others stay.
THEOREM Silenced == Spec => []ClearAllSilences
<1>1. Init => ClearAllSilences
  BY DEF Init, ClearAllSilences
<1>2. TypeOK /\ ClearAllSilences /\ [Next]_vars => ClearAllSilences'
  <2> SUFFICES ASSUME TypeOK, ClearAllSilences, [Next]_vars PROVE ClearAllSilences'
    OBVIOUS
  <2>1. ASSUME NEW g \in GoRoutine, CallClearAll(g) PROVE ClearAllSilences'
    <3>1. lastCall'.go = g /\ currBreakpoints' = ClearAllByGoRoutineID(currBreakpoints, g)
      BY <2>1 DEF CallClearAll, Return
    <3>2. ASSUME NEW a \in DOMAIN currBreakpoints',
                 BreakpointHit(currBreakpoints'[a], g)
          PROVE  currBreakpoints'[a].associateAll
      <4> DEFINE bp == currBreakpoints[a]
      <4>1. currBreakpoints'[a] = DisassociateFully(bp, g)
        BY <3>1 DEF ClearAllByGoRoutineID
      <4>2. CASE bp.associateAll
        BY <4>1, <4>2 DEF DisassociateFully
      <4>3. CASE ~bp.associateAll
        <5>1. bp \in ConditionalBreakpoint
          BY <3>1 DEF TypeOK, IsTable, ClearAllByGoRoutineID
        <5>2. ~BreakpointHit(DisassociateFully(bp, g), g)
          BY <4>3, <5>1 DEF ConditionalBreakpoint, DisassociateFully, BreakpointHit
        <5> QED BY <3>2, <4>1, <5>2
      <4> QED BY <4>2, <4>3
    <3> QED BY <3>1, <3>2 DEF ClearAllSilences, Hit, Exist
  <2>2. ASSUME lastCall'.op # "ClearAll" \/ lastCall'.err PROVE ClearAllSilences'
    BY <2>2 DEF ClearAllSilences
  <2>3. CASE UNCHANGED vars
    BY <2>3 DEF vars, ClearAllSilences, Hit, Exist
  <2>4. ASSUME ~\E g \in GoRoutine : CallClearAll(g), Next
        PROVE  lastCall'.op # "ClearAll" \/ lastCall'.err
    BY <2>4 DEF Next, ReliableNext, Succeeds, SettingFails, ClearingFails, CallSet, CallClear,
                CallSetConditional, CallClearConditional, SetFails, SetConditionalFails, ClearFails,
                ClearConditionalFails, ClearAllFails, Return
  <2> QED BY <2>1, <2>2, <2>3, <2>4
<1> QED BY <1>1, <1>2, TypeCorrect, PTL DEF Spec

-----------------------------------------------------------------------------
(* As long as doClear does not fail.                                       *)

\* Every step after which doClear has not failed is a reliable one, and none has
\* failed before it.
LEMMA ReliableSoFar ==
  ASSUME [Next]_vars, ~clearFailed', TypeOK
  PROVE  ~clearFailed /\ [ReliableNext]_vars
<1>1. CASE ReliableNext
  <2>1. clearFailed => clearFailed'
    BY <1>1 DEF ReliableNext, Succeeds, SettingFails, CallSet, CallClear, CallSetConditional,
                CallClearConditional, CallClearAll, SetFails, SetConditionalFails, Return
  <2> QED BY <1>1, <2>1
<1>2. CASE ClearingFails
  BY <1>2 DEF ClearingFails, ClearFails, ClearConditionalFails, ClearAllFails, Return, Clearing
<1>3. CASE UNCHANGED vars
  BY <1>3 DEF vars
<1> QED BY <1>1, <1>2, <1>3 DEF Next

\* An entry that is not unconditional has a go routine after Associate, and
\* none of the entries that are created is without go routine.
LEMMA EntriesHaveOwners ==
  ASSUME NEW bp \in ConditionalBreakpoint, NEW g \in GoRoutine
  PROVE  /\ BreakpointHit(Associate(bp, g), g)
         /\ BreakpointHit(bp, g) => ~NoAssociation(bp)
         /\ BreakpointHit(ConditionalFor(g), g)
         /\ ~NoAssociation(ConditionalFor(g))
         /\ ~NoAssociation(Unconditional)
         /\ ~NoAssociation(Associate(bp, g))
  BY DEF ConditionalBreakpoint, Associate, BreakpointHit, NoAssociation,
         ConditionalFor, Unconditional

\* No breakpoint stays behind that no go routine is associated with.
THEOREM NothingOrphaned == Spec => []NoOrphan
<1>1. Init => NoOrphan
  BY DEF Init, NoOrphan, AllOwned, NoBreakpoints
<1>2. TypeOK /\ AllOwned /\ [ReliableNext]_vars => AllOwned'
  <2> SUFFICES ASSUME TypeOK, AllOwned, [ReliableNext]_vars PROVE AllOwned'
    OBVIOUS
  <2>0. \A x \in DOMAIN currBreakpoints : currBreakpoints[x] \in ConditionalBreakpoint
    BY DEF TypeOK, IsTable
  <2> USE DEF AllOwned
  <2>1. ASSUME NEW a \in Addr, CallSet(a) PROVE AllOwned'
    BY <2>1 DEF CallSet, Set, Put, NoAssociation, Unconditional
  <2>2. ASSUME NEW a \in Addr, CallClear(a) PROVE AllOwned'
    BY <2>2 DEF CallClear, Clear
  <2>3. ASSUME NEW a \in Addr, NEW g \in GoRoutine, CallSetConditional(a, g) PROVE AllOwned'
    <3>1. a \in DOMAIN currBreakpoints => ~NoAssociation(Associate(currBreakpoints[a], g))
      BY <2>0, EntriesHaveOwners
    <3>2. ~NoAssociation(ConditionalFor(g))
      BY DEF NoAssociation, ConditionalFor
    <3> QED BY <2>3, <3>1, <3>2 DEF CallSetConditional, SetConditional, Put, Exist
  <2>4. ASSUME NEW a \in Addr, NEW g \in GoRoutine, CallClearConditional(a, g) PROVE AllOwned'
    BY <2>4 DEF CallClearConditional, ClearConditional, Clear, Put, Exist
  <2>5. ASSUME NEW g \in GoRoutine, CallClearAll(g) PROVE AllOwned'
    BY <2>5 DEF CallClearAll, ClearAllByGoRoutineID
  <2>6. ASSUME UNCHANGED currBreakpoints PROVE AllOwned'
    BY <2>6
  <2> QED BY <2>1, <2>2, <2>3, <2>4, <2>5, <2>6
          DEF ReliableNext, Succeeds, SettingFails, SetFails, SetConditionalFails, vars
<1>3. TypeOK /\ NoOrphan /\ [Next]_vars => NoOrphan'
  <2> SUFFICES ASSUME TypeOK, NoOrphan, [Next]_vars, ~clearFailed' PROVE AllOwned'
    BY DEF NoOrphan
  <2> QED BY <1>2, ReliableSoFar DEF NoOrphan
<1> QED BY <1>1, <1>3, TypeCorrect, PTL DEF Spec

\* SetConditional returning nil means that the go routine hits the address.
THEOREM NilMeansHitCorrect == Spec => []NilMeansHit
<1>1. Init => NilMeansHit
  BY DEF Init, NilMeansHit, NilIsHit
<1>2. TypeOK /\ AllOwned /\ NilIsHit /\ [ReliableNext]_vars => NilIsHit'
  <2> SUFFICES ASSUME TypeOK, AllOwned, NilIsHit, [ReliableNext]_vars PROVE NilIsHit'
    OBVIOUS
  <2>0. \A x \in DOMAIN currBreakpoints : currBreakpoints[x] \in ConditionalBreakpoint
    BY DEF TypeOK, IsTable
  <2>1. ASSUME NEW a \in Addr, NEW g \in GoRoutine, CallSetConditional(a, g) PROVE NilIsHit'
    <3>1. a \in DOMAIN currBreakpoints => BreakpointHit(Associate(currBreakpoints[a], g), g)
      BY <2>0, EntriesHaveOwners
    <3>2. BreakpointHit(ConditionalFor(g), g)
      BY DEF BreakpointHit, ConditionalFor
    <3>3. Hit(currBreakpoints', a, g)
      BY <2>1, <3>1, <3>2
         DEF CallSetConditional, SetConditional, Put, Exist, Hit, AllOwned
    <3> QED BY <2>1, <3>3 DEF CallSetConditional, Return, NilIsHit
  <2>2. ASSUME lastCall'.op # "SetConditional" \/ lastCall'.err PROVE NilIsHit'
    BY <2>2 DEF NilIsHit
  <2>3. CASE UNCHANGED vars
    BY <2>3 DEF vars, NilIsHit
  <2> QED BY <2>1, <2>2, <2>3
          DEF ReliableNext, Succeeds, SettingFails, SetFails, SetConditionalFails, CallSet,
              CallClear, CallClearConditional, CallClearAll, Return
<1>3. TypeOK /\ NoOrphan /\ NilMeansHit /\ [Next]_vars => NilMeansHit'
  <2> SUFFICES ASSUME TypeOK, NoOrphan, NilMeansHit, [Next]_vars, ~clearFailed' PROVE NilIsHit'
    BY DEF NilMeansHit
  <2> QED BY <1>2, ReliableSoFar DEF NoOrphan, NilMeansHit
<1> QED BY <1>1, <1>3, TypeCorrect, NothingOrphaned, PTL DEF Spec

-----------------------------------------------------------------------------
(* The promise.                                                            *)

\* In a table without orphans the addresses that have an entry are the ones the
\* promise needs.
LEMMA NeededIsDomain ==
  ASSUME NEW T, IsTable(T), \A a \in DOMAIN T : ~NoAssociation(T[a])
  PROVE  Promise!Needed(EveryoneOf(T), WantedOf(T)) = DOMAIN T
<1>1. ASSUME NEW a \in DOMAIN T, ~T[a].associateAll
      PROVE  \E g \in GoRoutine : WantedOf(T)[a][g] > 0
  <2>1. T[a] \in ConditionalBreakpoint /\ a \in Addr
    BY DEF IsTable
  <2>2. PICK g \in GoRoutine : T[a].associations[g] # 0
    BY <1>1 DEF NoAssociation
  <2>3. T[a].associations[g] \in Nat
    BY <2>1 DEF ConditionalBreakpoint
  <2>4. WantedOf(T)[a][g] = T[a].associations[g]
    BY <1>1, <2>1 DEF WantedOf
  <2> QED BY <2>2, <2>3, <2>4
<1>2. ASSUME NEW a \in Addr, NEW g \in GoRoutine, WantedOf(T)[a][g] > 0
      PROVE  a \in DOMAIN T
  BY <1>2 DEF WantedOf
<1> QED BY <1>1, <1>2 DEF Promise!Needed, EveryoneOf, IsTable

\* Changing one count, seen pointwise.
LEMMA OneCount ==
  ASSUME NEW w \in [Addr -> [GoRoutine -> Nat]], NEW v \in [Addr -> [GoRoutine -> Nat]],
         NEW a \in Addr, NEW g \in GoRoutine, NEW n \in Nat,
         \A x \in Addr, h \in GoRoutine : v[x][h] = IF x = a /\ h = g THEN n ELSE w[x][h]
  PROVE  v = [w EXCEPT ![a][g] = n]
<1>1. v[a] = [w[a] EXCEPT ![g] = n]
  <2>1. v[a] = [h \in GoRoutine |-> v[a][h]] /\ w[a] = [h \in GoRoutine |-> w[a][h]]
    OBVIOUS
  <2> QED BY <2>1
<1>2. ASSUME NEW x \in Addr, x # a PROVE v[x] = w[x]
  <2>1. v[x] = [h \in GoRoutine |-> v[x][h]] /\ w[x] = [h \in GoRoutine |-> w[x][h]]
    OBVIOUS
  <2>2. \A h \in GoRoutine : v[x][h] = w[x][h]
    BY <1>2
  <2> QED BY <2>1, <2>2
<1> QED BY <1>1, <1>2

\* Clearing all the counts of an address, seen pointwise.
LEMMA NoCount ==
  ASSUME NEW w \in [Addr -> [GoRoutine -> Nat]], NEW v \in [Addr -> [GoRoutine -> Nat]],
         NEW a \in Addr,
         \A x \in Addr, h \in GoRoutine : v[x][h] = IF x = a THEN 0 ELSE w[x][h]
  PROVE  v = [w EXCEPT ![a] = Promise!Nobody]
<1>1. v[a] = Promise!Nobody
  <2>1. v[a] = [h \in GoRoutine |-> v[a][h]]
    OBVIOUS
  <2> QED BY <2>1 DEF Promise!Nobody
<1>2. ASSUME NEW x \in Addr, x # a PROVE v[x] = w[x]
  <2>1. v[x] = [h \in GoRoutine |-> v[x][h]] /\ w[x] = [h \in GoRoutine |-> w[x][h]]
    OBVIOUS
  <2>2. \A h \in GoRoutine : v[x][h] = w[x][h]
    BY <1>2
  <2> QED BY <2>1, <2>2
<1> QED BY <1>1, <1>2

\* The counts of a table are counts.
LEMMA WantedType ==
  ASSUME NEW T, IsTable(T)
  PROVE  /\ WantedOf(T) \in [Addr -> [GoRoutine -> Nat]]
         /\ \A a \in Addr, g \in GoRoutine :
              WantedOf(T)[a][g] = IF a \in DOMAIN T /\ ~T[a].associateAll
                                    THEN T[a].associations[g] ELSE 0
  BY DEF IsTable, WantedOf, ConditionalBreakpoint

\* Breakpoints implements the promise until the tracee's memory cannot be
\* restored: a conditional breakpoint counts for a go routine as long as it was
\* set more often than cleared, and the tracee traps nowhere else.
THEOREM PromiseKept == Spec => KeepsPromise
<1> DEFINE Old == currBreakpoints
           New == currBreakpoints'
           Inv == TypeOK /\ AllOwned /\ InsertedMatchesTable
<1>1. Init => Promise!Init
  BY DEF Init, Promise!Init, NoBreakpoints, EveryoneOf, WantedOf, Promise!Nobody
<1>2. Inv /\ Inv' /\ [ReliableNext]_vars => [Promise!Next]_(Promise!vars)
  <2> SUFFICES ASSUME Inv, Inv', ReliableNext
               PROVE  Promise!Next \/ UNCHANGED Promise!vars
    BY DEF vars, Promise!vars
  <2>1. /\ IsTable(Old) /\ IsTable(New)
        /\ inserted = DOMAIN Old /\ inserted' = DOMAIN New
        /\ \A x \in DOMAIN Old : /\ Old[x] \in ConditionalBreakpoint
                                 /\ ~NoAssociation(Old[x])
    BY DEF TypeOK, InsertedMatchesTable, IsTable, AllOwned
  <2>2. inserted' = Promise!Needed(EveryoneOf(New), WantedOf(New))
    BY <2>1, NeededIsDomain DEF AllOwned
  <2>3. /\ WantedOf(Old) \in [Addr -> [GoRoutine -> Nat]]
        /\ WantedOf(New) \in [Addr -> [GoRoutine -> Nat]]
    BY <2>1, WantedType
  <2>4. \A x \in Addr, h \in GoRoutine :
          /\ WantedOf(Old)[x][h] = IF x \in DOMAIN Old /\ ~Old[x].associateAll
                                     THEN Old[x].associations[h] ELSE 0
          /\ WantedOf(New)[x][h] = IF x \in DOMAIN New /\ ~New[x].associateAll
                                     THEN New[x].associations[h] ELSE 0
    BY <2>1, WantedType
  <2>5. ASSUME SettingFails PROVE Promise!Refuse
    BY <2>1, <2>5 DEF SettingFails, SetFails, SetConditionalFails, Return, Promise!Refuse
  <2>6. ASSUME NEW a \in Addr, CallSet(a) PROVE Promise!Step
    <3>1. New = Put(Old, a, Unconditional)
      BY <2>6 DEF CallSet, Set
    <3>2. EveryoneOf(New) = EveryoneOf(Old) \cup {a}
      BY <3>1 DEF Put, EveryoneOf, Unconditional
    <3>3. \A x \in Addr, h \in GoRoutine :
            WantedOf(New)[x][h] = IF x = a THEN 0 ELSE WantedOf(Old)[x][h]
      BY <2>4, <3>1 DEF Put, Unconditional
    <3>4. WantedOf(New) = [WantedOf(Old) EXCEPT ![a] = Promise!Nobody]
      <4> DEFINE w == WantedOf(Old)
                 v == WantedOf(New)
      <4>1. /\ w \in [Addr -> [GoRoutine -> Nat]] /\ v \in [Addr -> [GoRoutine -> Nat]]
            /\ \A x \in Addr, h \in GoRoutine : v[x][h] = IF x = a THEN 0 ELSE w[x][h]
        BY <2>3, <3>3
      <4> HIDE DEF w, v
      <4>2. v = [w EXCEPT ![a] = Promise!Nobody]
        BY <4>1, NoCount
      <4> QED BY <4>2 DEF w, v
    <3>5. lastCall'.op = "Set" /\ lastCall'.addr = a /\ ~lastCall'.err
      BY <2>6 DEF CallSet, Return
    <3> QED BY <3>2, <3>4, <3>5 DEF Promise!Step, Promise!WantForAll, Promise!Called
  <2>7. ASSUME NEW a \in Addr, CallClear(a) PROVE Promise!Step
    <3>1. New = Clear(Old, a)
      BY <2>7 DEF CallClear
    <3>2. EveryoneOf(New) = EveryoneOf(Old) \ {a}
      BY <3>1 DEF Clear, EveryoneOf
    <3>3. \A x \in Addr, h \in GoRoutine :
            WantedOf(New)[x][h] = IF x = a THEN 0 ELSE WantedOf(Old)[x][h]
      BY <2>4, <3>1 DEF Clear
    <3>4. WantedOf(New) = [WantedOf(Old) EXCEPT ![a] = Promise!Nobody]
      <4> DEFINE w == WantedOf(Old)
                 v == WantedOf(New)
      <4>1. /\ w \in [Addr -> [GoRoutine -> Nat]] /\ v \in [Addr -> [GoRoutine -> Nat]]
            /\ \A x \in Addr, h \in GoRoutine : v[x][h] = IF x = a THEN 0 ELSE w[x][h]
        BY <2>3, <3>3
      <4> HIDE DEF w, v
      <4>2. v = [w EXCEPT ![a] = Promise!Nobody]
        BY <4>1, NoCount
      <4> QED BY <4>2 DEF w, v
    <3>5. lastCall'.op = "Clear" /\ lastCall'.addr = a /\ ~lastCall'.err
      BY <2>7 DEF CallClear, Return
    <3> QED BY <3>2, <3>4, <3>5 DEF Promise!Step, Promise!Forget, Promise!Called
  <2>8. ASSUME NEW a \in Addr, NEW g \in GoRoutine, CallSetConditional(a, g)
        PROVE  Promise!Step
    <3> SUFFICES Promise!Want(a, g)
      BY DEF Promise!Step
    <3>1. New = SetConditional(Old, a, g)
      BY <2>8 DEF CallSetConditional
    <3>4. Promise!Called("SetConditional") /\ lastCall'.addr = a /\ lastCall'.go = g
      BY <2>8 DEF CallSetConditional, Return, Promise!Called
    <3>2. CASE a \in DOMAIN Old /\ Old[a].associateAll
      <4>1. Put(Old, a, Old[a]) = Old
        BY <2>1, <3>2 DEF Put, IsTable
      <4>2. New = Old
        BY <2>1, <3>1, <3>2, <4>1 DEF SetConditional, Exist, Associate
      <4>3. a \in EveryoneOf(Old)
        BY <3>2 DEF EveryoneOf
      <4> QED BY <3>4, <4>2, <4>3 DEF Promise!Want
    <3>3. CASE ~(a \in DOMAIN Old /\ Old[a].associateAll)
      <4> DEFINE bp == IF a \in DOMAIN Old THEN Associate(Old[a], g) ELSE ConditionalFor(g)
      <4>1. New = Put(Old, a, bp)
        BY <2>1, <3>1 DEF SetConditional, Exist
      <4>2. /\ bp.associateAll = FALSE
            /\ \A h \in GoRoutine : bp.associations[h]
                 = IF h = g THEN WantedOf(Old)[a][h] + 1 ELSE WantedOf(Old)[a][h]
        BY <2>1, <2>4, <3>3 DEF Associate, ConditionalFor, ConditionalBreakpoint
      <4> HIDE DEF bp
      <4>3. EveryoneOf(New) = EveryoneOf(Old) /\ a \notin EveryoneOf(Old)
        BY <3>3, <4>1, <4>2 DEF Put, EveryoneOf
      <4>4. \A x \in Addr, h \in GoRoutine :
              WantedOf(New)[x][h] = IF x = a /\ h = g THEN WantedOf(Old)[a][g] + 1
                                    ELSE WantedOf(Old)[x][h]
        BY <2>4, <4>1, <4>2 DEF Put
      <4>5. WantedOf(Old)[a][g] + 1 \in Nat
        BY <2>3
      <4>6. WantedOf(New) = [WantedOf(Old) EXCEPT ![a][g] = @ + 1]
        <5> DEFINE w == WantedOf(Old)
                   v == WantedOf(New)
        <5> DEFINE n == w[a][g] + 1
        <5>1. /\ w \in [Addr -> [GoRoutine -> Nat]] /\ v \in [Addr -> [GoRoutine -> Nat]] /\ n \in Nat
              /\ \A x \in Addr, h \in GoRoutine : v[x][h] = IF x = a /\ h = g THEN n ELSE w[x][h]
          BY <2>3, <4>4, <4>5
        <5> HIDE DEF w, v, n
        <5>2. v = [w EXCEPT ![a][g] = n]
          BY <5>1, OneCount
        <5>3. n = w[a][g] + 1
          BY DEF n
        <5>4. v = [w EXCEPT ![a][g] = @ + 1]
          BY <5>1, <5>2, <5>3
        <5> QED BY <5>4 DEF w, v
      <4> QED BY <3>4, <4>3, <4>6 DEF Promise!Want
    <3> QED BY <3>2, <3>3
  <2>9. ASSUME NEW a \in Addr, NEW g \in GoRoutine, CallClearConditional(a, g)
        PROVE  Promise!Step
    <3> SUFFICES Promise!Unwant(a, g)
      BY DEF Promise!Step
    <3>1. New = ClearConditional(Old, a, g)
      BY <2>9 DEF CallClearConditional
    <3>4. Promise!Called("ClearConditional") /\ lastCall'.addr = a /\ lastCall'.go = g
      BY <2>9 DEF CallClearConditional, Return, Promise!Called
    <3>2. CASE WantedOf(Old)[a][g] = 0
      <4>1. a \in DOMAIN Old => Disassociate(Old[a], g) = Old[a]
        BY <2>1, <2>4, <3>2 DEF Disassociate, BreakpointHit, ConditionalBreakpoint
      <4>2. a \in DOMAIN Old => Put(Old, a, Old[a]) = Old
        BY <2>1 DEF Put, IsTable
      <4>3. New = Old
        BY <2>1, <3>1, <4>1, <4>2 DEF ClearConditional, Exist
      <4> QED BY <3>2, <3>4, <4>3 DEF Promise!Unwant
    <3>3. CASE WantedOf(Old)[a][g] # 0
      <4> DEFINE bp == Disassociate(Old[a], g)
      <4>1. /\ a \in DOMAIN Old /\ ~Old[a].associateAll
            /\ Old[a].associations[g] \in Nat /\ Old[a].associations[g] > 0
        BY <2>1, <2>4, <3>3 DEF ConditionalBreakpoint
      <4>2. /\ bp.associateAll = FALSE
            /\ \A h \in GoRoutine : bp.associations[h]
                 = IF h = g THEN WantedOf(Old)[a][h] - 1 ELSE WantedOf(Old)[a][h]
        BY <2>1, <2>4, <4>1 DEF Disassociate, BreakpointHit, ConditionalBreakpoint
      <4>3. NoAssociation(bp) => \A h \in GoRoutine : bp.associations[h] = 0
        BY DEF NoAssociation
      <4>4. New = IF NoAssociation(bp) THEN Clear(Old, a) ELSE Put(Old, a, bp)
        BY <3>1, <4>1 DEF ClearConditional, Exist
      <4> HIDE DEF bp
      <4>5. EveryoneOf(New) = EveryoneOf(Old)
        BY <4>1, <4>2, <4>4 DEF Put, Clear, EveryoneOf
      <4>6. ASSUME NEW x \in Addr, NEW h \in GoRoutine
            PROVE  WantedOf(New)[x][h] = IF x = a /\ h = g THEN WantedOf(Old)[a][g] - 1
                                         ELSE WantedOf(Old)[x][h]
        <5>1. CASE x # a
          <6>1. /\ x \in DOMAIN New <=> x \in DOMAIN Old
                /\ x \in DOMAIN Old => New[x] = Old[x]
            BY <4>4, <5>1 DEF Clear, Put
          <6> QED BY <2>4, <5>1, <6>1
        <5>2. CASE x = a /\ NoAssociation(bp)
          <6>1. a \notin DOMAIN New
            BY <4>4, <5>2 DEF Clear
          <6>2. bp.associations[h] = 0 /\ bp.associations[g] = 0
            BY <4>3, <5>2
          <6> QED BY <2>4, <4>2, <5>2, <6>1, <6>2
        <5>3. CASE x = a /\ ~NoAssociation(bp)
          <6>1. a \in DOMAIN New /\ New[a] = bp
            BY <4>4, <5>3 DEF Put
          <6> QED BY <2>4, <4>2, <5>3, <6>1
        <5> QED BY <5>1, <5>2, <5>3
      <4>7. WantedOf(Old)[a][g] - 1 \in Nat /\ WantedOf(Old)[a][g] > 0
        BY <2>4, <4>1
      <4>8. WantedOf(New) = [WantedOf(Old) EXCEPT ![a][g] = @ - 1]
        <5> DEFINE w == WantedOf(Old)
                   v == WantedOf(New)
        <5> DEFINE n == w[a][g] - 1
        <5>1. /\ w \in [Addr -> [GoRoutine -> Nat]] /\ v \in [Addr -> [GoRoutine -> Nat]] /\ n \in Nat
              /\ \A x \in Addr, h \in GoRoutine : v[x][h] = IF x = a /\ h = g THEN n ELSE w[x][h]
          BY <2>3, <4>6, <4>7
        <5> HIDE DEF w, v, n
        <5>2. v = [w EXCEPT ![a][g] = n]
          BY <5>1, OneCount
        <5>3. n = w[a][g] - 1
          BY DEF n
        <5>4. v = [w EXCEPT ![a][g] = @ - 1]
          BY <5>1, <5>2, <5>3
        <5> QED BY <5>4 DEF w, v
      <4> QED BY <3>3, <3>4, <4>5, <4>8 DEF Promise!Unwant
    <3> QED BY <3>2, <3>3
  <2>10. ASSUME NEW g \in GoRoutine, CallClearAll(g) PROVE Promise!Step
    <3>1. New = ClearAllByGoRoutineID(Old, g)
      BY <2>10 DEF CallClearAll
    <3>2. ASSUME NEW x \in DOMAIN Old
          PROVE  /\ DisassociateFully(Old[x], g).associateAll = Old[x].associateAll
                 /\ \A h \in GoRoutine : ~Old[x].associateAll =>
                      DisassociateFully(Old[x], g).associations[h]
                        = IF h = g THEN 0 ELSE Old[x].associations[h]
                 /\ NoAssociation(DisassociateFully(Old[x], g)) =>
                      /\ ~Old[x].associateAll
                      /\ \A h \in GoRoutine \ {g} : Old[x].associations[h] = 0
      BY <2>1 DEF DisassociateFully, NoAssociation, ConditionalBreakpoint
    <3>3. EveryoneOf(New) = EveryoneOf(Old)
      BY <3>1, <3>2 DEF ClearAllByGoRoutineID, EveryoneOf
    <3>4. ASSUME NEW x \in Addr, NEW h \in GoRoutine
          PROVE  WantedOf(New)[x][h] = IF h = g THEN 0 ELSE WantedOf(Old)[x][h]
      BY <2>4, <3>1, <3>2 DEF ClearAllByGoRoutineID
    <3>5. WantedOf(New) = [x \in Addr |-> [WantedOf(Old)[x] EXCEPT ![g] = 0]]
      <4>1. ASSUME NEW x \in Addr
            PROVE  WantedOf(New)[x] = [WantedOf(Old)[x] EXCEPT ![g] = 0]
        BY <2>3, <3>4
      <4>2. WantedOf(New) = [x \in Addr |-> WantedOf(New)[x]]
        BY <2>3
      <4> QED BY <4>1, <4>2
    <3>6. lastCall'.op = "ClearAll" /\ lastCall'.go = g /\ ~lastCall'.err
      BY <2>10 DEF CallClearAll, Return
    <3> QED BY <3>3, <3>5, <3>6 DEF Promise!Step, Promise!UnwantAll, Promise!Called
  <2> QED BY <2>2, <2>5, <2>6, <2>7, <2>8, <2>9, <2>10
          DEF ReliableNext, Succeeds, Promise!Next
<1>3. /\ TypeOK /\ NoOrphan /\ InsertedMatchesTable
      /\ (TypeOK /\ NoOrphan /\ InsertedMatchesTable)'
      /\ [Next]_vars
      => [clearFailed' \/ Promise!Next]_(Promise!vars)
  <2> SUFFICES ASSUME TypeOK, NoOrphan, InsertedMatchesTable, NoOrphan', TypeOK',
                      InsertedMatchesTable', [Next]_vars, ~clearFailed'
               PROVE  [Promise!Next]_(Promise!vars)
    OBVIOUS
  <2>1. ~clearFailed /\ [ReliableNext]_vars
    BY ReliableSoFar
  <2>2. Inv /\ Inv'
    BY <2>1 DEF NoOrphan
  <2> QED BY <1>2, <2>1, <2>2
<1> QED BY <1>1, <1>3, TypeCorrect, InsertedCorrect, NothingOrphaned, PTL DEF Spec, KeepsPromise

-----------------------------------------------------------------------------
(* The closed forms for several calls in a row.                            *)

\* SetConditionalAll is SetConditional for one address after the other, as in the
\* loop of setCallInstBreakpoints (controller.go:308).
THEOREM SetsInARow ==
  ASSUME NEW T, IsTable(T), NEW A \in SUBSET Addr, NEW a \in Addr \ A, NEW g \in GoRoutine
  PROVE  /\ SetConditionalAll(T, {}, g) = T
         /\ SetConditionalAll(T, A \cup {a}, g) = SetConditional(SetConditionalAll(T, A, g), a, g)
<1> DEFINE S == SetConditionalAll(T, A, g)
<1>1. SetConditionalAll(T, {}, g) = T
  BY DEF SetConditionalAll, IsTable
<1>2. DOMAIN S = DOMAIN T \cup A /\ \A x \in DOMAIN S : x \notin A => S[x] = T[x]
  BY DEF SetConditionalAll
<1>3. S = [x \in DOMAIN S |-> S[x]]
  BY DEF SetConditionalAll
<1>4. SetConditional(T, a, g)[a]
        = IF a \in DOMAIN T THEN IF NoAssociation(T[a]) THEN T[a] ELSE Associate(T[a], g)
          ELSE ConditionalFor(g)
  BY DEF SetConditional, Put, Exist
<1>5. SetConditionalAll(T, A \cup {a}, g)
        = [x \in DOMAIN S \cup {a} |-> IF x = a THEN SetConditional(T, a, g)[a] ELSE S[x]]
  BY DEF SetConditionalAll
<1>6. SetConditional(S, a, g)
        = [x \in DOMAIN S \cup {a} |-> IF x = a THEN SetConditional(T, a, g)[a] ELSE S[x]]
  <2> HIDE DEF S
  <2>1. CASE a \notin DOMAIN T
    BY <1>2, <1>4, <2>1 DEF SetConditional, Put, Exist
  <2>2. CASE a \in DOMAIN T /\ NoAssociation(T[a])
    BY <1>2, <1>3, <1>4, <2>2 DEF SetConditional, Put, Exist
  <2>3. CASE a \in DOMAIN T /\ ~NoAssociation(T[a])
    BY <1>2, <1>4, <2>3 DEF SetConditional, Put, Exist
  <2> QED BY <2>1, <2>2, <2>3
<1> QED BY <1>1, <1>5, <1>6

\* An entry with another count for one go routine.
LEMMA Recounted ==
  ASSUME NEW bp \in ConditionalBreakpoint, ~bp.associateAll, NEW g \in GoRoutine, NEW k \in Nat
  PROVE  [bp EXCEPT !.associations[g] = k]
           = [associateAll |-> FALSE, associations |-> [bp.associations EXCEPT ![g] = k]]
<1> DEFINE new == [bp EXCEPT !.associations[g] = k]
<1>1. new \in ConditionalBreakpoint
  BY DEF ConditionalBreakpoint
<1>2. new.associateAll = FALSE /\ new.associations = [bp.associations EXCEPT ![g] = k]
  BY DEF ConditionalBreakpoint
<1> HIDE DEF new
<1>3. new = [associateAll |-> FALSE, associations |-> [bp.associations EXCEPT ![g] = k]]
  BY <1>1, <1>2 DEF ConditionalBreakpoint
<1> QED BY <1>3 DEF new

\* One more disassociation of an entry.
LEMMA OneMoreDisassociation ==
  ASSUME NEW bp \in ConditionalBreakpoint, NEW n \in Nat, NEW g \in GoRoutine
  PROVE  /\ DisassociateTimes(bp, g, 0) = bp
         /\ DisassociateTimes(bp, g, n + 1) = Disassociate(DisassociateTimes(bp, g, n), g)
         /\ NoAssociation(DisassociateTimes(bp, g, n)) =>
              DisassociateTimes(bp, g, n + 1) = DisassociateTimes(bp, g, n)
<1>1. CASE bp.associateAll
  BY <1>1 DEF DisassociateTimes, Disassociate, NoAssociation
<1>2. CASE ~bp.associateAll
  <2> DEFINE left(m) == IF m < bp.associations[g] THEN bp.associations[g] - m ELSE 0
             with(k) == [associateAll |-> FALSE, associations |-> [bp.associations EXCEPT ![g] = k]]
  <2>1. ASSUME NEW k \in Nat
        PROVE  /\ [bp EXCEPT !.associations[g] = k] = with(k)
               /\ with(k).associateAll = FALSE /\ with(k).associations[g] = k
               /\ \A j \in Nat : [with(k) EXCEPT !.associations[g] = j] = with(j)
    <3>1. bp.associations \in [GoRoutine -> Nat]
      BY DEF ConditionalBreakpoint
    <3>2. with(k) \in ConditionalBreakpoint
      BY <3>1 DEF ConditionalBreakpoint
    <3>3. [bp EXCEPT !.associations[g] = k] = with(k)
      BY <1>2, Recounted
    <3>4. with(k).associateAll = FALSE /\ with(k).associations[g] = k
      BY <3>1
    <3>5. ASSUME NEW j \in Nat PROVE [with(k) EXCEPT !.associations[g] = j] = with(j)
      <4>1. [[bp.associations EXCEPT ![g] = k] EXCEPT ![g] = j] = [bp.associations EXCEPT ![g] = j]
        BY <3>1
      <4>2. with(k).associations = [bp.associations EXCEPT ![g] = k]
        OBVIOUS
      <4> HIDE DEF with
      <4>3. [with(k) EXCEPT !.associations[g] = j]
              = [associateAll |-> FALSE, associations |-> [with(k).associations EXCEPT ![g] = j]]
        BY <3>2, <3>4, Recounted
      <4> QED BY <4>1, <4>2, <4>3 DEF with
    <3> QED BY <3>3, <3>4, <3>5
  <2>2. with(bp.associations[g]) = bp
    BY <1>2 DEF ConditionalBreakpoint
  <2>3. ASSUME NEW m \in Nat
        PROVE  left(m) \in Nat /\ left(m + 1) = IF left(m) > 0 THEN left(m) - 1 ELSE left(m)
    BY DEF ConditionalBreakpoint
  <2>4. left(0) = bp.associations[g]
    BY DEF ConditionalBreakpoint
  <2>5. ASSUME NEW m \in Nat PROVE DisassociateTimes(bp, g, m) = with(left(m))
    BY <1>2, <2>1, <2>3 DEF DisassociateTimes
  <2> HIDE DEF left, with
  <2>6. ASSUME NEW k \in Nat
        PROVE  Disassociate(with(k), g) = with(IF k > 0 THEN k - 1 ELSE k)
    <3>1. BreakpointHit(with(k), g) <=> k > 0
      BY <2>1 DEF BreakpointHit
    <3>2. CASE k > 0
      <4>1. k - 1 \in Nat
        BY <3>2
      <4>2. Disassociate(with(k), g) = [with(k) EXCEPT !.associations[g] = k - 1]
        BY <2>1, <3>1, <3>2 DEF Disassociate
      <4> QED BY <2>1, <3>2, <4>1, <4>2
    <3>3. CASE ~(k > 0)
      BY <3>1, <3>3 DEF Disassociate
    <3> QED BY <3>2, <3>3
  <2>7. DisassociateTimes(bp, g, 0) = bp
    BY <2>2, <2>4, <2>5
  <2>8. DisassociateTimes(bp, g, n + 1) = Disassociate(DisassociateTimes(bp, g, n), g)
    <3>1. DisassociateTimes(bp, g, n + 1) = with(left(n + 1))
      BY <2>5
    <3>2. Disassociate(with(left(n)), g) = with(IF left(n) > 0 THEN left(n) - 1 ELSE left(n))
      BY <2>3, <2>6
    <3> QED BY <2>3, <2>5, <3>1, <3>2
  <2>9. NoAssociation(with(left(n))) => left(n) = 0
    BY <2>1, <2>3 DEF NoAssociation
  <2>10. left(n) = 0 => left(n + 1) = left(n)
    BY <2>3
  <2> QED BY <2>5, <2>7, <2>8, <2>9, <2>10
<1> QED BY <1>1, <1>2

\* ClearConditionalTimes is ClearConditional as often as it says, in any order, as
\* in doUnwindFunctions (controller.go:420).
THEOREM ClearsInARow ==
  ASSUME NEW T, IsTable(T), NEW times \in [Addr -> Nat], NEW a \in Addr, NEW g \in GoRoutine
  PROVE  /\ ClearConditionalTimes(T, [x \in Addr |-> 0], g) = T
         /\ ClearConditionalTimes(T, [times EXCEPT ![a] = @ + 1], g)
              = ClearConditional(ClearConditionalTimes(T, times, g), a, g)
<1> DEFINE C == ClearConditionalTimes(T, times, g)
           more == [times EXCEPT ![a] = @ + 1]
           M == ClearConditionalTimes(T, more, g)
           After(x, n) == DisassociateTimes(T[x], g, n)
<1>0. ASSUME NEW x \in DOMAIN T
      PROVE  /\ T[x] \in ConditionalBreakpoint /\ x \in Addr
             /\ times[x] \in Nat /\ more[x] = IF x = a THEN times[x] + 1 ELSE times[x]
  BY DEF IsTable
<1>2. ClearConditionalTimes(T, [x \in Addr |-> 0], g) = T
  <2>1. \A x \in DOMAIN T : After(x, 0) = T[x]
    BY <1>0, OneMoreDisassociation
  <2> QED BY <1>0, <2>1 DEF ClearConditionalTimes, IsTable
<1>3. ASSUME NEW t
      PROVE  LET D == ClearConditionalTimes(T, t, g)
             IN  /\ DOMAIN D = {x \in DOMAIN T : t[x] = 0 \/ ~NoAssociation(After(x, t[x]))}
                 /\ \A x \in DOMAIN D : D[x] = After(x, t[x])
                 /\ D = [x \in DOMAIN D |-> D[x]]
  BY DEF ClearConditionalTimes
<1> HIDE DEF After, more
<1>4. /\ DOMAIN C = {x \in DOMAIN T : times[x] = 0 \/ ~NoAssociation(After(x, times[x]))}
      /\ \A x \in DOMAIN C : C[x] = After(x, times[x])
      /\ C = [x \in DOMAIN C |-> C[x]]
      /\ DOMAIN M = {x \in DOMAIN T : more[x] = 0 \/ ~NoAssociation(After(x, more[x]))}
      /\ \A x \in DOMAIN M : M[x] = After(x, more[x])
      /\ M = [x \in DOMAIN M |-> M[x]]
  BY <1>3
<1> HIDE DEF C, M
<1>5. ASSUME NEW x \in DOMAIN T, x # a
      PROVE  (x \in DOMAIN M <=> x \in DOMAIN C) /\ (x \in DOMAIN C => M[x] = C[x])
  BY <1>0, <1>4, <1>5
<1>6. ASSUME a \in DOMAIN T
      PROVE  /\ a \in DOMAIN M <=> a \in DOMAIN C /\ ~NoAssociation(Disassociate(C[a], g))
             /\ a \in DOMAIN M => M[a] = Disassociate(C[a], g)
  <2>1. /\ After(a, times[a] + 1) = Disassociate(After(a, times[a]), g)
        /\ NoAssociation(After(a, times[a])) => After(a, times[a] + 1) = After(a, times[a])
    BY <1>0, <1>6, OneMoreDisassociation DEF After
  <2>2. more[a] = times[a] + 1 /\ more[a] # 0
    BY <1>0, <1>6
  <2> QED BY <1>4, <1>6, <2>1, <2>2
<1>7. a \notin DOMAIN T => a \notin DOMAIN M /\ a \notin DOMAIN C
  BY <1>4
<1>8. M = ClearConditional(C, a, g)
  <2>1. CASE a \notin DOMAIN C
    <3>1. DOMAIN M = DOMAIN C /\ \A x \in DOMAIN C : M[x] = C[x]
      BY <1>4, <1>5, <1>6, <1>7, <2>1
    <3> QED BY <1>4, <2>1, <3>1 DEF ClearConditional, Exist
  <2>2. CASE a \in DOMAIN C /\ NoAssociation(Disassociate(C[a], g))
    <3>1. DOMAIN M = DOMAIN C \ {a} /\ \A x \in DOMAIN C \ {a} : M[x] = C[x]
      BY <1>4, <1>5, <1>6, <1>7, <2>2
    <3> QED BY <1>4, <2>2, <3>1 DEF ClearConditional, Exist, Clear
  <2>3. CASE a \in DOMAIN C /\ ~NoAssociation(Disassociate(C[a], g))
    <3>1. /\ DOMAIN M = DOMAIN C \cup {a}
          /\ \A x \in DOMAIN C : M[x] = IF x = a THEN Disassociate(C[a], g) ELSE C[x]
      BY <1>4, <1>5, <1>6, <1>7, <2>3
    <3> QED BY <1>4, <2>3, <3>1 DEF ClearConditional, Exist, Put
  <2> QED BY <2>1, <2>2, <2>3
<1> QED BY <1>2, <1>8 DEF C, M, more

=============================================================================
