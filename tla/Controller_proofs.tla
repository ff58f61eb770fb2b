-------------------------- MODULE Controller_proofs --------------------------
(***************************************************************************)
(* Proofs about Controller for any program, any scenarios and any number   *)
(* of go routines.                                                         *)
(***************************************************************************)
EXTENDS BracketedSessions, FiniteSetTheorems, TLAPS

Pending == [k \in {"start", "end"} |->
              IF k = "start" THEN pendingStartTracePoint ELSE pendingEndTracePoint]
Active == [k \in {"start", "end"} |->
             IF k = "start" THEN startAddressList ELSE endAddressList]

\* The trace points that a scenario may request are among those of MainLoop.
RequestsKnown == scenario \in Scenario

\* The loop starts with the scenario's two requests pending.
LEMMA InitialState == Init => Loop!Init
<1> SUFFICES ASSUME Init PROVE Loop!Init
  OBVIOUS
<1> DEFINE r == [k \in {"start", "end"} |->
                   IF k = "start" THEN <<scenario.start>> ELSE <<scenario.end>>]
<1>1. scenario \in Scenario
  BY DEF Init
<1>2. r \in {[k \in {"start", "end"} |-> IF k = "start" THEN <<sc.start>> ELSE <<sc.end>>]
               : sc \in Scenario}
  BY <1>1
<1>3. Loop!InitWith(r)
  BY DEF Init, Loop!InitWith, Loop!Kind
<1> QED BY <1>2, <1>3 DEF Loop!Init

\* A step of the controller for one of its go routines, or another's request, is
\* the step of MainLoop with its name or a stutter.
LEMMA HandlersRefine ==
  ASSUME NEW g \in GoRoutine, HandleTrap(g)
  PROVE  Loop!HandleTrap(g)
<1>1. /\ phase = "waiting" /\ g \in trapped
      /\ phase' = "resuming" /\ trapped' = trapped \ {g} /\ held' = {g}
      /\ UNCHANGED <<points, requests>>
  BY DEF HandleTrap, HandleTrapAtUnrelatedBreakpoint, HandleTrapUntraced, HandleTrapWithoutHint,
         HandleTrapBeforeFunctionCall, HandleTrapAtDeferredFuncCall, Handled, CanHandle,
         OwnBreakpoint
<1> QED BY <1>1 DEF Loop!HandleTrap, points, requests

\* The requests that become effective are those of MainLoop.
LEMMA ContinuingRefines == ContinueAndWait => Loop!ContinueAndWait
<1> SUFFICES ASSUME ContinueAndWait PROVE Loop!ContinueAndWait
  OBVIOUS
<1>1. Active' = [k \in Loop!Kind |-> Active[k] \cup Loop!Requested(k)]
  BY DEF ContinueAndWait, Active, Loop!Kind, Loop!Requested
<1>2. Pending' = [k \in Loop!Kind |-> <<>>]
  BY DEF ContinueAndWait, Pending, Loop!Kind
<1>3. /\ phase = "resuming" /\ ~interruptCh /\ phase' = "waiting" /\ held' = {}
      /\ UNCHANGED <<trapped, interruptCh>>
  BY DEF ContinueAndWait, tracee
<1> QED BY <1>1, <1>2, <1>3 DEF Loop!ContinueAndWait, Active, Pending

\* A request for a trace point or an interrupt is one of MainLoop.
LEMMA RequestsRefine ==
  ASSUME RequestsKnown, Requests
  PROVE  Loop!Next
<1> DEFINE Points == UNION {{sc.start, sc.end} \cup sc.late.start \cup sc.late.end : sc \in Scenario}
<1>1. scenario.late.start \cup scenario.late.end \subseteq Points
  BY DEF RequestsKnown
<1> HIDE DEF Points
<1>2. ASSUME NEW a \in scenario.late.start, AddStartTracePoint(a)
      PROVE  Loop!AddTracePoint("start", a)
  BY <1>2 DEF AddStartTracePoint, Loop!AddTracePoint, tracee, points
<1>3. ASSUME NEW a \in scenario.late.end, AddEndTracePoint(a)
      PROVE  Loop!AddTracePoint("end", a)
  BY <1>3 DEF AddEndTracePoint, Loop!AddTracePoint, tracee, points
<1>4. ASSUME Interrupt PROVE Loop!Interrupt
  BY <1>4 DEF Interrupt, Loop!Interrupt, tracee, points
<1> QED
  BY <1>1, <1>2, <1>3, <1>4 DEF Requests, Loop!Next, Loop!Kind, Points

\* Every step is one of MainLoop or changes nothing of it.
LEMMA StepsRefine ==
  ASSUME RequestsKnown, [Next]_vars
  PROVE  [Loop!Next]_(Loop!vars)
<1>1. ASSUME NEW g \in GoRoutine, Run(g)
      PROVE  Loop!Trap(g) \/ UNCHANGED Loop!vars
  BY <1>1 DEF Run, Loop!Trap, Loop!vars, points, requests
<1>2. MainLoopReturns => Loop!Return
  BY DEF MainLoopReturns, Loop!Return, tracee, points, requests
<1>3. Interrupted => Loop!Interrupted
  BY DEF Interrupted, Loop!Interrupted, tracee, points
<1>4. MainLoop => Loop!Loop
  BY <1>3, HandlersRefine, ContinuingRefines DEF MainLoop, Loop!Loop
<1>5. UNCHANGED vars => UNCHANGED Loop!vars
  BY DEF vars, controllerVars, tracee, points, requests, Loop!vars
<1> QED
  BY <1>1, <1>2, <1>4, <1>5, RequestsRefine DEF Next, ControllerNext, Loop!Next

\* Whatever the handlers do, the controller stops, resumes, applies requests and ends
\* as MainLoop does (handleTrapEvent, continueAndWait).
THEOREM MainLoopImplemented == Spec => ImplementsMainLoop
<1>1. Init => RequestsKnown
  BY DEF Init, RequestsKnown
<1>2. RequestsKnown /\ [Next]_vars => RequestsKnown'
  BY DEF RequestsKnown, Next, vars
<1> QED BY <1>1, <1>2, InitialState, StepsRefine, PTL DEF Spec, ImplementsMainLoop, Loop!Spec

-----------------------------------------------------------------------------
(* A go routine that is not traced is stopped at trace points only.  The   *)
(* invariant: Quiet for each untraced go routine, and entries are entries. *)

IsEntry(bp) ==
  /\ bp = [associateAll |-> bp.associateAll, associations |-> bp.associations]
  /\ bp.associateAll \in BOOLEAN
  /\ bp.associations = [h \in GoRoutine |-> bp.associations[h]]

Entries(T) == \A a \in DOMAIN T : IsEntry(T[a])

\* No conditional breakpoint counts for h.
Quiet(T, h) == \A a \in DOMAIN T : T[a].associateAll \/ T[a].associations[h] = 0

\* T2 is T1 but for what concerns g.
Preserves(T1, T2, g) ==
  /\ Entries(T2)
  /\ \A h \in GoRoutine \ {g} : Quiet(T1, h) => Quiet(T2, h)

\* What the operators do to one entry of the table.
LEMMA EntryOperators ==
  ASSUME NEW bp, IsEntry(bp), NEW g \in GoRoutine, NEW n
  PROVE  /\ IsEntry(Associate(bp, g)) /\ IsEntry(Disassociate(bp, g))
         /\ IsEntry(DisassociateFully(bp, g)) /\ IsEntry(DisassociateTimes(bp, g, n))
         /\ Associate(bp, g).associateAll = bp.associateAll
         /\ Disassociate(bp, g).associateAll = bp.associateAll
         /\ DisassociateFully(bp, g).associateAll = bp.associateAll
         /\ DisassociateTimes(bp, g, n).associateAll = bp.associateAll
         /\ \A h \in GoRoutine \ {g} :
              /\ Associate(bp, g).associations[h] = bp.associations[h]
              /\ Disassociate(bp, g).associations[h] = bp.associations[h]
              /\ DisassociateFully(bp, g).associations[h] = bp.associations[h]
              /\ DisassociateTimes(bp, g, n).associations[h] = bp.associations[h]
         /\ ~bp.associateAll => DisassociateFully(bp, g).associations[g] = 0
<1>1. /\ IsEntry(Associate(bp, g))
      /\ Associate(bp, g).associateAll = bp.associateAll
      /\ \A h \in GoRoutine \ {g} : Associate(bp, g).associations[h] = bp.associations[h]
  BY DEF IsEntry, Associate
<1>2. /\ IsEntry(Disassociate(bp, g))
      /\ Disassociate(bp, g).associateAll = bp.associateAll
      /\ \A h \in GoRoutine \ {g} : Disassociate(bp, g).associations[h] = bp.associations[h]
  BY DEF IsEntry, Disassociate
<1>3. /\ IsEntry(DisassociateFully(bp, g))
      /\ DisassociateFully(bp, g).associateAll = bp.associateAll
      /\ \A h \in GoRoutine \ {g} : DisassociateFully(bp, g).associations[h] = bp.associations[h]
      /\ ~bp.associateAll => DisassociateFully(bp, g).associations[g] = 0
  BY DEF IsEntry, DisassociateFully
<1>4. /\ IsEntry(DisassociateTimes(bp, g, n))
      /\ DisassociateTimes(bp, g, n).associateAll = bp.associateAll
      /\ \A h \in GoRoutine \ {g} : DisassociateTimes(bp, g, n).associations[h] = bp.associations[h]
  BY DEF IsEntry, DisassociateTimes
<1> QED BY <1>1, <1>2, <1>3, <1>4

\* New entries are entries.
LEMMA NewEntries ==
  ASSUME NEW g \in GoRoutine
  PROVE  /\ IsEntry(Unconditional) /\ Unconditional.associateAll
         /\ IsEntry(ConditionalFor(g))
         /\ \A h \in GoRoutine \ {g} : ConditionalFor(g).associations[h] = 0
BY DEF IsEntry, Unconditional, ConditionalFor

\* Setting a conditional breakpoint adds hits for its own go routine only.
LEMMA SettingPreserves ==
  ASSUME NEW T, Entries(T), NEW g \in GoRoutine, NEW a, NEW A
  PROVE  /\ Preserves(T, SetConditional(T, a, g), g)
         /\ Preserves(T, SetConditionalAll(T, A, g), g)
<1> DEFINE New(x) == SetConditional(T, x, g)[x]
<1>1. \A x : /\ IsEntry(New(x))
             /\ \A h \in GoRoutine \ {g} :
                  Quiet(T, h) => New(x).associateAll \/ New(x).associations[h] = 0
  <2> TAKE x
  <2>1. CASE x \in DOMAIN T
    <3>1. New(x) = T[x] \/ New(x) = Associate(T[x], g)
      BY <2>1 DEF SetConditional, Exist, Put
    <3>2. IsEntry(T[x])
      BY <2>1 DEF Entries
    <3>3. \A h \in GoRoutine : Quiet(T, h) => T[x].associateAll \/ T[x].associations[h] = 0
      BY <2>1 DEF Quiet
    <3>4. /\ IsEntry(Associate(T[x], g)) /\ Associate(T[x], g).associateAll = T[x].associateAll
          /\ \A h \in GoRoutine \ {g} : Associate(T[x], g).associations[h] = T[x].associations[h]
      BY <3>2, EntryOperators
    <3> HIDE DEF New
    <3> QED BY <3>1, <3>2, <3>3, <3>4
  <2>2. CASE x \notin DOMAIN T
    <3>1. New(x) = ConditionalFor(g)
      BY <2>2 DEF SetConditional, Exist, Put
    <3> HIDE DEF New
    <3> QED BY <3>1, NewEntries
  <2> QED BY <2>1, <2>2
<1>2. Preserves(T, SetConditionalAll(T, A, g), g)
  <2>1. /\ DOMAIN SetConditionalAll(T, A, g) = DOMAIN T \cup A
        /\ \A x \in DOMAIN T \cup A :
              SetConditionalAll(T, A, g)[x] = IF x \in A THEN New(x) ELSE T[x]
    BY DEF SetConditionalAll
  <2> HIDE DEF New
  <2> QED BY <1>1, <2>1 DEF Preserves, Entries, Quiet
<1>3. Preserves(T, SetConditional(T, a, g), g)
  <2>1. /\ DOMAIN SetConditional(T, a, g) = DOMAIN T \cup {a}
        /\ \A x \in DOMAIN T \cup {a} :
              SetConditional(T, a, g)[x] = IF x = a THEN New(a) ELSE T[x]
    BY DEF SetConditional, Exist, Put
  <2> HIDE DEF New
  <2> QED BY <1>1, <2>1 DEF Preserves, Entries, Quiet
<1> QED BY <1>2, <1>3

\* Clearing conditional breakpoints adds no hits.
LEMMA ClearingPreserves ==
  ASSUME NEW T, Entries(T), NEW g \in GoRoutine, NEW a, NEW times
  PROVE  /\ Preserves(T, ClearConditional(T, a, g), g)
         /\ Preserves(T, ClearConditionalTimes(T, times, g), g)
<1>1. Preserves(T, ClearConditionalTimes(T, times, g), g)
  <2>1. /\ DOMAIN ClearConditionalTimes(T, times, g) \subseteq DOMAIN T
        /\ \A x \in DOMAIN ClearConditionalTimes(T, times, g) :
              ClearConditionalTimes(T, times, g)[x] = DisassociateTimes(T[x], g, times[x])
    BY DEF ClearConditionalTimes
  <2> QED BY <2>1, EntryOperators DEF Preserves, Entries, Quiet
<1>2. Preserves(T, ClearConditional(T, a, g), g)
  <2>1. /\ DOMAIN ClearConditional(T, a, g) \subseteq DOMAIN T
        /\ \A x \in DOMAIN ClearConditional(T, a, g) :
              ClearConditional(T, a, g)[x] = IF x = a THEN Disassociate(T[x], g) ELSE T[x]
    BY DEF ClearConditional, Exist, Put, Clear
  <2> QED BY <2>1, EntryOperators DEF Preserves, Entries, Quiet
<1> QED BY <1>1, <1>2

\* exitTracepoint leaves the go routine no breakpoint of its own.
LEMMA ClearingAllSilences ==
  ASSUME NEW T, Entries(T), NEW g \in GoRoutine
  PROVE  /\ Preserves(T, ClearAllByGoRoutineID(T, g), g)
         /\ Quiet(ClearAllByGoRoutineID(T, g), g)
<1>1. /\ DOMAIN ClearAllByGoRoutineID(T, g) \subseteq DOMAIN T
      /\ \A x \in DOMAIN ClearAllByGoRoutineID(T, g) :
            ClearAllByGoRoutineID(T, g)[x] = DisassociateFully(T[x], g)
  BY DEF ClearAllByGoRoutineID
<1>2. \A x \in DOMAIN T :
        /\ IsEntry(DisassociateFully(T[x], g))
        /\ DisassociateFully(T[x], g).associateAll = T[x].associateAll
        /\ \A h \in GoRoutine \ {g} :
             DisassociateFully(T[x], g).associations[h] = T[x].associations[h]
        /\ ~T[x].associateAll => DisassociateFully(T[x], g).associations[g] = 0
  BY EntryOperators DEF Entries
<1> DEFINE New == ClearAllByGoRoutineID(T, g)
<1> HIDE DEF New
<1>3. /\ DOMAIN New \subseteq DOMAIN T
      /\ \A x \in DOMAIN New : New[x] = DisassociateFully(T[x], g)
  BY <1>1 DEF New
<1>4. Entries(New)
  BY <1>2, <1>3 DEF Entries
<1>5. \A h \in GoRoutine \ {g} : Quiet(T, h) => Quiet(New, h)
  BY <1>2, <1>3 DEF Quiet
<1>6. Quiet(New, g)
  BY <1>2, <1>3 DEF Quiet
<1> QED BY <1>4, <1>5, <1>6 DEF Preserves, New

\* Trace points are hits for every go routine.
LEMMA SettingAllPreserves ==
  ASSUME NEW T, Entries(T), NEW A
  PROVE  /\ Entries(SetAll(T, A))
         /\ \A h \in GoRoutine : Quiet(T, h) => Quiet(SetAll(T, A), h)
<1>1. IsEntry(Unconditional) /\ Unconditional.associateAll
  BY DEF IsEntry, Unconditional
<1> QED BY <1>1 DEF SetAll, Entries, Quiet

\* One handling after another concerns the same go routine.
LEMMA PreservesTwice ==
  ASSUME NEW T1, NEW T2, NEW T3, NEW g, Preserves(T1, T2, g), Preserves(T2, T3, g)
  PROVE  Preserves(T1, T3, g)
BY DEF Preserves

\* s is what a handler of g's trap may have made of the controller's state: it has
\* only touched the breakpoints of g.
Good(s, g) ==
  /\ DOMAIN s = {"breakpoints", "hints", "functions", "tracing", "printed", "mismatch", "base"}
  /\ Preserves(breakpoints, s.breakpoints, g)
  /\ s.tracing \in Nat

Settled(s, g) == s.tracing = 0 => Quiet(s.breakpoints, g)

\* ... and left the count of its sessions alone.
Continues(s, u, g) == Good(u, g) /\ u.tracing = s.tracing

\* Setting and clearing leaves the tracing as it is.
LEMMA BookkeepingContinues ==
  ASSUME NEW s, NEW g \in GoRoutine, Good(s, g), NEW f, NEW d, NEW t, NEW used
  PROVE  /\ Continues(s, SetCallInstBreakpoints(s, g, f), g)
         /\ Continues(s, UnwindFunctions(s, g, used, f), g)
         /\ Continues(s, SetBreakpointToDeferredFunc(s, g, t), g)
         /\ Continues(s, PrintInput(s, f, d), g)
         /\ Continues(s, PrintOutput(s, f, d), g)
<1>1. Entries(s.breakpoints)
  BY DEF Good, Preserves
<1>2. Continues(s, SetCallInstBreakpoints(s, g, f), g)
  <2>1. Preserves(s.breakpoints, SetConditionalAll(s.breakpoints, CallInsts(f), g), g)
    BY <1>1, SettingPreserves
  <2> QED BY <2>1, PreservesTwice DEF Continues, Good, SetCallInstBreakpoints
<1>3. Continues(s, UnwindFunctions(s, g, used, f), g)
  <2>1. \A times : Preserves(s.breakpoints, ClearConditionalTimes(s.breakpoints, times, g), g)
    BY <1>1, ClearingPreserves
  <2> QED BY <2>1, PreservesTwice DEF Continues, Good, UnwindFunctions
<1>4. Continues(s, SetBreakpointToDeferredFunc(s, g, t), g)
  <2>1. \A a : Preserves(s.breakpoints, SetConditional(s.breakpoints, a, g), g)
    BY <1>1, SettingPreserves
  <2> QED BY <2>1, PreservesTwice DEF Continues, Good, SetBreakpointToDeferredFunc
<1>5. Continues(s, PrintInput(s, f, d), g)
  BY DEF Continues, Good, PrintInput
<1>6. Continues(s, PrintOutput(s, f, d), g)
  BY DEF Continues, Good, PrintOutput
<1> QED BY <1>2, <1>3, <1>4, <1>5, <1>6

\* addFunction leaves the tracing as it is.
LEMMA AddingContinues ==
  ASSUME NEW s, NEW g \in GoRoutine, Good(s, g), NEW new
  PROVE  Continues(s, AddFunction(s, g, new), g)
<1> DEFINE u == [s EXCEPT !.functions = Append(@, new),
                          !.breakpoints = SetConditional(@, new.returnAddress, g)]
<1>1. Preserves(s.breakpoints, SetConditional(s.breakpoints, new.returnAddress, g), g)
  BY SettingPreserves DEF Good, Preserves
<1>2. Continues(s, u, g)
  BY <1>1, PreservesTwice DEF Continues, Good
<1> HIDE DEF u
<1>3. Continues(u, SetCallInstBreakpoints(u, g, new.fn), g)
  BY <1>2, BookkeepingContinues DEF Continues
<1>4. AddFunction(s, g, new)
        = IF new.setCallInstBreakpoints THEN SetCallInstBreakpoints(u, g, new.fn) ELSE u
  BY DEF AddFunction, u
<1> QED BY <1>2, <1>3, <1>4 DEF Continues

\* addFunction after the unwinding, and the line that is printed.
LEMMA CallContinues ==
  ASSUME NEW s, NEW g \in GoRoutine, Good(s, g), NEW t
  PROVE  Continues(s, HandleTrapAtFunctionCall(s, g, t), g)
<1> DEFINE f == t.pc[1]
           u == UnwindFunctions(s, g, UsedStackSize(t), f)
           depth == Len(u.functions) + 1
           new == [fn |-> f, returnAddress |-> Top(t).ret, usedStackSize |-> UsedStackSize(t),
                   setCallInstBreakpoints |-> depth < TraceLevel]
           v == AddFunction(u, g, new)
<1>1. Continues(s, u, g)
  BY BookkeepingContinues
<1>2. Continues(u, v, g)
  BY <1>1, AddingContinues DEF Continues
<1>3. Continues(v, PrintInput(v, f, depth), g)
  BY <1>2, BookkeepingContinues DEF Continues
<1>4. HandleTrapAtFunctionCall(s, g, t)
        = IF depth <= TraceLevel /\ f \in Printable THEN PrintInput(v, f, depth) ELSE v
  BY DEF HandleTrapAtFunctionCall
<1> HIDE DEF u, v, depth, f
<1> QED BY <1>1, <1>2, <1>3, <1>4 DEF Continues

\* handleTrapAfterFunctionReturn leaves the tracing as it is.
LEMMA ReturnContinues ==
  ASSUME NEW s, NEW g \in GoRoutine, Good(s, g), NEW t
  PROVE  Continues(s, HandleTrapAfterFunctionReturn(s, g, t), g)
<1> DEFINE u == UnwindFunctions(s, g, UsedStackSize(t), t.pc[1])
           depth == Len(u.functions) + 1
           returned == s.functions[depth].fn
           v == IF depth <= TraceLevel /\ returned = "runtime.deferproc"
                  THEN SetBreakpointToDeferredFunc(u, g, t) ELSE u
<1>1. Continues(s, u, g)
  BY BookkeepingContinues
<1>2. Continues(u, SetBreakpointToDeferredFunc(u, g, t), g)
  BY <1>1, BookkeepingContinues DEF Continues
<1>3. HandleTrapAfterFunctionReturn(s, g, t)
        = IF depth <= TraceLevel /\ returned \in Printable THEN PrintOutput(v, returned, depth) ELSE v
  BY DEF HandleTrapAfterFunctionReturn
<1>4. Continues(s, v, g)
  <2> HIDE DEF u, depth, returned
  <2> QED BY <1>1, <1>2 DEF Continues, v
<1> HIDE DEF u, v, depth, returned
<1>5. Continues(v, PrintOutput(v, returned, depth), g)
  BY <1>4, BookkeepingContinues DEF Continues
<1> QED BY <1>3, <1>4, <1>5 DEF Continues

\* Entering a session counts it; leaving the last one silences the go routine.
LEMMA TracingStatusSettles ==
  ASSUME NEW s, NEW g \in GoRoutine, Good(s, g), Settled(s, g), NEW t
  PROVE  LET u == UpdateTracingStatus(s, g, t) IN Good(u, g) /\ Settled(u, g)
<1>1. LET u == EnterTracepoint(s, g, t) IN Good(u, g) /\ Settled(u, g)
  <2> DEFINE u == SetCallInstBreakpoints(s, g, t.pc[1])
  <2>1. Continues(s, u, g)
    BY BookkeepingContinues
  <2> HIDE DEF u
  <2>2. EnterTracepoint(s, g, t)
          = [u EXCEPT !.tracing = @ + 1, !.base = IF s.tracing = 0 THEN Len(t.stack) ELSE @]
    BY DEF EnterTracepoint, u
  <2> QED BY <2>1, <2>2 DEF Continues, Good, Settled
<1>2. ASSUME NEW e, Good(e, g), Settled(e, g)
      PROVE  LET u == ExitTracepoint(e, g) IN Good(u, g) /\ Settled(u, g)
  <2>1. /\ Preserves(breakpoints, ClearAllByGoRoutineID(e.breakpoints, g), g)
        /\ Quiet(ClearAllByGoRoutineID(e.breakpoints, g), g)
    <3>1. Entries(e.breakpoints) /\ Preserves(breakpoints, e.breakpoints, g)
      BY <1>2 DEF Good, Preserves
    <3> QED BY <3>1, ClearingAllSilences, PreservesTwice
  <2> QED BY <1>2, <2>1 DEF ExitTracepoint, Remove, Tracing, Good, Settled
<1> QED BY <1>1, <1>2 DEF UpdateTracingStatus

\* The entries of the table are entries, and no conditional breakpoint counts for
\* a go routine that is not traced.
UntracedQuiet ==
  /\ Entries(breakpoints)
  /\ tracingGoRoutines \in [GoRoutine -> Nat]
  /\ \A g \in GoRoutine : tracingGoRoutines[g] = 0 => Quiet(breakpoints, g)

\* At the start there are no breakpoints.
LEMMA StartsQuiet == Init => UntracedQuiet
BY DEF Init, UntracedQuiet, NoBreakpoints, Entries, Quiet

\* What each handler leaves behind.
LEMMA HandlersSettle ==
  ASSUME UntracedQuiet, NEW g \in GoRoutine, HandleTrap(g)
  PROVE  \E s, t : Handled(g, s, t) /\ Good(s, g) /\ Settled(s, g)
<1> DEFINE Ok(s) == Good(s, g) /\ Settled(s, g)
<1>1. Ok(State(g))
  BY DEF UntracedQuiet, State, Good, Settled, Preserves
<1>2. Ok(AtTracePoint(g))
  BY <1>1, TracingStatusSettles DEF AtTracePoint
<1>3. ASSUME Tracing(AtTracePoint(g))
      PROVE  Ok(AfterReturns(g)) /\ AfterReturns(g).tracing > 0
  <2>1. Continues(AtTracePoint(g), HandleTrapAfterFunctionReturn(AtTracePoint(g), g, goRoutines[g]), g)
    BY <1>2, ReturnContinues
  <2> QED BY <1>2, <1>3, <2>1 DEF AfterReturns, Tracing, Continues, Good, Settled
<1>4. ASSUME Tracing(AtTracePoint(g)), NEW callee
      PROVE  Ok(AtCallee(g, callee))
  <2> DEFINE u == UpdateTracingStatus(AfterReturns(g), g, callee)
  <2>1. Ok(u)
    BY <1>3, <1>4, TracingStatusSettles
  <2>2. Continues(u, HandleTrapAtFunctionCall(u, g, callee), g)
    BY <2>1, CallContinues
  <2>3. AtCallee(g, callee) = IF Tracing(u) THEN HandleTrapAtFunctionCall(u, g, callee) ELSE u
    BY DEF AtCallee
  <2> HIDE DEF u
  <2> QED BY <2>1, <2>2, <2>3 DEF Tracing, Continues, Good, Settled
<1>5. ASSUME Tracing(AtTracePoint(g)) PROVE Ok(AtDeferred(g))
  <2> DEFINE s == AfterReturns(g)
             t == goRoutines[g]
             u == LeavePanicked(s, g, t)
             v == HandleTrapAtFunctionCall(u, g, t)
  <2>1. Continues(s, u, g)
    <3>1. Continues(s, UnwindFunctions(s, g, UsedStackSizeAtDefer(t), t.pc[1]), g)
      BY <1>3, <1>5, BookkeepingContinues
    <3> QED BY <1>3, <1>5, <3>1 DEF LeavePanicked, Continues
  <2>2. Continues(u, v, g)
    BY <2>1, CallContinues DEF Continues
  <2>3. AtDeferred(g) = [v EXCEPT !.breakpoints = ClearConditional(@, goRoutines[g].pc, g)]
    BY DEF AtDeferred
  <2>4. v.tracing > 0
    BY <1>3, <1>5, <2>1, <2>2 DEF Continues
  <2> HIDE DEF v
  <2>5. Preserves(breakpoints, ClearConditional(v.breakpoints, goRoutines[g].pc, g), g)
    <3>1. Preserves(breakpoints, v.breakpoints, g) /\ Entries(v.breakpoints)
      BY <2>2 DEF Continues, Good, Preserves
    <3> QED BY <3>1, ClearingPreserves, PreservesTwice
  <2> QED BY <2>2, <2>3, <2>4, <2>5 DEF Continues, Good, Settled
<1>6. CASE HandleTrapAtUnrelatedBreakpoint(g)
  BY <1>1, <1>6 DEF HandleTrapAtUnrelatedBreakpoint
<1>7. CASE HandleTrapUntraced(g)
  BY <1>2, <1>7 DEF HandleTrapUntraced
<1>8. CASE HandleTrapWithoutHint(g)
  BY <1>3, <1>8 DEF HandleTrapWithoutHint
<1>9. CASE HandleTrapBeforeFunctionCall(g)
  BY <1>4, <1>9 DEF HandleTrapBeforeFunctionCall
<1>10. CASE HandleTrapAtDeferredFuncCall(g)
  BY <1>5, <1>10 DEF HandleTrapAtDeferredFuncCall
<1> QED BY <1>6, <1>7, <1>8, <1>9, <1>10 DEF HandleTrap

\* No step leaves an untraced go routine a breakpoint of its own.
LEMMA StaysQuiet ==
  ASSUME UntracedQuiet, [Next]_vars
  PROVE  UntracedQuiet'
<1>1. ASSUME NEW g \in GoRoutine, HandleTrap(g) PROVE UntracedQuiet'
  <2>1. PICK s, t : Handled(g, s, t) /\ Good(s, g) /\ Settled(s, g)
    BY <1>1, HandlersSettle
  <2>2. breakpoints' = s.breakpoints /\ tracingGoRoutines' = [tracingGoRoutines EXCEPT ![g] = s.tracing]
    BY <2>1 DEF Handled
  <2>3. Entries(s.breakpoints) /\ s.tracing \in Nat
    BY <2>1 DEF Good, Preserves
  <2>4. ASSUME NEW h \in GoRoutine, tracingGoRoutines'[h] = 0 PROVE Quiet(s.breakpoints, h)
    BY <2>1, <2>2, <2>4 DEF UntracedQuiet, Good, Settled, Preserves
  <2> QED BY <2>2, <2>3, <2>4 DEF UntracedQuiet
<1>2. ASSUME ContinueAndWait PROVE UntracedQuiet'
  <2>1. PICK A : breakpoints' = SetAll(breakpoints, A) /\ UNCHANGED tracingGoRoutines
    BY <1>2 DEF ContinueAndWait
  <2>2. /\ Entries(breakpoints')
        /\ \A h \in GoRoutine : Quiet(breakpoints, h) => Quiet(breakpoints', h)
    BY <2>1, SettingAllPreserves DEF UntracedQuiet
  <2> QED BY <2>1, <2>2 DEF UntracedQuiet
<1>3. ASSUME UNCHANGED trace PROVE UntracedQuiet'
  BY <1>3 DEF trace, UntracedQuiet
<1>4. Interrupted \/ MainLoopReturns \/ Requests \/ (\E g \in GoRoutine : Run(g)) => UNCHANGED trace
  BY DEF Interrupted, MainLoopReturns, Requests, AddStartTracePoint, AddEndTracePoint, Interrupt, Run
<1>5. UNCHANGED vars => UNCHANGED trace
  BY DEF vars, controllerVars
<1> QED BY <1>1, <1>2, <1>3, <1>4, <1>5 DEF Next, ControllerNext, MainLoop

\* Outside of its sessions a go routine is stopped at trace points only, whatever the
\* program does and however sessions, deferred calls and panics of others overlap
\* (exitTracepoint, ClearAllByGoRoutineID).
THEOREM UntracedNotStoppedCorrect == Spec => []UntracedNotStopped
<1>1. UntracedQuiet => UntracedNotStopped
  BY DEF UntracedQuiet, UntracedNotStopped, Quiet, Hit, BreakpointHit
<1> QED BY <1>1, StartsQuiet, StaysQuiet, PTL DEF Spec

-----------------------------------------------------------------------------
(* Bracketed sessions: what the controller knows of a go routine of such a *)
(* program is its stack, at every step.                                    *)

\* A go routine of a plain program: the frames fit, nothing is deferred.
Sane(t, fs) ==
  /\ t = [pc |-> t.pc, stack |-> t.stack, defers |-> <<>>, panic |-> "no"]
  /\ t.stack \in Seq([fn : fs, ret : Addr]) /\ t.stack # <<>>
  /\ t.pc \in Addr /\ t.pc[1] = Top(t).fn
  /\ \A i \in 2..Len(t.stack) : t.stack[i].ret[1] = t.stack[i-1].fn /\ t.stack[i].ret[2] # 1

\* A breakpoint table without entries that nobody needs, and what it counts.
Table(T) == \A a \in DOMAIN T : T[a] \in ConditionalBreakpoint /\ ~NoAssociation(T[a])
Always(T, a) == a \in DOMAIN T /\ T[a].associateAll
Count(T, a, g) == IF a \in DOMAIN T THEN T[a].associations[g] ELSE 0

\* Only call instructions are marked, as such.
Hints(h) ==
  /\ h \in [Addr -> {"unknown", "call"}]
  /\ \A a \in Addr : h[a] = "call" => InstAt(a).op = "call"

\* The stack depth at which a known function was recorded.
LevelOf(c) == (c.usedStackSize + 1) \div 2

\* How often a breakpoint at a is needed for the known functions F and the calls of f.
Wants(F, f, a) == Clearings(F, DOMAIN F, a) + (IF a \in CallInsts(f) THEN 1 ELSE 0)

\* The calls that the output has open.
Open(F) == {[fn |-> F[i].fn, depth |-> i] : i \in {j \in 1..Len(F) : j <= TraceLevel /\ F[j].fn \in Printable}}

\* The known functions are frames of the stack, but for the last one, which may just
\* have returned.
FramesMatch(s, t) ==
  LET F == s.functions
      L == Len(t.stack)
  IN
  /\ F \in Seq(CallingFunction)
  /\ s.base \in 1..L
  /\ \A i \in 1..Len(F) :
       /\ F[i].usedStackSize = 2 * LevelOf(F[i]) - 1
       /\ LevelOf(F[i]) \in s.base+1..L+1
       /\ LevelOf(F[i]) <= L => t.stack[LevelOf(F[i])] = [fn |-> F[i].fn, ret |-> F[i].returnAddress]
       /\ LevelOf(F[i]) = L + 1 => t.pc = F[i].returnAddress /\ t.pc[2] # 1
  /\ \A i, j \in 1..Len(F) : i < j => LevelOf(F[i]) < LevelOf(F[j])

\* Down to the trace level no function of the stack is missing from the known ones.
DepthsMatch(s, t) ==
  LET F == s.functions
  IN
  /\ \A i \in 1..Len(F) : /\ F[i].setCallInstBreakpoints <=> i < TraceLevel
                          /\ i <= TraceLevel => LevelOf(F[i]) = s.base + i
  /\ Len(F) < TraceLevel => Len(t.stack) <= s.base + Len(F)
  /\ s.printed = Open(F)

\* The calls that have to be seen are marked.
HintsMatch(s, t) ==
  /\ \A a \in CallInsts(t.stack[s.base].fn) : s.hints[a] = "call"
  /\ \A i \in 1..Len(s.functions) : s.functions[i].setCallInstBreakpoints =>
       \A a \in CallInsts(s.functions[i].fn) : s.hints[a] = "call"

\* The breakpoints are there at least, or exactly, as often as they have to be.
Enough(s, t, g) ==
  \A a \in Addr : \/ Always(s.breakpoints, a)
                  \/ Count(s.breakpoints, a, g) >= Wants(s.functions, t.stack[s.base].fn, a)
Exact(s, t, g) ==
  \A a \in Addr : \/ Always(s.breakpoints, a)
                  \/ Count(s.breakpoints, a, g) = Wants(s.functions, t.stack[s.base].fn, a)

\* s knows what the traced go routine g, in state t, has called.
Matches(s, t, g) ==
  FramesMatch(s, t) /\ DepthsMatch(s, t) /\ HintsMatch(s, t) /\ Enough(s, t, g)

\* No breakpoint is there for g alone.
QuietFor(T, g) == \A a \in Addr : Always(T, a) \/ Count(T, a, g) = 0

\* The same for g traced or not.
Ok(s, t, g) ==
  /\ s.tracing = 0 => s.printed = {} /\ s.base = 0 /\ QuietFor(s.breakpoints, g)
  /\ s.tracing > 0 => Matches(s, t, g)
  /\ ~s.mismatch

\* What one entry is after each operation.
LEMMA EntryCounts ==
  ASSUME NEW bp \in ConditionalBreakpoint, NEW g \in GoRoutine
  PROVE  /\ Associate(bp, g) \in ConditionalBreakpoint
         /\ Associate(bp, g).associateAll = bp.associateAll
         /\ \A h \in GoRoutine : Associate(bp, g).associations[h]
              = IF h = g /\ ~bp.associateAll THEN bp.associations[h] + 1 ELSE bp.associations[h]
         /\ DisassociateFully(bp, g) \in ConditionalBreakpoint
         /\ DisassociateFully(bp, g).associateAll = bp.associateAll
         /\ \A h \in GoRoutine : DisassociateFully(bp, g).associations[h]
              = IF h = g /\ ~bp.associateAll THEN 0 ELSE bp.associations[h]
<1>1. /\ bp = [associateAll |-> bp.associateAll, associations |-> bp.associations]
      /\ bp.associateAll \in BOOLEAN /\ bp.associations \in [GoRoutine -> Nat]
  BY DEF ConditionalBreakpoint
<1>2. CASE bp.associateAll
  BY <1>1, <1>2 DEF Associate, DisassociateFully
<1>3. CASE ~bp.associateAll
  <2> DEFINE Changed(v) == [associateAll |-> bp.associateAll,
                            associations |-> [bp.associations EXCEPT ![g] = v]]
  <2>1. \A v \in Nat : /\ Changed(v) \in ConditionalBreakpoint
                       /\ Changed(v).associateAll = bp.associateAll
                       /\ \A h \in GoRoutine :
                            Changed(v).associations[h] = IF h = g THEN v ELSE bp.associations[h]
    BY <1>1 DEF ConditionalBreakpoint
  <2>2. Associate(bp, g) = Changed(bp.associations[g] + 1)
    BY <1>1, <1>3 DEF Associate
  <2>3. DisassociateFully(bp, g) = Changed(0)
    BY <1>1, <1>3 DEF DisassociateFully
  <2>4. bp.associations[g] \in Nat
    BY <1>1
  <2> HIDE DEF Changed
  <2> QED BY <1>3, <2>1, <2>2, <2>3, <2>4
<1> QED BY <1>1, <1>2, <1>3

\* Several clearings take away as many associations, as long as there are some.
LEMMA EntryTimesCounts ==
  ASSUME NEW bp \in ConditionalBreakpoint, NEW g \in GoRoutine, NEW n \in Nat
  PROVE  /\ DisassociateTimes(bp, g, n) \in ConditionalBreakpoint
         /\ DisassociateTimes(bp, g, n).associateAll = bp.associateAll
         /\ \A h \in GoRoutine : DisassociateTimes(bp, g, n).associations[h]
              = IF h = g /\ ~bp.associateAll
                  THEN IF n < bp.associations[h] THEN bp.associations[h] - n ELSE 0
                  ELSE bp.associations[h]
<1>1. /\ bp = [associateAll |-> bp.associateAll, associations |-> bp.associations]
      /\ bp.associateAll \in BOOLEAN /\ bp.associations \in [GoRoutine -> Nat]
  BY DEF ConditionalBreakpoint
<1>2. CASE bp.associateAll
  BY <1>1, <1>2 DEF DisassociateTimes
<1>3. CASE ~bp.associateAll
  <2> DEFINE Changed(v) == [associateAll |-> bp.associateAll,
                            associations |-> [bp.associations EXCEPT ![g] = v]]
  <2>1. \A v \in Nat : /\ Changed(v) \in ConditionalBreakpoint
                       /\ Changed(v).associateAll = bp.associateAll
                       /\ \A h \in GoRoutine :
                            Changed(v).associations[h] = IF h = g THEN v ELSE bp.associations[h]
    BY <1>1 DEF ConditionalBreakpoint
  <2>4. DisassociateTimes(bp, g, n)
          = Changed(IF n < bp.associations[g] THEN bp.associations[g] - n ELSE 0)
    BY <1>1, <1>3 DEF DisassociateTimes
  <2>5. (IF n < bp.associations[g] THEN bp.associations[g] - n ELSE 0) \in Nat
    BY <1>1
  <2> HIDE DEF Changed
  <2> QED BY <1>3, <2>1, <2>4, <2>5
<1> QED BY <1>1, <1>2, <1>3

\* What a new entry counts.
LEMMA NewEntryCounts ==
  ASSUME NEW g \in GoRoutine
  PROVE  /\ ConditionalFor(g) \in ConditionalBreakpoint /\ ~ConditionalFor(g).associateAll
         /\ \A h \in GoRoutine : ConditionalFor(g).associations[h] = IF h = g THEN 1 ELSE 0
         /\ Unconditional \in ConditionalBreakpoint /\ Unconditional.associateAll
BY DEF ConditionalFor, Unconditional, ConditionalBreakpoint

\* A breakpoint is hit by a go routine that is associated with it.
LEMMA HitCounts ==
  ASSUME NEW T, Table(T), NEW a, NEW g \in GoRoutine
  PROVE  /\ Count(T, a, g) \in Nat
         /\ Hit(T, a, g) <=> Always(T, a) \/ Count(T, a, g) > 0
<1>1. CASE a \in DOMAIN T
  <2>1. T[a].associations \in [GoRoutine -> Nat]
    BY <1>1 DEF Table, ConditionalBreakpoint
  <2> QED BY <1>1, <2>1 DEF Count, Hit, Exist, BreakpointHit, Always
<1>2. CASE a \notin DOMAIN T
  BY <1>2 DEF Count, Hit, Exist, Always
<1> QED BY <1>1, <1>2

\* U is T but for what concerns g, with its counts at the addresses changed by.
OthersSame(T, U, g) ==
  /\ \A a : Always(U, a) <=> Always(T, a)
  /\ \A a : \A h \in GoRoutine \ {g} : Count(U, a, h) = Count(T, a, h)

\* SetConditional adds one association, unless the breakpoint is for all.
LEMMA SetConditionalCounts ==
  ASSUME NEW T, Table(T), NEW g \in GoRoutine, NEW a
  PROVE  LET U == SetConditional(T, a, g)
         IN  /\ Table(U) /\ OthersSame(T, U, g)
             /\ \A x : Count(U, x, g) = IF x = a /\ ~Always(T, a) THEN Count(T, x, g) + 1
                                        ELSE Count(T, x, g)
<1> DEFINE U == SetConditional(T, a, g)
<1>1. CASE a \in DOMAIN T
  <2>1. T[a] \in ConditionalBreakpoint /\ ~NoAssociation(T[a])
    BY <1>1 DEF Table
  <2>2. U = [x \in DOMAIN T |-> IF x = a THEN Associate(T[a], g) ELSE T[x]]
    BY <1>1, <2>1 DEF SetConditional, Exist, Put
  <2>3. /\ Associate(T[a], g) \in ConditionalBreakpoint
        /\ Associate(T[a], g).associateAll = T[a].associateAll
        /\ \A h \in GoRoutine : Associate(T[a], g).associations[h]
              = IF h = g /\ ~T[a].associateAll THEN T[a].associations[h] + 1 ELSE T[a].associations[h]
    BY <2>1, EntryCounts
  <2>4. ~NoAssociation(Associate(T[a], g))
    <3>1. \A h \in GoRoutine : T[a].associations[h] \in Nat
      BY <2>1 DEF ConditionalBreakpoint
    <3> QED BY <2>1, <2>3, <3>1 DEF NoAssociation
  <2> HIDE DEF U
  <2>5. Table(U)
    BY <2>2, <2>3, <2>4 DEF Table
  <2>6. OthersSame(T, U, g)
    BY <1>1, <2>2, <2>3 DEF OthersSame, Always, Count
  <2>7. \A x : Count(U, x, g) = IF x = a /\ ~Always(T, a) THEN Count(T, x, g) + 1 ELSE Count(T, x, g)
    BY <1>1, <2>2, <2>3 DEF Always, Count
  <2> QED BY <2>5, <2>6, <2>7 DEF U
<1>2. CASE a \notin DOMAIN T
  <2>2. U = [x \in DOMAIN T \cup {a} |-> IF x = a THEN ConditionalFor(g) ELSE T[x]]
    BY <1>2 DEF SetConditional, Exist, Put
  <2>3. ~NoAssociation(ConditionalFor(g))
    BY NewEntryCounts DEF NoAssociation
  <2> HIDE DEF U
  <2>5. Table(U)
    BY <2>2, <2>3, NewEntryCounts DEF Table
  <2>6. OthersSame(T, U, g)
    BY <1>2, <2>2, NewEntryCounts DEF OthersSame, Always, Count
  <2>7. \A x : Count(U, x, g) = IF x = a /\ ~Always(T, a) THEN Count(T, x, g) + 1 ELSE Count(T, x, g)
    BY <1>2, <2>2, NewEntryCounts DEF Always, Count
  <2> QED BY <2>5, <2>6, <2>7 DEF U
<1> QED BY <1>1, <1>2

\* The same for each of a set of addresses.
LEMMA SetConditionalAllCounts ==
  ASSUME NEW T, Table(T), NEW g \in GoRoutine, NEW A
  PROVE  LET U == SetConditionalAll(T, A, g)
         IN  /\ Table(U) /\ OthersSame(T, U, g)
             /\ \A x : Count(U, x, g) = IF x \in A /\ ~Always(T, x) THEN Count(T, x, g) + 1
                                        ELSE Count(T, x, g)
<1> DEFINE One(x) == SetConditional(T, x, g)
<1> DEFINE U == SetConditionalAll(T, A, g)
<1>1. /\ DOMAIN U = DOMAIN T \cup A
      /\ \A x \in DOMAIN U : U[x] = IF x \in A THEN One(x)[x] ELSE T[x]
  BY DEF SetConditionalAll
<1>2. \A x : /\ Table(One(x)) /\ OthersSame(T, One(x), g)
             /\ \A y : Count(One(x), y, g) = IF y = x /\ ~Always(T, x) THEN Count(T, y, g) + 1
                                             ELSE Count(T, y, g)
  BY SetConditionalCounts
<1>3. \A x : x \in DOMAIN One(x)
  BY DEF SetConditional, Exist, Put
<1> HIDE DEF One, U
<1>4. \A x \in A : /\ x \in DOMAIN U /\ U[x] = One(x)[x]
                   /\ \A h : Count(U, x, h) = Count(One(x), x, h)
                   /\ Always(U, x) <=> Always(One(x), x)
  BY <1>1, <1>3 DEF Count, Always
<1>5. \A x : x \notin A => /\ \A h : Count(U, x, h) = Count(T, x, h)
                           /\ Always(U, x) <=> Always(T, x)
  BY <1>1 DEF Count, Always
<1>6. Table(U)
  BY <1>1, <1>2, <1>3 DEF Table
<1>7. OthersSame(T, U, g)
  BY <1>2, <1>4, <1>5 DEF OthersSame
<1>8. \A x : Count(U, x, g) = IF x \in A /\ ~Always(T, x) THEN Count(T, x, g) + 1 ELSE Count(T, x, g)
  BY <1>2, <1>4, <1>5
<1> QED BY <1>6, <1>7, <1>8 DEF U

\* Clearing takes away the given number of associations and drops what nobody needs.
LEMMA ClearTimesCounts ==
  ASSUME NEW T, Table(T), NEW g \in GoRoutine, NEW times \in [DOMAIN T -> Nat]
  PROVE  LET U == ClearConditionalTimes(T, times, g)
         IN  /\ Table(U) /\ OthersSame(T, U, g)
             /\ \A x : Count(U, x, g)
                  = IF x \in DOMAIN T /\ ~Always(T, x)
                      THEN IF times[x] < Count(T, x, g) THEN Count(T, x, g) - times[x] ELSE 0
                      ELSE Count(T, x, g)
<1> DEFINE New(x) == DisassociateTimes(T[x], g, times[x])
           U == ClearConditionalTimes(T, times, g)
<1>1. U = [x \in {y \in DOMAIN T : times[y] = 0 \/ ~NoAssociation(New(y))} |-> New(x)]
  BY DEF ClearConditionalTimes
<1>2. \A x \in DOMAIN T :
        /\ New(x) \in ConditionalBreakpoint /\ New(x).associateAll = T[x].associateAll
        /\ \A h \in GoRoutine : New(x).associations[h]
              = IF h = g /\ ~T[x].associateAll
                  THEN IF times[x] < T[x].associations[h] THEN T[x].associations[h] - times[x] ELSE 0
                  ELSE T[x].associations[h]
  <2> TAKE x \in DOMAIN T
  <2> DEFINE bp == T[x]  n == times[x]
  <2>1. bp \in ConditionalBreakpoint /\ n \in Nat
    BY DEF Table
  <2> HIDE DEF bp, n
  <2>2. LET d == DisassociateTimes(bp, g, n)
        IN  /\ d \in ConditionalBreakpoint /\ d.associateAll = bp.associateAll
            /\ \A h \in GoRoutine : d.associations[h]
                  = IF h = g /\ ~bp.associateAll
                      THEN IF n < bp.associations[h] THEN bp.associations[h] - n ELSE 0
                      ELSE bp.associations[h]
    BY <2>1, EntryTimesCounts, Zenon
  <2> QED BY <2>2 DEF bp, n
<1> HIDE DEF New, U
<1>3. \A x \in DOMAIN T : \A h \in GoRoutine : T[x].associations[h] \in Nat
  BY DEF Table, ConditionalBreakpoint
<1>4. \A x \in DOMAIN T : times[x] = 0 => ~NoAssociation(New(x))
  <2> TAKE x \in DOMAIN T
  <2> HAVE times[x] = 0
  <2>1. \A h \in GoRoutine : New(x).associations[h] = T[x].associations[h]
    BY <1>2, <1>3
  <2> QED BY <1>2, <2>1 DEF Table, NoAssociation
<1>5. /\ DOMAIN U = {y \in DOMAIN T : ~NoAssociation(New(y))}
      /\ \A x \in DOMAIN U : U[x] = New(x)
  BY <1>1, <1>4
<1>6. Table(U)
  BY <1>2, <1>5 DEF Table
<1>7. \A x \in DOMAIN T : \A h \in GoRoutine : Count(U, x, h) = New(x).associations[h]
                          \/ (~New(x).associateAll /\ New(x).associations[h] = 0 /\ Count(U, x, h) = 0)
  BY <1>5 DEF Count, NoAssociation
<1>8. \A x : Always(U, x) <=> Always(T, x)
  BY <1>2, <1>5 DEF Always, NoAssociation
<1>9. \A x : x \notin DOMAIN T => \A h : Count(U, x, h) = Count(T, x, h)
  BY <1>5 DEF Count
<1>10. OthersSame(T, U, g)
  <2>1. \A x \in DOMAIN T : \A h \in GoRoutine \ {g} : Count(U, x, h) = Count(T, x, h)
    BY <1>2, <1>7 DEF Count
  <2> QED BY <1>8, <1>9, <2>1 DEF OthersSame
<1>11. \A x : Count(U, x, g)
                  = IF x \in DOMAIN T /\ ~Always(T, x)
                      THEN IF times[x] < Count(T, x, g) THEN Count(T, x, g) - times[x] ELSE 0
                      ELSE Count(T, x, g)
  <2>1. ASSUME NEW x \in DOMAIN T
        PROVE  Count(U, x, g) = IF ~Always(T, x)
                 THEN IF times[x] < Count(T, x, g) THEN Count(T, x, g) - times[x] ELSE 0
                 ELSE Count(T, x, g)
    <3>1. Count(U, x, g) = New(x).associations[g]
      BY <1>7
    <3> QED BY <1>2, <3>1 DEF Count, Always
  <2> QED BY <1>9, <2>1
<1> QED BY <1>6, <1>10, <1>11 DEF U

\* ClearAllByGoRoutineID leaves g without associations and the others with theirs.
LEMMA ClearAllCounts ==
  ASSUME NEW T, Table(T), NEW g \in GoRoutine
  PROVE  LET U == ClearAllByGoRoutineID(T, g)
         IN  Table(U) /\ OthersSame(T, U, g) /\ QuietFor(U, g)
<1> DEFINE New(x) == DisassociateFully(T[x], g)
           U == ClearAllByGoRoutineID(T, g)
<1>1. U = [x \in {y \in DOMAIN T : ~NoAssociation(New(y))} |-> New(x)]
  BY DEF ClearAllByGoRoutineID
<1>2. \A x \in DOMAIN T :
        /\ New(x) \in ConditionalBreakpoint /\ New(x).associateAll = T[x].associateAll
        /\ \A h \in GoRoutine : New(x).associations[h]
              = IF h = g /\ ~T[x].associateAll THEN 0 ELSE T[x].associations[h]
  <2> TAKE x \in DOMAIN T
  <2>1. T[x] \in ConditionalBreakpoint /\ 0 \in Nat
    BY DEF Table
  <2> QED BY <2>1, EntryCounts
<1> HIDE DEF New, U
<1>3. Table(U)
  BY <1>1, <1>2 DEF Table
<1>4. \A x : Always(U, x) <=> Always(T, x)
  BY <1>1, <1>2 DEF Always, NoAssociation
<1>5. \A x : \A h \in GoRoutine \ {g} : Count(U, x, h) = Count(T, x, h)
  BY <1>1, <1>2 DEF Count, NoAssociation
<1>6. QuietFor(U, g)
  BY <1>1, <1>2 DEF QuietFor, Always, Count
<1> QED BY <1>3, <1>4, <1>5, <1>6 DEF U, OthersSame

\* The trace points are breakpoints for all; elsewhere nothing changes.
LEMMA SetAllCounts ==
  ASSUME NEW T, Table(T), NEW A
  PROVE  LET U == SetAll(T, A)
         IN  /\ Table(U)
             /\ \A x : Always(U, x) <=> Always(T, x) \/ x \in A
             /\ \A x : x \notin A => \A h : Count(U, x, h) = Count(T, x, h)
<1>1. Unconditional \in ConditionalBreakpoint /\ Unconditional.associateAll
  BY DEF Unconditional, ConditionalBreakpoint
<1> QED BY <1>1 DEF SetAll, Table, NoAssociation, Always, Count

\* What is left alone twice is left alone.
LEMMA OthersSameTwice ==
  ASSUME NEW T, NEW U, NEW V, NEW g, OthersSame(T, U, g), OthersSame(U, V, g)
  PROVE  OthersSame(T, V, g)
BY DEF OthersSame

\* How often one known function needs the breakpoint at a.
Needs(c, a) ==
  (IF c.returnAddress = a THEN 1 ELSE 0)
  + (IF c.setCallInstBreakpoints /\ a \in CallInsts(c.fn) THEN 1 ELSE 0)

Returning(F, gone, a) == {i \in gone : F[i].returnAddress = a}
Calling(F, gone, a) ==
  {i \in gone : F[i].setCallInstBreakpoints /\ a \in CallInsts(F[i].fn)}

\* A clearing for the return and one for the call instructions.
LEMMA ClearingsParts ==
  ASSUME NEW F, NEW gone, NEW a
  PROVE  Clearings(F, gone, a) = Cardinality(Returning(F, gone, a)) + Cardinality(Calling(F, gone, a))
BY DEF Clearings, Returning, Calling

\* Nothing gone, nothing cleared.
LEMMA ClearingsNone ==
  ASSUME NEW F, NEW a
  PROVE  Clearings(F, {}, a) = 0
<1>1. Returning(F, {}, a) = {} /\ Calling(F, {}, a) = {}
  BY DEF Returning, Calling
<1>2. Cardinality({}) = 0
  BY FS_EmptySet
<1> QED BY <1>1, <1>2, ClearingsParts

\* Each function gone adds its own clearings.
LEMMA ClearingsAdd ==
  ASSUME NEW F, NEW gone, IsFiniteSet(gone), NEW i, i \notin gone, NEW a
  PROVE  /\ Clearings(F, gone, a) \in Nat
         /\ Clearings(F, gone \cup {i}, a) = Clearings(F, gone, a) + Needs(F[i], a)
<1> DEFINE R == Returning(F, gone, a)  C == Calling(F, gone, a)
<1>1. IsFiniteSet(R) /\ IsFiniteSet(C)
  BY FS_Subset DEF Returning, Calling
<1>2. Cardinality(R) \in Nat /\ Cardinality(C) \in Nat
  BY <1>1, FS_CardinalityType
<1>3. i \notin R /\ i \notin C
  BY DEF Returning, Calling
<1>4. /\ Returning(F, gone \cup {i}, a) = IF F[i].returnAddress = a THEN R \cup {i} ELSE R
      /\ Calling(F, gone \cup {i}, a)
           = IF F[i].setCallInstBreakpoints /\ a \in CallInsts(F[i].fn) THEN C \cup {i} ELSE C
  BY DEF Returning, Calling
<1> HIDE DEF R, C
<1>5. /\ Cardinality(R \cup {i}) = Cardinality(R) + 1
      /\ Cardinality(C \cup {i}) = Cardinality(C) + 1
  BY <1>1, <1>3, FS_AddElement
<1>6. /\ Clearings(F, gone, a) = Cardinality(R) + Cardinality(C)
      /\ Clearings(F, gone \cup {i}, a)
           = Cardinality(Returning(F, gone \cup {i}, a)) + Cardinality(Calling(F, gone \cup {i}, a))
  BY ClearingsParts DEF R, C
<1> QED BY <1>2, <1>4, <1>5, <1>6 DEF Needs

\* What is counted depends on the functions that are gone only.
LEMMA ClearingsSame ==
  ASSUME NEW F, NEW G, NEW gone, \A i \in gone : F[i] = G[i], NEW a
  PROVE  Clearings(F, gone, a) = Clearings(G, gone, a)
<1>1. Returning(F, gone, a) = Returning(G, gone, a) /\ Calling(F, gone, a) = Calling(G, gone, a)
  BY DEF Returning, Calling
<1> QED BY <1>1, ClearingsParts

\* The clearings for all functions are those for all but the last and the last's.
LEMMA ClearingsOfCalls ==
  ASSUME NEW F \in Seq(CallingFunction), NEW a
  PROVE  /\ Clearings(F, DOMAIN F, a) \in Nat
         /\ \A c \in CallingFunction :
              Clearings(Append(F, c), DOMAIN Append(F, c), a) = Clearings(F, DOMAIN F, a) + Needs(c, a)
         /\ F # <<>> =>
              LET n == Len(F) - 1 IN
              /\ Clearings(F, DOMAIN F \ 1..n, a) = Needs(F[Len(F)], a)
              /\ Clearings(F, DOMAIN F, a)
                   = Clearings(SubSeq(F, 1, n), DOMAIN SubSeq(F, 1, n), a) + Needs(F[Len(F)], a)
<1> DEFINE n == Len(F)
<1>1. DOMAIN F = 1..n /\ n \in Nat /\ IsFiniteSet(1..n) /\ n + 1 \notin 1..n
  BY FS_Interval
<1>2. Clearings(F, DOMAIN F, a) \in Nat
  BY <1>1, ClearingsAdd
<1>3. ASSUME NEW c \in CallingFunction
      PROVE  Clearings(Append(F, c), DOMAIN Append(F, c), a) = Clearings(F, DOMAIN F, a) + Needs(c, a)
  <2> DEFINE G == Append(F, c)
  <2>1. DOMAIN G = 1..n \cup {n + 1} /\ G[n + 1] = c /\ \A i \in 1..n : G[i] = F[i]
    BY <1>1
  <2> HIDE DEF G
  <2>2. Clearings(G, 1..n, a) = Clearings(F, 1..n, a)
    BY <2>1, ClearingsSame
  <2>3. Clearings(G, 1..n \cup {n + 1}, a) = Clearings(G, 1..n, a) + Needs(G[n + 1], a)
    BY <1>1, ClearingsAdd
  <2> QED BY <1>1, <2>1, <2>2, <2>3 DEF G
<1>4. ASSUME F # <<>>
      PROVE  /\ Clearings(F, DOMAIN F \ 1..(n - 1), a) = Needs(F[n], a)
             /\ Clearings(F, DOMAIN F, a)
                  = Clearings(SubSeq(F, 1, n - 1), DOMAIN SubSeq(F, 1, n - 1), a) + Needs(F[n], a)
  <2> DEFINE G == SubSeq(F, 1, n - 1)
  <2>1. n > 0
    BY <1>1, <1>4
  <2>2. /\ DOMAIN F = 1..(n - 1) \cup {n} /\ n \notin 1..(n - 1)
        /\ DOMAIN F \ 1..(n - 1) = {} \cup {n}
    BY <1>1, <2>1
  <2>3. DOMAIN G = 1..(n - 1) /\ \A i \in 1..(n - 1) : G[i] = F[i]
    BY <1>1, <2>1
  <2> HIDE DEF G
  <2>4. IsFiniteSet(1..(n - 1)) /\ IsFiniteSet({})
    BY <1>1, FS_Interval, FS_EmptySet
  <2>a. \A S : IsFiniteSet(S) /\ n \notin S =>
                 Clearings(F, S \cup {n}, a) = Clearings(F, S, a) + Needs(F[n], a)
    BY ClearingsAdd
  <2>5. Clearings(F, {} \cup {n}, a) = Clearings(F, {}, a) + Needs(F[n], a)
    <3> DEFINE S == {}
    <3>1. IsFiniteSet(S) /\ n \notin S
      BY <2>4
    <3> HIDE DEF S
    <3>2. Clearings(F, S \cup {n}, a) = Clearings(F, S, a) + Needs(F[n], a)
      BY <3>1, <2>a
    <3> QED BY <3>2 DEF S
  <2>6. Clearings(F, 1..(n - 1) \cup {n}, a) = Clearings(F, 1..(n - 1), a) + Needs(F[n], a)
    <3> DEFINE S == 1..(n - 1)
    <3>1. IsFiniteSet(S) /\ n \notin S
      BY <2>2, <2>4
    <3> HIDE DEF S
    <3>2. Clearings(F, S \cup {n}, a) = Clearings(F, S, a) + Needs(F[n], a)
      BY <3>1, <2>a
    <3> QED BY <3>2 DEF S
  <2>7. Clearings(G, 1..(n - 1), a) = Clearings(F, 1..(n - 1), a)
    BY <2>3, ClearingsSame
  <2>8. Needs(F[n], a) \in Nat
    BY DEF Needs
  <2>9. Clearings(F, DOMAIN F \ 1..(n - 1), a) = Needs(F[n], a)
    <3>1. Clearings(F, {}, a) = 0
      BY ClearingsNone
    <3> DEFINE D == DOMAIN F \ 1..(n - 1)  E == {} \cup {n}
    <3>2. D = E
      BY <2>2
    <3>3. Clearings(F, E, a) = Clearings(F, {}, a) + Needs(F[n], a)
      BY <2>5
    <3> HIDE DEF D, E, n
    <3>4. Clearings(F, D, a) = Needs(F[n], a)
      BY <2>8, <3>1, <3>2, <3>3
    <3> QED BY <3>4 DEF D
  <2> QED BY <2>2, <2>3, <2>6, <2>7, <2>9 DEF G
<1> QED BY <1>2, <1>3, <1>4

\* A function needs a number of breakpoints at an address.
LEMMA NeedsType == ASSUME NEW c, NEW a PROVE Needs(c, a) \in Nat
BY DEF Needs

-----------------------------------------------------------------------------

\* A function recorded at its entry is recorded at its depth.
LEMMA LevelOfNew ==
  ASSUME NEW c, NEW k \in Nat \ {0}, c.usedStackSize = 2 * k - 1
  PROVE  LevelOf(c) = k
<1>1. (2 * k - 1 + 1) \div 2 = k
  OBVIOUS
<1> QED BY <1>1 DEF LevelOf

\* What the output has open when one more function is known.
LEMMA OpenCalls ==
  ASSUME NEW F \in Seq(CallingFunction), TraceLevel \in Nat
  PROVE  /\ F = <<>> => Open(F) = {}
         /\ \A call \in Open(F) : call.depth \in 1..Len(F) /\ call.depth <= TraceLevel
         /\ \A c \in CallingFunction :
              Open(Append(F, c)) = IF Len(F) + 1 <= TraceLevel /\ c.fn \in Printable
                                     THEN Open(F) \cup {[fn |-> c.fn, depth |-> Len(F) + 1]}
                                     ELSE Open(F)
         /\ F # <<>> =>
           Open(F) = IF Len(F) <= TraceLevel /\ F[Len(F)].fn \in Printable
                       THEN Open(SubSeq(F, 1, Len(F) - 1)) \cup {[fn |-> F[Len(F)].fn, depth |-> Len(F)]}
                       ELSE Open(SubSeq(F, 1, Len(F) - 1))
<1>1. F = <<>> => Open(F) = {}
  BY DEF Open
<1>2. \A call \in Open(F) : call.depth \in 1..Len(F) /\ call.depth <= TraceLevel
  BY DEF Open
<1>3. ASSUME NEW c \in CallingFunction
      PROVE  Open(Append(F, c)) = IF Len(F) + 1 <= TraceLevel /\ c.fn \in Printable
                                     THEN Open(F) \cup {[fn |-> c.fn, depth |-> Len(F) + 1]}
                                     ELSE Open(F)
  <2> DEFINE G == Append(F, c)  n == Len(F)
  <2>1. n \in Nat /\ Len(G) = n + 1 /\ G[n + 1] = c /\ \A i \in 1..n : G[i] = F[i]
    OBVIOUS
  <2>2. 1..(n + 1) = 1..n \cup {n + 1} /\ n + 1 \notin 1..n
    BY <2>1
  <2> HIDE DEF G, n
  <2>3. Open(G) = {[fn |-> G[i].fn, depth |-> i] : i \in {j \in 1..(n + 1) : j <= TraceLevel /\ G[j].fn \in Printable}}
    BY <2>1 DEF Open
  <2>4. Open(F) = {[fn |-> F[i].fn, depth |-> i] : i \in {j \in 1..n : j <= TraceLevel /\ F[j].fn \in Printable}}
    BY DEF Open, n
  <2>5. CASE n + 1 <= TraceLevel /\ c.fn \in Printable
    <3>1. {j \in 1..(n + 1) : j <= TraceLevel /\ G[j].fn \in Printable}
            = {j \in 1..n : j <= TraceLevel /\ F[j].fn \in Printable} \cup {n + 1}
      BY <2>1, <2>2, <2>5
    <3> QED BY <2>1, <2>2, <2>3, <2>4, <2>5, <3>1 DEF G, n
  <2>6. CASE ~(n + 1 <= TraceLevel /\ c.fn \in Printable)
    <3>1. {j \in 1..(n + 1) : j <= TraceLevel /\ G[j].fn \in Printable}
            = {j \in 1..n : j <= TraceLevel /\ F[j].fn \in Printable}
      BY <2>1, <2>2, <2>6
    <3> QED BY <2>1, <2>2, <2>3, <2>4, <2>6, <3>1 DEF G, n
  <2> QED BY <2>5, <2>6
<1>4. ASSUME F # <<>>
      PROVE  Open(F) = IF Len(F) <= TraceLevel /\ F[Len(F)].fn \in Printable
                         THEN Open(SubSeq(F, 1, Len(F) - 1)) \cup {[fn |-> F[Len(F)].fn, depth |-> Len(F)]}
                         ELSE Open(SubSeq(F, 1, Len(F) - 1))
  <2> DEFINE n == Len(F)  G == SubSeq(F, 1, n - 1)
  <2>0. n \in Nat \ {0}
    BY <1>4
  <2>1. n \in Nat \ {0} /\ Len(G) = n - 1 /\ \A i \in 1..(n - 1) : G[i] = F[i]
    BY <2>0
  <2>2. 1..n = 1..(n - 1) \cup {n} /\ n \notin 1..(n - 1)
    BY <2>1
  <2> HIDE DEF G, n
  <2>3. Open(G) = {[fn |-> G[i].fn, depth |-> i] : i \in {j \in 1..(n - 1) : j <= TraceLevel /\ G[j].fn \in Printable}}
    BY <2>1 DEF Open
  <2>4. Open(F) = {[fn |-> F[i].fn, depth |-> i] : i \in {j \in 1..n : j <= TraceLevel /\ F[j].fn \in Printable}}
    BY DEF Open, n
  <2>5. CASE n <= TraceLevel /\ F[n].fn \in Printable
    <3>1. {j \in 1..n : j <= TraceLevel /\ F[j].fn \in Printable}
            = {j \in 1..(n - 1) : j <= TraceLevel /\ G[j].fn \in Printable} \cup {n}
      BY <2>1, <2>2, <2>5
    <3> QED BY <2>1, <2>2, <2>3, <2>4, <2>5, <3>1 DEF G, n
  <2>6. CASE ~(n <= TraceLevel /\ F[n].fn \in Printable)
    <3>1. {j \in 1..n : j <= TraceLevel /\ F[j].fn \in Printable}
            = {j \in 1..(n - 1) : j <= TraceLevel /\ G[j].fn \in Printable}
      BY <2>1, <2>2, <2>6
    <3>2. Open(F) = Open(G)
      BY <2>1, <2>3, <2>4, <3>1
    <3> QED BY <2>6, <3>2 DEF G, n
  <2>7. Open(F) = IF n <= TraceLevel /\ F[n].fn \in Printable
                    THEN Open(G) \cup {[fn |-> F[n].fn, depth |-> n]} ELSE Open(G)
    <3> HIDE DEF Open
    <3>1. CASE n <= TraceLevel /\ F[n].fn \in Printable
      BY <2>5, <3>1 DEF G, n
    <3>2. CASE ~(n <= TraceLevel /\ F[n].fn \in Printable)
      BY <2>6, <3>2 DEF G, n
    <3> QED BY <3>1, <3>2
  <2> QED BY <2>7 DEF G, n
<1> QED BY <1>1, <1>2, <1>3, <1>4

Shape(s) ==
  /\ DOMAIN s = {"breakpoints", "hints", "functions", "tracing", "printed", "mismatch", "base"}
  /\ s.tracing \in Nat /\ s.functions \in Seq(CallingFunction)
  /\ Table(s.breakpoints) /\ Hints(s.hints)

\* u is what the handling of g's trap has made of s: it has only touched what
\* concerns g, and no call instruction has lost its hint.
Becomes(s, u, g) ==
  /\ Shape(u)
  /\ OthersSame(s.breakpoints, u.breakpoints, g)
  /\ \A a \in Addr : s.hints[a] = "call" => u.hints[a] = "call"

\* A handler that changes nothing.
LEMMA BecomesItself ==
  ASSUME NEW s, Shape(s), NEW g PROVE Becomes(s, s, g)
BY DEF Becomes, OthersSame

\* One part of a handler after the other.
LEMMA BecomesTwice ==
  ASSUME NEW s, NEW u, NEW v, NEW g, Becomes(s, u, g), Becomes(u, v, g) PROVE Becomes(s, v, g)
BY DEF Becomes, OthersSame

\* Breakpoints set, hints added: what matched still does.
LEMMA MatchesMore ==
  ASSUME NEW s, NEW u, NEW t, NEW g \in GoRoutine, Matches(s, t, g),
         u.functions = s.functions, u.base = s.base, u.printed = s.printed,
         Table(s.breakpoints), Table(u.breakpoints),
         \A a \in Addr : s.hints[a] = "call" => u.hints[a] = "call",
         \A a \in Addr : \/ Always(u.breakpoints, a)
                         \/ /\ ~Always(s.breakpoints, a)
                            /\ Count(u.breakpoints, a, g) >= Count(s.breakpoints, a, g),
         \A f \in Func : CallInsts(f) \subseteq Addr,
         t.stack[s.base].fn \in Func
  PROVE  Matches(u, t, g)
<1>1. FramesMatch(u, t) /\ DepthsMatch(u, t)
  BY DEF Matches, FramesMatch, DepthsMatch
<1>2. HintsMatch(u, t)
  <2>1. \A i \in 1..Len(s.functions) : s.functions[i].fn \in Func
    <3>1. \A i \in 1..Len(s.functions) : s.functions[i] \in CallingFunction
      BY DEF Matches, FramesMatch
    <3> QED BY <3>1 DEF CallingFunction
  <2> QED BY <2>1 DEF Matches, HintsMatch
<1>3. Enough(u, t, g)
  <2> SUFFICES ASSUME NEW a \in Addr, ~Always(u.breakpoints, a)
               PROVE  Count(u.breakpoints, a, g) >= Wants(u.functions, t.stack[u.base].fn, a)
    BY DEF Enough
  <2> DEFINE w == Wants(s.functions, t.stack[s.base].fn, a)
  <2>1. Count(s.breakpoints, a, g) >= w
    BY DEF Matches, Enough
  <2>2. Count(u.breakpoints, a, g) >= Count(s.breakpoints, a, g)
    OBVIOUS
  <2>3. Count(u.breakpoints, a, g) \in Nat /\ Count(s.breakpoints, a, g) \in Nat
    BY HitCounts
  <2>4. w \in Nat
    <3>1. Clearings(s.functions, DOMAIN s.functions, a) \in Nat
      BY ClearingsOfCalls DEF Matches, FramesMatch
    <3> QED BY <3>1 DEF Wants
  <2> HIDE DEF w
  <2>5. Count(u.breakpoints, a, g) >= w
    BY <2>1, <2>2, <2>3, <2>4
  <2> QED BY <2>5 DEF w
<1> QED BY <1>1, <1>2, <1>3 DEF Matches

\* The frames of a plain stack.
LEMMA SaneFrames ==
  ASSUME NEW t, NEW fs, Sane(t, fs)
  PROVE  /\ Len(t.stack) \in Nat \ {0}
         /\ \A i \in 1..Len(t.stack) :
              /\ t.stack[i] = [fn |-> t.stack[i].fn, ret |-> t.stack[i].ret]
              /\ t.stack[i].fn \in fs /\ t.stack[i].ret \in Addr
         /\ t.pc \in Addr /\ t.pc[1] = t.stack[Len(t.stack)].fn
<1> DEFINE F == [fn : fs, ret : Addr]
<1>1. t.stack \in Seq(F) /\ t.stack # <<>>
  BY DEF Sane
<1> HIDE DEF F
<1>2. Len(t.stack) \in Nat \ {0} /\ \A i \in 1..Len(t.stack) : t.stack[i] \in F
  BY <1>1
<1>3. \A x \in F : x = [fn |-> x.fn, ret |-> x.ret] /\ x.fn \in fs /\ x.ret \in Addr
  BY DEF F
<1> QED BY <1>2, <1>3 DEF Sane, Top

\* The call instructions of a function are in it.
LEMMA CallInstsOfFunction ==
  ASSUME NEW f \in Func
  PROVE  /\ CallInsts(f) \subseteq Addr
         /\ \A a \in Addr : a \in CallInsts(f) <=> a[1] = f /\ InstAt(a).op = "call"
BY DEF CallInsts, callInstAddrCache, Addr

\* setCallInstBreakpoints counts one more at each call instruction and marks it.
LEMMA SettingCalls ==
  ASSUME NEW s, Shape(s), NEW g \in GoRoutine, NEW f \in Func
  PROVE  LET u == SetCallInstBreakpoints(s, g, f)
         IN  /\ Becomes(s, u, g)
             /\ \A a \in CallInsts(f) : u.hints[a] = "call"
             /\ \A a : Count(u.breakpoints, a, g)
                  = IF a \in CallInsts(f) /\ ~Always(s.breakpoints, a)
                      THEN Count(s.breakpoints, a, g) + 1 ELSE Count(s.breakpoints, a, g)
             /\ u.functions = s.functions /\ u.tracing = s.tracing /\ u.printed = s.printed
             /\ u.mismatch = s.mismatch /\ u.base = s.base
<1> DEFINE u == SetCallInstBreakpoints(s, g, f)
           T == SetConditionalAll(s.breakpoints, CallInsts(f), g)
           H == [a \in Addr |-> IF a \in CallInsts(f) THEN "call" ELSE s.hints[a]]
<1>1. u = [s EXCEPT !.breakpoints = T, !.hints = H]
  BY DEF SetCallInstBreakpoints
<1>2. /\ Table(T) /\ OthersSame(s.breakpoints, T, g)
      /\ \A x : Count(T, x, g)
                  = IF x \in CallInsts(f) /\ ~Always(s.breakpoints, x)
                      THEN Count(s.breakpoints, x, g) + 1 ELSE Count(s.breakpoints, x, g)
  BY SetConditionalAllCounts DEF Shape
<1>3. Hints(H) /\ (\A a \in CallInsts(f) : H[a] = "call")
      /\ \A a \in Addr : s.hints[a] = "call" => H[a] = "call"
  BY CallInstsOfFunction DEF Shape, Hints
<1> HIDE DEF T, H, u
<1>4. /\ u.breakpoints = T /\ u.hints = H /\ DOMAIN u = DOMAIN s
      /\ u.functions = s.functions /\ u.tracing = s.tracing /\ u.printed = s.printed
      /\ u.mismatch = s.mismatch /\ u.base = s.base
  BY <1>1 DEF Shape
<1>5. Becomes(s, u, g)
  BY <1>2, <1>3, <1>4 DEF Shape, Becomes
<1> QED BY <1>2, <1>3, <1>4, <1>5 DEF u

-----------------------------------------------------------------------------
(* Sessions.                                                               *)

\* What is known of a go routine before its trap is handled, or in the middle.
\* While it is not traced its known functions are not looked at.
Handling(s, t, g) == Shape(s) /\ Ok(s, t, g)

\* The outermost session starts with no known function and the calls of its own one.
LEMMA EnteringFirst ==
  ASSUME NEW s, NEW t, NEW g \in GoRoutine, NEW fs, fs \subseteq Func, Sane(t, fs),
         Handling(s, t, g), s.tracing = 0, s.functions = <<>>
  PROVE  LET u == EnterTracepoint(s, g, t)
         IN  /\ Becomes(s, u, g) /\ Ok(u, t, g) /\ u.tracing = 1 /\ u.functions = <<>>
             /\ Exact(u, t, g)
<1> DEFINE f == t.pc[1]
           v == SetCallInstBreakpoints(s, g, f)
           u == EnterTracepoint(s, g, t)
           L == Len(t.stack)
<1>1. f = t.stack[L].fn /\ f \in Func /\ L \in Nat \ {0}
  <2>1. L \in Nat \ {0} /\ f = t.stack[L].fn /\ \A i \in 1..L : t.stack[i].fn \in fs
    BY SaneFrames
  <2> QED BY <2>1
<1>2. u = [v EXCEPT !.tracing = @ + 1, !.base = L]
  BY DEF EnterTracepoint
<1>3. /\ Becomes(s, v, g)
      /\ \A a \in CallInsts(f) : v.hints[a] = "call"
      /\ \A a : Count(v.breakpoints, a, g)
                  = IF a \in CallInsts(f) /\ ~Always(s.breakpoints, a)
                      THEN Count(s.breakpoints, a, g) + 1 ELSE Count(s.breakpoints, a, g)
      /\ v.functions = <<>> /\ v.tracing = 0 /\ v.printed = {} /\ ~v.mismatch
  BY <1>1, SettingCalls DEF Handling, Ok
<1> HIDE DEF u, v
<1>4. /\ u.breakpoints = v.breakpoints /\ u.hints = v.hints /\ u.functions = <<>>
      /\ u.tracing = 1 /\ u.printed = {} /\ ~u.mismatch /\ u.base = L /\ DOMAIN u = DOMAIN v
  BY <1>2, <1>3 DEF Becomes, Shape
<1>5. Becomes(s, u, g)
  BY <1>3, <1>4 DEF Becomes, Shape
<1>6. Exact(u, t, g)
  <2> SUFFICES ASSUME NEW a \in Addr, ~Always(u.breakpoints, a)
               PROVE  Count(u.breakpoints, a, g) = Wants(<<>>, f, a)
    BY <1>1, <1>4 DEF Exact
  <2>1. ~Always(s.breakpoints, a)
    BY <1>4, <1>5 DEF Becomes, OthersSame
  <2>2. Count(s.breakpoints, a, g) = 0
    BY <2>1 DEF Handling, Ok, QuietFor
  <2>3. Wants(<<>>, f, a) = IF a \in CallInsts(f) THEN 1 ELSE 0
    <3>1. DOMAIN <<>> = {}
      OBVIOUS
    <3>2. Clearings(<<>>, DOMAIN <<>>, a) = 0
      BY <3>1, ClearingsNone
    <3> QED BY <3>2 DEF Wants
  <2> QED BY <1>3, <1>4, <2>1, <2>2, <2>3
<1>7. Enough(u, t, g)
  <2>1. \A a \in Addr : Count(u.breakpoints, a, g) \in Nat
    BY <1>5, HitCounts DEF Becomes, Shape
  <2> QED BY <1>6, <2>1 DEF Exact, Enough
<1>8. FramesMatch(u, t)
  BY <1>1, <1>4 DEF FramesMatch
<1>9. DepthsMatch(u, t)
  BY <1>1, <1>4 DEF DepthsMatch, Open
<1>10. HintsMatch(u, t)
  BY <1>1, <1>3, <1>4 DEF HintsMatch
<1> QED BY <1>4, <1>5, <1>6, <1>7, <1>8, <1>9, <1>10 DEF Ok, Matches, u

\* A session inside another one: the calls' breakpoints count once more.
LEMMA EnteringAgain ==
  ASSUME NEW s, NEW t, NEW g \in GoRoutine, NEW fs, fs \subseteq Func, Sane(t, fs),
         Handling(s, t, g), s.tracing > 0, NEW c, c.pc[1] \in Func
  PROVE  LET u == EnterTracepoint(s, g, c)
         IN  Becomes(s, u, g) /\ Ok(u, t, g) /\ u.tracing = s.tracing + 1 /\ u.functions = s.functions
<1> DEFINE f == c.pc[1]
           v == SetCallInstBreakpoints(s, g, f)
           u == EnterTracepoint(s, g, c)
<1>1. u = [v EXCEPT !.tracing = @ + 1, !.base = IF s.tracing = 0 THEN Len(c.stack) ELSE @]
  BY DEF EnterTracepoint
<1>2. /\ Becomes(s, v, g)
      /\ \A a : Count(v.breakpoints, a, g)
                  = IF a \in CallInsts(f) /\ ~Always(s.breakpoints, a)
                      THEN Count(s.breakpoints, a, g) + 1 ELSE Count(s.breakpoints, a, g)
      /\ v.functions = s.functions /\ v.tracing = s.tracing /\ v.printed = s.printed
      /\ v.mismatch = s.mismatch /\ v.base = s.base
  BY SettingCalls DEF Handling, Ok
<1> HIDE DEF u, v
<1>3. s.tracing \in Nat /\ s.tracing # 0
  BY DEF Handling, Shape
<1>4. /\ u.breakpoints = v.breakpoints /\ u.hints = v.hints /\ u.functions = s.functions
      /\ u.tracing = s.tracing + 1 /\ u.printed = s.printed /\ u.mismatch = s.mismatch
      /\ u.base = s.base /\ DOMAIN u = DOMAIN v
  BY <1>1, <1>2, <1>3 DEF Becomes, Shape
<1>5. Becomes(s, u, g)
  BY <1>2, <1>3, <1>4 DEF Becomes, Shape
<1>6. Matches(s, t, g) /\ ~s.mismatch
  BY DEF Handling, Ok
<1>7. \A a \in Addr : \/ Always(u.breakpoints, a)
                      \/ /\ ~Always(s.breakpoints, a)
                         /\ Count(u.breakpoints, a, g) >= Count(s.breakpoints, a, g)
  <2>1. \A a \in Addr : Count(s.breakpoints, a, g) \in Nat
    BY HitCounts DEF Handling, Shape
  <2>2. \A a \in Addr : Always(u.breakpoints, a) <=> Always(s.breakpoints, a)
    BY <1>5 DEF Becomes, OthersSame
  <2> QED BY <1>2, <1>4, <2>1, <2>2
<1>8. t.stack[s.base].fn \in Func
  BY <1>6, SaneFrames DEF Matches, FramesMatch
<1>9. Matches(u, t, g)
  BY <1>4, <1>5, <1>6, <1>7, <1>8, MatchesMore, CallInstsOfFunction DEF Becomes, Handling, Shape
<1> QED BY <1>3, <1>4, <1>5, <1>6, <1>9 DEF Ok, u

\* The last session to end leaves nothing behind but the known functions.
LEMMA Exiting ==
  ASSUME NEW s, NEW t, NEW g \in GoRoutine, Handling(s, t, g)
  PROVE  LET u == ExitTracepoint(s, g)
         IN  /\ Becomes(s, u, g) /\ Ok(u, t, g) /\ u.functions = s.functions
             /\ s.tracing <= 1 => u.tracing = 0
             /\ s.tracing > 1 => u.tracing = s.tracing - 1 /\ u = [s EXCEPT !.tracing = @ - 1]
<1> DEFINE u == ExitTracepoint(s, g)
           v == [s EXCEPT !.tracing = Remove(@)]
           T == ClearAllByGoRoutineID(s.breakpoints, g)
<1>1. v.tracing = Remove(s.tracing) /\ v.breakpoints = s.breakpoints /\ v.hints = s.hints
      /\ v.functions = s.functions /\ v.printed = s.printed /\ v.mismatch = s.mismatch
      /\ v.base = s.base /\ DOMAIN v = DOMAIN s
  BY DEF Handling, Shape
<1>2. s.tracing \in Nat
  BY DEF Handling, Shape
<1>3. Remove(s.tracing) = IF s.tracing <= 1 THEN 0 ELSE s.tracing - 1
  BY <1>2 DEF Remove
<1>4. CASE s.tracing > 1
  <2>1. u = v
    BY <1>1, <1>2, <1>3, <1>4 DEF ExitTracepoint, Tracing
  <2>2. v = [s EXCEPT !.tracing = @ - 1]
    BY <1>2, <1>3, <1>4
  <2> HIDE DEF u, v
  <2>3. Becomes(s, v, g)
    BY <1>1, <1>2, <1>3, <1>4 DEF Becomes, Shape, Handling, OthersSame
  <2>4. Matches(v, t, g)
    BY <1>1, <1>2, <1>4
       DEF Handling, Ok, Matches, FramesMatch, DepthsMatch, HintsMatch, Enough
  <2>5. v.tracing > 0 /\ v.tracing = s.tracing - 1
    BY <1>1, <1>2, <1>3, <1>4
  <2> QED BY <1>1, <1>2, <1>4, <2>1, <2>2, <2>3, <2>4, <2>5 DEF Ok, Handling, u
<1>5. CASE s.tracing <= 1
  <2>1. u = [v EXCEPT !.base = 0, !.printed = {}, !.breakpoints = ClearAllByGoRoutineID(@, g)]
    BY <1>1, <1>2, <1>3, <1>5 DEF ExitTracepoint, Tracing
  <2> HIDE DEF v
  <2>2. /\ u.breakpoints = T /\ u.hints = s.hints /\ u.functions = s.functions /\ u.tracing = 0
        /\ u.printed = {} /\ u.mismatch = s.mismatch /\ u.base = 0 /\ DOMAIN u = DOMAIN s
    BY <1>1, <1>2, <1>3, <1>5, <2>1 DEF Handling, Shape
  <2>3. Table(T) /\ OthersSame(s.breakpoints, T, g) /\ QuietFor(T, g)
    BY ClearAllCounts DEF Handling, Shape
  <2> HIDE DEF u, T
  <2>4. Becomes(s, u, g)
    BY <2>2, <2>3 DEF Becomes, Shape, Handling
  <2>5. Ok(u, t, g)
    BY <2>2, <2>3 DEF Ok, Handling
  <2>6. ~(s.tracing > 1)
    BY <1>2, <1>5
  <2> QED BY <2>2, <2>4, <2>5, <2>6 DEF u
<1> QED BY <1>2, <1>4, <1>5

-----------------------------------------------------------------------------
(* Functions that have returned.                                           *)

\* Functions that use more and more stack: those up to the n-th remain.
LEMMA RemainingIs ==
  ASSUME NEW F \in Seq(CallingFunction), NEW n \in 0..Len(F), NEW used, NEW f,
         \A i \in 1..Len(F) : (\/ F[i].usedStackSize < used
                               \/ F[i].usedStackSize = used /\ F[i].fn = f) <=> i <= n
  PROVE  Remaining(F, used, f) = n
<1> DEFINE alive == {i \in DOMAIN F : \/ F[i].usedStackSize < used
                                      \/ F[i].usedStackSize = used /\ F[i].fn = f}
<1>1. Remaining(F, used, f) = IF alive = {} THEN 0 ELSE CHOOSE i \in alive : \A j \in alive : j <= i
  BY DEF Remaining
<1>2. alive = 1..n
  <2>1. DOMAIN F = 1..Len(F) /\ Len(F) \in Nat
    OBVIOUS
  <2> QED BY <2>1
<1> HIDE DEF alive
<1>3. CASE n = 0
  BY <1>1, <1>2, <1>3
<1>4. CASE n > 0
  <2>1. n \in alive /\ \A j \in alive : j <= n
    BY <1>2, <1>4
  <2>2. \A i \in alive : (\A j \in alive : j <= i) => i = n
    BY <1>2, <2>1
  <2> QED BY <1>1, <2>1, <2>2
<1> QED BY <1>3, <1>4

\* u is s unwound to the first n functions.
Unwound(s, u, n, g) ==
  /\ Becomes(s, u, g) /\ u.functions = SubSeq(s.functions, 1, n) /\ u.hints = s.hints
  /\ u.tracing = s.tracing /\ u.printed = s.printed /\ u.mismatch = s.mismatch
  /\ u.base = s.base
  /\ \A a : Count(u.breakpoints, a, g)
       = IF a \in DOMAIN s.breakpoints /\ ~Always(s.breakpoints, a)
           THEN IF Clearings(s.functions, DOMAIN s.functions \ 1..n, a) < Count(s.breakpoints, a, g)
                  THEN Count(s.breakpoints, a, g) - Clearings(s.functions, DOMAIN s.functions \ 1..n, a)
                  ELSE 0
           ELSE Count(s.breakpoints, a, g)

\* Unwinding to the functions still on the stack clears exactly what the others needed.
LEMMA Unwinding ==
  ASSUME NEW s, Shape(s), NEW g \in GoRoutine, NEW used, NEW f, NEW n \in 0..Len(s.functions),
         Remaining(s.functions, used, f) = n
  PROVE  Unwound(s, UnwindFunctions(s, g, used, f), n, g)
<1> DEFINE u == UnwindFunctions(s, g, used, f)
           gone == DOMAIN s.functions \ 1..n
           times == [a \in DOMAIN s.breakpoints |-> Clearings(s.functions, gone, a)]
           T == ClearConditionalTimes(s.breakpoints, times, g)
           F == SubSeq(s.functions, 1, n)
<1>1. u = [s EXCEPT !.functions = F, !.breakpoints = T]
  BY DEF UnwindFunctions
<1>2. \A a : Clearings(s.functions, gone, a) \in Nat
  <2>1. IsFiniteSet(1..Len(s.functions)) /\ DOMAIN s.functions = 1..Len(s.functions)
    BY FS_Interval DEF Shape
  <2>2. IsFiniteSet(gone)
    BY <2>1, FS_Subset
  <2>3. Len(s.functions) + 1 \notin gone
    BY <2>1 DEF Shape
  <2> HIDE DEF gone
  <2> QED BY <2>2, <2>3, ClearingsAdd
<1> HIDE DEF gone
<1>3. times \in [DOMAIN s.breakpoints -> Nat]
  BY <1>2
<1>4. \A a \in DOMAIN s.breakpoints : times[a] = Clearings(s.functions, gone, a)
  OBVIOUS
<1> HIDE DEF times
<1>5. /\ Table(T) /\ OthersSame(s.breakpoints, T, g)
      /\ \A x : Count(T, x, g)
             = IF x \in DOMAIN s.breakpoints /\ ~Always(s.breakpoints, x)
                 THEN IF times[x] < Count(s.breakpoints, x, g)
                        THEN Count(s.breakpoints, x, g) - times[x] ELSE 0
                 ELSE Count(s.breakpoints, x, g)
  BY <1>3, ClearTimesCounts DEF Shape
<1>6. F \in Seq(CallingFunction)
  BY DEF Shape
<1> HIDE DEF u, T, F
<1>7. /\ u.functions = F /\ u.breakpoints = T /\ u.hints = s.hints /\ u.tracing = s.tracing
      /\ u.printed = s.printed /\ u.mismatch = s.mismatch /\ u.base = s.base /\ DOMAIN u = DOMAIN s
  BY <1>1 DEF Shape
<1>8. Becomes(s, u, g)
  BY <1>5, <1>6, <1>7 DEF Becomes, Shape
<1>9. \A a : Count(u.breakpoints, a, g)
                  = IF a \in DOMAIN s.breakpoints /\ ~Always(s.breakpoints, a)
                      THEN IF Clearings(s.functions, gone, a) < Count(s.breakpoints, a, g)
                             THEN Count(s.breakpoints, a, g) - Clearings(s.functions, gone, a) ELSE 0
                      ELSE Count(s.breakpoints, a, g)
  BY <1>4, <1>5, <1>7
<1> QED BY <1>7, <1>8, <1>9 DEF u, F, gone, Unwound

\* All known functions are on the stack.
NoneReturned(s, t) == \A i \in 1..Len(s.functions) : LevelOf(s.functions[i]) <= Len(t.stack)

\* When the last known function has used more stack than is used now, it is the only
\* one that has returned; otherwise none has.
LEMMA ReturnedOrNot ==
  ASSUME NEW s, NEW t, NEW fs, Sane(t, fs), FramesMatch(s, t)
  PROVE  LET F == s.functions  n == Len(F)  L == Len(t.stack)
         IN  /\ LastUsed(s) > UsedStackSize(t) =>
                  /\ n > 0 /\ LevelOf(F[n]) = L + 1 /\ UsedStackSize(t) = 2 * L
                  /\ \A i \in 1..n : F[i].usedStackSize < 2 * L <=> i <= n - 1
                  /\ \A i \in 1..n : F[i].usedStackSize # 2 * L
             /\ ~(LastUsed(s) > UsedStackSize(t)) => NoneReturned(s, t)
<1> DEFINE F == s.functions  n == Len(F)  L == Len(t.stack)  lev(i) == LevelOf(F[i])
<1>1. L \in Nat \ {0} /\ n \in Nat
  BY SaneFrames DEF FramesMatch
<1>2. UsedStackSize(t) \in {2 * L - 1, 2 * L} /\ (t.pc[2] # 1 => UsedStackSize(t) = 2 * L)
  BY <1>1 DEF UsedStackSize, Entry
<1>3. /\ s.base \in 1..L
      /\ \A i \in 1..n : /\ F[i].usedStackSize = 2 * lev(i) - 1
                         /\ lev(i) \in s.base + 1 .. L + 1
                         /\ lev(i) = L + 1 => t.pc[2] # 1
      /\ \A i, j \in 1..n : i < j => lev(i) < lev(j)
  BY DEF FramesMatch
<1>4. \A i \in 1..n : lev(i) \in Nat /\ lev(i) <= L + 1
  BY <1>1, <1>3
<1>5. LastUsed(s) = IF n = 0 THEN 0 ELSE F[n].usedStackSize
  BY <1>1 DEF LastUsed, FramesMatch
<1> HIDE DEF F, n, L, lev
<1>6. ASSUME LastUsed(s) > UsedStackSize(t)
      PROVE  /\ n > 0 /\ lev(n) = L + 1 /\ UsedStackSize(t) = 2 * L
             /\ \A i \in 1..n : F[i].usedStackSize < 2 * L <=> i <= n - 1
             /\ \A i \in 1..n : F[i].usedStackSize # 2 * L
  <2>1. n > 0
    BY <1>1, <1>2, <1>5, <1>6
  <2>2. n \in 1..n
    BY <1>1, <2>1
  <2>3. lev(n) = L + 1
    BY <1>1, <1>2, <1>3, <1>4, <1>5, <1>6, <2>1, <2>2
  <2>4. UsedStackSize(t) = 2 * L
    BY <1>2, <1>3, <2>2, <2>3
  <2>5. \A i \in 1..n : i <= n - 1 => lev(i) <= L
    BY <1>1, <1>3, <1>4, <2>2, <2>3
  <2>6. \A i \in 1..n : F[i].usedStackSize < 2 * L <=> i <= n - 1
    <3> TAKE i \in 1..n
    <3>1. CASE i <= n - 1
      BY <1>1, <1>3, <1>4, <2>5, <3>1
    <3>2. CASE i = n
      BY <1>1, <1>3, <1>4, <2>3, <3>2
    <3> QED BY <1>1, <3>1, <3>2
  <2>7. \A i \in 1..n : F[i].usedStackSize # 2 * L
    BY <1>1, <1>3, <1>4
  <2> QED BY <2>1, <2>3, <2>4, <2>6, <2>7
<1>7. ASSUME ~(LastUsed(s) > UsedStackSize(t))
      PROVE  \A i \in 1..n : lev(i) <= L
  <2> TAKE i \in 1..n
  <2>1. n \in 1..n /\ n # 0
    BY <1>1
  <2>2. lev(i) <= lev(n)
    <3>1. CASE i = n
      BY <1>4, <3>1
    <3>2. CASE i < n
      BY <1>3, <1>4, <2>1, <3>2
    <3> QED BY <1>1, <3>1, <3>2
  <2>3. lev(n) <= L
    <3>1. 2 * lev(n) - 1 <= UsedStackSize(t)
      BY <1>1, <1>2, <1>3, <1>4, <1>5, <1>7, <2>1
    <3> QED BY <1>1, <1>2, <1>4, <2>1, <3>1
  <2> QED BY <1>1, <1>4, <2>1, <2>2, <2>3
<1> QED BY <1>6, <1>7 DEF F, n, L, lev, NoneReturned

\* The number of breakpoints wanted is one.
LEMMA WantsType ==
  ASSUME NEW F \in Seq(CallingFunction), NEW f, NEW a
  PROVE  Wants(F, f, a) \in Nat
<1>1. Clearings(F, DOMAIN F, a) \in Nat
  BY ClearingsOfCalls
<1> QED BY <1>1 DEF Wants

\* The last known function has returned: it is forgotten, with what it needed, and
\* its return printed if its call was.
LEMMA ReturnForgotten ==
  ASSUME NEW s, NEW t, NEW g \in GoRoutine, NEW fs, Sane(t, fs), TraceLevel \in Nat,
         Shape(s), Matches(s, t, g), LastUsed(s) > UsedStackSize(t)
  PROVE  LET u == HandleTrapAfterFunctionReturn(s, g, t)
         IN  /\ Becomes(s, u, g) /\ Matches(u, t, g) /\ NoneReturned(u, t)
             /\ u.tracing = s.tracing /\ u.mismatch = s.mismatch /\ u.base = s.base
             /\ Exact(s, t, g) => Exact(u, t, g)
<1> DEFINE F == s.functions  n == Len(F)  G == SubSeq(F, 1, n - 1)
           v == UnwindFunctions(s, g, UsedStackSize(t), t.pc[1])
           u == HandleTrapAfterFunctionReturn(s, g, t)
           L == Len(t.stack)
           last == F[n]
           call == [fn |-> last.fn, depth |-> n]
<1>1. F \in Seq(CallingFunction)
  BY DEF Shape
<1>2. /\ n \in Nat \ {0} /\ LevelOf(last) = L + 1 /\ UsedStackSize(t) = 2 * L
      /\ \A i \in 1..n : F[i].usedStackSize < 2 * L <=> i <= n - 1
      /\ \A i \in 1..n : F[i].usedStackSize # 2 * L
  BY <1>1, ReturnedOrNot DEF Matches
<1>3. Remaining(F, UsedStackSize(t), t.pc[1]) = n - 1
  <2>1. n - 1 \in 0..Len(F)
    BY <1>2
  <2>2. \A i \in 1..Len(F) : (\/ F[i].usedStackSize < UsedStackSize(t)
                              \/ F[i].usedStackSize = UsedStackSize(t) /\ F[i].fn = t.pc[1]) <=> i <= n - 1
    BY <1>2
  <2> HIDE DEF F, n
  <2> QED BY <1>1, <2>1, <2>2, RemainingIs
<1>4. /\ Becomes(s, v, g) /\ v.functions = G /\ v.hints = s.hints
      /\ v.tracing = s.tracing /\ v.printed = s.printed /\ v.mismatch = s.mismatch
      /\ v.base = s.base
      /\ \A a : Count(v.breakpoints, a, g)
                  = IF a \in DOMAIN s.breakpoints /\ ~Always(s.breakpoints, a)
                      THEN IF Clearings(F, DOMAIN F \ 1..(n - 1), a) < Count(s.breakpoints, a, g)
                             THEN Count(s.breakpoints, a, g) - Clearings(F, DOMAIN F \ 1..(n - 1), a) ELSE 0
                      ELSE Count(s.breakpoints, a, g)
  <2> DEFINE m == n - 1  used == UsedStackSize(t)  f == t.pc[1]
  <2>1. m \in 0..Len(F) /\ Remaining(F, used, f) = m
    BY <1>2, <1>3
  <2>2. v = UnwindFunctions(s, g, used, f)
    OBVIOUS
  <2>3. G = SubSeq(F, 1, m)
    OBVIOUS
  <2> HIDE DEF m, used, f, v, G
  <2>4. Unwound(s, UnwindFunctions(s, g, used, f), m, g)
    BY <2>1, Unwinding
  <2> QED BY <2>2, <2>3, <2>4 DEF m, Unwound
<1>5. /\ Len(G) = n - 1 /\ \A i \in 1..n - 1 : G[i] = F[i]
      /\ G \in Seq(CallingFunction)
  BY <1>1, <1>2
<1>6. \A a : /\ Clearings(F, DOMAIN F \ 1..(n - 1), a) = Needs(last, a)
             /\ Clearings(F, DOMAIN F, a) = Clearings(G, DOMAIN G, a) + Needs(last, a)
  <2>1. F # <<>>
    BY <1>1, <1>2
  <2> QED BY <1>1, <2>1, ClearingsOfCalls
<1>7. /\ Open(F) = IF n <= TraceLevel /\ last.fn \in Printable THEN Open(G) \cup {call} ELSE Open(G)
      /\ \A c \in Open(G) : c.depth \in 1..Len(G)
  <2>1. F # <<>>
    BY <1>1, <1>2
  <2> QED BY <1>1, <1>5, <2>1, OpenCalls
<1>8. u = IF n <= TraceLevel /\ last.fn \in Printable THEN PrintOutput(v, last.fn, n) ELSE v
  <2>1. Len(v.functions) + 1 = n
    BY <1>2, <1>4, <1>5
  <2>2. SetBreakpointToDeferredFunc(v, g, t) = v
    <3>1. t.defers = <<>>
      BY DEF Sane
    <3> QED BY <3>1 DEF SetBreakpointToDeferredFunc, HasDeferred
  <2>3. u = LET depth == Len(v.functions) + 1
                returned == s.functions[depth].fn
                w == IF depth <= TraceLevel /\ returned = "runtime.deferproc"
                       THEN SetBreakpointToDeferredFunc(v, g, t) ELSE v
            IN  IF depth <= TraceLevel /\ returned \in Printable THEN PrintOutput(w, returned, depth) ELSE w
    BY DEF HandleTrapAfterFunctionReturn
  <2> HIDE DEF u, v
  <2> QED BY <2>1, <2>2, <2>3
<1> HIDE DEF u, v
<1>9. /\ u.functions = G /\ u.hints = s.hints /\ u.tracing = s.tracing /\ u.breakpoints = v.breakpoints
      /\ u.printed = Open(G) /\ u.mismatch = s.mismatch /\ u.base = s.base /\ DOMAIN u = DOMAIN v
  <2>1. v.printed = Open(F)
    BY <1>4 DEF Matches, DepthsMatch
  <2>2. CASE n <= TraceLevel /\ last.fn \in Printable
    <3>1. call \in v.printed /\ \A c \in v.printed : c.depth <= n
      <4>1. call \in Open(F)
        BY <1>7, <2>2
      <4>2. \A c \in Open(F) : c.depth <= n
        BY <1>2, <1>5, <1>7, <2>2
      <4> QED BY <2>1, <4>1, <4>2
    <3>2. call \notin Open(G)
      <4>1. call.depth = n
        OBVIOUS
      <4> QED BY <1>2, <1>5, <1>7, <4>1
    <3>3. u = [v EXCEPT !.printed = @ \ {call}]
      BY <1>8, <2>2, <3>1 DEF PrintOutput
    <3>4. v.printed \ {call} = Open(G)
      BY <1>7, <2>1, <2>2, <3>2
    <3> HIDE DEF G, F, call
    <3> QED BY <1>4, <3>3, <3>4 DEF Becomes, Shape
  <2>3. CASE ~(n <= TraceLevel /\ last.fn \in Printable)
    BY <1>4, <1>7, <1>8, <2>1, <2>3
  <2> QED BY <2>2, <2>3
<1>10. Becomes(s, u, g)
  BY <1>4, <1>5, <1>9 DEF Becomes, Shape
<1> HIDE DEF G, last, call
<1>11. L \in Nat \ {0}
  BY SaneFrames
<1>12. \A i \in 1..n : LevelOf(F[i]) \in Nat
  <2>1. /\ s.base \in 1..Len(t.stack)
        /\ \A i \in 1..n : LevelOf(F[i]) \in s.base + 1 .. Len(t.stack) + 1
    BY DEF Matches, FramesMatch
  <2> HIDE DEF n, F
  <2> QED BY <1>11, <2>1
<1>13. \A i \in 1..(n - 1) : LevelOf(F[i]) <= L
  <2> TAKE i \in 1..(n - 1)
  <2>1. i \in 1..n /\ n \in 1..n /\ i < n
    BY <1>2
  <2>2. LevelOf(F[i]) < LevelOf(F[n])
    BY <2>1 DEF Matches, FramesMatch
  <2> QED BY <1>2, <1>11, <1>12, <2>1, <2>2 DEF last
<1>14. NoneReturned(u, t)
  BY <1>5, <1>9, <1>13 DEF NoneReturned
<1>15. FramesMatch(u, t)
  <2>1. \A i \in 1..(n - 1) : i \in 1..n
    BY <1>2
  <2> QED BY <1>5, <1>9, <2>1 DEF Matches, FramesMatch
<1>16. DepthsMatch(u, t)
  <2>1. \A i \in 1..(n - 1) : i \in 1..n
    BY <1>2
  <2>2. n - 1 < TraceLevel => Len(t.stack) <= s.base + (n - 1)
    <3> HAVE n - 1 < TraceLevel
    <3>1. n \in 1..n /\ n <= TraceLevel
      BY <1>2
    <3>2. LevelOf(F[n]) = s.base + n
      BY <3>1 DEF Matches, DepthsMatch
    <3>3. s.base \in Nat
      BY <1>11 DEF Matches, FramesMatch
    <3> QED BY <1>2, <1>11, <3>2, <3>3 DEF last
  <2> QED BY <1>5, <1>9, <2>1, <2>2 DEF Matches, DepthsMatch
<1>17. HintsMatch(u, t)
  <2>1. \A i \in 1..(n - 1) : i \in 1..n
    BY <1>2
  <2> QED BY <1>5, <1>9, <2>1 DEF Matches, HintsMatch
<1>18. ASSUME NEW a \in Addr, ~Always(u.breakpoints, a)
       PROVE  LET f == t.stack[s.base].fn
              IN  /\ Count(s.breakpoints, a, g) >= Wants(F, f, a) =>
                       Count(u.breakpoints, a, g) >= Wants(G, f, a)
                  /\ Count(s.breakpoints, a, g) = Wants(F, f, a) =>
                       Count(u.breakpoints, a, g) = Wants(G, f, a)
                  /\ ~Always(s.breakpoints, a)
  <2> DEFINE f == t.stack[s.base].fn
             c == Count(s.breakpoints, a, g)  d == Count(u.breakpoints, a, g)
             x == Needs(last, a)
  <2>1. ~Always(s.breakpoints, a)
    BY <1>10, <1>18 DEF Becomes, OthersSame
  <2>2. Wants(F, f, a) = Wants(G, f, a) + x /\ Wants(G, f, a) \in Nat
    <3>1. Clearings(F, DOMAIN F, a) = Clearings(G, DOMAIN G, a) + x
      BY <1>6
    <3>2. Clearings(G, DOMAIN G, a) \in Nat
      BY <1>5, ClearingsOfCalls
    <3>3. x \in Nat
      BY NeedsType
    <3> HIDE DEF F, x
    <3> QED BY <3>1, <3>2, <3>3 DEF Wants
  <2>3. x \in Nat /\ c \in Nat
    BY NeedsType, HitCounts DEF Shape
  <2>4. d = IF a \in DOMAIN s.breakpoints THEN IF x < c THEN c - x ELSE 0 ELSE c
    <3>1. Clearings(F, DOMAIN F \ 1..(n - 1), a) = x
      BY <1>6
    <3> HIDE DEF x, F, n
    <3> QED BY <1>4, <1>9, <2>1, <3>1
  <2>5. a \notin DOMAIN s.breakpoints => c = 0
    BY DEF Count
  <2> HIDE DEF c, d, x, f, F
  <2>6. (c >= Wants(F, f, a) => d >= Wants(G, f, a)) /\ (c = Wants(F, f, a) => d = Wants(G, f, a))
    BY <2>2, <2>3, <2>4, <2>5
  <2> QED BY <2>1, <2>6 DEF c, d, f, F
<1>19. Enough(u, t, g) /\ (Exact(s, t, g) => Exact(u, t, g))
  BY <1>9, <1>18 DEF Matches, Enough, Exact
<1> QED BY <1>9, <1>10, <1>14, <1>15, <1>16, <1>17, <1>19 DEF Matches, u

-----------------------------------------------------------------------------
(* A function that is called.                                              *)

\* c is t after the call of f.
Calls(t, c, f) ==
  /\ c.pc = Entry(f)
  /\ c.stack = Append(t.stack, [fn |-> f, ret |-> After(t.pc)])
  /\ After(t.pc) \in Addr

\* addFunction sets exactly what the new function needs.
LEMMA AddingFunction ==
  ASSUME NEW s, Shape(s), NEW g \in GoRoutine, NEW new \in CallingFunction
  PROVE  LET u == AddFunction(s, g, new)
         IN  /\ Becomes(s, u, g) /\ u.functions = Append(s.functions, new)
             /\ u.tracing = s.tracing /\ u.printed = s.printed
             /\ u.mismatch = s.mismatch /\ u.base = s.base
             /\ new.setCallInstBreakpoints => \A a \in CallInsts(new.fn) : u.hints[a] = "call"
             /\ \A a : ~Always(s.breakpoints, a) =>
                  Count(u.breakpoints, a, g) = Count(s.breakpoints, a, g) + Needs(new, a)
<1> DEFINE ret == new.returnAddress
           T == SetConditional(s.breakpoints, ret, g)
           G == Append(s.functions, new)
           v == [s EXCEPT !.functions = Append(@, new), !.breakpoints = SetConditional(@, ret, g)]
           w == SetCallInstBreakpoints(v, g, new.fn)
           u == AddFunction(s, g, new)
<1>1. u = IF new.setCallInstBreakpoints THEN w ELSE v
  BY DEF AddFunction
<1>2. /\ Table(T) /\ OthersSame(s.breakpoints, T, g)
      /\ \A x : Count(T, x, g) = IF x = ret /\ ~Always(s.breakpoints, ret)
                                   THEN Count(s.breakpoints, x, g) + 1
                                   ELSE Count(s.breakpoints, x, g)
  BY SetConditionalCounts DEF Shape
<1>3. G \in Seq(CallingFunction)
  BY DEF Shape
<1>4. new.fn \in Func /\ new.setCallInstBreakpoints \in BOOLEAN
  BY DEF CallingFunction
<1>5. v = [s EXCEPT !.functions = G, !.breakpoints = T]
  OBVIOUS
<1> HIDE DEF T, G, v
<1>6. /\ v.functions = G /\ v.breakpoints = T /\ v.hints = s.hints /\ v.tracing = s.tracing
      /\ v.printed = s.printed /\ v.mismatch = s.mismatch /\ v.base = s.base /\ DOMAIN v = DOMAIN s
  BY <1>5 DEF Shape
<1>7. Shape(v) /\ Becomes(s, v, g)
  BY <1>2, <1>3, <1>6 DEF Becomes, Shape
<1>8. /\ Becomes(v, w, g)
      /\ \A a \in CallInsts(new.fn) : w.hints[a] = "call"
      /\ \A a : Count(w.breakpoints, a, g)
           = IF a \in CallInsts(new.fn) /\ ~Always(v.breakpoints, a)
               THEN Count(v.breakpoints, a, g) + 1 ELSE Count(v.breakpoints, a, g)
      /\ w.functions = v.functions /\ w.tracing = v.tracing /\ w.printed = v.printed
      /\ w.mismatch = v.mismatch /\ w.base = v.base
  BY <1>4, <1>7, SettingCalls
<1> HIDE DEF w, u, ret
<1>9. \A a : Always(v.breakpoints, a) <=> Always(s.breakpoints, a)
  BY <1>2, <1>6 DEF OthersSame
<1>10. \A a : Count(s.breakpoints, a, g) \in Nat
  BY HitCounts DEF Shape
<1>11. ASSUME NEW a, ~Always(s.breakpoints, a)
       PROVE  Count(u.breakpoints, a, g) = Count(s.breakpoints, a, g) + Needs(new, a)
  <2> DEFINE c == Count(s.breakpoints, a, g)
             r == IF ret = a THEN 1 ELSE 0
             i == IF new.setCallInstBreakpoints /\ a \in CallInsts(new.fn) THEN 1 ELSE 0
  <2>1. Count(v.breakpoints, a, g) = c + r
    BY <1>2, <1>6, <1>10, <1>11
  <2>2. Count(u.breakpoints, a, g) = c + r + i
    <3>1. c + r \in Nat
      BY <1>10
    <3>2. CASE new.setCallInstBreakpoints
      BY <1>1, <1>8, <1>9, <1>11, <2>1, <3>1, <3>2
    <3>3. CASE ~new.setCallInstBreakpoints
      BY <1>1, <2>1, <3>1, <3>3
    <3> QED BY <3>2, <3>3
  <2>3. Needs(new, a) = r + i
    BY DEF Needs, ret
  <2>4. c \in Nat /\ r \in Nat /\ i \in Nat
    BY <1>10
  <2> HIDE DEF c, r, i
  <2> QED BY <2>2, <2>3, <2>4 DEF c
<1>12. Becomes(s, u, g)
  BY <1>1, <1>7, <1>8, BecomesTwice
<1>13. /\ u.functions = G /\ u.tracing = s.tracing /\ u.printed = s.printed
       /\ u.mismatch = s.mismatch /\ u.base = s.base
       /\ new.setCallInstBreakpoints => \A a \in CallInsts(new.fn) : u.hints[a] = "call"
  BY <1>1, <1>6, <1>8
<1> QED BY <1>11, <1>12, <1>13 DEF u, G

\* Nothing is unwound by a call, the callee is added and its line printed.
LEMMA CallAdded ==
  ASSUME NEW s, NEW t, NEW c, NEW f \in Func, NEW g \in GoRoutine, NEW fs, Sane(t, fs),
         TraceLevel \in Nat, Shape(s), Matches(s, t, g), NoneReturned(s, t), Calls(t, c, f)
  PROVE  LET u == HandleTrapAtFunctionCall(s, g, c)
             F == s.functions
             new == [fn |-> f, returnAddress |-> After(t.pc),
                     usedStackSize |-> 2 * (Len(t.stack) + 1) - 1,
                     setCallInstBreakpoints |-> Len(F) + 1 < TraceLevel]
         IN  /\ Becomes(s, u, g) /\ u.functions = Append(F, new)
             /\ u.tracing = s.tracing /\ u.mismatch = s.mismatch /\ u.base = s.base
             /\ u.printed = Open(Append(F, new))
             /\ new.setCallInstBreakpoints => \A a \in CallInsts(f) : u.hints[a] = "call"
             /\ \A a : ~Always(s.breakpoints, a) =>
                  Count(u.breakpoints, a, g) = Count(s.breakpoints, a, g) + Needs(new, a)
             /\ new \in CallingFunction
<1> DEFINE F == s.functions  n == Len(F)  L == Len(t.stack)
           used == UsedStackSize(c)
           new == [fn |-> f, returnAddress |-> After(t.pc), usedStackSize |-> 2 * (L + 1) - 1,
                   setCallInstBreakpoints |-> n + 1 < TraceLevel]
           v == UnwindFunctions(s, g, used, f)
           w == AddFunction(v, g, new)
           u == HandleTrapAtFunctionCall(s, g, c)
<1>1. L \in Nat \ {0} /\ F \in Seq(CallingFunction) /\ n \in Nat
  BY SaneFrames DEF Shape
<1>2. /\ c.pc = <<f, 1>> /\ c.pc[1] = f /\ Len(c.stack) = L + 1
      /\ Top(c) = [fn |-> f, ret |-> After(t.pc)]
  <2>1. t.stack \in Seq([fn : fs, ret : Addr])
    BY DEF Sane
  <2> QED BY <2>1 DEF Calls, Entry, Top
<1>3. used = 2 * (L + 1) - 1 /\ Top(c).ret = After(t.pc)
  BY <1>2 DEF UsedStackSize, Entry
<1>4. Remaining(F, used, f) = n
  <2>1. \A i \in 1..n : /\ F[i].usedStackSize = 2 * LevelOf(F[i]) - 1
                        /\ LevelOf(F[i]) \in s.base + 1 .. L + 1 /\ LevelOf(F[i]) <= L
                        /\ s.base \in 1..L
    BY DEF Matches, FramesMatch, NoneReturned
  <2> HIDE DEF F, n, L, used
  <2>2. \A i \in 1..n : F[i].usedStackSize < used
    BY <1>1, <1>3, <2>1
  <2>3. n \in 0..Len(F)
    BY <1>1 DEF n
  <2>4. \A i \in 1..Len(F) : (\/ F[i].usedStackSize < used
                              \/ F[i].usedStackSize = used /\ F[i].fn = f) <=> i <= n
    BY <1>1, <2>2 DEF n
  <2> QED BY <1>1, <2>3, <2>4, RemainingIs
<1>5. Unwound(s, v, n, g)
  <2>1. n \in 0..Len(s.functions)
    BY <1>1
  <2> HIDE DEF n, used
  <2> QED BY <1>4, <2>1, Unwinding
<1>6. DOMAIN F \ 1..n = {} /\ SubSeq(F, 1, n) = F
  BY <1>1
<1> HIDE DEF v, w, u, used
<1>7. \A a : Count(v.breakpoints, a, g) = Count(s.breakpoints, a, g)
  <2>1. \A a : Clearings(F, {}, a) = 0
    BY ClearingsNone
  <2>2. \A a : Count(s.breakpoints, a, g) \in Nat
    BY HitCounts DEF Shape
  <2>3. \A a : Count(v.breakpoints, a, g)
       = IF a \in DOMAIN s.breakpoints /\ ~Always(s.breakpoints, a)
           THEN IF Clearings(F, DOMAIN F \ 1..n, a) < Count(s.breakpoints, a, g)
                  THEN Count(s.breakpoints, a, g) - Clearings(F, DOMAIN F \ 1..n, a)
                  ELSE 0
           ELSE Count(s.breakpoints, a, g)
    BY <1>5 DEF Unwound
  <2> HIDE DEF F, n
  <2>4. TAKE a
  <2>5. Clearings(F, DOMAIN F \ 1..n, a) = 0
    BY <1>6, <2>1
  <2> QED BY <2>2, <2>3, <2>5
<1>8. new \in CallingFunction
  <2>1. 2 * (L + 1) - 1 \in Nat /\ (n + 1 < TraceLevel) \in BOOLEAN /\ After(t.pc) \in Addr
    BY <1>1 DEF Calls
  <2> HIDE DEF L, n
  <2> QED BY <2>1 DEF CallingFunction
<1> HIDE DEF new
<1>9. /\ Becomes(s, v, g) /\ v.functions = F /\ v.hints = s.hints /\ v.tracing = s.tracing
      /\ v.printed = s.printed /\ v.mismatch = s.mismatch /\ v.base = s.base
  BY <1>5, <1>6 DEF Unwound
<1>10. /\ Becomes(v, w, g) /\ w.functions = Append(F, new)
       /\ w.tracing = s.tracing /\ w.printed = s.printed
       /\ w.mismatch = s.mismatch /\ w.base = s.base
       /\ new.setCallInstBreakpoints => \A a \in CallInsts(new.fn) : w.hints[a] = "call"
       /\ \A a : ~Always(v.breakpoints, a) =>
            Count(w.breakpoints, a, g) = Count(v.breakpoints, a, g) + Needs(new, a)
  <2>1. Shape(v)
    BY <1>9 DEF Becomes
  <2> QED BY <1>8, <1>9, <2>1, AddingFunction DEF w
<1>11. u = IF n + 1 <= TraceLevel /\ f \in Printable THEN PrintInput(w, f, n + 1) ELSE w
  <2>1. u = LET ff == c.pc[1]
                x == UnwindFunctions(s, g, UsedStackSize(c), ff)
                depth == Len(x.functions) + 1
                y == AddFunction(x, g, [fn |-> ff, returnAddress |-> Top(c).ret,
                                        usedStackSize |-> UsedStackSize(c),
                                        setCallInstBreakpoints |-> depth < TraceLevel])
            IN  IF depth <= TraceLevel /\ ff \in Printable THEN PrintInput(y, ff, depth) ELSE y
    BY DEF HandleTrapAtFunctionCall, u
  <2>2. v = UnwindFunctions(s, g, UsedStackSize(c), c.pc[1])
    BY <1>2 DEF v, used
  <2>3. Len(v.functions) + 1 = n + 1
    BY <1>9
  <2>4. UsedStackSize(c) = 2 * (L + 1) - 1
    BY <1>3 DEF used
  <2>5. w = AddFunction(v, g, [fn |-> f, returnAddress |-> Top(c).ret,
                               usedStackSize |-> UsedStackSize(c),
                               setCallInstBreakpoints |-> n + 1 < TraceLevel])
    <3> HIDE DEF n, L
    <3> QED BY <1>3, <2>4 DEF w, new
  <2> HIDE DEF n
  <2> QED BY <1>2, <2>1, <2>2, <2>3, <2>5, Zenon
<1>12. Open(F) = s.printed
  BY DEF Matches, DepthsMatch
<1>13. /\ \A call \in Open(F) : call.depth \in 1..n
       /\ Open(Append(F, new)) = IF n + 1 <= TraceLevel /\ f \in Printable
                                   THEN Open(F) \cup {[fn |-> f, depth |-> n + 1]} ELSE Open(F)
  <2>1. new.fn = f
    BY DEF new
  <2> QED BY <1>1, <1>8, <2>1, OpenCalls
<1>14. /\ u.printed = Open(Append(F, new)) /\ u.functions = w.functions /\ u.hints = w.hints
       /\ u.tracing = w.tracing /\ u.mismatch = w.mismatch /\ u.base = w.base
       /\ u.breakpoints = w.breakpoints /\ DOMAIN u = DOMAIN w
  <2>1. CASE n + 1 <= TraceLevel /\ f \in Printable
    <3>1. DOMAIN w = {"breakpoints", "hints", "functions", "tracing", "printed", "mismatch", "base"}
      BY <1>10 DEF Becomes, Shape
    <3> DEFINE P == {call \in w.printed : call.depth < n + 1} \cup {[fn |-> f, depth |-> n + 1]}
    <3>2. P = Open(Append(F, new))
      <4>1. \A call \in Open(F) : call.depth < n + 1
        BY <1>1, <1>13
      <4>2. w.printed = Open(F)
        BY <1>10, <1>12
      <4> QED BY <1>13, <2>1, <4>1, <4>2
    <3>3. u = [w EXCEPT !.printed = P]
      BY <1>11, <2>1 DEF PrintInput
    <3> HIDE DEF P
    <3> QED BY <3>1, <3>2, <3>3
  <2>2. CASE ~(n + 1 <= TraceLevel /\ f \in Printable)
    BY <1>10, <1>11, <1>12, <1>13, <2>2
  <2> QED BY <2>1, <2>2
<1>15. Becomes(s, u, g)
  <2>1. Becomes(v, u, g)
    BY <1>10, <1>14 DEF Becomes, Shape
  <2> QED BY <1>9, <2>1, BecomesTwice
<1>16. new.fn = f
  BY DEF new
<1>17. \A a : ~Always(s.breakpoints, a) =>
         Count(u.breakpoints, a, g) = Count(s.breakpoints, a, g) + Needs(new, a)
  <2>1. \A a : Always(v.breakpoints, a) <=> Always(s.breakpoints, a)
    BY <1>9 DEF Becomes, OthersSame
  <2> QED BY <1>7, <1>10, <1>14, <2>1
<1>18. /\ u.functions = Append(F, new) /\ u.tracing = s.tracing /\ u.mismatch = s.mismatch
       /\ u.base = s.base /\ u.printed = Open(Append(F, new))
       /\ new.setCallInstBreakpoints => \A a \in CallInsts(f) : u.hints[a] = "call"
  BY <1>10, <1>14, <1>16
<1> QED BY <1>8, <1>15, <1>17, <1>18 DEF u, new

\* The known functions are the functions on the stack that are called from the level at
\* which the tracing started, without a gap as far as the trace level reaches.
LEMMA DepthOfStack ==
  ASSUME NEW s, NEW t, NEW g, NEW fs, Sane(t, fs), TraceLevel \in Nat,
         Shape(s), Matches(s, t, g), NoneReturned(s, t)
  PROVE  LET n == Len(s.functions)  L == Len(t.stack)
         IN  /\ n \in Nat /\ L \in Nat \ {0} /\ s.base \in 1..L
             /\ n < TraceLevel => L = s.base + n
             /\ n >= TraceLevel => L >= s.base + TraceLevel
<1> DEFINE F == s.functions  n == Len(F)  L == Len(t.stack)
<1>1. n \in Nat /\ L \in Nat \ {0} /\ s.base \in 1..L
  BY SaneFrames DEF Shape, Matches, FramesMatch
<1>2. \A i \in 1..n : LevelOf(F[i]) <= L
  BY DEF NoneReturned
<1>3. \A i \in 1..n : i <= TraceLevel => LevelOf(F[i]) = s.base + i
  BY DEF Matches, DepthsMatch
<1>4. n < TraceLevel => L <= s.base + n
  BY DEF Matches, DepthsMatch
<1> HIDE DEF F, n, L
<1>5. ASSUME n < TraceLevel PROVE L = s.base + n
  <2>1. CASE n = 0
    BY <1>1, <1>4, <1>5, <2>1
  <2>2. CASE n > 0
    <3>1. n \in 1..n /\ n <= TraceLevel
      BY <1>1, <1>5, <2>2
    <3>2. s.base + n <= L
      BY <1>2, <1>3, <3>1
    <3> QED BY <1>1, <1>4, <1>5, <3>2
  <2> QED BY <1>1, <2>1, <2>2
<1>6. ASSUME n >= TraceLevel PROVE L >= s.base + TraceLevel
  <2>1. CASE TraceLevel = 0
    BY <1>1, <2>1
  <2>2. CASE TraceLevel > 0
    <3>1. TraceLevel \in 1..n
      BY <1>1, <1>6, <2>2
    <3> QED BY <1>2, <1>3, <3>1
  <2> QED BY <2>1, <2>2
<1> QED BY <1>1, <1>5, <1>6 DEF n, L, F

\* The callee is known at its level.
LEMMA CallMatches ==
  ASSUME NEW s, NEW t, NEW c, NEW f \in Func, NEW g \in GoRoutine, NEW fs, Sane(t, fs),
         fs \subseteq Func,
         TraceLevel \in Nat, Shape(s), Matches(s, t, g), NoneReturned(s, t), Calls(t, c, f)
  PROVE  LET u == HandleTrapAtFunctionCall(s, g, c)
         IN  /\ Becomes(s, u, g) /\ Matches(u, c, g) /\ NoneReturned(u, c)
             /\ u.tracing = s.tracing /\ u.mismatch = s.mismatch /\ u.base = s.base
             /\ Exact(s, t, g) => Exact(u, c, g)
<1> DEFINE u == HandleTrapAtFunctionCall(s, g, c)
           F == s.functions  n == Len(F)  L == Len(t.stack)
           new == [fn |-> f, returnAddress |-> After(t.pc), usedStackSize |-> 2 * (L + 1) - 1,
                   setCallInstBreakpoints |-> n + 1 < TraceLevel]
           G == Append(F, new)
<1>1. /\ Becomes(s, u, g) /\ u.functions = G
      /\ u.tracing = s.tracing /\ u.mismatch = s.mismatch /\ u.base = s.base
      /\ u.printed = Open(G)
      /\ new.setCallInstBreakpoints => \A a \in CallInsts(f) : u.hints[a] = "call"
      /\ \A a : ~Always(s.breakpoints, a) =>
           Count(u.breakpoints, a, g) = Count(s.breakpoints, a, g) + Needs(new, a)
      /\ new \in CallingFunction
  BY CallAdded
<1>2. /\ n \in Nat /\ L \in Nat \ {0} /\ s.base \in 1..L
      /\ n < TraceLevel => L = s.base + n
  BY DepthOfStack
<1>3. F \in Seq(CallingFunction)
  BY DEF Shape
<1>4. /\ Len(G) = n + 1 /\ G[n + 1] = new /\ \A i \in 1..n : G[i] = F[i]
      /\ G \in Seq(CallingFunction)
  BY <1>1, <1>3
<1>5. LevelOf(new) = L + 1
  BY <1>2, LevelOfNew
<1>6. /\ new.fn = f /\ new.returnAddress = After(t.pc) /\ new.usedStackSize = 2 * (L + 1) - 1
      /\ new.setCallInstBreakpoints <=> n + 1 < TraceLevel
  OBVIOUS
<1>7. /\ Len(c.stack) = L + 1 /\ c.stack[L + 1] = [fn |-> f, ret |-> After(t.pc)]
      /\ \A i \in 1..L : c.stack[i] = t.stack[i]
  <2>1. t.stack \in Seq([fn : fs, ret : Addr])
    BY DEF Sane
  <2> QED BY <2>1 DEF Calls
<1>8. /\ \A i \in 1..n : /\ F[i].usedStackSize = 2 * LevelOf(F[i]) - 1
                         /\ LevelOf(F[i]) \in s.base + 1 .. L + 1 /\ LevelOf(F[i]) <= L
                         /\ t.stack[LevelOf(F[i])] = [fn |-> F[i].fn, ret |-> F[i].returnAddress]
                         /\ F[i].setCallInstBreakpoints <=> i < TraceLevel
                         /\ i <= TraceLevel => LevelOf(F[i]) = s.base + i
      /\ \A i, j \in 1..n : i < j => LevelOf(F[i]) < LevelOf(F[j])
  BY DEF Matches, FramesMatch, DepthsMatch, NoneReturned
<1> HIDE DEF u, F, n, L, new, G
<1>9. \A i \in 1..n : LevelOf(F[i]) \in Nat /\ LevelOf(F[i]) \in 1..L
  <2>1. \A i \in 1..n : LevelOf(F[i]) \in s.base + 1 .. L + 1 /\ LevelOf(F[i]) <= L
    BY <1>8
  <2> QED BY <1>2, <2>1
<1>10. \A i \in 1..n + 1 : i \in 1..n \/ i = n + 1
  BY <1>2
<1>11. FramesMatch(u, c)
  <2>1. s.base \in 1..L + 1
    BY <1>2
  <2>2. ASSUME NEW i \in 1..n + 1
        PROVE  /\ G[i].usedStackSize = 2 * LevelOf(G[i]) - 1
               /\ LevelOf(G[i]) \in s.base + 1 .. (L + 1) + 1 /\ LevelOf(G[i]) <= L + 1
               /\ c.stack[LevelOf(G[i])] = [fn |-> G[i].fn, ret |-> G[i].returnAddress]
    <3>1. CASE i \in 1..n
      <4>1. G[i] = F[i]
        BY <1>4, <3>1
      <4>2. /\ LevelOf(F[i]) \in s.base + 1 .. L + 1 /\ LevelOf(F[i]) <= L
            /\ LevelOf(F[i]) \in 1..L
        BY <1>8, <1>9, <3>1
      <4>3. LevelOf(F[i]) \in s.base + 1 .. (L + 1) + 1 /\ LevelOf(F[i]) <= L + 1
        BY <1>2, <4>2
      <4>4. /\ F[i].usedStackSize = 2 * LevelOf(F[i]) - 1
            /\ t.stack[LevelOf(F[i])] = [fn |-> F[i].fn, ret |-> F[i].returnAddress]
        BY <1>8, <3>1
      <4>5. c.stack[LevelOf(F[i])] = t.stack[LevelOf(F[i])]
        BY <1>7, <4>2
      <4> QED BY <4>1, <4>3, <4>4, <4>5
    <3>2. CASE i = n + 1
      <4>1. L + 1 \in s.base + 1 .. (L + 1) + 1 /\ L + 1 <= L + 1
        BY <1>2
      <4> QED BY <1>4, <1>5, <1>6, <1>7, <3>2, <4>1
    <3> QED BY <1>10, <3>1, <3>2
  <2>3. ASSUME NEW i \in 1..n + 1, NEW j \in 1..n + 1, i < j
        PROVE  LevelOf(G[i]) < LevelOf(G[j])
    <3>1. i \in 1..n
      BY <1>2, <2>3
    <3>2. CASE j \in 1..n
      BY <1>4, <1>8, <2>3, <3>1, <3>2
    <3>3. CASE j = n + 1
      <4>1. LevelOf(G[i]) <= L /\ LevelOf(G[i]) \in Nat
        BY <1>4, <1>8, <1>9, <3>1
      <4> QED BY <1>2, <1>4, <1>5, <3>3, <4>1
    <3> QED BY <1>10, <3>2, <3>3
  <2>4. \A i \in 1..n + 1 : LevelOf(G[i]) # (L + 1) + 1
    <3> TAKE i \in 1..n + 1
    <3>1. LevelOf(G[i]) <= L + 1 /\ LevelOf(G[i]) \in s.base + 1 .. (L + 1) + 1
      BY <2>2
    <3> QED BY <1>2, <3>1
  <2> QED BY <1>1, <1>4, <1>7, <2>1, <2>2, <2>3, <2>4 DEF FramesMatch
<1>12. DepthsMatch(u, c)
  <2>1. ASSUME NEW i \in 1..n + 1
        PROVE  /\ G[i].setCallInstBreakpoints <=> i < TraceLevel
               /\ i <= TraceLevel => LevelOf(G[i]) = s.base + i
    <3>1. CASE i \in 1..n
      BY <1>4, <1>8, <3>1
    <3>2. CASE i = n + 1
      <4>1. G[i] = new
        BY <1>4, <3>2
      <4>2. n + 1 <= TraceLevel => L + 1 = s.base + (n + 1)
        BY <1>2
      <4> QED BY <1>5, <1>6, <3>2, <4>1, <4>2
    <3> QED BY <1>10, <3>1, <3>2
  <2>2. n + 1 < TraceLevel => L + 1 <= s.base + (n + 1)
    BY <1>2
  <2> QED BY <1>1, <1>4, <1>7, <2>1, <2>2 DEF DepthsMatch
<1>13. c.stack[s.base].fn = t.stack[s.base].fn /\ t.stack[s.base].fn \in Func
  <2>1. t.stack[s.base].fn \in fs
    BY <1>2, SaneFrames DEF L
  <2> QED BY <1>2, <1>7, <2>1
<1>14. HintsMatch(u, c)
  <2>1. \A a \in Addr : s.hints[a] = "call" => u.hints[a] = "call"
    BY <1>1 DEF Becomes
  <2>2. \A h \in Func : CallInsts(h) \subseteq Addr
    BY CallInstsOfFunction
  <2>3. \A a \in CallInsts(t.stack[s.base].fn) : s.hints[a] = "call"
    BY DEF Matches, HintsMatch
  <2>4. ASSUME NEW i \in 1..n + 1, G[i].setCallInstBreakpoints, NEW a \in CallInsts(G[i].fn)
        PROVE  u.hints[a] = "call"
    <3>1. CASE i \in 1..n
      <4>1. s.hints[a] = "call"
        BY <1>4, <2>4, <3>1 DEF Matches, HintsMatch, F, n
      <4>2. G[i] \in CallingFunction
        BY <1>3, <1>4, <3>1 DEF n
      <4>3. G[i].fn \in Func
        BY <4>2 DEF CallingFunction
      <4> QED BY <2>1, <2>2, <2>4, <4>1, <4>3
    <3>2. CASE i = n + 1
      BY <1>1, <1>4, <1>6, <2>4, <3>2
    <3> QED BY <1>10, <3>1, <3>2
  <2>5. \A a \in CallInsts(t.stack[s.base].fn) : u.hints[a] = "call"
    BY <1>13, <2>1, <2>2, <2>3
  <2> QED BY <1>1, <1>4, <1>13, <2>4, <2>5 DEF HintsMatch
<1>15. ASSUME NEW a \in Addr, ~Always(u.breakpoints, a)
       PROVE  LET b == t.stack[s.base].fn
              IN  /\ Count(s.breakpoints, a, g) >= Wants(F, b, a) =>
                       Count(u.breakpoints, a, g) >= Wants(G, b, a)
                  /\ Count(s.breakpoints, a, g) = Wants(F, b, a) =>
                       Count(u.breakpoints, a, g) = Wants(G, b, a)
                  /\ ~Always(s.breakpoints, a)
  <2> DEFINE b == t.stack[s.base].fn  x == Needs(new, a)
             c1 == Count(s.breakpoints, a, g)
  <2>1. ~Always(s.breakpoints, a)
    BY <1>1, <1>15 DEF Becomes, OthersSame
  <2>2. Count(u.breakpoints, a, g) = c1 + x
    BY <1>1, <2>1
  <2>3. Wants(G, b, a) = Wants(F, b, a) + x
    <3>1. Clearings(G, DOMAIN G, a) = Clearings(F, DOMAIN F, a) + x /\ Clearings(F, DOMAIN F, a) \in Nat
      BY <1>1, <1>3, ClearingsOfCalls DEF G
    <3>2. x \in Nat
      BY NeedsType
    <3> HIDE DEF x, b
    <3> QED BY <3>1, <3>2 DEF Wants
  <2>4. x \in Nat /\ c1 \in Nat /\ Wants(F, b, a) \in Nat
    BY <1>3, NeedsType, HitCounts, WantsType DEF Shape
  <2> HIDE DEF x, b, c1
  <2> QED BY <2>1, <2>2, <2>3, <2>4 DEF b, c1
<1>16. Enough(u, c, g) /\ (Exact(s, t, g) => Exact(u, c, g))
  BY <1>1, <1>13, <1>15 DEF Matches, Enough, Exact, F
<1>17. NoneReturned(u, c)
  <2> SUFFICES ASSUME NEW i \in 1..n + 1 PROVE LevelOf(G[i]) <= L + 1
    BY <1>1, <1>4, <1>7 DEF NoneReturned
  <2>1. CASE i \in 1..n
    BY <1>2, <1>4, <1>8, <1>9, <2>1
  <2>2. CASE i = n + 1
    BY <1>2, <1>4, <1>5, <2>2
  <2> QED BY <1>10, <2>1, <2>2
<1> QED BY <1>1, <1>11, <1>12, <1>14, <1>16, <1>17 DEF Matches, u

-----------------------------------------------------------------------------
(* One instruction of a plain function.                                    *)

Steps(t, u) ==
  LET i == InstAt(t.pc)
  IN  \/ i.op \in {"op", "br"} /\ u.pc = After(t.pc) /\ u.stack = t.stack
      \/ i.op \in {"jmp", "br"} /\ u.pc = <<t.pc[1], i.to>> /\ u.stack = t.stack
      \/ i.op = "call" /\ Calls(t, u, i.fn)
      \/ /\ i.op = "ret" /\ Len(t.stack) > 1 /\ u.pc = Top(t).ret
         /\ u.stack = SubSeq(t.stack, 1, Len(t.stack) - 1)

\* The instruction that a plain go routine is at.
LEMMA PlainInst ==
  ASSUME NEW fs, PlainFunctions(fs), NEW a \in Addr, a[1] \in fs
  PROVE  /\ a = <<a[1], a[2]>> /\ a[2] \in DOMAIN Code[a[1]] /\ a[2] \in Nat \ {0}
         /\ InstAt(a) = Code[a[1]][a[2]]
         /\ InstAt(a).op \in {"op", "jmp", "br", "call", "ret"}
         /\ InstAt(a).op \in {"op", "br", "call"} =>
              After(a) = <<a[1], a[2] + 1>> /\ After(a) \in Addr /\ a[2] + 1 # 1
         /\ InstAt(a).op \in {"jmp", "br"} => <<a[1], InstAt(a).to>> \in Addr
         /\ InstAt(a).op = "call" => InstAt(a).fn \in fs
         /\ a[2] = 1 => InstAt(a).op = "op"
<1>1. PICK h \in Func : a \in {h} \X DOMAIN Code[h]
  BY DEF Addr
<1>2. a = <<a[1], a[2]>> /\ a[1] = h /\ a[2] \in DOMAIN Code[a[1]]
  BY <1>1
<1>3. a[1] \in Func /\ a[2] \in Nat \ {0}
  BY <1>2 DEF PlainFunctions
<1>4. \A k \in DOMAIN Code[a[1]] : <<a[1], k>> \in Addr
  BY <1>3 DEF Addr
<1>5. LET i == Code[a[1]][a[2]]
      IN  /\ i.op \in {"op", "jmp", "br", "call", "ret"}
          /\ i.op \in {"op", "br", "call"} => a[2] + 1 \in DOMAIN Code[a[1]]
          /\ i.op \in {"jmp", "br"} => i.to \in DOMAIN Code[a[1]]
          /\ i.op = "call" => i.fn \in fs
  BY <1>2 DEF PlainFunctions
<1>6. a[2] = 1 => Code[a[1]][a[2]].op = "op"
  BY DEF PlainFunctions
<1>7. After(a) = <<a[1], a[2] + 1>> /\ InstAt(a) = Code[a[1]][a[2]] /\ a[2] + 1 # 1
  BY <1>3 DEF After, InstAt
<1> QED BY <1>2, <1>3, <1>4, <1>5, <1>6, <1>7

\* One instruction of a plain program: the stack stays, grows by a call or shrinks by a return.
LEMMA Stepping ==
  ASSUME NEW fs, PlainFunctions(fs), NEW t, Sane(t, fs), NEW u \in Succ(t)
  PROVE  Steps(t, u) /\ Sane(u, fs)
<1> DEFINE i == InstAt(t.pc)  L == Len(t.stack)
<1>1. /\ L \in Nat \ {0} /\ t.pc \in Addr /\ t.pc[1] = t.stack[L].fn /\ t.pc[1] \in fs
      /\ \A j \in 1..L : t.stack[j].fn \in fs /\ t.stack[j].ret \in Addr
  <2>1. /\ L \in Nat \ {0} /\ t.pc \in Addr /\ t.pc[1] = t.stack[L].fn
        /\ \A j \in 1..L : t.stack[j].fn \in fs /\ t.stack[j].ret \in Addr
    BY SaneFrames
  <2> HIDE DEF L
  <2>2. L \in 1..L
    BY <2>1
  <2> QED BY <2>1, <2>2
<1>2. /\ t.pc = <<t.pc[1], t.pc[2]>> /\ t.pc[2] \in Nat \ {0}
      /\ i.op \in {"op", "jmp", "br", "call", "ret"}
      /\ i.op \in {"op", "br", "call"} =>
           /\ After(t.pc) = <<t.pc[1], t.pc[2] + 1>> /\ After(t.pc) \in Addr /\ t.pc[2] + 1 # 1
      /\ i.op \in {"jmp", "br"} => <<t.pc[1], i.to>> \in Addr
      /\ i.op = "call" => i.fn \in fs
  BY <1>1, PlainInst
<1>3. /\ t = [pc |-> t.pc, stack |-> t.stack, defers |-> <<>>, panic |-> "no"]
      /\ t.stack \in Seq([fn : fs, ret : Addr]) /\ t.stack # <<>>
      /\ \A j \in 2..L : t.stack[j].ret[1] = t.stack[j-1].fn /\ t.stack[j].ret[2] # 1
  BY DEF Sane
<1>3a. t = [pc |-> t.pc, stack |-> t.stack, defers |-> <<>>, panic |-> "no"]
  BY <1>3
<1>4. fs \subseteq Func /\ \A f \in fs : Entry(f) \in Addr
  <2>1. \A f \in fs : f \in Func /\ 1 \in DOMAIN Code[f]
    BY DEF PlainFunctions
  <2> QED BY <2>1 DEF Addr, Entry
<1> HIDE DEF i, L
<1>5. CASE i.op = "op"
  <2>1. u = [t EXCEPT !.pc = After(t.pc)]
    BY <1>5 DEF Succ, i
  <2>2. /\ u = [pc |-> u.pc, stack |-> u.stack, defers |-> <<>>, panic |-> "no"]
        /\ u.pc = After(t.pc) /\ u.stack = t.stack /\ u.pc[1] = t.pc[1]
    BY <1>2, <1>3, <1>5, <2>1
  <2> QED BY <1>1, <1>2, <1>3, <1>5, <2>2 DEF Steps, Sane, Top, i, L
<1>6. CASE i.op = "jmp"
  <2>1. u = [t EXCEPT !.pc = <<t.pc[1], i.to>>]
    BY <1>6 DEF Succ, i
  <2>2. /\ u = [pc |-> u.pc, stack |-> u.stack, defers |-> <<>>, panic |-> "no"]
        /\ u.pc = <<t.pc[1], i.to>> /\ u.stack = t.stack /\ u.pc[1] = t.pc[1]
    BY <1>3a, <2>1
  <2> QED BY <1>1, <1>2, <1>3, <1>6, <2>2 DEF Steps, Sane, Top, i, L
<1>7. CASE i.op = "br"
  <2>1. u = [t EXCEPT !.pc = After(t.pc)] \/ u = [t EXCEPT !.pc = <<t.pc[1], i.to>>]
    BY <1>7 DEF Succ, i
  <2>2. /\ u = [pc |-> u.pc, stack |-> u.stack, defers |-> <<>>, panic |-> "no"]
        /\ u.pc = After(t.pc) \/ u.pc = <<t.pc[1], i.to>>
        /\ u.stack = t.stack /\ u.pc[1] = t.pc[1]
    BY <1>2, <1>3, <1>7, <2>1
  <2> QED BY <1>1, <1>2, <1>3, <1>7, <2>2 DEF Steps, Sane, Top, i, L
<1>8. CASE i.op = "call"
  <2> DEFINE new == [fn |-> i.fn, ret |-> After(t.pc)]
  <2>1. u = [t EXCEPT !.pc = Entry(i.fn), !.stack = Append(@, new)]
    BY <1>8 DEF Succ, i
  <2>2. /\ u = [pc |-> u.pc, stack |-> u.stack, defers |-> <<>>, panic |-> "no"]
        /\ u.pc = Entry(i.fn) /\ u.stack = Append(t.stack, new)
    <3> DEFINE W == Append(t.stack, new)  p == Entry(i.fn)
    <3>1. u = [t EXCEPT !.pc = p, !.stack = W]
      BY <2>1
    <3> HIDE DEF W, p
    <3>1a. /\ DOMAIN t = {"pc", "stack", "defers", "panic"} /\ t.defers = <<>> /\ t.panic = "no"
           /\ t = [x \in {"pc", "stack", "defers", "panic"} |-> t[x]]
      BY <1>3a
    <3>1b. /\ DOMAIN u = {"pc", "stack", "defers", "panic"} /\ u.defers = <<>> /\ u.panic = "no"
           /\ u.pc = p /\ u.stack = W
           /\ u = [x \in {"pc", "stack", "defers", "panic"} |-> u[x]]
      BY <3>1, <3>1a
    <3>2. u = [pc |-> p, stack |-> W, defers |-> <<>>, panic |-> "no"]
      BY <3>1b
    <3>3. /\ u = [pc |-> u.pc, stack |-> u.stack, defers |-> <<>>, panic |-> "no"]
          /\ u.pc = p /\ u.stack = W
      BY <3>2
    <3> QED BY <3>3 DEF W, p
  <2>3. new \in [fn : fs, ret : Addr] /\ new.fn = i.fn /\ new.ret = After(t.pc)
    BY <1>2, <1>8
  <2> HIDE DEF new
  <2>4. /\ Len(u.stack) = L + 1 /\ u.stack[L + 1] = new /\ \A j \in 1..L : u.stack[j] = t.stack[j]
        /\ u.stack \in Seq([fn : fs, ret : Addr]) /\ u.stack # <<>>
    BY <1>3, <2>2, <2>3 DEF L
  <2>5. \A j \in 2..L + 1 : u.stack[j].ret[1] = u.stack[j-1].fn /\ u.stack[j].ret[2] # 1
    <3> TAKE j \in 2..L + 1
    <3>1. CASE j \in 2..L
      <4>1. j - 1 \in 1..L /\ j \in 1..L
        BY <1>1, <3>1
      <4> QED BY <1>3, <2>4, <3>1, <4>1
    <3>2. CASE j = L + 1
      <4>1. j - 1 = L /\ L \in 1..L
        BY <1>1, <3>2
      <4> QED BY <1>1, <1>2, <1>8, <2>3, <2>4, <3>2, <4>1
    <3> QED BY <1>1, <3>1, <3>2
  <2>6. u.pc \in Addr /\ u.pc[1] = Top(u).fn
    BY <1>2, <1>4, <1>8, <2>2, <2>3, <2>4 DEF Top, Entry
  <2>7. Sane(u, fs)
    BY <2>2, <2>4, <2>5, <2>6 DEF Sane
  <2>8. Calls(t, u, i.fn)
    BY <1>2, <1>8, <2>2 DEF Calls, new
  <2> QED BY <1>8, <2>7, <2>8 DEF Steps, i
<1>9. CASE i.op = "ret"
  <2>1. L # 1 /\ u = [t EXCEPT !.pc = Top(t).ret, !.stack = SubSeq(@, 1, Len(@) - 1)]
    BY <1>9 DEF Succ, i, L
  <2>2. /\ u = [pc |-> u.pc, stack |-> u.stack, defers |-> <<>>, panic |-> "no"]
        /\ u.pc = t.stack[L].ret /\ u.stack = SubSeq(t.stack, 1, L - 1)
    <3> DEFINE W == SubSeq(t.stack, 1, L - 1)  p == t.stack[L].ret
    <3>1. u = [t EXCEPT !.pc = p, !.stack = W]
      BY <2>1 DEF Top, L
    <3> HIDE DEF W, p
    <3>1a. /\ DOMAIN t = {"pc", "stack", "defers", "panic"} /\ t.defers = <<>> /\ t.panic = "no"
           /\ t = [x \in {"pc", "stack", "defers", "panic"} |-> t[x]]
      BY <1>3a
    <3>1b. /\ DOMAIN u = {"pc", "stack", "defers", "panic"} /\ u.defers = <<>> /\ u.panic = "no"
           /\ u.pc = p /\ u.stack = W
           /\ u = [x \in {"pc", "stack", "defers", "panic"} |-> u[x]]
      BY <3>1, <3>1a
    <3>2. u = [pc |-> p, stack |-> W, defers |-> <<>>, panic |-> "no"]
      BY <3>1b
    <3>3. /\ u = [pc |-> u.pc, stack |-> u.stack, defers |-> <<>>, panic |-> "no"]
          /\ u.pc = p /\ u.stack = W
      BY <3>2
    <3> QED BY <3>3 DEF W, p
  <2>3. L > 1
    BY <1>1, <2>1
  <2>4. /\ Len(u.stack) = L - 1 /\ \A j \in 1..L - 1 : u.stack[j] = t.stack[j]
        /\ u.stack \in Seq([fn : fs, ret : Addr]) /\ u.stack # <<>>
    <3> DEFINE Fr == [fn : fs, ret : Addr]
    <3>1. t.stack \in Seq(Fr)
      BY <1>3
    <3> HIDE DEF Fr
    <3>2. /\ SubSeq(t.stack, 1, L - 1) \in Seq(Fr) /\ Len(SubSeq(t.stack, 1, L - 1)) = L - 1
          /\ \A j \in 1..L - 1 : SubSeq(t.stack, 1, L - 1)[j] = t.stack[j]
      BY <1>1, <2>3, <3>1 DEF L
    <3>3. SubSeq(t.stack, 1, L - 1) # <<>>
      <4> DEFINE S == SubSeq(t.stack, 1, L - 1)
      <4>1. Len(S) = L - 1 /\ L - 1 # 0
        BY <1>1, <2>3, <3>2
      <4> HIDE DEF S
      <4>2. S # <<>>
        BY <4>1
      <4> QED BY <4>2 DEF S
    <3> QED BY <2>2, <3>2, <3>3 DEF Fr
  <2>5. \A j \in 2..L - 1 : u.stack[j].ret[1] = u.stack[j-1].fn /\ u.stack[j].ret[2] # 1
    <3> TAKE j \in 2..L - 1
    <3>1. j \in 2..L /\ j - 1 \in 1..L - 1 /\ j \in 1..L - 1
      BY <1>1
    <3> QED BY <1>3, <2>4, <3>1
  <2>6. u.pc \in Addr /\ u.pc[1] = Top(u).fn
    <3>1. L \in 1..L /\ L \in 2..L /\ L - 1 \in 1..L - 1
      BY <1>1, <2>3
    <3>2. t.stack[L].ret \in Addr /\ t.stack[L].ret[1] = t.stack[L-1].fn
      BY <1>1, <1>3, <3>1
    <3>3. Top(u) = t.stack[L-1]
      BY <2>4, <3>1 DEF Top
    <3> QED BY <2>2, <3>2, <3>3
  <2>7. Sane(u, fs)
    BY <2>2, <2>4, <2>5, <2>6 DEF Sane
  <2> QED BY <1>9, <2>2, <2>3, <2>7 DEF Steps, i, L, Top
<1> QED BY <1>2, <1>5, <1>6, <1>7, <1>8, <1>9

-----------------------------------------------------------------------------
(* The functions of the stack that are in their session.                   *)

CallsStop(t) == InstAt(t.pc).op = "call" /\ InstAt(t.pc).fn = scenario.end[1]

\* The stack is finite.
LEMMA InsideFinite ==
  ASSUME NEW t, NEW region, Len(t.stack) \in Nat
  PROVE  IsFiniteSet(Inside(t, region)) /\ Inside(t, region) \subseteq 1..Len(t.stack)
<1>1. IsFiniteSet(1..Len(t.stack))
  BY FS_Interval
<1>2. Inside(t, region) \subseteq 1..Len(t.stack)
  BY DEF Inside
<1> QED BY <1>1, <1>2, FS_Subset

\* The discipline at an address of the program.
LEMMA RegionRules ==
  ASSUME NEW fs, NEW region, SessionsBracketed(fs, region), NEW a \in Addr, a[1] \in fs
  PROVE  KeepsTo(region, a)
<1>1. a = <<a[1], a[2]>> /\ a[2] \in DOMAIN Code[a[1]]
  BY PlainInst DEF SessionsBracketed
<1>2. KeepsTo(region, <<a[1], a[2]>>)
  BY <1>1 DEF SessionsBracketed
<1> QED BY <1>1, <1>2

\* A session begins with the instruction at the start point, ends with the call of the stop function, and with nothing else.
LEMMA InsideSteps ==
  ASSUME NEW fs, NEW region, SessionsBracketed(fs, region), NEW t, Sane(t, fs), NEW u \in Succ(t)
  PROVE  LET L == Len(t.stack)  I == Inside(t, region)  J == Inside(u, region) IN
         /\ t.pc = scenario.start => /\ L \notin I /\ J = I \cup {L} /\ u.pc # scenario.end
                                     /\ InstAt(t.pc).op = "op"
         /\ CallsStop(t) => L \in I /\ J = I \ {L} /\ u.pc = scenario.end /\ Len(u.stack) = L + 1
         /\ t.pc # scenario.start /\ ~CallsStop(t) => J = I /\ u.pc # scenario.end
         /\ u.pc = scenario.end => u.pc # scenario.start
<1> DEFINE L == Len(t.stack)  I == Inside(t, region)  J == Inside(u, region)  i == InstAt(t.pc)
           start == scenario.start  stop == scenario.end[1]  end == scenario.end
<1>1. /\ L \in Nat \ {0} /\ t.pc \in Addr /\ t.pc[1] \in fs
  <2>1. /\ L \in Nat \ {0} /\ t.pc \in Addr /\ t.pc[1] = t.stack[L].fn
        /\ \A j \in 1..L : t.stack[j].fn \in fs /\ t.stack[j].ret \in Addr
    BY SaneFrames
  <2> HIDE DEF L
  <2>2. L \in 1..L
    BY <2>1
  <2> QED BY <2>1, <2>2
<1>2. /\ t.pc[2] \in Nat \ {0}
      /\ i.op \in {"op", "br", "call"} =>
              After(t.pc) = <<t.pc[1], t.pc[2] + 1>> /\ After(t.pc) \in Addr /\ t.pc[2] + 1 # 1
      /\ i.op \in {"op", "jmp", "br", "call", "ret"}
  BY <1>1, PlainInst DEF SessionsBracketed
<1>3. /\ t.pc = start => i.op = "op" /\ t.pc \notin region
      /\ t.pc[2] = 1 \/ i.op = "ret" => t.pc \notin region
      /\ i.op = "op" => (After(t.pc) \in region <=> t.pc \in region \/ t.pc = start)
      /\ i.op = "br" => (After(t.pc) \in region <=> t.pc \in region)
      /\ i.op \in {"jmp", "br"} => /\ <<t.pc[1], i.to>> \in region <=> t.pc \in region
                                   /\ t.pc[1] = stop => i.to # 1
      /\ i.op = "call" => /\ i.fn = stop => t.pc \in region
                          /\ After(t.pc) \in region <=> t.pc \in region /\ i.fn # stop
  <2>1. KeepsTo(region, t.pc)
    BY <1>1, RegionRules
  <2> QED BY <2>1 DEF KeepsTo
<1>4. end = <<stop, 1>> /\ start[2] # 1
  BY DEF SessionsBracketed, Entry
<1>5. Steps(t, u)
  BY Stepping DEF SessionsBracketed
<1>6. Site(t, L) = t.pc /\ \A j \in 1..L : j # L => Site(t, j) = t.stack[j+1].ret
  BY DEF Site
<1>7. L \in 1..L
  BY <1>1
<1>8. L \in I <=> t.pc \in region
  BY <1>6, <1>7 DEF Inside
<1>9. ASSUME u.stack = t.stack
      PROVE  J = IF u.pc \in region THEN I \cup {L} ELSE I \ {L}
  <2>1. \A j \in 1..L : Site(u, j) = IF j = L THEN u.pc ELSE Site(t, j)
    BY <1>9 DEF Site
  <2> HIDE DEF L
  <2>2. J = {j \in 1..L : Site(u, j) \in region} /\ I = {j \in 1..L : Site(t, j) \in region}
    BY <1>9 DEF Inside, L
  <2> HIDE DEF I, J
  <2> QED BY <1>7, <2>1, <2>2
<1>10. CASE i.op = "op"
  <2>1. u.stack = t.stack /\ u.pc = After(t.pc)
    BY <1>5, <1>10 DEF Steps
  <2>2. u.pc # end
    BY <1>2, <1>4, <1>10, <2>1
  <2>3. ~CallsStop(t)
    BY <1>10 DEF CallsStop
  <2> HIDE DEF I, J, L
  <2> QED BY <1>3, <1>8, <1>9, <1>10, <2>1, <2>2, <2>3 DEF I, J, L
<1>11. CASE i.op \in {"jmp", "br"}
  <2>1. u.stack = t.stack /\ (u.pc = <<t.pc[1], i.to>> \/ (i.op = "br" /\ u.pc = After(t.pc)))
    BY <1>5, <1>11 DEF Steps
  <2>2. u.pc # end /\ (u.pc \in region <=> t.pc \in region) /\ t.pc # start
    BY <1>2, <1>3, <1>4, <1>11, <2>1
  <2>3. ~CallsStop(t)
    BY <1>11 DEF CallsStop
  <2> HIDE DEF I, J, L
  <2> QED BY <1>8, <1>9, <2>1, <2>2, <2>3 DEF I, J, L
<1>12. CASE i.op = "call"
  <2>1. u.pc = <<i.fn, 1>> /\ u.stack = Append(t.stack, [fn |-> i.fn, ret |-> After(t.pc)])
    BY <1>5, <1>12 DEF Steps, Calls, Entry
  <2>2. /\ Len(u.stack) = L + 1 /\ u.stack[L + 1].ret = After(t.pc)
        /\ \A j \in 1..L : u.stack[j] = t.stack[j]
    <3>1. t.stack \in Seq([fn : fs, ret : Addr])
      BY DEF Sane
    <3> QED BY <2>1, <3>1
  <2>3. u.pc \notin region
    <3>1. i.fn \in fs
      BY <1>1, <1>12, PlainInst DEF SessionsBracketed
    <3>2. i.fn \in DOMAIN Code /\ 1 \in DOMAIN Code[i.fn]
      BY <3>1 DEF SessionsBracketed, PlainFunctions, Func
    <3>3. KeepsTo(region, <<i.fn, 1>>)
      BY <3>1, <3>2 DEF SessionsBracketed
    <3>4. <<i.fn, 1>> \notin region
      BY <3>3 DEF KeepsTo
    <3> QED BY <2>1, <3>4
  <2>4. u.pc = end <=> i.fn = stop
    BY <1>4, <2>1
  <2>5. t.pc # start /\ (CallsStop(t) <=> i.fn = stop)
    BY <1>3, <1>12 DEF CallsStop
  <2> HIDE DEF L
  <2>6. \A j \in 1..L + 1 : Site(u, j) = IF j = L + 1 THEN u.pc
                                         ELSE IF j = L THEN After(t.pc) ELSE Site(t, j)
    <3> TAKE j \in 1..L + 1
    <3>1. CASE j = L + 1
      BY <2>2, <3>1 DEF Site
    <3>2. CASE j = L
      BY <1>1, <2>2, <3>2 DEF Site
    <3>3. CASE j \in 1..L /\ j # L
      <4>1. j + 1 \in 1..L /\ j # L + 1
        BY <1>1, <3>3
      <4>2. Site(u, j) = u.stack[j+1].ret
        BY <2>2, <4>1 DEF Site
      <4> QED BY <1>6, <2>2, <3>3, <4>1, <4>2
    <3> QED BY <1>1, <3>1, <3>2, <3>3
  <2>7. J = {j \in 1..L + 1 : Site(u, j) \in region} /\ I = {j \in 1..L : Site(t, j) \in region}
    BY <2>2 DEF Inside, L
  <2> HIDE DEF I, J
  <2>8. J = IF After(t.pc) \in region THEN I \cup {L} ELSE I \ {L}
    <3>1. J = {j \in 1..L : Site(u, j) \in region}
      BY <1>1, <2>3, <2>6, <2>7
    <3>2. \A j \in 1..L : Site(u, j) = IF j = L THEN After(t.pc) ELSE Site(t, j)
      BY <1>1, <2>6
    <3> QED BY <1>7, <2>7, <3>1, <3>2
  <2>9. i.fn = stop => u.pc # start
    BY <1>4, <2>1
  <2> QED BY <1>3, <1>8, <1>12, <2>2, <2>4, <2>5, <2>8, <2>9 DEF I, J, L
<1>13. CASE i.op = "ret"
  <2>1. L > 1 /\ u.pc = t.stack[L].ret /\ u.stack = SubSeq(t.stack, 1, L - 1)
    BY <1>5, <1>13 DEF Steps, Top
  <2>2. Len(u.stack) = L - 1 /\ \A j \in 1..L - 1 : u.stack[j] = t.stack[j]
    <3>1. t.stack \in Seq([fn : fs, ret : Addr])
      BY DEF Sane
    <3> QED BY <1>1, <2>1, <3>1
  <2>3. u.pc # end
    <3>1. L \in 2..L
      BY <1>1, <2>1
    <3>2. t.stack[L].ret[2] # 1
      BY <3>1 DEF Sane
    <3> QED BY <1>4, <2>1, <3>2
  <2>4. L \notin I /\ t.pc # start /\ ~CallsStop(t)
    BY <1>3, <1>8, <1>13 DEF CallsStop
  <2> HIDE DEF L
  <2>5. \A j \in 1..L - 1 : Site(u, j) = Site(t, j)
    <3> TAKE j \in 1..L - 1
    <3>1. j \in 1..L /\ j # L
      BY <1>1
    <3>2. CASE j = L - 1
      <4>1. Site(u, j) = u.pc /\ j + 1 = L
        BY <1>1, <2>2, <3>2 DEF Site
      <4> QED BY <1>6, <2>1, <3>1, <4>1
    <3>3. CASE j # L - 1
      <4>1. Site(u, j) = u.stack[j+1].ret /\ j + 1 \in 1..L - 1
        BY <1>1, <2>2, <3>3 DEF Site
      <4> QED BY <1>6, <2>2, <3>1, <4>1
    <3> QED BY <3>2, <3>3
  <2>6. J = {j \in 1..L - 1 : Site(u, j) \in region} /\ I = {j \in 1..L : Site(t, j) \in region}
    BY <2>2 DEF Inside, L
  <2> HIDE DEF I, J
  <2>7. I = J
    <3>1. \A j \in 1..L : j \in 1..L - 1 \/ j = L
      BY <1>1
    <3>2. 1..L - 1 \subseteq 1..L
      BY <1>1
    <3> QED BY <2>4, <2>5, <2>6, <3>1, <3>2
  <2> QED BY <2>3, <2>4, <2>7 DEF I, J, L
<1> QED BY <1>2, <1>10, <1>11, <1>12, <1>13

-----------------------------------------------------------------------------
(* Instructions that the tracer does not have to intercept.                *)

\* What the last known function needs is wanted.
LEMMA LastWants ==
  ASSUME NEW F \in Seq(CallingFunction), F # <<>>, NEW f, NEW a, Needs(F[Len(F)], a) > 0
  PROVE  Wants(F, f, a) > 0
<1> DEFINE G == SubSeq(F, 1, Len(F) - 1)  x == Needs(F[Len(F)], a)  y == Clearings(G, DOMAIN G, a)
<1>1. Clearings(F, DOMAIN F, a) = y + x
  BY ClearingsOfCalls
<1>2. G \in Seq(CallingFunction)
  <2>1. Len(F) - 1 \in 0..Len(F)
    OBVIOUS
  <2> QED BY <2>1
<1>3. y \in Nat /\ x \in Nat
  BY <1>2, ClearingsOfCalls, NeedsType
<1>4. x > 0
  OBVIOUS
<1> HIDE DEF x, y
<1> QED BY <1>1, <1>3, <1>4 DEF Wants

\* A call that the tracer has to see is marked and has a breakpoint.
LEMMA Intercepted ==
  ASSUME NEW s, NEW t, NEW g \in GoRoutine, NEW fs, PlainFunctions(fs), Sane(t, fs),
         TraceLevel \in Nat, Shape(s), Matches(s, t, g), NoneReturned(s, t),
         InstAt(t.pc).op = "call",
         Len(s.functions) < TraceLevel \/ Len(t.stack) = s.base
  PROVE  s.hints[t.pc] = "call" /\ Hit(s.breakpoints, t.pc, g)
<1> DEFINE F == s.functions  n == Len(F)  L == Len(t.stack)  b == t.stack[s.base].fn
<1>1. /\ n \in Nat /\ L \in Nat \ {0} /\ s.base \in 1..L
      /\ n < TraceLevel => L = s.base + n
  BY DepthOfStack
<1>2. t.pc \in Addr /\ t.pc[1] = t.stack[L].fn /\ t.stack[L].fn \in Func
  <2>1. /\ t.pc \in Addr /\ t.pc[1] = t.stack[L].fn /\ \A i \in 1..L : t.stack[i].fn \in fs
    BY SaneFrames
  <2> QED BY <1>1, <2>1 DEF PlainFunctions
<1>3. t.pc \in CallInsts(t.stack[L].fn)
  BY <1>2, CallInstsOfFunction
<1>4. F \in Seq(CallingFunction)
  BY DEF Shape
<1>5. s.hints[t.pc] = "call" /\ Wants(F, b, t.pc) > 0
  <2>1. CASE L = s.base
    <3>1. t.pc \in CallInsts(b)
      BY <1>3, <2>1
    <3>2. s.hints[t.pc] = "call"
      BY <3>1 DEF Matches, HintsMatch
    <3>3. Clearings(F, DOMAIN F, t.pc) \in Nat
      BY <1>4, ClearingsOfCalls
    <3> QED BY <3>1, <3>2, <3>3 DEF Wants
  <2>2. CASE L # s.base
    <3>1. n < TraceLevel /\ L = s.base + n /\ n > 0
      BY <1>1, <2>2
    <3>2. n \in 1..n /\ n <= TraceLevel /\ F # <<>>
      BY <1>1, <3>1
    <3>3. F[n].setCallInstBreakpoints /\ LevelOf(F[n]) = s.base + n
      BY <1>1, <3>1, <3>2 DEF Matches, DepthsMatch
    <3>4. t.stack[L] = [fn |-> F[n].fn, ret |-> F[n].returnAddress]
      <4>1. LevelOf(F[n]) <= L =>
              t.stack[LevelOf(F[n])] = [fn |-> F[n].fn, ret |-> F[n].returnAddress]
        BY <3>2 DEF Matches, FramesMatch
      <4>2. LevelOf(F[n]) = L
        BY <3>1, <3>3
      <4> HIDE DEF L, F, n
      <4>3. LevelOf(F[n]) <= L
        BY <1>1, <4>2
      <4> QED BY <4>1, <4>2, <4>3
    <3>5. t.pc \in CallInsts(F[n].fn)
      BY <1>3, <3>4
    <3>6. s.hints[t.pc] = "call"
      BY <3>2, <3>3, <3>5 DEF Matches, HintsMatch
    <3>7. Needs(F[n], t.pc) > 0
      BY <3>3, <3>5 DEF Needs
    <3>8. Wants(F, b, t.pc) > 0
      <4> HIDE DEF b
      <4> QED BY <1>4, <3>2, <3>7, LastWants
    <3> QED BY <3>6, <3>8
  <2> QED BY <2>1, <2>2
<1>6. Always(s.breakpoints, t.pc) \/ Count(s.breakpoints, t.pc, g) >= Wants(F, b, t.pc)
  BY <1>2 DEF Matches, Enough
<1>7. Wants(F, b, t.pc) \in Nat /\ Count(s.breakpoints, t.pc, g) \in Nat
  BY <1>4, WantsType, HitCounts DEF Shape
<1>8. Hit(s.breakpoints, t.pc, g) <=> Always(s.breakpoints, t.pc) \/ Count(s.breakpoints, t.pc, g) > 0
  BY HitCounts DEF Shape
<1> HIDE DEF F, n, L, b
<1> QED BY <1>5, <1>6, <1>7, <1>8

\* A return that the tracer has not seen has a breakpoint.
LEMMA ReturnNoticed ==
  ASSUME NEW s, NEW t, NEW g \in GoRoutine, NEW fs, Sane(t, fs),
         Shape(s), Matches(s, t, g), ~Hit(s.breakpoints, t.pc, g)
  PROVE  NoneReturned(s, t)
<1> DEFINE F == s.functions  n == Len(F)  L == Len(t.stack)  b == t.stack[s.base].fn
<1>1. /\ L \in Nat \ {0} /\ t.pc \in Addr /\ F \in Seq(CallingFunction) /\ n \in Nat
  BY SaneFrames DEF Shape
<1>2. SUFFICES ASSUME NEW i \in 1..n, ~(LevelOf(F[i]) <= L) PROVE FALSE
  BY DEF NoneReturned
<1>3. /\ s.base \in 1..L
      /\ \A j \in 1..n : LevelOf(F[j]) \in s.base + 1 .. L + 1
      /\ \A j, k \in 1..n : j < k => LevelOf(F[j]) < LevelOf(F[k])
      /\ \A j \in 1..n : LevelOf(F[j]) = L + 1 => t.pc = F[j].returnAddress
  BY DEF Matches, FramesMatch
<1> HIDE DEF F, n, L, b
<1>4. LevelOf(F[i]) = L + 1 /\ n \in 1..n /\ n > 0
  BY <1>1, <1>2, <1>3
<1>5. LevelOf(F[n]) \in s.base + 1 .. L + 1
  BY <1>3, <1>4
<1>6. i = n
  BY <1>1, <1>3, <1>4, <1>5
<1>7. Needs(F[n], t.pc) > 0
  BY <1>3, <1>4, <1>6 DEF Needs
<1>8. F # <<>>
  BY <1>4 DEF n
<1>9. Wants(F, b, t.pc) > 0
  BY <1>1, <1>7, <1>8, LastWants DEF n
<1>10. Always(s.breakpoints, t.pc) \/ Count(s.breakpoints, t.pc, g) >= Wants(F, b, t.pc)
  BY <1>1 DEF Matches, Enough, F, b
<1>11. Wants(F, b, t.pc) \in Nat /\ Count(s.breakpoints, t.pc, g) \in Nat
  BY <1>1, WantsType, HitCounts DEF Shape
<1>12. ~Always(s.breakpoints, t.pc) /\ ~(Count(s.breakpoints, t.pc, g) > 0)
  BY HitCounts DEF Shape
<1> QED BY <1>9, <1>10, <1>11, <1>12

\* What matched still does after an instruction that is not such a call.
LEMMA StepMatches ==
  ASSUME NEW s, NEW t, NEW u, NEW g \in GoRoutine, NEW fs, PlainFunctions(fs),
         Sane(t, fs), Sane(u, fs), Steps(t, u), TraceLevel \in Nat,
         Shape(s), Matches(s, t, g), NoneReturned(s, t),
         InstAt(t.pc).op = "call" => Len(s.functions) >= TraceLevel,
         s.base <= Len(u.stack)
  PROVE  Matches(s, u, g) /\ (Exact(s, t, g) => Exact(s, u, g))
<1> DEFINE F == s.functions  n == Len(F)  L == Len(t.stack)  M == Len(u.stack)
<1>1. /\ n \in Nat /\ L \in Nat \ {0} /\ s.base \in 1..L /\ M \in Nat \ {0}
      /\ n < TraceLevel => L = s.base + n
  BY DepthOfStack, SaneFrames
<1>2. /\ F \in Seq(CallingFunction)
      /\ \A i \in 1..n :
           /\ F[i].usedStackSize = 2 * LevelOf(F[i]) - 1
           /\ LevelOf(F[i]) \in s.base + 1 .. L + 1 /\ LevelOf(F[i]) <= L
           /\ t.stack[LevelOf(F[i])] = [fn |-> F[i].fn, ret |-> F[i].returnAddress]
      /\ \A i, j \in 1..n : i < j => LevelOf(F[i]) < LevelOf(F[j])
  BY DEF Matches, FramesMatch, NoneReturned, Shape
<1>3. /\ \A i \in 1..n : /\ F[i].setCallInstBreakpoints <=> i < TraceLevel
                         /\ i <= TraceLevel => LevelOf(F[i]) = s.base + i
      /\ s.printed = Open(F)
  BY DEF Matches, DepthsMatch
\* Where the stack of u differs from that of t.
<1>4. /\ M \in {L - 1, L, L + 1}
      /\ \A j \in 1..L : j <= M => u.stack[j] = t.stack[j]
      /\ M = L - 1 => u.pc = t.stack[L].ret /\ t.stack[L].ret[2] # 1
      /\ M = L + 1 => InstAt(t.pc).op = "call"
  <2>1. t.stack \in Seq([fn : fs, ret : Addr])
    BY DEF Sane
  <2>2. CASE u.stack = t.stack
    BY <1>1, <2>2
  <2>3. CASE InstAt(t.pc).op = "call" /\ Calls(t, u, InstAt(t.pc).fn)
    <3>1. u.stack = Append(t.stack, [fn |-> InstAt(t.pc).fn, ret |-> After(t.pc)])
      BY <2>3 DEF Calls
    <3>2. M = L + 1 /\ \A j \in 1..L : u.stack[j] = t.stack[j]
      BY <2>1, <3>1
    <3> QED BY <1>1, <2>3, <3>2
  <2>4. CASE L > 1 /\ u.pc = Top(t).ret /\ u.stack = SubSeq(t.stack, 1, L - 1)
    <3>1. M = L - 1 /\ \A j \in 1..L - 1 : u.stack[j] = t.stack[j]
      BY <1>1, <2>1, <2>4
    <3>2. L \in 2..L
      BY <1>1, <2>4
    <3>3. t.stack[L].ret[2] # 1
      BY <3>2 DEF Sane
    <3>4. u.pc = t.stack[L].ret
      BY <2>4 DEF Top
    <3> HIDE DEF L, M
    <3> QED BY <1>1, <3>1, <3>3, <3>4
  <2> QED BY <2>2, <2>3, <2>4 DEF Steps
<1> HIDE DEF F, n, L, M
<1>5. \A i \in 1..n : LevelOf(F[i]) \in Nat /\ LevelOf(F[i]) \in 1..L
  <2>1. \A i \in 1..n : LevelOf(F[i]) \in s.base + 1 .. L + 1 /\ LevelOf(F[i]) <= L
    BY <1>2
  <2> QED BY <1>1, <2>1
<1>6. s.base \in 1..M
  BY <1>1 DEF M
<1>7. u.stack[s.base] = t.stack[s.base]
  BY <1>1, <1>4, <1>6
<1>8. FramesMatch(s, u)
  <2>1. ASSUME NEW i \in 1..n
        PROVE  /\ LevelOf(F[i]) \in s.base + 1 .. M + 1
               /\ LevelOf(F[i]) <= M => u.stack[LevelOf(F[i])] = [fn |-> F[i].fn, ret |-> F[i].returnAddress]
               /\ LevelOf(F[i]) = M + 1 => u.pc = F[i].returnAddress /\ u.pc[2] # 1
    <3>1. LevelOf(F[i]) \in 1..L /\ LevelOf(F[i]) \in s.base + 1 .. L + 1
      BY <1>2, <1>5
    <3>2. LevelOf(F[i]) \in s.base + 1 .. M + 1
      BY <1>1, <1>4, <3>1
    <3>3. LevelOf(F[i]) <= M => u.stack[LevelOf(F[i])] = t.stack[LevelOf(F[i])]
      BY <1>4, <3>1
    <3>4. ASSUME LevelOf(F[i]) = M + 1 PROVE u.pc = F[i].returnAddress /\ u.pc[2] # 1
      <4>1. M = L - 1 /\ LevelOf(F[i]) = L
        BY <1>1, <1>4, <3>1, <3>4
      <4>2. t.stack[L] = [fn |-> F[i].fn, ret |-> F[i].returnAddress]
        BY <1>2, <4>1
      <4> QED BY <1>4, <4>1, <4>2
    <3> QED BY <1>2, <3>2, <3>3, <3>4
  <2> QED BY <1>2, <1>6, <2>1 DEF FramesMatch, F, n, M
<1>9. DepthsMatch(s, u)
  <2>1. n < TraceLevel => M <= s.base + n
    <3> HAVE n < TraceLevel
    <3>1. M # L + 1
      BY <1>1, <1>4 DEF n, F
    <3> QED BY <1>1, <1>4, <3>1
  <2> QED BY <1>3, <2>1 DEF DepthsMatch, F, n, M
<1>10. HintsMatch(s, u)
  BY <1>7 DEF Matches, HintsMatch
<1>11. Enough(s, u, g) /\ (Exact(s, t, g) => Exact(s, u, g))
  BY <1>7 DEF Matches, Enough, Exact
<1> QED BY <1>8, <1>9, <1>10, <1>11 DEF Matches

-----------------------------------------------------------------------------
(* What holds of one go routine and the controller's state about it.       *)

\* The go routine is traced as often as it is in a session, from the outermost on.
Counted(s, I) ==
  /\ s.tracing = Cardinality(I)
  /\ s.tracing > 0 => s.base \in I /\ \A i \in I : s.base <= i
  /\ s.tracing = 0 => s.functions = <<>>

\* The functions in a session once the trace point, if t is at one, has been handled.
Here(t, region) ==
  Inside(t, region) \cup (IF t.pc = scenario.start THEN {Len(t.stack)} ELSE {})

\* A call of the stop function that the tracer has not intercepted ends its session at
\* the breakpoint there.
Sessions(s, t, region) ==
  LET I == Inside(t, region)
  IN  IF t.pc = scenario.end THEN s.tracing > 1 /\ Counted([s EXCEPT !.tracing = @ - 1], I)
      ELSE Counted(s, I)

\* With x, the breakpoints are there not only as often as they have to be.
Fits(s, t, g, x) == Ok(s, t, g) /\ (x /\ s.tracing > 0 => Exact(s, t, g))

Local(s, t, g, fs, region, x) ==
  Sane(t, fs) /\ Shape(s) /\ Fits(s, t, g, x) /\ Sessions(s, t, region)

\* The tracer has dealt with where t is, and the next instruction need not be seen.
Dealt(s, t) ==
  s.tracing > 0 => /\ NoneReturned(s, t)
                   /\ InstAt(t.pc).op = "call" => /\ Len(s.functions) >= TraceLevel
                                                  /\ Len(t.stack) # s.base

\* Dealt with where it is, the go routine executes an instruction and all still holds.
LEMMA Executing ==
  ASSUME NEW fs, NEW region, SessionsBracketed(fs, region), NEW g \in GoRoutine, NEW x, TraceLevel \in Nat,
         NEW s, NEW t, Sane(t, fs), Shape(s), Fits(s, t, g, x), Counted(s, Here(t, region)),
         Dealt(s, t), NEW u \in Succ(t)
  PROVE  Local(s, u, g, fs, region, x)
<1> DEFINE L == Len(t.stack)  I == Inside(t, region)  J == Inside(u, region)
<1>1. PlainFunctions(fs)
  BY DEF SessionsBracketed
<1>2. Sane(u, fs) /\ Steps(t, u)
  BY <1>1, Stepping
<1>3. /\ t.pc = scenario.start => L \notin I /\ J = I \cup {L} /\ u.pc # scenario.end /\ InstAt(t.pc).op = "op"
      /\ CallsStop(t) => L \in I /\ J = I \ {L} /\ u.pc = scenario.end
      /\ t.pc # scenario.start /\ ~CallsStop(t) => J = I /\ u.pc # scenario.end
  BY InsideSteps
<1>4. /\ L \in Nat \ {0} /\ Len(u.stack) \in Nat \ {0}
      /\ IsFiniteSet(I) /\ J \subseteq 1..Len(u.stack)
  <2>1. L \in Nat \ {0} /\ Len(u.stack) \in Nat \ {0}
    BY <1>2, SaneFrames
  <2> QED BY <2>1, InsideFinite
<1>5. s.tracing \in Nat
  BY DEF Shape
<1>6. CASE CallsStop(t)
  <2>1. t.pc # scenario.start /\ InstAt(t.pc).op = "call"
    BY <1>3, <1>6 DEF CallsStop
  <2>2. Here(t, region) = I
    BY <2>1 DEF Here
  <2> HIDE DEF I, J
  <2>3. L \in I /\ J = I \ {L} /\ s.tracing = Cardinality(I)
    BY <1>3, <1>6, <2>2 DEF Counted
  <2>4. Cardinality(J) = Cardinality(I) - 1 /\ IsFiniteSet(J) /\ Cardinality(J) \in Nat
    BY <1>4, <2>3, FS_RemoveElement, FS_CardinalityType
  <2>5. s.tracing > 0
    BY <1>5, <2>3, <2>4
  <2>6. s.base \in J /\ \A i \in J : s.base <= i
    BY <2>1, <2>2, <2>3, <2>5 DEF Counted, Dealt
  <2>7. Cardinality(J) # 0
    BY <2>4, <2>6, FS_EmptySet
  <2>8. s.tracing > 1 /\ s.tracing - 1 = Cardinality(J)
    BY <1>5, <2>3, <2>4, <2>7
  <2>9. Counted([s EXCEPT !.tracing = @ - 1], J)
    <3> DEFINE w == [s EXCEPT !.tracing = @ - 1]
    <3>1. w.tracing = s.tracing - 1 /\ w.base = s.base /\ w.functions = s.functions
      BY DEF Shape
    <3> HIDE DEF w
    <3>2. w.tracing # 0
      BY <1>5, <2>8, <3>1
    <3>3. Counted(w, J)
      BY <2>6, <2>8, <3>1, <3>2 DEF Counted
    <3> QED BY <3>3 DEF w
  <2>10. Sessions(s, u, region)
    BY <1>3, <1>6, <2>8, <2>9 DEF Sessions, J
  <2>11. s.base <= Len(u.stack)
    <3>1. s.base \in 1..Len(u.stack)
      BY <1>4, <2>6 DEF J
    <3> QED BY <1>4, <3>1
  <2>12. Matches(s, u, g) /\ (Exact(s, t, g) => Exact(s, u, g))
    <3>1. Matches(s, t, g) /\ NoneReturned(s, t) /\ Len(s.functions) >= TraceLevel
      BY <2>1, <2>5 DEF Fits, Ok, Dealt
    <3> QED BY <1>1, <1>2, <2>11, <3>1, StepMatches
  <2>13. Fits(s, u, g, x)
    BY <1>5, <2>5, <2>12 DEF Fits, Ok
  <2> QED BY <1>2, <2>10, <2>13 DEF Local
<1>7. CASE ~CallsStop(t)
  <2>1. J = Here(t, region) /\ u.pc # scenario.end
    BY <1>3, <1>7 DEF Here
  <2> HIDE DEF J
  <2>2. Counted(s, J)
    BY <2>1
  <2>3. Sessions(s, u, region)
    BY <2>1, <2>2 DEF Sessions, J
  <2>4. CASE s.tracing = 0
    BY <1>2, <2>3, <2>4 DEF Local, Fits, Ok
  <2>5. CASE s.tracing > 0
    <3>1. s.base \in J
      BY <2>2, <2>5 DEF Counted
    <3>2. s.base <= Len(u.stack)
      <4>1. s.base \in 1..Len(u.stack)
        BY <1>4, <3>1 DEF J
      <4> QED BY <1>4, <4>1
    <3>3. Matches(s, u, g) /\ (Exact(s, t, g) => Exact(s, u, g))
      <4>1. /\ Matches(s, t, g) /\ NoneReturned(s, t)
            /\ InstAt(t.pc).op = "call" => Len(s.functions) >= TraceLevel
        BY <2>5 DEF Fits, Ok, Dealt
      <4> QED BY <1>1, <1>2, <3>2, <4>1, StepMatches
    <3>4. Fits(s, u, g, x)
      BY <1>5, <2>5, <3>3 DEF Fits, Ok
    <3> QED BY <1>2, <2>3, <3>4 DEF Local
  <2> QED BY <1>5, <2>4, <2>5
<1> QED BY <1>6, <1>7

\* An instruction at which the go routine is not stopped.
LEMMA Unnoticed ==
  ASSUME NEW fs, NEW region, SessionsBracketed(fs, region), NEW g \in GoRoutine, NEW x, TraceLevel \in Nat,
         NEW s, NEW t, Local(s, t, g, fs, region, x), ~Hit(s.breakpoints, t.pc, g),
         t.pc # scenario.start, t.pc # scenario.end, NEW u \in Succ(t)
  PROVE  Local(s, u, g, fs, region, x)
<1>1. Sane(t, fs) /\ Shape(s) /\ Fits(s, t, g, x) /\ Counted(s, Here(t, region))
  BY DEF Local, Sessions, Here
<1>2. Dealt(s, t)
  <2> SUFFICES ASSUME s.tracing > 0
               PROVE  /\ NoneReturned(s, t)
                      /\ InstAt(t.pc).op = "call" => /\ Len(s.functions) >= TraceLevel
                                                     /\ Len(t.stack) # s.base
    BY DEF Dealt
  <2>1. Matches(s, t, g)
    BY <1>1 DEF Fits, Ok
  <2>2. NoneReturned(s, t)
    BY <1>1, <2>1, ReturnNoticed
  <2>3. Len(s.functions) \in Nat
    BY <1>1 DEF Shape
  <2>4. InstAt(t.pc).op = "call" => ~(Len(s.functions) < TraceLevel \/ Len(t.stack) = s.base)
    BY <1>1, <2>1, <2>2, Intercepted DEF SessionsBracketed
  <2> QED BY <2>2, <2>3, <2>4
<1> QED BY <1>1, <1>2, Executing

-----------------------------------------------------------------------------
(* The parts of a handler.                                                 *)

\* The depths count from where the outermost session starts.
LEMMA EnteringBase ==
  ASSUME NEW s, Shape(s), NEW g \in GoRoutine, NEW t, t.pc[1] \in Func
  PROVE  LET u == EnterTracepoint(s, g, t)
         IN  u.base = (IF s.tracing = 0 THEN Len(t.stack) ELSE s.base)
<1> DEFINE v == SetCallInstBreakpoints(s, g, t.pc[1])  u == EnterTracepoint(s, g, t)
<1>1. u = [v EXCEPT !.tracing = @ + 1, !.base = IF s.tracing = 0 THEN Len(t.stack) ELSE @]
  BY DEF EnterTracepoint
<1>2. Becomes(s, v, g) /\ v.base = s.base
  BY SettingCalls
<1>3. DOMAIN v = {"breakpoints", "hints", "functions", "tracing", "printed", "mismatch", "base"}
  BY <1>2 DEF Becomes, Shape
<1> HIDE DEF v, u
<1>4. u.base = IF s.tracing = 0 THEN Len(t.stack) ELSE v.base
  BY <1>1, <1>3
<1> QED BY <1>2, <1>4 DEF u

\* The only trace points are those of the scenario, and they are set.
Begun == startAddressList = {scenario.start} /\ endAddressList = {scenario.end}

\* The go routine is in one of the plain functions.
LEMMA PcInFs ==
  ASSUME NEW t, NEW fs, Sane(t, fs) PROVE t.pc \in Addr /\ t.pc[1] \in fs /\ Len(t.stack) \in Nat \ {0}
<1> DEFINE L == Len(t.stack)
<1>1. /\ L \in Nat \ {0} /\ t.pc \in Addr /\ t.pc[1] = t.stack[L].fn
      /\ \A j \in 1..L : t.stack[j].fn \in fs /\ t.stack[j].ret \in Addr
  BY SaneFrames
<1> HIDE DEF L
<1>2. L \in 1..L
  BY <1>1
<1> QED BY <1>1, <1>2 DEF L

\* updateTracingStatus at an address: afterwards the go routine is counted as in Here.
LEMMA AtTracePoints ==
  ASSUME NEW fs, NEW region, SessionsBracketed(fs, region), NEW g \in GoRoutine, NEW x, Begun,
         NEW s, NEW t, Local(s, t, g, fs, region, x), x => Cardinality(Here(t, region)) <= 1
  PROVE  LET u == UpdateTracingStatus(s, g, t)
         IN  Becomes(s, u, g) /\ Fits(u, t, g, x) /\ Counted(u, Here(t, region))
<1> DEFINE u == UpdateTracingStatus(s, g, t)  I == Inside(t, region)  H == Here(t, region)  L == Len(t.stack)
<1>1. /\ Sane(t, fs) /\ Shape(s) /\ Fits(s, t, g, x) /\ Sessions(s, t, region)
      /\ s.tracing \in Nat /\ Handling(s, t, g) /\ fs \subseteq Func
  BY DEF Local, Shape, Handling, Fits, SessionsBracketed, PlainFunctions
<1>2. t.pc \in Addr /\ t.pc[1] \in fs /\ t.pc[1] \in Func /\ L \in Nat \ {0}
  BY <1>1, PcInFs
<1>3. IsFiniteSet(I) /\ I \subseteq 1..L
  BY <1>2, InsideFinite
<1>4. scenario.start # scenario.end
  BY DEF SessionsBracketed, Entry
<1>5. CASE t.pc = scenario.start
  <2>1. u = EnterTracepoint(s, g, t)
    BY <1>4, <1>5 DEF UpdateTracingStatus, IsStartAddress, IsEndAddress, Begun
  <2>2. L \notin I
    <3>1. KeepsTo(region, t.pc)
      BY <1>2, RegionRules
    <3>2. t.pc \notin region
      BY <1>5, <3>1 DEF KeepsTo
    <3> QED BY <3>2 DEF Inside, Site
  <2>3. Counted(s, I) /\ H = I \cup {L}
    BY <1>1, <1>4, <1>5 DEF Sessions, Here
  <2>4. u.base = IF s.tracing = 0 THEN L ELSE s.base
    BY <1>1, <1>2, <2>1, EnteringBase
  <2> HIDE DEF u, I, H, L
  <2>5. Cardinality(H) = Cardinality(I) + 1 /\ Cardinality(I) \in Nat
    BY <1>3, <2>2, <2>3, FS_AddElement, FS_CardinalityType
  <2>6. CASE s.tracing = 0
    <3>1. s.functions = <<>>
      BY <2>3, <2>6 DEF Counted
    <3>2. /\ Becomes(s, EnterTracepoint(s, g, t), g) /\ Ok(EnterTracepoint(s, g, t), t, g)
          /\ EnterTracepoint(s, g, t).tracing = 1 /\ EnterTracepoint(s, g, t).functions = <<>>
          /\ Exact(EnterTracepoint(s, g, t), t, g)
      BY <1>1, <2>6, <3>1, EnteringFirst, Zenon
    <3>3. Becomes(s, u, g) /\ Ok(u, t, g) /\ u.tracing = 1 /\ u.functions = <<>> /\ Exact(u, t, g)
      BY <2>1, <3>2
    <3>4. I = {}
      BY <1>3, <2>3, <2>6, FS_EmptySet DEF Counted
    <3>5. Counted(u, H)
      <4>1. H = {L} /\ u.base = L /\ Cardinality(H) = 1
        BY <2>3, <2>4, <2>5, <2>6, <3>4 DEF Counted
      <4> QED BY <1>2, <3>3, <4>1 DEF Counted
    <3> QED BY <3>3, <3>5 DEF Fits, u, H
  <2>7. CASE s.tracing > 0
    <3>1. /\ Becomes(s, EnterTracepoint(s, g, t), g) /\ Ok(EnterTracepoint(s, g, t), t, g)
          /\ EnterTracepoint(s, g, t).tracing = s.tracing + 1
          /\ EnterTracepoint(s, g, t).functions = s.functions
      BY <1>1, <1>2, <2>7, EnteringAgain, Zenon
    <3>2. Becomes(s, u, g) /\ Ok(u, t, g) /\ u.tracing = s.tracing + 1
      BY <2>1, <3>1
    <3>3. Counted(u, H)
      <4>1. s.base \in I /\ (\A i \in I : s.base <= i) /\ u.base = s.base
        BY <1>1, <2>3, <2>4, <2>7 DEF Counted
      <4>2. \A i \in H : u.base <= i
        <5>1. s.base \in 1..L
          BY <1>3, <4>1
        <5>2. s.base <= L
          BY <1>2, <5>1
        <5> QED BY <2>3, <4>1, <5>2
      <4>3. u.tracing # 0 /\ u.tracing = Cardinality(H)
        BY <1>1, <2>3, <2>5, <3>2 DEF Counted
      <4> QED BY <2>3, <4>1, <4>2, <4>3 DEF Counted
    <3>4. ~x
      BY <1>1, <2>3, <2>5, <2>7 DEF Counted, H
    <3> QED BY <3>2, <3>3, <3>4 DEF Fits, u, H
  <2> QED BY <1>1, <2>6, <2>7
<1>6. CASE t.pc = scenario.end
  <2>1. u = ExitTracepoint(s, g)
    BY <1>4, <1>6 DEF UpdateTracingStatus, IsStartAddress, IsEndAddress, Begun
  <2>2. H = I
    BY <1>4, <1>6 DEF Here
  <2>3. s.tracing > 1 /\ Counted([s EXCEPT !.tracing = @ - 1], I)
    BY <1>1, <1>6 DEF Sessions
  <2> HIDE DEF u, I, H, L
  <2>4. /\ Becomes(s, ExitTracepoint(s, g), g) /\ Ok(ExitTracepoint(s, g), t, g)
        /\ s.tracing > 1 => ExitTracepoint(s, g) = [s EXCEPT !.tracing = @ - 1]
    BY <1>1, Exiting, Zenon
  <2>5. u = [s EXCEPT !.tracing = @ - 1] /\ Becomes(s, u, g) /\ Ok(u, t, g)
    BY <2>1, <2>3, <2>4
  <2>6. u.breakpoints = s.breakpoints /\ u.functions = s.functions /\ u.base = s.base
    BY <1>1, <2>5 DEF Shape
  <2>7. Exact(s, t, g) => Exact(u, t, g)
    BY <2>6 DEF Exact
  <2>8. Fits(u, t, g, x)
    BY <1>1, <2>3, <2>5, <2>7 DEF Fits
  <2> QED BY <2>2, <2>3, <2>5, <2>8 DEF u, H
<1>7. CASE t.pc # scenario.start /\ t.pc # scenario.end
  <2>1. u = s
    BY <1>7 DEF UpdateTracingStatus, IsStartAddress, IsEndAddress, Begun
  <2>2. Counted(s, H)
    BY <1>1, <1>7 DEF Sessions, Here
  <2> QED BY <1>1, <2>1, <2>2, BecomesItself
<1> QED BY <1>5, <1>6, <1>7

\* What the handler does when it finds that a function has returned.
Returned(s, g, t) ==
  IF LastUsed(s) > UsedStackSize(t) THEN HandleTrapAfterFunctionReturn(s, g, t) ELSE s

\* The handling of a function that has returned: afterwards no known function has.
LEMMA AfterReturning ==
  ASSUME NEW fs, NEW g \in GoRoutine, NEW x, TraceLevel \in Nat, NEW I,
         NEW s, NEW t, Sane(t, fs), Shape(s), Fits(s, t, g, x), Counted(s, I), s.tracing > 0
  PROVE  LET u == Returned(s, g, t)
         IN  /\ Becomes(s, u, g) /\ Fits(u, t, g, x) /\ Counted(u, I) /\ NoneReturned(u, t)
             /\ u.tracing = s.tracing
<1> DEFINE u == Returned(s, g, t)
<1>1. Matches(s, t, g) /\ ~s.mismatch
  BY DEF Fits, Ok
<1>2. s.tracing \in Nat
  BY DEF Shape
<1>3. CASE LastUsed(s) > UsedStackSize(t)
  <2>1. u = HandleTrapAfterFunctionReturn(s, g, t)
    BY <1>3 DEF Returned
  <2> HIDE DEF u
  <2>2. LET w == HandleTrapAfterFunctionReturn(s, g, t)
         IN  /\ Becomes(s, w, g) /\ Matches(w, t, g) /\ NoneReturned(w, t)
             /\ w.tracing = s.tracing /\ w.mismatch = s.mismatch /\ w.base = s.base
             /\ Exact(s, t, g) => Exact(w, t, g)
    BY <1>1, <1>3, ReturnForgotten, Zenon
  <2>3. /\ Becomes(s, u, g) /\ Matches(u, t, g) /\ NoneReturned(u, t)
        /\ u.tracing = s.tracing /\ u.mismatch = s.mismatch /\ u.base = s.base
        /\ Exact(s, t, g) => Exact(u, t, g)
    BY <2>1, <2>2
  <2>4. Ok(u, t, g)
    BY <1>1, <1>2, <2>3 DEF Ok
  <2>5. Fits(u, t, g, x)
    BY <2>3, <2>4 DEF Fits
  <2>6. Counted(u, I)
    BY <1>2, <2>3 DEF Counted
  <2> QED BY <2>3, <2>5, <2>6 DEF u
<1>4. CASE ~(LastUsed(s) > UsedStackSize(t))
  <2>1. u = s
    BY <1>4 DEF Returned
  <2>2. FramesMatch(s, t)
    BY <1>1 DEF Matches
  <2>3. NoneReturned(s, t)
    BY <1>4, <2>2, ReturnedOrNot
  <2> QED BY <2>1, <2>3, BecomesItself
<1> QED BY <1>3, <1>4

\* Once handled, the callee is the last known function and its call is in the output.
LEMMA CalleeKnown ==
  ASSUME NEW fs, fs \subseteq Func, NEW g \in GoRoutine, NEW x, TraceLevel \in Nat, NEW I,
         NEW s, NEW t, NEW c, NEW f \in Func, Sane(t, fs), Calls(t, c, f), InstAt(c.pc).op # "call",
         Shape(s), Fits(s, t, g, x), Counted(s, I), s.tracing > 0, NoneReturned(s, t)
  PROVE  LET u == HandleTrapAtFunctionCall(s, g, c)
         IN  Becomes(s, u, g) /\ Fits(u, c, g, x) /\ Counted(u, I) /\ Dealt(u, c)
<1> DEFINE u == HandleTrapAtFunctionCall(s, g, c)
<1>1. Matches(s, t, g) /\ ~s.mismatch /\ s.tracing \in Nat
  BY DEF Fits, Ok, Shape
<1>2. LET w == HandleTrapAtFunctionCall(s, g, c)
         IN  /\ Becomes(s, w, g) /\ Matches(w, c, g) /\ NoneReturned(w, c)
             /\ w.tracing = s.tracing /\ w.mismatch = s.mismatch /\ w.base = s.base
             /\ Exact(s, t, g) => Exact(w, c, g)
  BY <1>1, CallMatches, Zenon
<1> HIDE DEF u
<1>3. /\ Becomes(s, u, g) /\ Matches(u, c, g) /\ NoneReturned(u, c)
      /\ u.tracing = s.tracing /\ u.mismatch = s.mismatch /\ u.base = s.base
      /\ Exact(s, t, g) => Exact(u, c, g)
  BY <1>2 DEF u
<1>4. Fits(u, c, g, x)
  <2>1. Ok(u, c, g)
    BY <1>1, <1>3 DEF Ok
  <2> QED BY <1>3, <2>1 DEF Fits
<1>5. Counted(u, I) /\ Dealt(u, c)
  BY <1>1, <1>3 DEF Counted, Dealt
<1> QED BY <1>3, <1>4, <1>5 DEF u

\* The step to the callee's entry, with the end point there, and what is recorded of it.
LEMMA AtCallees ==
  ASSUME NEW fs, NEW region, SessionsBracketed(fs, region), NEW g \in GoRoutine, NEW x, Begun,
         TraceLevel \in Nat,
         NEW s, NEW t, Sane(t, fs), Shape(s), Fits(s, t, g, x), Counted(s, Here(t, region)),
         s.tracing > 0, NoneReturned(s, t), InstAt(t.pc).op = "call",
         NEW c \in Succ(t), NEW v \in Succ(c)
  PROVE  LET w == UpdateTracingStatus(s, g, c)
             u == IF Tracing(w) THEN HandleTrapAtFunctionCall(w, g, c) ELSE w
         IN  Becomes(s, u, g) /\ Local(u, v, g, fs, region, x)
<1> DEFINE L == Len(t.stack)  I == Inside(t, region)  J == Inside(c, region)
           w == UpdateTracingStatus(s, g, c)
           u == IF Tracing(w) THEN HandleTrapAtFunctionCall(w, g, c) ELSE w
           f == InstAt(t.pc).fn
<1>1. PlainFunctions(fs) /\ fs \subseteq Func /\ s.tracing \in Nat
  BY DEF SessionsBracketed, PlainFunctions, Shape
<1>2. Sane(c, fs) /\ Calls(t, c, f)
  <2>1. Steps(t, c) /\ Sane(c, fs)
    BY <1>1, Stepping
  <2> QED BY <2>1 DEF Steps
<1>3. /\ t.pc = scenario.start => InstAt(t.pc).op = "op"
      /\ CallsStop(t) => L \in I /\ J = I \ {L} /\ c.pc = scenario.end
      /\ t.pc # scenario.start /\ ~CallsStop(t) => J = I /\ c.pc # scenario.end
  BY InsideSteps
<1>4. t.pc # scenario.start /\ Here(t, region) = I
  BY <1>3 DEF Here
<1>5. c.pc # scenario.start /\ Here(c, region) = J
  BY <1>2 DEF Calls, Entry, Here, SessionsBracketed
<1>6. f \in Func /\ InstAt(c.pc).op = "op"
  <2>1. c.pc \in Addr /\ c.pc[1] \in fs
    BY <1>2, PcInFs
  <2>2. c.pc = <<f, 1>>
    BY <1>2 DEF Calls, Entry
  <2>3. c.pc[1] = f /\ c.pc[2] = 1
    BY <2>2
  <2> QED BY <1>1, <2>1, <2>3, PlainInst
<1>7. L \in Nat \ {0} /\ IsFiniteSet(I) /\ I \subseteq 1..L
  BY PcInFs, InsideFinite
<1> HIDE DEF f, w, u, L, I, J
<1>8. Counted(s, I)
  BY <1>4
\* What is left to do once the callee's entry has been dealt with.
<1>9. ASSUME Becomes(s, u, g), Fits(u, c, g, x), Counted(u, J), Dealt(u, c)
      PROVE  Becomes(s, u, g) /\ Local(u, v, g, fs, region, x)
  <2>1. Shape(u)
    BY <1>9 DEF Becomes
  <2> QED BY <1>2, <1>5, <1>9, <2>1, Executing
<1>10. CASE ~CallsStop(t)
  <2>1. w = s
    BY <1>3, <1>4, <1>5, <1>10 DEF w, UpdateTracingStatus, IsStartAddress, IsEndAddress, Begun
  <2>2. u = HandleTrapAtFunctionCall(s, g, c)
    BY <1>1, <2>1 DEF u, Tracing
  <2>3. LET y == HandleTrapAtFunctionCall(s, g, c)
        IN  Becomes(s, y, g) /\ Fits(y, c, g, x) /\ Counted(y, I) /\ Dealt(y, c)
    <3>1. InstAt(c.pc).op # "call"
      BY <1>6
    <3> QED BY <1>1, <1>2, <1>6, <1>8, <3>1, CalleeKnown, Zenon
  <2>4. J = I
    BY <1>3, <1>4, <1>10
  <2> QED BY <1>9, <2>2, <2>3, <2>4 DEF u, w
<1>11. CASE CallsStop(t)
  <2>1. w = ExitTracepoint(s, g)
    BY <1>3, <1>5, <1>11 DEF w, UpdateTracingStatus, IsStartAddress, IsEndAddress, Begun
  <2>2. LET y == ExitTracepoint(s, g)
        IN  /\ Becomes(s, y, g) /\ Ok(y, t, g) /\ y.functions = s.functions
            /\ s.tracing <= 1 => y.tracing = 0
            /\ s.tracing > 1 => y.tracing = s.tracing - 1 /\ y = [s EXCEPT !.tracing = @ - 1]
    <3>1. Handling(s, t, g)
      BY DEF Handling, Fits
    <3> QED BY <3>1, Exiting, Zenon
  <2>3. /\ Becomes(s, w, g) /\ Ok(w, t, g) /\ w.functions = s.functions
        /\ s.tracing <= 1 => w.tracing = 0
        /\ s.tracing > 1 => w.tracing = s.tracing - 1 /\ w = [s EXCEPT !.tracing = @ - 1]
    BY <2>1, <2>2
  <2>4. /\ L \in I /\ J = I \ {L} /\ Cardinality(J) = Cardinality(I) - 1
        /\ s.tracing = Cardinality(I) /\ s.base \in I /\ (\A i \in I : s.base <= i)
    BY <1>3, <1>7, <1>8, <1>11, FS_RemoveElement DEF Counted
  <2>5. CASE s.tracing <= 1
    <3>1. s.tracing = 1 /\ w.tracing = 0 /\ u = w
      BY <1>1, <2>3, <2>5 DEF u, Tracing
    <3>2. J = {} /\ s.base = L
      <4>1. Cardinality(J) = 0 /\ IsFiniteSet(J)
        BY <1>7, <2>4, <3>1, FS_RemoveElement
      <4>2. J = {}
        BY <4>1, FS_EmptySet
      <4> QED BY <2>4, <4>2
    <3>3. s.functions = <<>>
      <4>1. Matches(s, t, g)
        BY DEF Fits, Ok
      <4>2. s.functions \in Seq(CallingFunction)
        BY DEF Shape
      <4>3. \A i \in 1..Len(s.functions) :
              LevelOf(s.functions[i]) \in s.base + 1 .. L + 1 /\ LevelOf(s.functions[i]) <= L
        BY <4>1 DEF Matches, FramesMatch, NoneReturned, L
      <4>4. \A i \in 1..Len(s.functions) : FALSE
        BY <1>7, <3>2, <4>3
      <4>5. Len(s.functions) = 0
        BY <4>2, <4>4
      <4> QED BY <4>2, <4>5
    <3>4. Cardinality({}) = 0
      BY FS_EmptySet
    <3>5. Counted(w, J)
      BY <2>3, <3>1, <3>2, <3>3, <3>4 DEF Counted
    <3>6. Fits(w, c, g, x)
      BY <2>3, <3>1 DEF Fits, Ok
    <3>7. Dealt(w, c)
      BY <3>1 DEF Dealt
    <3> QED BY <1>9, <2>3, <3>1, <3>5, <3>6, <3>7 DEF u, w
  <2>6. CASE s.tracing > 1
    <3>1. w = [s EXCEPT !.tracing = @ - 1] /\ w.tracing = s.tracing - 1 /\ w.tracing > 0
      BY <1>1, <2>3, <2>6
    <3>2. /\ w.breakpoints = s.breakpoints /\ w.functions = s.functions /\ w.base = s.base
      BY <3>1 DEF Shape
    <3>3. s.base # L
      <4>1. SUFFICES ASSUME s.base = L PROVE FALSE
        OBVIOUS
      <4>2. I = {L}
        <5>1. \A i \in I : i \in Nat /\ i <= L /\ L <= i
          BY <1>7, <2>4, <4>1
        <5>2. \A i \in I : i = L
          BY <1>7, <5>1
        <5> QED BY <2>4, <5>2
      <4>3. Cardinality(I) = 1
        BY <4>2, FS_Singleton
      <4> QED BY <2>4, <2>6, <4>3
    <3>4. Counted(w, J)
      BY <2>4, <3>1, <3>2, <3>3 DEF Counted
    <3>5. Shape(w) /\ Fits(w, t, g, x) /\ NoneReturned(w, t)
      <4>1. Exact(s, t, g) => Exact(w, t, g)
        BY <3>2 DEF Exact
      <4> QED BY <2>3, <2>6, <3>2, <4>1 DEF Becomes, Fits, NoneReturned
    <3>6. u = HandleTrapAtFunctionCall(w, g, c)
      BY <3>1 DEF u, Tracing
    <3>7. LET y == HandleTrapAtFunctionCall(w, g, c)
          IN  Becomes(w, y, g) /\ Fits(y, c, g, x) /\ Counted(y, J) /\ Dealt(y, c)
      <4>1. InstAt(c.pc).op # "call"
        BY <1>6
      <4> QED BY <1>1, <1>2, <1>6, <3>1, <3>4, <3>5, <4>1, CalleeKnown, Zenon
    <3>8. Becomes(w, u, g) /\ Fits(u, c, g, x) /\ Counted(u, J) /\ Dealt(u, c)
      BY <3>6, <3>7
    <3>9. Becomes(s, u, g)
      BY <2>3, <3>8, BecomesTwice
    <3> QED BY <1>9, <3>8, <3>9 DEF u, w
  <2> QED BY <1>1, <2>5, <2>6
<1> QED BY <1>10, <1>11

\* Nothing changed for g but that trace points were set and hints added.
KeptFor(s, w, g) ==
  /\ w.tracing = s.tracing /\ w.functions = s.functions /\ w.printed = s.printed
  /\ w.base = s.base /\ ~w.mismatch
  /\ \A a \in Addr : s.hints[a] = "call" => w.hints[a] = "call"
  /\ \A a \in Addr : \/ Always(w.breakpoints, a)
                     \/ /\ ~Always(s.breakpoints, a)
                        /\ Count(w.breakpoints, a, g) = Count(s.breakpoints, a, g)

\* Trace points and hints that are added for others do no harm.
LEMMA Keeping ==
  ASSUME NEW fs, fs \subseteq Func, NEW region, NEW g \in GoRoutine, NEW x,
         NEW s, NEW w, NEW t, Sane(t, fs), Shape(s), Shape(w), KeptFor(s, w, g), Fits(s, t, g, x)
  PROVE  Fits(w, t, g, x) /\ (Sessions(s, t, region) => Sessions(w, t, region))
<1>1. s.tracing \in Nat /\ Table(s.breakpoints) /\ Table(w.breakpoints)
  BY DEF Shape
<1>2. Exact(s, t, g) => Exact(w, t, g)
  BY DEF KeptFor, Exact
<1>3. ASSUME s.tracing > 0 PROVE Matches(w, t, g)
  <2>1. Matches(s, t, g)
    BY <1>3 DEF Fits, Ok
  <2>2. t.stack[s.base].fn \in Func
    <3>1. s.base \in 1..Len(t.stack)
      BY <2>1 DEF Matches, FramesMatch
    <3>2. \A i \in 1..Len(t.stack) : t.stack[i].fn \in fs
      BY SaneFrames
    <3> QED BY <3>1, <3>2
  <2>3. \A f \in Func : CallInsts(f) \subseteq Addr
    BY CallInstsOfFunction
  <2>4. \A a \in Addr : Count(s.breakpoints, a, g) \in Nat
    BY <1>1, HitCounts
  <2>5. \A a \in Addr : \/ Always(w.breakpoints, a)
                         \/ /\ ~Always(s.breakpoints, a)
                            /\ Count(w.breakpoints, a, g) >= Count(s.breakpoints, a, g)
    BY <2>4 DEF KeptFor
  <2>6. /\ w.functions = s.functions /\ w.base = s.base /\ w.printed = s.printed
        /\ \A a \in Addr : s.hints[a] = "call" => w.hints[a] = "call"
    BY DEF KeptFor
  <2> QED BY <1>1, <2>1, <2>2, <2>3, <2>5, <2>6, MatchesMore
<1>4. Ok(w, t, g)
  BY <1>1, <1>3 DEF Fits, Ok, KeptFor, QuietFor
<1>5. Fits(w, t, g, x)
  BY <1>2, <1>4 DEF Fits, KeptFor
<1>6. ASSUME Sessions(s, t, region) PROVE Sessions(w, t, region)
  <2> DEFINE I == Inside(t, region)
             s1 == [s EXCEPT !.tracing = @ - 1]  w1 == [w EXCEPT !.tracing = @ - 1]
  <2>1. /\ w.tracing = s.tracing /\ w.functions = s.functions /\ w.base = s.base
    BY DEF KeptFor
  <2>2. s1.tracing = w1.tracing /\ s1.functions = w1.functions /\ s1.base = w1.base
    BY <2>1 DEF Shape
  <2> HIDE DEF s1, w1, I
  <2>3. (Counted(s, I) => Counted(w, I)) /\ (Counted(s1, I) => Counted(w1, I))
    BY <2>1, <2>2 DEF Counted
  <2> QED BY <1>6, <2>1, <2>3 DEF Sessions, I, s1, w1
<1> QED BY <1>5, <1>6

-----------------------------------------------------------------------------
(* Sessions that do not nest.                                              *)

\* A function is where its code is.
LEMMA SiteFunction ==
  ASSUME NEW t, NEW fs, Sane(t, fs), NEW i \in 1..Len(t.stack)
  PROVE  Site(t, i)[1] = t.stack[i].fn
<1> DEFINE L == Len(t.stack)
<1>1. L \in Nat \ {0} /\ t.pc[1] = t.stack[L].fn
  BY SaneFrames
<1>2. \A j \in 2..L : t.stack[j].ret[1] = t.stack[j-1].fn
  BY DEF Sane
<1>3. CASE i = L
  BY <1>1, <1>3 DEF Site
<1>4. CASE i # L
  <2>1. i + 1 \in 2..L /\ (i + 1) - 1 = i
    BY <1>1, <1>4
  <2>2. t.stack[i+1].ret[1] = t.stack[(i+1)-1].fn
    BY <1>2, <2>1
  <2> QED BY <1>4, <2>1, <2>2 DEF Site
<1> QED BY <1>3, <1>4

\* Above a function in its session there are only such functions.
Lone(t, region, inner) ==
  \A i \in Inside(t, region) : \A j \in i + 1 .. Len(t.stack) : t.stack[j].fn \in inner

\* With no sessions within sessions there is at most one at a time.
LEMMA AtMostOne ==
  ASSUME NEW fs, NEW region, NEW inner, Unnested(fs, region, inner), NEW t, Sane(t, fs),
         Lone(t, region, inner)
  PROVE  Cardinality(Here(t, region)) <= 1
<1> DEFINE L == Len(t.stack)  I == Inside(t, region)  H == Here(t, region)
<1>1. L \in Nat \ {0} /\ I \subseteq 1..L /\ IsFiniteSet(I) /\ t.pc[1] = t.stack[L].fn
  <2>1. L \in Nat \ {0} /\ t.pc[1] = t.stack[L].fn
    BY SaneFrames
  <2> QED BY <2>1, InsideFinite
<1>2. \A i, j \in I : i < j => FALSE
  <2> SUFFICES ASSUME NEW i \in I, NEW j \in I, i < j PROVE FALSE
    OBVIOUS
  <2>1. j \in i + 1 .. L
    BY <1>1
  <2>2. t.stack[j].fn \in inner
    BY <2>1 DEF Lone
  <2>3. Site(t, j)[1] = t.stack[j].fn
    BY <1>1, SiteFunction
  <2>4. Site(t, j) \in region
    BY DEF Inside
  <2> QED BY <2>2, <2>3, <2>4 DEF Unnested
<1>3. ASSUME t.pc = scenario.start PROVE I \subseteq {L}
  <2> SUFFICES ASSUME NEW i \in I, i # L PROVE FALSE
    OBVIOUS
  <2>1. L \in i + 1 .. L
    BY <1>1
  <2>2. t.stack[L].fn \in inner
    BY <2>1 DEF Lone
  <2> QED BY <1>1, <1>3, <2>2 DEF Unnested
<1> HIDE DEF L, I, H
<1>4. \A i, j \in H : i = j
  <2>1. \A i, j \in I : i = j
    <3> TAKE i \in I, j \in I
    <3>1. i \in Nat /\ j \in Nat
      BY <1>1
    <3> QED BY <1>2, <3>1
  <2>2. H = I \cup (IF t.pc = scenario.start THEN {L} ELSE {})
    BY DEF H, I, L, Here
  <2> QED BY <1>3, <2>1, <2>2
<1>5. CASE H = {}
  BY <1>5, FS_EmptySet DEF H
<1>6. CASE H # {}
  <2>1. PICK i : i \in H
    BY <1>6
  <2>2. H = {i}
    BY <1>4, <2>1
  <2>3. Cardinality({i}) = 1
    BY FS_Singleton
  <2> QED BY <2>2, <2>3 DEF H
<1> QED BY <1>5, <1>6

\* No instruction makes a second session.
LEMMA LoneSteps ==
  ASSUME NEW fs, NEW region, NEW inner, SessionsBracketed(fs, region), Unnested(fs, region, inner),
         NEW t, Sane(t, fs), Lone(t, region, inner), NEW u \in Succ(t)
  PROVE  Lone(u, region, inner)
<1> DEFINE L == Len(t.stack)  I == Inside(t, region)  J == Inside(u, region)  M == Len(u.stack)
<1>1. /\ L \in Nat \ {0} /\ M \in Nat \ {0} /\ I \subseteq 1..L /\ J \subseteq 1..M
      /\ Steps(t, u) /\ t.pc \in Addr /\ t.pc[1] = t.stack[L].fn /\ t.pc[1] \in fs
  <2>1. Sane(u, fs) /\ Steps(t, u)
    BY Stepping DEF SessionsBracketed
  <2>2. L \in Nat \ {0} /\ M \in Nat \ {0}
    BY <2>1, SaneFrames
  <2>3. I \subseteq 1..L /\ J \subseteq 1..M
    BY <2>2, InsideFinite
  <2>4. t.pc[1] = t.stack[L].fn
    BY SaneFrames
  <2>5. t.pc \in Addr /\ t.pc[1] \in fs
    BY PcInFs
  <2> QED BY <2>1, <2>2, <2>3, <2>4, <2>5
<1>2. /\ J \subseteq I \cup {L}
      /\ InstAt(t.pc).op = "call" => J \subseteq I /\ (CallsStop(t) => L \notin J)
  BY InsideSteps DEF CallsStop
<1>3. \A i \in I : \A j \in i + 1 .. L : t.stack[j].fn \in inner
  BY DEF Lone
<1>4. L \in I => t.pc \in region
  BY DEF Inside, Site
<1> SUFFICES ASSUME NEW i \in J, NEW j \in i + 1 .. M PROVE u.stack[j].fn \in inner
  BY DEF Lone
<1> HIDE DEF L, I, J, M
<1>5. i \in Nat /\ j \in Nat /\ i < j /\ j <= M
  BY <1>1
<1>6. CASE u.stack = t.stack
  <2>1. M = L
    BY <1>6 DEF M, L
  <2>2. i \in I /\ j \in i + 1 .. L
    BY <1>1, <1>2, <1>5, <2>1
  <2> QED BY <1>3, <1>6, <2>2
<1>7. CASE InstAt(t.pc).op = "call" /\ Calls(t, u, InstAt(t.pc).fn)
  <2> DEFINE f == InstAt(t.pc).fn
  <2>1. M = L + 1 /\ u.stack[L + 1].fn = f /\ \A k \in 1..L : u.stack[k] = t.stack[k]
    <3>1. t.stack \in Seq([fn : fs, ret : Addr])
      BY DEF Sane
    <3>2. u.stack = Append(t.stack, [fn |-> f, ret |-> After(t.pc)])
      BY <1>7 DEF Calls
    <3> QED BY <3>1, <3>2 DEF M, L
  <2>2. i \in I
    BY <1>2, <1>7
  <2>3. CASE j <= L
    <3>1. j \in i + 1 .. L /\ j \in 1..L
      BY <1>1, <1>5, <2>3
    <3> QED BY <1>3, <2>1, <2>2, <3>1
  <2>4. CASE j = L + 1
    <3>1. t.pc = <<t.pc[1], t.pc[2]>> /\ t.pc[2] \in DOMAIN Code[t.pc[1]] /\ InstAt(t.pc) = Code[t.pc[1]][t.pc[2]]
      BY <1>1, PlainInst DEF SessionsBracketed
    <3>2. t.pc[1] \in inner \/ (t.pc \in region /\ f # scenario.end[1])
      <4>1. CASE i = L
        BY <1>2, <1>4, <1>7, <2>2, <4>1 DEF CallsStop
      <4>2. CASE i # L
        <5>1. L \in i + 1 .. L
          BY <1>1, <1>5, <2>2, <4>2
        <5> QED BY <1>1, <1>3, <2>2, <5>1
      <4> QED BY <4>1, <4>2
    <3>3. LET inst == Code[t.pc[1]][t.pc[2]]
          IN  inst.op = "call" /\ (t.pc[1] \in inner \/ (<<t.pc[1], t.pc[2]>> \in region /\ inst.fn # scenario.end[1])) =>
                inst.fn \in inner
      BY <1>1, <3>1 DEF Unnested
    <3>4. f \in inner
      BY <1>7, <3>1, <3>2, <3>3
    <3> QED BY <2>1, <2>4, <3>4
  <2> QED BY <1>1, <1>5, <2>1, <2>3, <2>4
<1>8. CASE InstAt(t.pc).op = "ret" /\ L > 1 /\ u.stack = SubSeq(t.stack, 1, L - 1)
  <2>1. M = L - 1 /\ \A k \in 1..L - 1 : u.stack[k] = t.stack[k]
    <3>1. t.stack \in Seq([fn : fs, ret : Addr])
      BY DEF Sane
    <3> QED BY <1>1, <1>8, <3>1 DEF M, L
  <2>2. i \in I /\ j \in i + 1 .. L /\ j \in 1..L - 1
    BY <1>1, <1>2, <1>5, <2>1
  <2> QED BY <1>3, <2>1, <2>2
<1> QED BY <1>1, <1>6, <1>7, <1>8 DEF Steps, L

-----------------------------------------------------------------------------
(* The invariant.                                                          *)

\* Before the trace points are set nothing runs.
Awaiting ==
  /\ pendingStartTracePoint \in Seq({scenario.start}) /\ pendingEndTracePoint \in Seq({scenario.end})
  /\ \/ Begun /\ Always(breakpoints, scenario.start) /\ Always(breakpoints, scenario.end)
     \/ /\ startAddressList = {} /\ endAddressList = {}
        /\ pendingStartTracePoint # <<>> /\ pendingEndTracePoint # <<>>
        /\ trapped = {} /\ held = GoRoutine /\ phase # "waiting"

\* s is the controller's state about g, which is in state t.
Followed(s, t, g, fs, region, inner) ==
  /\ Sane(t, fs) /\ Shape(s) /\ Fits(s, t, g, Unnested(fs, region, inner))
  /\ g \in SystemRoutine => s.tracing = 0
  /\ g \notin SystemRoutine => /\ Sessions(s, t, region)
                               /\ Unnested(fs, region, inner) => Lone(t, region, inner)

\* Every go routine has its entries, and no return was printed without its call.
Arrays ==
  /\ DOMAIN goRoutines = GoRoutine /\ DOMAIN statusStore = GoRoutine
  /\ DOMAIN tracingGoRoutines = GoRoutine /\ DOMAIN printed = GoRoutine /\ DOMAIN base = GoRoutine
  /\ mismatched = {}

Following(fs, region, inner) ==
  /\ Arrays /\ Awaiting
  /\ \A g \in GoRoutine : Followed(State(g), goRoutines[g], g, fs, region, inner)

\* The parts of the state.
LEMMA StateFields ==
  ASSUME NEW g
  PROVE  /\ State(g).breakpoints = breakpoints /\ State(g).hints = breakpointHints
         /\ State(g).functions = statusStore[g] /\ State(g).tracing = tracingGoRoutines[g]
         /\ State(g).printed = printed[g] /\ State(g).base = base[g]
         /\ State(g).mismatch = (g \in mismatched)
         /\ DOMAIN State(g) = {"breakpoints", "hints", "functions", "tracing", "printed", "mismatch", "base"}
BY DEF State

\* A go routine that is not stopped by a breakpoint executes its instruction.
LEMMA PassingOn ==
  ASSUME NEW fs, NEW region, NEW inner, SessionsBracketed(fs, region), TraceLevel \in Nat,
         NEW g \in GoRoutine, g \notin SystemRoutine,
         NEW s, NEW t, Followed(s, t, g, fs, region, inner), ~Hit(s.breakpoints, t.pc, g),
         t.pc # scenario.start, t.pc # scenario.end, NEW u \in Succ(t)
  PROVE  Followed(s, u, g, fs, region, inner)
<1> DEFINE x == Unnested(fs, region, inner)
<1>1. Local(s, t, g, fs, region, x) /\ (x => Lone(t, region, inner))
  BY DEF Followed, Local
<1> HIDE DEF x
<1>2. Local(s, u, g, fs, region, x)
  BY <1>1, Unnoticed
<1>3. x => Lone(u, region, inner)
  BY <1>1, LoneSteps DEF x, Local
<1> QED BY <1>2, <1>3 DEF Followed, Local, x

\* A system routine is never traced.
LEMMA SystemSteps ==
  ASSUME NEW fs, NEW region, NEW inner, SessionsBracketed(fs, region),
         NEW g \in SystemRoutine, NEW s, NEW t, Followed(s, t, g, fs, region, inner), NEW u \in Succ(t)
  PROVE  Followed(s, u, g, fs, region, inner)
<1>1. Sane(u, fs)
  BY Stepping DEF SessionsBracketed, Followed
<1>2. s.tracing = 0
  BY DEF Followed
<1> QED BY <1>1, <1>2 DEF Followed, Fits, Ok

\* What the handler of a trap leaves behind.
LEMMA HandlersFollow ==
  ASSUME NEW fs, NEW region, NEW inner, SessionsBracketed(fs, region), TraceLevel \in Nat,
         Following(fs, region, inner), NEW g \in GoRoutine, HandleTrap(g)
  PROVE  \E s, u : Handled(g, s, u) /\ Becomes(State(g), s, g) /\ Followed(s, u, g, fs, region, inner)
<1> DEFINE t == goRoutines[g]  x == Unnested(fs, region, inner)  s0 == State(g)
           s1 == AtTracePoint(g)  s2 == AfterReturns(g)
<1>1. Followed(s0, t, g, fs, region, inner) /\ Shape(s0) /\ Sane(t, fs)
  BY DEF Following, Followed
<1>2. Begun /\ Always(breakpoints, scenario.start) /\ Always(breakpoints, scenario.end)
  <2>1. phase = "waiting"
    BY DEF HandleTrap, HandleTrapAtUnrelatedBreakpoint, HandleTrapUntraced, HandleTrapWithoutHint,
           HandleTrapBeforeFunctionCall, HandleTrapAtDeferredFuncCall, OwnBreakpoint, CanHandle
  <2> QED BY <2>1 DEF Following, Awaiting
<1>3. CASE HandleTrapAtUnrelatedBreakpoint(g)
  <2>1. PICK u \in Succ(t) : Handled(g, s0, u)
    BY <1>3 DEF HandleTrapAtUnrelatedBreakpoint
  <2>2. Followed(s0, u, g, fs, region, inner)
    <3>1. CASE g \in SystemRoutine
      BY <1>1, <3>1, SystemSteps
    <3>2. CASE g \notin SystemRoutine
      <4>1. ~Hit(breakpoints, t.pc, g)
        BY <1>3, <3>2 DEF HandleTrapAtUnrelatedBreakpoint
      <4>2. t.pc # scenario.start /\ t.pc # scenario.end
        BY <1>2, <4>1 DEF Hit, Exist, BreakpointHit, Always
      <4>3. ~Hit(s0.breakpoints, t.pc, g)
        BY <4>1, StateFields
      <4> HIDE DEF s0, t
      <4> QED BY <1>1, <3>2, <4>2, <4>3, PassingOn
    <3> QED BY <3>1, <3>2
  <2>3. Becomes(s0, s0, g)
    BY <1>1, BecomesItself
  <2> QED BY <2>1, <2>2, <2>3
<1>4. CASE ~HandleTrapAtUnrelatedBreakpoint(g)
  <2>1. g \notin SystemRoutine
    BY <1>4 DEF HandleTrap, HandleTrapUntraced, HandleTrapWithoutHint,
           HandleTrapBeforeFunctionCall, HandleTrapAtDeferredFuncCall, OwnBreakpoint
  <2>2. Local(s0, t, g, fs, region, x) /\ (x => Lone(t, region, inner))
    BY <1>1, <2>1 DEF Followed, Local
  <2>3. x => Cardinality(Here(t, region)) <= 1
    BY <1>1, <2>2, AtMostOne
  <2>4. s1 = UpdateTracingStatus(s0, g, t) /\ s2 = Returned(s1, g, t)
    BY DEF AtTracePoint, AfterReturns, Returned
  \* It remains to follow the controller's part of the state.
  <2>5. ASSUME NEW s, NEW u, Handled(g, s, u), Becomes(s0, s, g), Local(s, u, g, fs, region, x),
               x => Lone(u, region, inner)
        PROVE  \E w, v : Handled(g, w, v) /\ Becomes(State(g), w, g) /\ Followed(w, v, g, fs, region, inner)
    <3>1. Followed(s, u, g, fs, region, inner)
      BY <2>1, <2>5 DEF Followed, Local
    <3> QED BY <2>5, <3>1
  <2> HIDE DEF s0, t, x, s1, s2
  <2>6. Becomes(s0, s1, g) /\ Fits(s1, t, g, x) /\ Counted(s1, Here(t, region)) /\ Shape(s1)
    <3>1. LET w == UpdateTracingStatus(s0, g, t)
          IN  Becomes(s0, w, g) /\ Fits(w, t, g, x) /\ Counted(w, Here(t, region))
      BY <1>2, <2>2, <2>3, AtTracePoints, Zenon
    <3> QED BY <2>4, <3>1 DEF Becomes
  <2>7. ASSUME NEW u \in Succ(t) PROVE x => Lone(u, region, inner)
    BY <1>1, <2>2, LoneSteps DEF x
  <2>8. CASE HandleTrapUntraced(g)
    <3>1. PICK u \in Succ(t) : Handled(g, s1, u)
      BY <2>8 DEF HandleTrapUntraced, s1, t
    <3>2. ~(s1.tracing > 0)
      BY <2>8 DEF HandleTrapUntraced, Tracing, s1
    <3>3. Local(s1, u, g, fs, region, x)
      BY <1>1, <2>6, <3>2, Executing DEF Dealt
    <3> QED BY <2>5, <2>6, <2>7, <3>1, <3>3
  <2>9. ASSUME s1.tracing > 0
        PROVE  /\ Becomes(s0, s2, g) /\ Fits(s2, t, g, x) /\ Counted(s2, Here(t, region))
               /\ NoneReturned(s2, t) /\ s2.tracing > 0 /\ Shape(s2)
    <3> DEFINE H == Here(t, region)
    <3> HIDE DEF H
    <3>0. Sane(t, fs) /\ Shape(s1) /\ Fits(s1, t, g, x) /\ Counted(s1, H) /\ s1.tracing > 0
      BY <1>1, <2>6, <2>9 DEF H
    <3>1. LET w == Returned(s1, g, t)
          IN  /\ Becomes(s1, w, g) /\ Fits(w, t, g, x) /\ Counted(w, H) /\ NoneReturned(w, t)
              /\ w.tracing = s1.tracing
      BY <3>0, AfterReturning
    <3>2. /\ Becomes(s1, s2, g) /\ Fits(s2, t, g, x) /\ Counted(s2, Here(t, region))
          /\ NoneReturned(s2, t) /\ s2.tracing = s1.tracing
      BY <2>4, <3>1 DEF H
    <3>3. Becomes(s0, s2, g) /\ Shape(s2)
      BY <2>6, <3>2, BecomesTwice DEF Becomes
    <3> QED BY <2>9, <3>2, <3>3
  <2>10. CASE HandleTrapWithoutHint(g)
    <3>1. PICK u \in Succ(t) : Handled(g, s2, u)
      BY <2>10 DEF HandleTrapWithoutHint, s2, t
    <3>2. s1.tracing > 0 /\ s2.hints[t.pc] = "unknown"
      BY <2>10 DEF HandleTrapWithoutHint, Tracing, s1, s2, t
    <3>3. Matches(s2, t, g) /\ Len(s2.functions) \in Nat
      BY <2>9, <3>2 DEF Fits, Ok, Shape
    <3>4. InstAt(t.pc).op = "call" => ~(Len(s2.functions) < TraceLevel \/ Len(t.stack) = s2.base)
      BY <1>1, <2>9, <3>2, <3>3, Intercepted DEF SessionsBracketed
    <3>5. Dealt(s2, t)
      BY <2>9, <3>2, <3>3, <3>4 DEF Dealt
    <3>6. Local(s2, u, g, fs, region, x)
      BY <1>1, <2>9, <3>2, <3>5, Executing
    <3> QED BY <2>5, <2>7, <2>9, <3>1, <3>2, <3>6
  <2>11. CASE HandleTrapBeforeFunctionCall(g)
    <3>0. PICK c \in Succ(t) : \E u \in Succ(c) : Handled(g, AtCallee(g, c), u)
      BY <2>11 DEF HandleTrapBeforeFunctionCall, t
    <3>1. PICK u \in Succ(c) : Handled(g, AtCallee(g, c), u)
      BY <3>0
    <3>2. s1.tracing > 0 /\ s2.hints[t.pc] = "call"
      BY <2>11 DEF HandleTrapBeforeFunctionCall, Tracing, s1, s2, t
    <3>3. InstAt(t.pc).op = "call"
      <4>1. t.pc \in Addr
        BY <1>1, PcInFs
      <4> QED BY <2>9, <3>2, <4>1 DEF Shape, Hints
    <3> DEFINE s3 == AtCallee(g, c)
    <3>4. s3 = LET w == UpdateTracingStatus(s2, g, c)
               IN  IF Tracing(w) THEN HandleTrapAtFunctionCall(w, g, c) ELSE w
      BY DEF AtCallee, s2
    <3>5. LET w == UpdateTracingStatus(s2, g, c)
              y == IF Tracing(w) THEN HandleTrapAtFunctionCall(w, g, c) ELSE w
          IN  Becomes(s2, y, g) /\ Local(y, u, g, fs, region, x)
      BY <1>1, <1>2, <2>9, <3>2, <3>3, AtCallees, Zenon
    <3> HIDE DEF s3
    <3>6. Becomes(s2, s3, g) /\ Local(s3, u, g, fs, region, x)
      BY <3>4, <3>5
    <3>7. Becomes(s0, s3, g)
      BY <2>9, <3>2, <3>6, BecomesTwice
    <3>8. x => Lone(u, region, inner)
      <4>1. Sane(c, fs)
        BY <1>1, Stepping DEF SessionsBracketed
      <4> QED BY <2>7, <4>1, LoneSteps DEF x
    <3> QED BY <2>5, <3>1, <3>6, <3>7, <3>8 DEF s3
  <2>12. CASE HandleTrapAtDeferredFuncCall(g)
    <3>1. s1.tracing > 0 /\ s2.hints[t.pc] = "deferred"
      BY <2>12 DEF HandleTrapAtDeferredFuncCall, Tracing, s1, s2, t
    <3>2. t.pc \in Addr
      BY <1>1, PcInFs
    <3> QED BY <2>9, <3>1, <3>2 DEF Shape, Hints
  <2> QED BY <1>4, <2>8, <2>10, <2>11, <2>12 DEF HandleTrap
<1> QED BY <1>3, <1>4

\* At the start no session has begun.
LEMMA InitFollows ==
  ASSUME NEW fs, NEW region, NEW inner, SessionsBracketed(fs, region), Init
  PROVE  Following(fs, region, inner)
<1>1. Arrays
  BY DEF Init, Arrays
<1>2. Awaiting
  <2>1. <<scenario.start>> \in Seq({scenario.start}) /\ <<scenario.start>> # <<>>
    OBVIOUS
  <2>2. <<scenario.end>> \in Seq({scenario.end}) /\ <<scenario.end>> # <<>>
    OBVIOUS
  <2> QED BY <2>1, <2>2 DEF Init, Awaiting
<1>3. ASSUME NEW g \in GoRoutine PROVE Followed(State(g), goRoutines[g], g, fs, region, inner)
  <2> DEFINE s == State(g)  t == goRoutines[g]  f == scenario.main[g]
  <2>1. /\ t = [pc |-> <<f, 1>>, stack |-> <<[fn |-> f, ret |-> <<f, 1>>]>>, defers |-> <<>>, panic |-> "no"]
        /\ f \in fs /\ f \in Func /\ f # scenario.end[1] /\ 1 \in DOMAIN Code[f]
    BY DEF Init, StartOf, Entry, SessionsBracketed, PlainFunctions
  <2>2. /\ s.breakpoints = NoBreakpoints /\ s.hints = [a \in Addr |-> "unknown"]
        /\ s.functions = <<>> /\ s.tracing = 0 /\ s.printed = {} /\ s.base = 0 /\ ~s.mismatch
        /\ DOMAIN s = {"breakpoints", "hints", "functions", "tracing", "printed", "mismatch", "base"}
    BY StateFields DEF Init
  <2> HIDE DEF s
  <2>3. <<f, 1>> \in Addr
    BY <2>1 DEF Addr
  <2>4. Len(t.stack) = 1 /\ t.stack[1] = [fn |-> f, ret |-> <<f, 1>>] /\ t.pc = <<f, 1>> /\ t.stack # <<>>
    BY <2>1
  <2>5. t.stack \in Seq([fn : fs, ret : Addr])
    BY <2>1, <2>3
  <2>6. Sane(t, fs)
    <3>1. t = [pc |-> t.pc, stack |-> t.stack, defers |-> <<>>, panic |-> "no"]
      BY <2>1
    <3>2. t.pc[1] = Top(t).fn /\ \A i \in 2..Len(t.stack) : FALSE
      BY <2>4 DEF Top
    <3> HIDE DEF t
    <3> QED BY <2>3, <2>4, <2>5, <3>1, <3>2 DEF Sane
  <2>7. Shape(s) /\ QuietFor(s.breakpoints, g)
    BY <2>2 DEF Shape, Table, Hints, NoBreakpoints, QuietFor, Count
  <2>8. Inside(t, region) = {}
    <3>1. <<f, 1>> \notin region
      <4>1. KeepsTo(region, <<f, 1>>)
        BY <2>1 DEF SessionsBracketed
      <4> QED BY <4>1 DEF KeepsTo
    <3> QED BY <2>4, <3>1 DEF Inside, Site
  <2>9. t.pc # scenario.end
    BY <2>1, <2>4 DEF SessionsBracketed, Entry
  <2>10. Cardinality({}) = 0
    BY FS_EmptySet
  <2> HIDE DEF t
  <2>11. Sessions(s, t, region) /\ Lone(t, region, inner)
    BY <2>2, <2>8, <2>9, <2>10 DEF Sessions, Counted, Lone
  <2>12. Fits(s, t, g, Unnested(fs, region, inner))
    BY <2>2, <2>7 DEF Fits, Ok
  <2> QED BY <2>2, <2>6, <2>7, <2>11, <2>12 DEF Followed, s, t
<1> QED BY <1>1, <1>2, <1>3 DEF Following

\* What is said of a go routine depends on the scenario, which does not change.
LEMMA FollowedThen ==
  ASSUME NEW fs, NEW region, NEW inner, NEW g, NEW s, NEW t, Followed(s, t, g, fs, region, inner),
         scenario' = scenario, State(g)' = s, goRoutines'[g] = t
  PROVE  Followed(State(g), goRoutines[g], g, fs, region, inner)'
<1> DEFINE w == State(g)  u == goRoutines[g]
<1>1. w' = s /\ u' = t
  OBVIOUS
<1>2. TraceLevel' = TraceLevel
  BY DEF TraceLevel
<1>3. Unnested(fs, region, inner)' <=> Unnested(fs, region, inner)
  BY DEF Unnested
<1> HIDE DEF w, u
<1>4. Inside(u, region)' = Inside(t, region) /\ u'.pc = t.pc
  BY <1>1 DEF Inside, Site
<1>5. Sessions(w, u, region)' <=> Sessions(s, t, region)
  BY <1>1, <1>4 DEF Sessions, Counted
<1>6. (g \in SystemRoutine)' <=> g \in SystemRoutine
  BY DEF SystemRoutine
<1>7. Matches(w, u, g)' <=> Matches(s, t, g)
  <2>1. FramesMatch(w, u)' <=> FramesMatch(s, t)
    BY <1>1 DEF FramesMatch
  <2>2. Open(w.functions)' = Open(s.functions)
    BY <1>1, <1>2 DEF Open
  <2>3. DepthsMatch(w, u)' <=> DepthsMatch(s, t)
    BY <1>1, <1>2, <2>2 DEF DepthsMatch
  <2>4. (HintsMatch(w, u)' <=> HintsMatch(s, t)) /\ (Enough(w, u, g)' <=> Enough(s, t, g))
    BY <1>1 DEF HintsMatch, Enough
  <2> QED BY <2>1, <2>3, <2>4 DEF Matches
<1>8. Fits(w, u, g, Unnested(fs, region, inner))' <=> Fits(s, t, g, Unnested(fs, region, inner))
  BY <1>1, <1>3, <1>7 DEF Fits, Ok, Exact
<1>9. Lone(u, region, inner)' <=> Lone(t, region, inner)
  BY <1>1, <1>4 DEF Lone
<1>10. (Sane(u, fs)' <=> Sane(t, fs)) /\ (Shape(w)' <=> Shape(s))
  BY <1>1 DEF Sane, Shape, Top
<1> QED BY <1>3, <1>5, <1>6, <1>8, <1>9, <1>10 DEF Followed, w, u

\* A step that leaves g where it is and its part of the controller's state but for
\* trace points and hints.
LEMMA KeptFollows ==
  ASSUME NEW fs, NEW region, NEW inner, SessionsBracketed(fs, region), NEW g \in GoRoutine,
         NEW s, NEW t, Followed(s, t, g, fs, region, inner), KeptFor(s, State(g)', g), Shape(State(g)'),
         goRoutines'[g] = t, scenario' = scenario
  PROVE  Followed(State(g), goRoutines[g], g, fs, region, inner)'
<1> DEFINE w == State(g)'  x == Unnested(fs, region, inner)
<1>1. fs \subseteq Func /\ Shape(w)
  BY DEF SessionsBracketed, PlainFunctions, Shape
<1>2. Sane(t, fs) /\ Shape(s) /\ KeptFor(s, w, g) /\ Fits(s, t, g, x)
  BY DEF Followed
<1>3. w.tracing = s.tracing
  BY <1>2 DEF KeptFor
<1> HIDE DEF w, x
<1>4. Fits(w, t, g, x) /\ (Sessions(s, t, region) => Sessions(w, t, region))
  BY <1>1, <1>2, Keeping
<1>5. Followed(w, t, g, fs, region, inner)
  BY <1>1, <1>3, <1>4 DEF Followed, x
<1> QED BY <1>5, FollowedThen DEF w

\* The parts of the state as the next step sees them.
LEMMA StateFieldsThen ==
  ASSUME NEW g
  PROVE  /\ State(g)'.breakpoints = breakpoints' /\ State(g)'.hints = breakpointHints'
         /\ State(g)'.functions = statusStore'[g] /\ State(g)'.tracing = tracingGoRoutines'[g]
         /\ State(g)'.printed = printed'[g] /\ State(g)'.base = base'[g]
         /\ State(g)'.mismatch = (g \in mismatched')
         /\ DOMAIN State(g)' = {"breakpoints", "hints", "functions", "tracing", "printed", "mismatch", "base"}
BY DEF State

\* Handling a trap, for its go routine and for the others.
LEMMA HandlerStep ==
  ASSUME NEW fs, NEW region, NEW inner, SessionsBracketed(fs, region), TraceLevel \in Nat,
         Following(fs, region, inner), NEW h \in GoRoutine, HandleTrap(h), scenario' = scenario
  PROVE  Following(fs, region, inner)'
<1>1. PICK s, u : Handled(h, s, u) /\ Becomes(State(h), s, h) /\ Followed(s, u, h, fs, region, inner)
  BY HandlersFollow
<1>2. Arrays /\ \A g \in GoRoutine : Followed(State(g), goRoutines[g], g, fs, region, inner)
  BY DEF Following
<1>3. ~s.mismatch /\ Shape(s) /\ OthersSame(breakpoints, s.breakpoints, h)
      /\ \A a \in Addr : breakpointHints[a] = "call" => s.hints[a] = "call"
  BY <1>1, StateFields DEF Followed, Fits, Ok, Becomes
<1>4. Arrays'
  BY <1>1, <1>2, <1>3 DEF Handled, Arrays
<1>5. /\ goRoutines'[h] = u /\ \A g \in GoRoutine \ {h} : goRoutines'[g] = goRoutines[g]
      /\ breakpoints' = s.breakpoints /\ breakpointHints' = s.hints /\ mismatched' = {}
      /\ statusStore'[h] = s.functions /\ \A g \in GoRoutine \ {h} : statusStore'[g] = statusStore[g]
      /\ tracingGoRoutines'[h] = s.tracing
      /\ \A g \in GoRoutine \ {h} : tracingGoRoutines'[g] = tracingGoRoutines[g]
      /\ printed'[h] = s.printed /\ \A g \in GoRoutine \ {h} : printed'[g] = printed[g]
      /\ base'[h] = s.base /\ \A g \in GoRoutine \ {h} : base'[g] = base[g]
  BY <1>1, <1>2, <1>3 DEF Handled, Arrays
<1>6. Awaiting'
  <2>1. phase = "waiting"
    BY DEF HandleTrap, HandleTrapAtUnrelatedBreakpoint, HandleTrapUntraced, HandleTrapWithoutHint,
           HandleTrapBeforeFunctionCall, HandleTrapAtDeferredFuncCall, OwnBreakpoint, CanHandle
  <2>2. Begun /\ Always(breakpoints, scenario.start) /\ Always(breakpoints, scenario.end)
    BY <2>1 DEF Following, Awaiting
  <2>3. Always(s.breakpoints, scenario.start) /\ Always(s.breakpoints, scenario.end)
    BY <1>3, <2>2 DEF OthersSame
  <2>4. UNCHANGED <<points, requests>>
    BY <1>1 DEF Handled
  <2> QED BY <1>5, <2>2, <2>3, <2>4 DEF Following, Awaiting, Begun, points, requests, Always
<1>7. ASSUME NEW g \in GoRoutine, g = h
      PROVE  Followed(State(g), goRoutines[g], g, fs, region, inner)'
  <2>1. Shape(State(g)')
    BY <1>3, <1>5, <1>7, StateFieldsThen DEF Shape
  <2>2. KeptFor(s, State(g)', g)
    BY <1>5, <1>7, StateFieldsThen DEF KeptFor
  <2> QED BY <1>1, <1>5, <1>7, <2>1, <2>2, KeptFollows
<1>8. ASSUME NEW g \in GoRoutine \ {h}
      PROVE  Followed(State(g), goRoutines[g], g, fs, region, inner)'
  <2>1. Followed(State(g), goRoutines[g], g, fs, region, inner) /\ Shape(State(g))
    BY <1>2 DEF Followed
  <2>2. Shape(State(g)')
    BY <1>3, <1>5, <2>1, StateFields, StateFieldsThen DEF Shape
  <2>3. /\ State(g)'.tracing = State(g).tracing /\ State(g)'.functions = State(g).functions
        /\ State(g)'.printed = State(g).printed /\ State(g)'.base = State(g).base
    <3>1. /\ tracingGoRoutines'[g] = tracingGoRoutines[g] /\ statusStore'[g] = statusStore[g]
          /\ printed'[g] = printed[g] /\ base'[g] = base[g]
      BY <1>5
    <3> QED BY <3>1, StateFields, StateFieldsThen
  <2>6. /\ State(g).breakpoints = breakpoints /\ State(g)'.breakpoints = s.breakpoints
        /\ State(g).hints = breakpointHints /\ State(g)'.hints = s.hints
    <3>1. breakpoints' = s.breakpoints /\ breakpointHints' = s.hints
      BY <1>5
    <3> QED BY <3>1, StateFields, StateFieldsThen
  <2>7. ~State(g)'.mismatch
    <3>1. g \notin mismatched'
      BY <1>5
    <3>2. State(g)'.mismatch = (g \in mismatched')
      BY StateFieldsThen
    <3> QED BY <3>1, <3>2
  <2> DEFINE v == State(g)  w == State(g)'
  <2>8. /\ w.tracing = v.tracing /\ w.functions = v.functions /\ w.printed = v.printed
        /\ w.base = v.base /\ ~w.mismatch /\ v.breakpoints = breakpoints /\ w.breakpoints = s.breakpoints
        /\ v.hints = breakpointHints /\ w.hints = s.hints
    BY <2>3, <2>6, <2>7
  <2> HIDE DEF v, w
  <2>4. KeptFor(v, w, g)
    BY <1>3, <2>8 DEF KeptFor, OthersSame
  <2>5. KeptFor(State(g), State(g)', g)
    BY <2>4 DEF v, w
  <2> QED BY <1>5, <2>1, <2>2, <2>5, KeptFollows
<1> QED BY <1>4, <1>6, <1>7, <1>8 DEF Following

\* The requests become breakpoints for all.
LEMMA ResumingStep ==
  ASSUME NEW fs, NEW region, NEW inner, SessionsBracketed(fs, region),
         Following(fs, region, inner), ContinueAndWait, scenario' = scenario
  PROVE  Following(fs, region, inner)'
<1> DEFINE starts == {pendingStartTracePoint[i] : i \in DOMAIN pendingStartTracePoint}
           ends == {pendingEndTracePoint[i] : i \in DOMAIN pendingEndTracePoint}
           new == (starts \ startAddressList) \cup (ends \ endAddressList)
<1>1. /\ UNCHANGED <<goRoutines, trapped, breakpointHints, statusStore, tracingGoRoutines,
                     printed, mismatched, base>>
      /\ breakpoints' = SetAll(breakpoints, new)
      /\ startAddressList' = startAddressList \cup starts /\ endAddressList' = endAddressList \cup ends
      /\ pendingStartTracePoint' = <<>> /\ pendingEndTracePoint' = <<>>
  BY DEF ContinueAndWait, tracee, output
<1>2. /\ pendingStartTracePoint \in Seq({scenario.start}) /\ pendingEndTracePoint \in Seq({scenario.end})
      /\ \/ Begun /\ Always(breakpoints, scenario.start) /\ Always(breakpoints, scenario.end)
         \/ /\ startAddressList = {} /\ endAddressList = {}
            /\ pendingStartTracePoint # <<>> /\ pendingEndTracePoint # <<>>
  BY DEF Following, Awaiting
<1>3. ASSUME NEW a, NEW q \in Seq({a})
      PROVE  LET A == {q[i] : i \in DOMAIN q} IN A \subseteq {a} /\ (q # <<>> => A = {a})
  <2>1. DOMAIN q = 1..Len(q) /\ Len(q) \in Nat /\ \A i \in 1..Len(q) : q[i] = a
    BY <1>3
  <2>2. q # <<>> => 1 \in DOMAIN q
    BY <1>3, <2>1
  <2> QED BY <2>1, <2>2
<1>4. /\ starts \subseteq {scenario.start} /\ ends \subseteq {scenario.end}
      /\ pendingStartTracePoint # <<>> => starts = {scenario.start}
      /\ pendingEndTracePoint # <<>> => ends = {scenario.end}
  BY <1>2, <1>3
<1> HIDE DEF starts, ends
<1>5. \A a : Always(breakpoints', a) <=> Always(breakpoints, a) \/ a \in new
  BY <1>1 DEF SetAll, Always, Unconditional
<1>8. Awaiting'
  <2>1. Begun'
    BY <1>1, <1>2, <1>4 DEF Begun
  <2>2. Always(breakpoints', scenario.start) /\ Always(breakpoints', scenario.end)
    BY <1>2, <1>4, <1>5 DEF Begun
  <2>3. <<>> \in Seq({scenario.start}) /\ <<>> \in Seq({scenario.end})
    OBVIOUS
  <2> QED BY <1>1, <2>1, <2>2, <2>3 DEF Awaiting, Always
<1>9. Arrays'
  BY <1>1 DEF Following, Arrays
<1>10. ASSUME NEW g \in GoRoutine PROVE Followed(State(g), goRoutines[g], g, fs, region, inner)'
  <2>1. Followed(State(g), goRoutines[g], g, fs, region, inner) /\ Shape(State(g)) /\ ~State(g).mismatch
    BY DEF Following, Followed, Fits, Ok
  <2>2. Table(breakpoints)
    BY <2>1, StateFields DEF Shape
  <2> HIDE DEF new
  <2>3. LET T == SetAll(breakpoints, new)
        IN  /\ Table(T)
            /\ \A a : Always(T, a) <=> Always(breakpoints, a) \/ a \in new
            /\ \A a : a \notin new => \A h : Count(T, a, h) = Count(breakpoints, a, h)
    BY <2>2, SetAllCounts
  <2>4. /\ Table(breakpoints')
        /\ \A a : a \notin new => Count(breakpoints', a, g) = Count(breakpoints, a, g)
    BY <1>1, <2>3
  <2>5. Shape(State(g)')
    BY <1>1, <2>1, <2>4, StateFields, StateFieldsThen DEF Shape
  <2>6. /\ State(g)'.tracing = State(g).tracing /\ State(g)'.functions = State(g).functions
        /\ State(g)'.printed = State(g).printed /\ State(g)'.base = State(g).base
        /\ State(g)'.hints = State(g).hints
    BY <1>1, StateFields, StateFieldsThen
  <2>9. State(g).breakpoints = breakpoints /\ State(g)'.breakpoints = breakpoints'
    BY StateFields, StateFieldsThen
  <2>10. ~State(g)'.mismatch
    <3>1. mismatched' = mismatched
      BY <1>1
    <3>2. (State(g)'.mismatch = (g \in mismatched')) /\ (State(g).mismatch = (g \in mismatched))
      BY StateFields, StateFieldsThen
    <3> QED BY <2>1, <3>1, <3>2
  <2> DEFINE v == State(g)  w == State(g)'
  <2>11. /\ w.tracing = v.tracing /\ w.functions = v.functions /\ w.printed = v.printed
         /\ w.base = v.base /\ ~w.mismatch
         /\ v.breakpoints = breakpoints /\ w.breakpoints = breakpoints' /\ w.hints = v.hints
    BY <2>6, <2>9, <2>10
  <2> HIDE DEF v, w
  <2>7. KeptFor(v, w, g)
    BY <1>5, <2>4, <2>11 DEF KeptFor
  <2>8. KeptFor(State(g), State(g)', g)
    BY <2>7 DEF v, w
  <2> QED BY <1>1, <2>1, <2>5, <2>8, KeptFollows
<1> QED BY <1>8, <1>9, <1>10 DEF Following

\* The controller keeps its state: what remains to be shown is where the go routines are.
LEMMA ControllerKeeps ==
  ASSUME NEW fs, NEW region, NEW inner, Following(fs, region, inner), scenario' = scenario,
         UNCHANGED <<trace, points, output>>, Awaiting',
         DOMAIN goRoutines' = GoRoutine,
         \A g \in GoRoutine : Followed(State(g), goRoutines'[g], g, fs, region, inner)
  PROVE  Following(fs, region, inner)'
<1>1. Arrays'
  BY DEF Following, Arrays, trace, output
<1>2. ASSUME NEW g \in GoRoutine PROVE Followed(State(g), goRoutines[g], g, fs, region, inner)'
  <2>1. State(g)' = State(g)
    BY DEF State, trace, output
  <2> QED BY <2>1, FollowedThen
<1> QED BY <1>1, <1>2 DEF Following

\* Requests only repeat the two trace points.
LEMMA AwaitingThen ==
  ASSUME Awaiting, scenario' = scenario,
         UNCHANGED <<startAddressList, endAddressList, breakpoints>>,
         \/ UNCHANGED <<pendingStartTracePoint, pendingEndTracePoint>>
         \/ /\ pendingStartTracePoint' = Append(pendingStartTracePoint, scenario.start)
            /\ UNCHANGED pendingEndTracePoint
         \/ /\ pendingEndTracePoint' = Append(pendingEndTracePoint, scenario.end)
            /\ UNCHANGED pendingStartTracePoint,
         Begun \/ (UNCHANGED <<trapped, held>> /\ phase' # "waiting")
  PROVE  Awaiting'
<1>1. ASSUME NEW a, NEW q \in Seq({a}) PROVE Append(q, a) \in Seq({a}) /\ Append(q, a) # <<>>
  OBVIOUS
<1>2. pendingStartTracePoint \in Seq({scenario.start}) /\ pendingEndTracePoint \in Seq({scenario.end})
  BY DEF Awaiting
<1>3. /\ pendingStartTracePoint' \in Seq({scenario.start}) /\ pendingEndTracePoint' \in Seq({scenario.end})
      /\ pendingStartTracePoint # <<>> => pendingStartTracePoint' # <<>>
      /\ pendingEndTracePoint # <<>> => pendingEndTracePoint' # <<>>
  BY <1>1, <1>2
<1>4. CASE Begun
  <2>1. Always(breakpoints, scenario.start) /\ Always(breakpoints, scenario.end)
    BY <1>4 DEF Awaiting, Begun
  <2>2. Begun'
    BY <1>4 DEF Begun
  <2> QED BY <1>3, <2>1, <2>2 DEF Awaiting, Always
<1>5. CASE ~Begun
  BY <1>3, <1>5 DEF Awaiting
<1> QED BY <1>4, <1>5

\* A go routine that runs.
LEMMA RunStep ==
  ASSUME NEW fs, NEW region, NEW inner, SessionsBracketed(fs, region), TraceLevel \in Nat,
         Following(fs, region, inner), NEW h \in GoRoutine, Run(h), scenario' = scenario
  PROVE  Following(fs, region, inner)'
<1>1. UNCHANGED <<phase, held, trace, points, requests, output>> /\ h \notin held
  BY DEF Run
<1>2. Arrays /\ Awaiting /\ \A g \in GoRoutine : Followed(State(g), goRoutines[g], g, fs, region, inner)
  BY DEF Following
<1>3. Begun /\ Always(breakpoints, scenario.start) /\ Always(breakpoints, scenario.end)
  BY <1>1, <1>2 DEF Awaiting
<1>4. Awaiting'
  BY <1>1, <1>2, <1>3, AwaitingThen DEF trace, points, requests
<1>5. CASE UNCHANGED goRoutines
  BY <1>1, <1>2, <1>4, <1>5, ControllerKeeps DEF Arrays
<1>6. ASSUME goRoutines[h].pc \notin DOMAIN breakpoints, NEW u \in Succ(goRoutines[h]),
             goRoutines' = [goRoutines EXCEPT ![h] = u]
      PROVE  Following(fs, region, inner)'
  <2>1. /\ DOMAIN goRoutines' = GoRoutine /\ goRoutines'[h] = u
        /\ \A g \in GoRoutine \ {h} : goRoutines'[g] = goRoutines[g]
    BY <1>2, <1>6 DEF Arrays
  <2> DEFINE t == goRoutines[h]  s == State(h)
  <2>2. Followed(s, t, h, fs, region, inner) /\ ~Hit(s.breakpoints, t.pc, h)
        /\ t.pc # scenario.start /\ t.pc # scenario.end
    BY <1>2, <1>3, <1>6, StateFields DEF Hit, Exist, Always
  <2> HIDE DEF s, t
  <2>3. Followed(s, u, h, fs, region, inner)
    BY <1>6, <2>2, PassingOn, SystemSteps DEF t
  <2> QED BY <1>1, <1>2, <1>4, <2>1, <2>3, ControllerKeeps DEF s
<1> QED BY <1>5, <1>6 DEF Run

\* Requests, interrupts and the end.
LEMMA OtherSteps ==
  ASSUME NEW fs, NEW region, NEW inner, SessionsBracketed(fs, region), scenario' = scenario,
         Following(fs, region, inner),
         Interrupted \/ MainLoopReturns \/ Requests \/ UNCHANGED vars
  PROVE  Following(fs, region, inner)'
<1>1. StartPoint = {scenario.start} /\ EndPoint = {scenario.end}
  BY DEF SessionsBracketed
<1>2. scenario.late.start \subseteq {scenario.start} /\ scenario.late.end \subseteq {scenario.end}
  BY <1>1 DEF StartPoint, EndPoint
<1>3. UNCHANGED <<goRoutines, trapped, held, trace, points, output>>
  BY DEF Interrupted, MainLoopReturns, Requests, AddStartTracePoint, AddEndTracePoint, Interrupt,
         vars, controllerVars, tracee
<1>4. \/ UNCHANGED <<pendingStartTracePoint, pendingEndTracePoint>>
      \/ /\ pendingStartTracePoint' = Append(pendingStartTracePoint, scenario.start)
         /\ UNCHANGED pendingEndTracePoint
      \/ /\ pendingEndTracePoint' = Append(pendingEndTracePoint, scenario.end)
         /\ UNCHANGED pendingStartTracePoint
  BY <1>2 DEF Interrupted, MainLoopReturns, Requests, AddStartTracePoint, AddEndTracePoint,
              Interrupt, requests, vars, controllerVars
<1>5. phase' = phase \/ phase' = "ended"
  BY DEF Interrupted, MainLoopReturns, Requests, AddStartTracePoint, AddEndTracePoint,
         Interrupt, requests, vars, controllerVars
<1>6. Awaiting'
  <2>1. Begun \/ phase' # "waiting"
    BY <1>5 DEF Following, Awaiting
  <2> QED BY <1>3, <1>4, <2>1, AwaitingThen DEF Following, trace, points
<1> QED BY <1>3, <1>6, ControllerKeeps DEF Following, Arrays

\* The inductive invariant, for every discipline that the program keeps to.
BracketedIInv ==
  /\ scenario \in Scenario
  /\ \A fs, region, inner : SessionsBracketed(fs, region) => Following(fs, region, inner)

\* The invariant holds at the start,
LEMMA BracketedInit == Init => BracketedIInv
BY InitFollows DEF Init, BracketedIInv

\* is kept by every step,
LEMMA BracketedNext == BracketedIInv /\ [Next]_vars => BracketedIInv'
<1> SUFFICES ASSUME BracketedIInv, [Next]_vars PROVE BracketedIInv'
  OBVIOUS
<1>1. scenario' = scenario /\ TraceLevel \in Nat
  BY ControllerAssumption DEF BracketedIInv, TraceLevel, Next, vars
<1> SUFFICES ASSUME NEW fs, NEW region, NEW inner, SessionsBracketed(fs, region)'
             PROVE  Following(fs, region, inner)'
  BY <1>1 DEF BracketedIInv
<1>2. SessionsBracketed(fs, region) /\ Following(fs, region, inner)
  <2>1. SessionsBracketed(fs, region)
    BY <1>1 DEF SessionsBracketed, KeepsTo, StartPoint, EndPoint
  <2> QED BY <2>1 DEF BracketedIInv
<1>3. ASSUME NEW g \in GoRoutine, HandleTrap(g) PROVE Following(fs, region, inner)'
  BY <1>1, <1>2, <1>3, HandlerStep
<1>4. ASSUME ContinueAndWait PROVE Following(fs, region, inner)'
  BY <1>1, <1>2, <1>4, ResumingStep
<1>5. ASSUME NEW g \in GoRoutine, Run(g) PROVE Following(fs, region, inner)'
  BY <1>1, <1>2, <1>5, RunStep
<1>6. ASSUME Interrupted \/ MainLoopReturns \/ Requests \/ UNCHANGED vars
      PROVE  Following(fs, region, inner)'
  BY <1>1, <1>2, <1>6, OtherSteps
<1> QED BY <1>3, <1>4, <1>5, <1>6 DEF Next, ControllerNext, MainLoop

\* and so holds always.
LEMMA BracketedAlways == Spec => []BracketedIInv
BY BracketedInit, BracketedNext, PTL DEF Spec

-----------------------------------------------------------------------------
(* What the invariant means for the properties.                            *)

\* A go routine that is up to date has no return left to be noticed.
LEMMA UpToDateMatches ==
  ASSUME NEW fs, NEW region, NEW inner, Following(fs, region, inner), NEW g \in GoRoutine, UpToDate(g)
  PROVE  LET s == State(g)  t == goRoutines[g]
         IN  /\ Sane(t, fs) /\ Shape(s) /\ Matches(s, t, g) /\ NoneReturned(s, t)
             /\ Unnested(fs, region, inner) => Exact(s, t, g)
<1> DEFINE s == State(g)  t == goRoutines[g]
<1>1. Followed(s, t, g, fs, region, inner) /\ s.tracing > 0 /\ ~Hit(s.breakpoints, t.pc, g)
  BY StateFields DEF Following, UpToDate
<1> HIDE DEF s, t
<1>2. /\ Sane(t, fs) /\ Shape(s) /\ Matches(s, t, g)
      /\ Unnested(fs, region, inner) => Exact(s, t, g)
  BY <1>1 DEF Followed, Fits, Ok
<1>3. NoneReturned(s, t)
  BY <1>1, <1>2, ReturnNoticed
<1> QED BY <1>2, <1>3 DEF s, t

\* What is open in the output is what is visible on the stack.
LEMMA OpenCallsVisible ==
  ASSUME NEW fs, fs \subseteq Func, NEW region, NEW inner, Following(fs, region, inner), TraceLevel \in Nat,
         NEW g \in GoRoutine, UpToDate(g)
  PROVE  printed[g] = VisibleCalls(g)
<1> DEFINE s == State(g)  t == goRoutines[g]  F == s.functions  n == Len(F)  L == Len(t.stack)
           b == s.base  m == IF L < b + TraceLevel THEN L - b ELSE TraceLevel
<1>1. Sane(t, fs) /\ Shape(s) /\ Matches(s, t, g) /\ NoneReturned(s, t)
  BY UpToDateMatches
<1>2. /\ n \in Nat /\ L \in Nat \ {0} /\ b \in 1..L
      /\ n < TraceLevel => L = b + n
      /\ n >= TraceLevel => L >= b + TraceLevel
  BY <1>1, DepthOfStack
<1>3. m \in Nat /\ (\A i \in Nat : i \in 1..m <=> i \in 1..n /\ i <= TraceLevel)
  BY <1>2
<1>4. \A i \in 1..n : i <= TraceLevel => F[i].fn = t.stack[b + i].fn
  <2> TAKE i \in 1..n
  <2> HAVE i <= TraceLevel
  <2>1. LevelOf(F[i]) = b + i
    BY <1>1 DEF Matches, DepthsMatch
  <2>2. b + i <= L
    BY <1>2, <1>3
  <2>3. t.stack[LevelOf(F[i])] = [fn |-> F[i].fn, ret |-> F[i].returnAddress]
    BY <1>1, <2>1, <2>2 DEF Matches, FramesMatch
  <2> QED BY <2>1, <2>3
<1>5. s.printed = Open(F)
  BY <1>1 DEF Matches, DepthsMatch
<1>6. MeantStack(t) = t.stack
  <2>1. t.panic = "no"
    BY <1>1 DEF Sane
  <2> QED BY <2>1 DEF MeantStack, Panicking
<1>7. b = base[g] /\ s.printed = printed[g]
  BY StateFields
<1>8. VisibleCalls(g) = {c \in {[fn |-> t.stack[b + d].fn, depth |-> d] : d \in 1..m} : c.fn \in Printable}
  BY <1>6, <1>7 DEF VisibleCalls
<1> HIDE DEF s, t, F, n, L, b, m
<1>9. Open(F) = {[fn |-> F[i].fn, depth |-> i] : i \in {j \in 1..n : j <= TraceLevel /\ F[j].fn \in Printable}}
  BY DEF Open, n
<1>10. \A c : c \in Open(F) <=> c \in VisibleCalls(g)
  <2>1. ASSUME NEW c, c \in Open(F) PROVE c \in VisibleCalls(g)
    <3>1. PICK i \in 1..n : /\ i <= TraceLevel /\ F[i].fn \in Printable
                            /\ c = [fn |-> F[i].fn, depth |-> i]
      BY <1>9, <2>1
    <3>2. i \in 1..m /\ c = [fn |-> t.stack[b + i].fn, depth |-> i] /\ c.fn \in Printable
      BY <1>2, <1>3, <1>4, <3>1
    <3> QED BY <1>8, <3>2
  <2>2. ASSUME NEW c, c \in VisibleCalls(g) PROVE c \in Open(F)
    <3>1. PICK i \in 1..m : c = [fn |-> t.stack[b + i].fn, depth |-> i] /\ c.fn \in Printable
      BY <1>8, <2>2
    <3>2. i \in 1..n /\ i <= TraceLevel
      BY <1>3
    <3>3. c = [fn |-> F[i].fn, depth |-> i] /\ F[i].fn \in Printable
      BY <1>4, <3>1, <3>2
    <3> QED BY <1>9, <3>2, <3>3
  <2> QED BY <2>1, <2>2
<1> QED BY <1>5, <1>7, <1>10

\* The associations are those that are wanted.
LEMMA WantedExactly ==
  ASSUME NEW fs, NEW region, NEW inner, Following(fs, region, inner), Unnested(fs, region, inner),
         NEW g \in GoRoutine, UpToDate(g), NEW a \in Addr
  PROVE  IF a \in DOMAIN breakpoints
           THEN breakpoints[a].associateAll \/ breakpoints[a].associations[g] = Wanted(g, a)
           ELSE Wanted(g, a) = 0
<1> DEFINE s == State(g)  t == goRoutines[g]  w == Wants(s.functions, t.stack[s.base].fn, a)
<1>1. Sane(t, fs) /\ Shape(s) /\ Exact(s, t, g)
  BY UpToDateMatches
<1>2. Always(breakpoints, a) \/ Count(breakpoints, a, g) = w
  BY <1>1, StateFields DEF Exact
<1>3. Wanted(g, a) = w
  <2>1. t.defers = <<>>
    BY <1>1 DEF Sane
  <2> DEFINE N == Clearings(statusStore[g], DOMAIN statusStore[g], a)
             k == IF a \in CallInsts(t.stack[base[g]].fn) THEN 1 ELSE 0
             D == {i \in DOMAIN t.defers : /\ a = Entry(t.defers[i].fn) /\ ~t.defers[i].started
                                           /\ t.defers[i].level \in base[g]..(base[g] + TraceLevel - 1)}
  <2>2. Wanted(g, a) = N + k + Cardinality(D)
    BY DEF Wanted
  <2>3. Cardinality(D) = 0
    <3>1. D = {}
      BY <2>1
    <3> QED BY <3>1, FS_EmptySet
  <2>4. N \in Nat
    <3>1. statusStore[g] \in Seq(CallingFunction)
      BY <1>1, StateFields DEF Shape
    <3> QED BY <3>1, ClearingsOfCalls
  <2>5. w = N + k
    <3>1. s.functions = statusStore[g] /\ s.base = base[g]
      BY StateFields
    <3> QED BY <3>1 DEF Wants
  <2> HIDE DEF N, k, D, w
  <2>6. k \in Nat
    BY DEF k
  <2> QED BY <2>2, <2>3, <2>4, <2>5, <2>6
<1> HIDE DEF w
<1> QED BY <1>2, <1>3 DEF Always, Count

\* The program and the scenario do not change.
LEMMA DisciplineStays ==
  ASSUME NEW fs, NEW region, NEW inner, [Next]_vars
  PROVE  /\ SessionsBracketed(fs, region) => SessionsBracketed(fs, region)'
         /\ Unnested(fs, region, inner) => Unnested(fs, region, inner)'
<1>1. scenario' = scenario
  BY DEF Next, vars
<1> QED BY <1>1 DEF SessionsBracketed, KeepsTo, StartPoint, EndPoint, Unnested

\* In a program with bracketed sessions, which may nest, recurse and interleave with
\* those of other go routines, no return is printed for a call that was not.
THEOREM ReturnsMatchCallsBracketed ==
  ASSUME NEW CONSTANT fs, NEW CONSTANT region
  PROVE  Spec /\ SessionsBracketed(fs, region) => []ReturnsMatchCalls
<1>1. BracketedIInv /\ SessionsBracketed(fs, region) => ReturnsMatchCalls
  BY DEF BracketedIInv, Following, Arrays, ReturnsMatchCalls
<1>2. SessionsBracketed(fs, region) /\ [Next]_vars => SessionsBracketed(fs, region)'
  BY DisciplineStays
<1> QED BY <1>1, <1>2, BracketedAlways, PTL DEF Spec

\* In such a program the calls that the output has open are those on the stack, from
\* where the tracing started down to the trace level.
THEOREM PrintedMatchesStackBracketed ==
  ASSUME NEW CONSTANT fs, NEW CONSTANT region
  PROVE  Spec /\ SessionsBracketed(fs, region) => []PrintedMatchesStack
<1>1. BracketedIInv /\ SessionsBracketed(fs, region) => PrintedMatchesStack
  <2> SUFFICES ASSUME BracketedIInv, SessionsBracketed(fs, region), NEW g \in GoRoutine, UpToDate(g)
               PROVE  printed[g] = VisibleCalls(g)
    BY DEF PrintedMatchesStack
  <2>1. Following(fs, region, {}) /\ fs \subseteq Func
    BY DEF BracketedIInv, SessionsBracketed, PlainFunctions
  <2>2. TraceLevel \in Nat
    BY ControllerAssumption DEF BracketedIInv, TraceLevel
  <2> QED BY <2>1, <2>2, OpenCallsVisible
<1>2. SessionsBracketed(fs, region) /\ [Next]_vars => SessionsBracketed(fs, region)'
  BY DisciplineStays
<1> QED BY <1>1, <1>2, BracketedAlways, PTL DEF Spec

\* In such a program without sessions in sessions, each traced go routine has each
\* breakpoint exactly as often as its known functions need it.
THEOREM BreakpointsBalancedUnnested ==
  ASSUME NEW CONSTANT fs, NEW CONSTANT region, NEW CONSTANT inner
  PROVE  Spec /\ SessionsBracketed(fs, region) /\ Unnested(fs, region, inner) => []BreakpointsBalanced
<1> DEFINE D == SessionsBracketed(fs, region) /\ Unnested(fs, region, inner)
<1>1. BracketedIInv /\ D => BreakpointsBalanced
  BY WantedExactly DEF BracketedIInv, BreakpointsBalanced
<1>2. D /\ [Next]_vars => D'
  BY DisciplineStays
<1> QED BY <1>1, <1>2, BracketedAlways, PTL DEF Spec

\* In such a program a go routine is in tracingGoRoutines as often as it is in a
\* session, and the output's depths count from the outermost one.
THEOREM SessionsCountedBracketed ==
  ASSUME NEW CONSTANT fs, NEW CONSTANT region
  PROVE  Spec /\ SessionsBracketed(fs, region) => []SessionsCounted(region)
<1>1. BracketedIInv /\ SessionsBracketed(fs, region) => SessionsCounted(region)
  <2> SUFFICES ASSUME BracketedIInv, SessionsBracketed(fs, region), NEW g \in GoRoutine \ SystemRoutine
               PROVE  LET t == goRoutines[g]
                          I == Inside(t, region)
                      IN  /\ tracingGoRoutines[g] = Cardinality(I) + (IF t.pc = scenario.end THEN 1 ELSE 0)
                          /\ tracingGoRoutines[g] > 0 => base[g] \in I /\ \A i \in I : base[g] <= i
    BY DEF SessionsCounted
  <2> DEFINE s == State(g)  t == goRoutines[g]  I == Inside(t, region)
             s1 == [s EXCEPT !.tracing = @ - 1]
  <2>1. Sessions(s, t, region) /\ Sane(t, fs) /\ Shape(s)
    BY DEF BracketedIInv, Following, Followed
  <2>2. Cardinality(I) \in Nat
    <3>1. Len(t.stack) \in Nat
      BY <2>1, SaneFrames
    <3> QED BY <3>1, InsideFinite, FS_CardinalityType
  <2>3. s.tracing = tracingGoRoutines[g] /\ s.base = base[g] /\ s.tracing \in Nat
    BY <2>1, StateFields DEF Shape
  <2>4. s1.tracing = s.tracing - 1 /\ s1.base = s.base
    BY <2>1 DEF Shape
  <2> HIDE DEF s, s1, I, t
  <2>5. CASE t.pc = scenario.end
    <3>1. s.tracing > 1 /\ Counted(s1, I)
      BY <2>1, <2>5 DEF Sessions, s1, I
    <3> QED BY <2>2, <2>3, <2>4, <2>5, <3>1 DEF Counted, t, I
  <2>6. CASE t.pc # scenario.end
    <3>1. Counted(s, I)
      BY <2>1, <2>6 DEF Sessions, I
    <3> QED BY <2>2, <2>3, <2>6, <3>1 DEF Counted, t, I
  <2> QED BY <2>5, <2>6
<1>2. SessionsBracketed(fs, region) /\ [Next]_vars => SessionsBracketed(fs, region)'
  BY DisciplineStays
<1> QED BY <1>1, <1>2, BracketedAlways, PTL DEF Spec

=============================================================================
