----------------------------- MODULE Controller -----------------------------
(***************************************************************************)
(* tracer.Controller: the main loop that lets the tracee run, waits for a  *)
(* trap and handles it, together with the tracee's go routines that run    *)
(* and trap meanwhile and the requests that arrive by other threads.       *)
(*                                                                         *)
(* A trap is handled in one step.  The handler changes only what concerns  *)
(* its own go routine (Breakpoints, OthersKeepTheirHits) and that thread   *)
(* is stopped, so the others do not see the difference, but for the single *)
(* step over a breakpoint, during which the trap instruction is lifted:    *)
(* here no other thread passes by then (process.go:150 states the caveat). *)
(***************************************************************************)
EXTENDS Tracee, FiniteSets

CONSTANTS GoRoutine,
          Scenario,
          Printable,       \* functions other than unexported runtime ones
          ChanBufferSize   \* capacity of the request channels

TracePoints == [start : SUBSET Addr, end : SUBSET Addr]

\* main[g] is the function that g runs, the go routines in system have id 0.
\* start and end are requested before the tracee first runs, those in late can be
\* requested at any time.
ASSUME ControllerAssumption ==
  /\ ChanBufferSize \in Nat /\ Printable \subseteq Func
  /\ \A sc \in Scenario :
       /\ sc.main \in [GoRoutine -> Func] /\ sc.system \subseteq GoRoutine
       /\ sc.traceLevel \in Nat
       /\ sc.start \in Addr /\ sc.end \in Addr /\ sc.late \in TracePoints

VARIABLES
  scenario,                \* does not change
  goRoutines,              \* the state of each go routine
  trapped,                 \* go routines that hit a trap not yet handled
  phase,                   \* "resuming": in continueAndWait, before the tracee resumes
                           \* "waiting": for an event; "ended": MainLoop has returned
  held,                    \* stopped go routines that the next resuming lets run
  breakpoints, breakpointHints, statusStore,
  tracingGoRoutines,       \* how often each go routine is in the list
  startAddressList, endAddressList,
  pendingStartTracePoint, pendingEndTracePoint, interruptCh,
  printed,                 \* printed[g]: calls in the output without their return
  mismatched,              \* go routines for which a return was printed without its call
  base                     \* base[g]: stack depth where the tracing of g started, or 0

tracee == <<goRoutines, trapped>>
trace == <<breakpoints, breakpointHints, statusStore, tracingGoRoutines>>
points == <<startAddressList, endAddressList>>
requests == <<pendingStartTracePoint, pendingEndTracePoint, interruptCh>>
output == <<printed, mismatched, base>>
controllerVars == <<tracee, phase, held, trace, points, requests, output>>
vars == <<scenario, controllerVars>>

TraceLevel == scenario.traceLevel
SystemRoutine == scenario.system
StartPoint == {scenario.start} \cup scenario.late.start
EndPoint == {scenario.end} \cup scenario.late.end

INSTANCE BreakpointTable

Hint == {"unknown", "call", "deferred"}

CallingFunction == [fn : Func, returnAddress : Addr, usedStackSize : Nat,
                    setCallInstBreakpoints : BOOLEAN]

TypeOK ==
  /\ \A g \in GoRoutine : /\ goRoutines[g].pc \in Addr
                          /\ goRoutines[g].stack \in Seq(Frame)
                          /\ goRoutines[g].defers \in Seq(Deferred)
                          /\ statusStore[g] \in Seq(CallingFunction)
                          /\ printed[g] \subseteq [fn : Func, depth : Nat]
  /\ trapped \subseteq GoRoutine /\ held \subseteq GoRoutine /\ mismatched \subseteq GoRoutine
  /\ phase \in {"resuming", "waiting", "ended"}
  /\ IsTable(breakpoints)
  /\ breakpointHints \in [Addr -> Hint]
  /\ tracingGoRoutines \in [GoRoutine -> Nat]
  /\ base \in [GoRoutine -> Nat]
  /\ startAddressList \subseteq StartPoint /\ endAddressList \subseteq EndPoint
  /\ pendingStartTracePoint \in Seq(StartPoint)
  /\ pendingEndTracePoint \in Seq(EndPoint)
  /\ interruptCh \in BOOLEAN

Init ==
  /\ scenario \in Scenario
  /\ goRoutines = [g \in GoRoutine |-> StartOf(scenario.main[g])]
  /\ trapped = {}
  /\ phase = "resuming"
  /\ held = GoRoutine
  /\ breakpoints = NoBreakpoints
  /\ breakpointHints = [a \in Addr |-> "unknown"]
  /\ statusStore = [g \in GoRoutine |-> <<>>]
  /\ tracingGoRoutines = [g \in GoRoutine |-> 0]
  /\ startAddressList = {} /\ endAddressList = {}
  /\ pendingStartTracePoint = <<scenario.start>> /\ pendingEndTracePoint = <<scenario.end>>
  /\ interruptCh = FALSE
  /\ printed = [g \in GoRoutine |-> {}]
  /\ mismatched = {}
  /\ base = [g \in GoRoutine |-> 0]

-----------------------------------------------------------------------------
(* What the handler of a trap computes.  s is the part of the controller's *)
(* state that concerns go routine g, t is the state of g.                  *)

State(g) == [breakpoints |-> breakpoints, hints |-> breakpointHints,
             functions |-> statusStore[g], tracing |-> tracingGoRoutines[g],
             printed |-> printed[g], mismatch |-> g \in mismatched, base |-> base[g]]

IsStartAddress(a) == a \in startAddressList
IsEndAddress(a) == a \in endAddressList

Tracing(s) == s.tracing > 0

\* Each removal takes one entry of the list, if there is one.
Remove(n) == IF n = 0 THEN 0 ELSE n - 1

SetCallInstBreakpoints(s, g, f) ==
  [s EXCEPT !.breakpoints = SetConditionalAll(@, CallInsts(f), g),
            !.hints = [a \in Addr |-> IF a \in CallInsts(f) THEN "call" ELSE @[a]]]

EnterTracepoint(s, g, t) ==
  LET u == SetCallInstBreakpoints(s, g, t.pc[1])
  IN  [u EXCEPT !.tracing = @ + 1, !.base = IF s.tracing = 0 THEN Len(t.stack) ELSE @]

\* Defects: all the sessions of the go routine end at once; its breakpoints stay.
ExitTracepoint_AllSessions(s, g) ==
  [s EXCEPT !.tracing = 0, !.base = 0, !.printed = {},
            !.breakpoints = ClearAllByGoRoutineID(@, g)]
ExitTracepoint_KeepsBreakpoints(s, g) ==
  IF s.tracing > 1 THEN [s EXCEPT !.tracing = @ - 1]
  ELSE [s EXCEPT !.tracing = 0, !.base = 0, !.printed = {}]

\* The output restarts with the next session; statusStore is left as it is.
ExitTracepoint(s, g) ==
  LET u == [s EXCEPT !.tracing = Remove(@)]
  IN  IF Tracing(u) THEN u
      ELSE [u EXCEPT !.base = 0, !.printed = {}, !.breakpoints = ClearAllByGoRoutineID(@, g)]

UpdateTracingStatus(s, g, t) ==
  LET u == IF IsStartAddress(t.pc) THEN EnterTracepoint(s, g, t) ELSE s
  IN  IF IsEndAddress(t.pc) THEN ExitTracepoint(u, g) ELSE u

\* How many of the known functions are still running: the topmost one that uses
\* less stack than now, or as much and is the current function, and all below.
Remaining(functions, used, f) ==
  LET Running(i) == \/ functions[i].usedStackSize < used
                    \/ functions[i].usedStackSize = used /\ functions[i].fn = f
      alive == {i \in DOMAIN functions : Running(i)}
  IN  IF alive = {} THEN 0 ELSE CHOOSE i \in alive : \A j \in alive : j <= i

\* Defect: the call instructions of the functions keep their breakpoints.
Clearings_ReturnsOnly(functions, gone, a) ==
  Cardinality({i \in gone : functions[i].returnAddress = a})

\* How often forgetting the functions gone clears the breakpoint at a.
Clearings(functions, gone, a) ==
  LET returns == {i \in gone : functions[i].returnAddress = a}
      calls == {i \in gone : /\ functions[i].setCallInstBreakpoints
                             /\ a \in CallInsts(functions[i].fn)}
  IN  Cardinality(returns) + Cardinality(calls)

UnwindFunctions(s, g, used, f) ==
  LET n == Remaining(s.functions, used, f)
      times == [a \in DOMAIN s.breakpoints |->
                  Clearings(s.functions, DOMAIN s.functions \ 1..n, a)]
  IN  [s EXCEPT !.functions = SubSeq(@, 1, n),
                !.breakpoints = ClearConditionalTimes(@, times, g)]

AddFunction(s, g, new) ==
  LET u == [s EXCEPT !.functions = Append(@, new),
                     !.breakpoints = SetConditional(@, new.returnAddress, g)]
  IN  IF new.setCallInstBreakpoints THEN SetCallInstBreakpoints(u, g, new.fn) ELSE u

\* The lines "\ f(...)" and "/ f(...)" of the output.  Calls that are as deep as a
\* new one or deeper have ended without a line (by a panic).
PrintInput(s, f, depth) ==
  [s EXCEPT !.printed = {call \in @ : call.depth < depth} \cup {[fn |-> f, depth |-> depth]}]

PrintOutput(s, f, depth) ==
  LET call == [fn |-> f, depth |-> depth]
  IN  IF call \in s.printed /\ \A c \in s.printed : c.depth <= depth
        THEN [s EXCEPT !.printed = @ \ {call}]
        ELSE [s EXCEPT !.mismatch = TRUE]

\* t is at the entry of a function.
HandleTrapAtFunctionCall(s, g, t) ==
  LET f == t.pc[1]
      u == UnwindFunctions(s, g, UsedStackSize(t), f)
      depth == Len(u.functions) + 1
      v == AddFunction(u, g, [fn |-> f, returnAddress |-> Top(t).ret,
                              usedStackSize |-> UsedStackSize(t),
                              setCallInstBreakpoints |-> depth < TraceLevel])
  IN  IF depth <= TraceLevel /\ f \in Printable THEN PrintInput(v, f, depth) ELSE v

SetBreakpointToDeferredFunc(s, g, t) ==
  IF ~HasDeferred(t) THEN s
  ELSE LET a == Entry(NextDeferFunc(t))
       IN  [s EXCEPT !.breakpoints = SetConditional(@, a, g), !.hints[a] = "deferred"]

\* t is at the return address of a function, if the known functions are right.
HandleTrapAfterFunctionReturn(s, g, t) ==
  LET u == UnwindFunctions(s, g, UsedStackSize(t), t.pc[1])
      depth == Len(u.functions) + 1
      returned == s.functions[depth].fn
      v == IF depth <= TraceLevel /\ returned = "runtime.deferproc"
             THEN SetBreakpointToDeferredFunc(u, g, t) ELSE u
  IN  IF depth <= TraceLevel /\ returned \in Printable THEN PrintOutput(v, returned, depth) ELSE v

LastUsed(s) == IF s.functions = <<>> THEN 0 ELSE s.functions[Len(s.functions)].usedStackSize

-----------------------------------------------------------------------------
(* The main loop.                                                          *)

\* The handler of the trap of g leaves s as the controller's state and g in
\* state t after its single steps.
Handled(g, s, t) ==
  /\ goRoutines' = [goRoutines EXCEPT ![g] = t]
  /\ trapped' = trapped \ {g}
  /\ phase' = "resuming"
  /\ held' = {g}
  /\ breakpoints' = s.breakpoints
  /\ breakpointHints' = s.hints
  /\ statusStore' = [statusStore EXCEPT ![g] = s.functions]
  /\ tracingGoRoutines' = [tracingGoRoutines EXCEPT ![g] = s.tracing]
  /\ printed' = [printed EXCEPT ![g] = s.printed]
  /\ mismatched' = IF s.mismatch THEN mismatched \cup {g} ELSE mismatched
  /\ base' = [base EXCEPT ![g] = s.base]
  /\ UNCHANGED <<points, requests>>

CanHandle(g) == phase = "waiting" /\ g \in trapped

\* A system routine, or a breakpoint that does not count for this go routine: a
\* single step over the breakpoint and nothing else.
HandleTrapAtUnrelatedBreakpoint(g) ==
  /\ CanHandle(g)
  /\ g \in SystemRoutine \/ ~Hit(breakpoints, goRoutines[g].pc, g)
  /\ \E t \in Succ(goRoutines[g]) : Handled(g, State(g), t)

OwnBreakpoint(g) ==
  CanHandle(g) /\ g \notin SystemRoutine /\ Hit(breakpoints, goRoutines[g].pc, g)

\* First, what a trap at one of the go routine's own breakpoints says about the
\* trace points, then, about functions that have returned.
AtTracePoint(g) == UpdateTracingStatus(State(g), g, goRoutines[g])

AfterReturns(g) ==
  LET s == AtTracePoint(g)
      t == goRoutines[g]
  IN  IF LastUsed(s) > UsedStackSize(t) THEN HandleTrapAfterFunctionReturn(s, g, t) ELSE s

\* Then what the breakpoint is for.
HandleTrapUntraced(g) ==
  /\ OwnBreakpoint(g)
  /\ ~Tracing(AtTracePoint(g))
  /\ \E s \in {AtTracePoint(g)}, t \in Succ(goRoutines[g]) : Handled(g, s, t)

HandleTrapWithoutHint(g) ==
  /\ OwnBreakpoint(g)
  /\ Tracing(AtTracePoint(g))
  /\ AfterReturns(g).hints[goRoutines[g].pc] = "unknown"
  /\ \E s \in {AfterReturns(g)}, t \in Succ(goRoutines[g]) : Handled(g, s, t)

\* One step leads to the entry of the callee, which may be a trace point.
AtCallee(g, callee) ==
  LET s == UpdateTracingStatus(AfterReturns(g), g, callee)
  IN  IF Tracing(s) THEN HandleTrapAtFunctionCall(s, g, callee) ELSE s

HandleTrapBeforeFunctionCall(g) ==
  /\ OwnBreakpoint(g)
  /\ Tracing(AtTracePoint(g))
  /\ AfterReturns(g).hints[goRoutines[g].pc] = "call"
  /\ \E callee \in Succ(goRoutines[g]) : \E s \in {AtCallee(g, callee)}, t \in Succ(callee) :
       Handled(g, s, t)

\* A panic has left the functions called by the one that deferred this function.
\* Defect: they are unwound by the stack that the panic itself has used.
LeavePanicked_Not(s, g, t) == s
LeavePanicked(s, g, t) ==
  IF Panicking(t) /\ HasPanicHandler(t)
    THEN UnwindFunctions(s, g, UsedStackSizeAtDefer(t), t.pc[1]) ELSE s

\* The breakpoint at the entry of the deferred function is used up.
AtDeferred(g) ==
  LET s == LeavePanicked(AfterReturns(g), g, goRoutines[g])
  IN  [HandleTrapAtFunctionCall(s, g, goRoutines[g])
         EXCEPT !.breakpoints = ClearConditional(@, goRoutines[g].pc, g)]

HandleTrapAtDeferredFuncCall(g) ==
  /\ OwnBreakpoint(g)
  /\ Tracing(AtTracePoint(g))
  /\ AfterReturns(g).hints[goRoutines[g].pc] = "deferred"
  /\ \E s \in {AtDeferred(g)}, t \in Succ(goRoutines[g]) : Handled(g, s, t)

HandleTrap(g) ==
  \/ HandleTrapAtUnrelatedBreakpoint(g)
  \/ HandleTrapUntraced(g)
  \/ HandleTrapWithoutHint(g)
  \/ HandleTrapBeforeFunctionCall(g)
  \/ HandleTrapAtDeferredFuncCall(g)

\* Defect: the end points requested are taken but not set.
ContinueAndWait_DropsEnds ==
  LET starts == {pendingStartTracePoint[i] : i \in DOMAIN pendingStartTracePoint}
  IN
  /\ phase = "resuming" /\ ~interruptCh
  /\ phase' = "waiting" /\ held' = {}
  /\ breakpoints' = SetAll(breakpoints, starts \ startAddressList)
  /\ startAddressList' = startAddressList \cup starts
  /\ pendingStartTracePoint' = <<>> /\ pendingEndTracePoint' = <<>>
  /\ UNCHANGED <<tracee, breakpointHints, statusStore, tracingGoRoutines, interruptCh, output,
                 endAddressList>>

\* The requests that have arrived become effective, then the tracee resumes.
ContinueAndWait ==
  LET starts == {pendingStartTracePoint[i] : i \in DOMAIN pendingStartTracePoint}
      ends   == {pendingEndTracePoint[i] : i \in DOMAIN pendingEndTracePoint}
      new    == (starts \ startAddressList) \cup (ends \ endAddressList)
  IN
  /\ phase = "resuming"
  /\ ~interruptCh
  /\ phase' = "waiting"
  /\ held' = {}
  /\ breakpoints' = SetAll(breakpoints, new)
  /\ startAddressList' = startAddressList \cup starts
  /\ endAddressList' = endAddressList \cup ends
  /\ pendingStartTracePoint' = <<>> /\ pendingEndTracePoint' = <<>>
  /\ UNCHANGED <<tracee, breakpointHints, statusStore, tracingGoRoutines, interruptCh, output>>

\* Requests are looked at before the tracee resumes, not while it runs.
Interrupted ==
  /\ phase = "resuming"
  /\ interruptCh
  /\ phase' = "ended"
  /\ interruptCh' = FALSE
  /\ UNCHANGED <<tracee, held, trace, points, pendingStartTracePoint, pendingEndTracePoint, output>>

\* The tracee has exited, or something has failed: MainLoop returns.
MainLoopReturns ==
  /\ phase # "ended"
  /\ phase' = "ended"
  /\ UNCHANGED <<tracee, held, trace, points, requests, output>>

-----------------------------------------------------------------------------
(* The rest of the world.                                                  *)

\* g executes an instruction or the trap instruction in its place.
Run(g) ==
  /\ phase # "ended" /\ g \notin trapped \cup held
  /\ IF goRoutines[g].pc \in DOMAIN breakpoints
       THEN trapped' = trapped \cup {g} /\ UNCHANGED goRoutines
       ELSE /\ \E t \in Succ(goRoutines[g]) : goRoutines' = [goRoutines EXCEPT ![g] = t]
            /\ UNCHANGED trapped
  /\ UNCHANGED <<phase, held, trace, points, requests, output>>

\* A request is refused, without effect, when its channel is full.
AddStartTracePoint(a) ==
  /\ Len(pendingStartTracePoint) < ChanBufferSize
  /\ pendingStartTracePoint' = Append(pendingStartTracePoint, a)
  /\ UNCHANGED <<tracee, phase, held, trace, points, pendingEndTracePoint, interruptCh, output>>

AddEndTracePoint(a) ==
  /\ Len(pendingEndTracePoint) < ChanBufferSize
  /\ pendingEndTracePoint' = Append(pendingEndTracePoint, a)
  /\ UNCHANGED <<tracee, phase, held, trace, points, pendingStartTracePoint, interruptCh, output>>

Interrupt ==
  /\ ~interruptCh
  /\ interruptCh' = TRUE
  /\ UNCHANGED <<tracee, phase, held, trace, points, pendingStartTracePoint, pendingEndTracePoint,
                 output>>

MainLoop ==
  \/ \E g \in GoRoutine : HandleTrap(g)
  \/ ContinueAndWait
  \/ Interrupted

Requests ==
  \/ \E a \in scenario.late.start : AddStartTracePoint(a)
  \/ \E a \in scenario.late.end : AddEndTracePoint(a)
  \/ Interrupt

ControllerNext ==
  \/ MainLoop
  \/ MainLoopReturns
  \/ \E g \in GoRoutine : Run(g)
  \/ Requests

Next == ControllerNext /\ UNCHANGED scenario

Spec == Init /\ [][Next]_vars

-----------------------------------------------------------------------------
(* Properties.                                                             *)

\* The functions that gopanic is made of, between two deferred calls.
InPanic(t) == Panicking(t) /\ Top(t).fn \in {"runtime.gopanic", "runtime.reflectcall"}

\* The tracer has dealt with all that g has done: g is traced, has not left the
\* function that started the tracing, is not about to hit a breakpoint and not on
\* its way from one deferred call of a panic to the next or to the end.
UpToDate(g) ==
  /\ tracingGoRoutines[g] > 0
  /\ Len(goRoutines[g].stack) >= base[g]
  /\ ~Hit(breakpoints, goRoutines[g].pc, g)
  /\ ~InPanic(goRoutines[g]) /\ goRoutines[g].panic # "back"

\* The stack as the program means it: a deferred call that a panic has started is
\* a call by the function that deferred it.
MeantStack(t) ==
  IF ~Panicking(t) THEN t.stack
  ELSE LET i == CHOOSE i \in DOMAIN t.stack : t.stack[i].fn = "runtime.reflectcall"
       IN  SubSeq(t.stack, 1, UsedStackSizeAtDefer(t) \div 2) \o SubSeq(t.stack, i + 1, Len(t.stack))

\* The calls of g which are within TraceLevel and printable.
VisibleCalls(g) ==
  LET stack == MeantStack(goRoutines[g])
      n == IF Len(stack) < base[g] + TraceLevel THEN Len(stack) - base[g] ELSE TraceLevel
      calls == {[fn |-> stack[base[g] + d].fn, depth |-> d] : d \in 1..n}
  IN  {call \in calls : call.fn \in Printable}

\* The functions printed as called and not yet as returned are those on the
\* stack, with their depth relative to where the tracing started: "The traced
\* info is printed if the function is (directly or indirectly) called by the
\* trace point function AND the stack depth is within the level"
\* (controller.go:130).
PrintedMatchesStack ==
  \A g \in GoRoutine : UpToDate(g) => printed[g] = VisibleCalls(g)

\* No return is printed for a call that was not printed (printFunctionOutput).
ReturnsMatchCalls == mismatched = {}

\* A go routine that is not traced (any more) has no breakpoint of its own left:
\* the controller stops it at trace points only, and lets it pass where it runs into a
\* trap that is set for others (exitTracepoint, handleTrapEventOfThread).
UntracedNotStopped ==
  \A g \in GoRoutine : tracingGoRoutines[g] = 0 =>
    \A a \in DOMAIN breakpoints : Hit(breakpoints, a, g) => breakpoints[a].associateAll

\* A traced go routine has each conditional breakpoint as often as it needs it:
\* for the calls and the return of each function it is in, recursive calls each
\* on their own, for the calls of the function that started the tracing and for
\* the deferred functions that are to be printed (addFunction against
\* doUnwindFunctions, setBreakpointToDeferredFunc against its clearing).  Not when
\* sessions nest: enterTracepoint then sets the calls' breakpoints once more.
Wanted(g, a) ==
  LET t == goRoutines[g]
      calls == IF a \in CallInsts(t.stack[base[g]].fn) THEN 1 ELSE 0
      deferred == {i \in DOMAIN t.defers : /\ a = Entry(t.defers[i].fn) /\ ~t.defers[i].started
                                           /\ t.defers[i].level \in base[g]..(base[g] + TraceLevel - 1)}
  IN  Clearings(statusStore[g], DOMAIN statusStore[g], a) + calls + Cardinality(deferred)

BreakpointsBalanced ==
  scenario.late.start = {} => \A g \in GoRoutine :
    UpToDate(g) /\ Top(goRoutines[g]).fn # "runtime.deferproc" =>
      \A a \in Addr :
        IF a \in DOMAIN breakpoints
          THEN breakpoints[a].associateAll \/ breakpoints[a].associations[g] = Wanted(g, a)
          ELSE Wanted(g, a) = 0

-----------------------------------------------------------------------------

Loop == INSTANCE MainLoop
  WITH Thread <- GoRoutine,
       TracePoint <- UNION {{sc.start, sc.end} \cup sc.late.start \cup sc.late.end : sc \in Scenario},
       InitialRequests <- {[k \in {"start", "end"} |-> IF k = "start" THEN <<sc.start>> ELSE <<sc.end>>]
                             : sc \in Scenario},
       pending <- [k \in {"start", "end"} |->
                     IF k = "start" THEN pendingStartTracePoint ELSE pendingEndTracePoint],
       active <- [k \in {"start", "end"} |-> IF k = "start" THEN startAddressList ELSE endAddressList]

\* What the loop stops, resumes, applies and when it ends does not depend on what
\* its handlers do (MainLoop, handleTrapEvent).
ImplementsMainLoop == Loop!Spec

=============================================================================
