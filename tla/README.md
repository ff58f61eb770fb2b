# Formal models of tgo

tgo traces the functions a Go program calls. The program imports
`lib/tracer` and calls `Start` and `Stop`; a server process attaches to it with
ptrace, sets breakpoints at calls, returns and deferred functions, and prints a
line for each call and each return. This directory holds TLA+ modules that are
translated from the source, TLC configurations that check small instances, and
proofs that TLAPS checks for instances of any size.

Contents: 1 the system, 2 the modules, 3 the runs, 4 fairness, 5 proofs, 6 what
the checks found, 7 what is not modelled, 8 the plan.

## 1. The system

| Component | State | Operations | What makes it correct |
| --- | --- | --- | --- |
| `lib/tracer` | `serverCmd`, `client`, `serverMtx` | `Start`, `Stop`, launching, dialling and terminating the server | Start returns; no server is left behind; when it returns nil, tracing is enabled |
| `service.Tracer` | `controller`, `errCh`, `mtx` | RPC: `Attach`, `Detach`, `AddStartTracePoint`, `AddEndTracePoint`, `Version` | one main loop at a time; the controller outlives it; no call blocks for ever |
| `tracer.Controller`, main loop | request channels, `interruptCh`, the event loop | `MainLoop`, `continueAndWait`, `Interrupt` | requests apply before the stopped thread resumes; an interrupt ends the loop |
| `tracer.Controller`, handlers | `statusStore`, `breakpointHints`, `callingFunctions` | one handler for each kind of breakpoint, unwinding | the output is what is on the stack; breakpoints are there as often as needed |
| `tracingpoints.go` | start and end addresses, the list of traced go routines | add, remove, test | sessions nest by counting |
| `tracer.Breakpoints` | address → (everyone, associated go routines) | set, clear, conditional variants, clear all of one go routine | go routines do not disturb each other; the table is what is in the tracee |
| `tracee.Process` | `breakpoints` with the original instructions | attach, set, clear, `SingleStep`, continue, detach | the text has traps exactly where breakpoints are; a step executes one instruction |
| `debugapi.Client` (Linux) | `tracingThreadIDs`, `trappedThreadIDs` | the ptrace and wait4 calls | every thread is traced; none is continued twice or inside an instruction |
| `debugapi.Client` (Darwin) | connection to debugserver, pending signal | resuming, stop replies and their timeout, stop info of each thread, thread-local storage | answers belong to their requests; no stop is missed; a signal is passed on once |
| `tracee.Process`, functions | `moduleDataList`, the tracee's tables, DWARF | `FindFunction` | the function an address is in; parameters where the compiler put them |
| `tracee` value parser | none (memory of the tracee) | parse by DWARF type, print | what is printed is the value, down to the level; the tracer survives any value |
| `tracee` DWARF entries | opened file | parsing | not modelled |

How they interact. `lib/tracer` talks to `service` over one RPC connection; net/rpc
runs each call in a go routine. `service` runs `Controller.MainLoop` in a go
routine and hands requests over through channels. `Controller` calls `Breakpoints`
with `Process.SetBreakpoint` and `ClearBreakpoint` as callbacks. `Process` calls the
client, whose proxy runs every request in one OS thread because ptrace requires it.
All of this is driven by events of the tracee, which is also the program that
made the first call: the client of the server is stopped by the server.

What is hard here:

* **interleaving**: go routines of the tracee share breakpoints; threads run while
  another one is stepped; RPC calls, the main loop and the go routine that `Detach`
  leaves behind share the controller;
* **stale state**: a trap may be handled after its breakpoint was cleared or set
  again; functions are recognised as returned from stack usage alone;
* **partial failure**: each ptrace call can fail half way through an operation,
  above all because the tracee exits;
* **ordering**: requests are only looked at when the tracee traps; clone events and
  first stops of new threads belong together;
* **liveness**: everything behind the mutex waits for the tracee to trap.

`PROJECT.json` lists the hazards at their lines, with the properties that cover
them or the reason none does.

## 2. The modules

```
 BreakpointTable ──► Breakpoints ──implements──► BreakpointPromise
       │                 └─ Breakpoints_proofs
       ▼
 Tracee ──► Controller ──implements──► MainLoop ──► Service ──► TracerLibrary
               │                        └ _proofs    └ _proofs    └ _proofs
               └─► BracketedSessions
                          └ Controller_proofs
 Ptrace ──► LinuxClient ──► Process
                              └ _proofs
 Debugserver ──► DarwinClient ──► DarwinProcess
                                     └ _proofs
 FunctionTable ──► FunctionLookup
                       └ _proofs
 ValueParser
```

`A ──► B`: B extends A (Controller takes BreakpointTable by INSTANCE). The `MC…`
modules give constants their values.

**BreakpointTable** – the map of `Breakpoints` as a value and each method as an
operator from table to table. The list of associated go routines is a bag, since
`Associate` appends and `Disassociate` removes one entry. The last two operators
(`SetConditionalAll`, `ClearConditionalTimes`) are several calls one after another,
as the controller's loops make them; that they are is proved (`SetsInARow`,
`ClearsInARow`).

**Breakpoints** – the methods as actions with the outcome of `doSet`/`doClear`.
`inserted` is what the callbacks have put into the tracee. `ClearAllByGoRoutineID`
ranges over a Go map: when it fails, any subset of the other entries (`V`) was
visited before.

**BreakpointPromise** – what callers rely on, with no table: a breakpoint is wanted
by a go routine as often as it was set and not cleared, or by everyone, and the
tracee traps exactly where something is wanted.

**Tracee** – external: a Go program as the controller can observe it. A program is a
function from names to instruction sequences (`op`, `call`, `ret`, branches, and the
two instructions inside `runtime.deferproc` and `runtime.deferreturn`). Stack usage
is counted in words of one: a return address and a frame per call, the frame
allocated by the first instruction, which is why usage at a function's entry is odd.
A panic is `runtime.gopanic` written out: it starts the last deferred call not yet
started, runs it through `runtime.reflectcall`, and ends it, either to go on with the
next or, after `recover`, to return from the function that deferred it. A call that a
branch leads to has a bound on the stack (`i.bound`), so recursion ends.

**Controller** – one action per kind of trap (`handleTrapEventOfThread` and the
handlers it calls), `ContinueAndWait`, `Interrupted`, the requests, and the go
routines that run. `statusStore`, `breakpointHints`, `breakpoints`, the address lists
and the channels are the fields of the source; a handler computes a record of those
that concern one go routine and `Handled` writes it back. `printed` is the output:
the calls printed without their return so far, each with its depth. `base` (where the tracing started) and
`mismatched` are history for the properties. A `scenario`, chosen at the start and never
changed, says what each go routine runs, which trace points there are and which are only
requested while they run. In a panic the trap at a deferred function first forgets the
functions that the panic has left (`LeavePanicked`: `findPanicHandler` and the unwinding up
to its stack), then adds the deferred one. A handler is one step: it changes only
what concerns its own go routine (`OthersKeepTheirHits` is proved), whose thread is
stopped; what other threads can see of it, the single step over a breakpoint, is
the subject of Process.

**BracketedSessions** – a discipline for traced programs, as a condition on their text:
`SessionsBracketed(fs, region)` says that the functions `fs`, which neither defer nor panic,
enter `region` by the start point only and leave it by calling the stop function only, before
they return. `Unnested` adds that nothing called in a session starts one. The properties of
what is printed are proved for such programs; Controller itself knows nothing of it.

**MainLoop** – the skeleton of Controller: which threads are stopped, when requests
apply, when the loop ends; what handlers do is left open. `ImplementsMainLoop` maps
Controller's variables to it, so Service can use the small module.

**Service** – the RPC methods, each a step under the mutex; `Detach` is two, since the
go routine it leaves holds the mutex until the loop has ended (`mtx = "detacher"`).
The main loop's go routine is `loop`: started, running, and with `phase = "ended"`
blocked on the unbuffered `errCh`.

**TracerLibrary** – `Start` step by step under `serverMtx` (launch, dial with retries,
version and path, Attach, AddEndTracePoint, or AddStartTracePoint) and
`terminateServer`, composed with Service: a thread of the program is both the RPC
caller and a thread of the tracee, so it makes a step only if it is not stopped.
`position` says where each thread is, from the call of Start over the trace point
behind it to Stop.

**Ptrace** – external: threads under Linux's ptrace. Running, stepping, stopped or dead,
with a status for wait4; `past` says that the program counter is behind a trap. With
"early stop" in `happens`, wait4 may report a new thread's first stop before its creator's
clone event. A `scenario`, chosen at the start and never changed, says how many threads
there may be, which of them are there before tgo, and what may happen.

**LinuxClient** – `client_linux.go`. The proxy runs one request at a time, so a call is
atomic up to its next wait4, and each wait4 that returns is a step (`waiting` says
which one the call is in). `ContinueFrom` stops at the first thread that cannot be
continued, as the loop in `continueAndWait` does.

**Process** – `process.go` over the client: the text with the traps, `SingleStep` in two
parts around its wait, `Detach`. The controller appears as anything it may ask for: a
step for each trap, breakpoints set and cleared before and after.

**Debugserver** – external: lldb's debugserver and the threads of a process under it. Only
after all threads were stopped is a stop reply sent, for one of the threads that have
stopped by then; another's stop may be reported with a later resume. `happens` is the
scenario's subset of what may happen besides: signals, bad accesses, output, an exit,
replies that are not sent, a process that runs for longer than the timeout, refused
requests. Answers queue in order; that a stop reply and the answer to `qThreadStopInfo`
look alike is modelled by their being the same kind of record.

**DarwinClient** – `client_darwin.go`: `ContinueAndWait` and `StepAndWait` as the steps between
two packets. `call` says where a call is: waiting for the reply, listing the threads after
the timeout, asking each for its stop info, choosing the trapped ones. `pendingSignal` is
the client's; `owed` is history (a signal named to the client and not yet passed on).

**DarwinProcess** – `process.go` over this client with its retries: `SingleStep` steps the other
threads of an `UnspecifiedThreadError` first and then steps again; reading the go routine's
address steps a thread over an instruction that the client writes into the program. As
these call each other, `frames` is the stack of calls. Handlers are anything that sets and
clears breakpoints.

**FunctionTable** – `findFuncType`: the module data an address belongs to, the rough index
of `findfunctab`, and the two loops of `adjustFtabIndex`, a step for each iteration.
`WellFormed` is what the linker guarantees (external): entries increase from `minpc` to
`maxpc`, and the rough index is exact for the first function. Elsewhere it may be too
small, too large or behind the table, which is why the code clamps it and walks both ways.

**FunctionLookup** – `FindFunction` around it: with DWARF, `fillInOutputParameters` and then
`fillInUnknownParameter`, each looking up the size of the arguments (a search) only if it
may fill something in; without, the words of the arguments. A parameter's `place`, where the
compiler puts it, is known to the properties only; `AsCompiled` is what its layout
guarantees (external). Names are compared as strings (`NameKey`). The tracee is stopped and alive during a lookup.

**ValueParser** – `value.go`: the type `Types[t]` decides how an object in memory is read, as
in `parseValue`; one operator for each `parse…` method and for what the `String` methods show.
Bytes are abstracted: an address holds a number, an address or a composite; headers of
slices and interfaces, `hmap` and buckets (tophash marks, keys, values, overflow) are there
as records. A type assertion or hash that panics, a method of a nil value and the overflow
of the stack (`StackLimit` calls) are `Crash`. `argument.odd` names what is out of the
ordinary in a memory, so that the properties can say for which values they hold. There is
memory for `MaxAlloc` elements or bytes; a longer length, or a negative one of a string, is
garbage. The operators are recursive, so nothing is proved here.

Operators named `X_Defect` stand before `X` and are plausible mistakes in `X`; no
action uses them. Putting one in the place of `X` makes a property fail, which
shows that the property depends on that code.

## 3. The runs

| Run | Question | Bounds | States |
| --- | --- | --- | --- |
| breakpoints | table against traps, isolation of go routines, calls failing half way; until a clearing fails, the promise | 3 addresses, 2 go routines, 2 associations each | 27,880 |
| controller | deferred calls and recursion next to a system routine; nested sessions and late trace points; panics and recover; refinement of MainLoop; bracketed sessions are counted | 2 go routines, stack of 3 to 5 below main, trace level 2 to 4, channel of 1 | 200,528 |
| process_scenarios | launching or attaching, clones, signals, exits, failures, interrupts while stepping over breakpoints | 7 scenarios, see below; 4 addresses, 2 breakpoints | 3,344,746 |
| service | concurrent RPC calls, under fairness; Attach succeeds | 2 callers, 2 threads, channel of 2 | 52,668 |
| library_start | two threads in Start and Stop at two places, server failing at every step | 2 threads, 2 places, 2 dials | 223,386 |
| darwin | the same questions for the Darwin client: lost and late replies, signals, refusals, retries | 2 threads, or 3 that nothing disturbs; a loop of 3 instructions, 1 breakpoint, 6 scenarios | 628,948 |
| function_lookup | function table search and parameter places | text of 8 addresses cut anywhere, 3 kinds of rough index; 3 parameters | 67,947 |
| values | what is printed for a value at each level; no crash | 3,870 arguments, see below | 7,740 |
| controller_deferstop, process_signalled, darwin_repeats, library_again | counterexamples, section 6 | | |

Why the bounds are enough. Breakpoints: two go routines are "this one and another";
a third address lets `ClearAllByGoRoutineID` fail between two entries it treats
differently; two associations are recursion. Controller: five scenarios, each with a
program of its own, two of them bracketed, with recursion in a session and with sessions in
sessions of two go routines; with a stack deeper than the trace level a call is above, at or below
the level, and recursion returns into the same function; a panic passes a frame without
and two with deferred functions, and is recovered by the one that started it or by a
recursive caller; the trace points are requested before, in and between sessions; a channel
of one place is full as soon as it is used. The branches of the little programs are free, so
a run covers all the call sequences of its program up to the depth. Darwin: with two threads
there is one that steps and one that stops meanwhile; a third stops while the second is
stepped out of the way; the scenarios keep apart what
interferes (a property that fails under one of them names it, see below). Values: three
nodes give lists that end, cycle and dangle, with every choice of successors; levels 0 to 3
cut at each of them; two cells per bucket, two buckets and an overflow bucket give every
place an entry can have, with every filling of their cells; two items are printed of three
(8 in the code). Process: two threads have everything that may happen; three have it with
exits but no signals, or with signals and first stops in any order but no exits, or are
attached to while two of them run. So one is stepped, one is created and one runs free, and
one that is being created can be overtaken by another's trap; a loop of four instructions
lets a thread come to a breakpoint, to its neighbour and back. Functions: tables
of up to seven cuts have functions shorter and longer than a subbucket, in two buckets; three
parameters are one that is missing, one before it and one behind it, and one signature has
two-digit outputs; sizes of 4 and 8 give padding. Attach that fails is in library_start and
in the proofs of Service. Library: two dials are "the last one" and
"not the last one" (five in the code); two threads contend for the mutex. Bounds in guards:
a branch into a call is not taken at the depth it names (`bound`); `MaxAssociations` guards
`CallSetConditional`; `StackLimit` is the tracer's stack; the channel sizes and the number
of dials are constants of the code made small.

What the properties say, beyond types:

* *InsertedMatchesTable* – after any failures, the tracee traps where the table has
  entries. *OthersKeepTheirHits*, *UnconditionalStays*, *ClearAllSilences* – a call for
  one go routine neither takes breakpoints from others, nor removes a trace point, and
  leaving a session silences the go routine.
* *NilMeansHit*, *KeepsPromise* – with reliable clearing the table is the bag of wants it is
  meant to be.
* *PrintedMatchesStack* – whenever the controller is up to date, the calls printed and
  not yet returned are the ones on the stack, with depth counted from where the session
  started. *ReturnsMatchCalls* – no return line without its call line.
* *BreakpointsBalanced* – each conditional breakpoint of a go routine is there exactly
  as often as the functions it is in and its deferred functions need it (while no session
  nests inside another: entering one sets the breakpoints of the calls once more).
* *BracketedSessionsCounted* – in a program that keeps to the discipline (the run checks that
  its programs do) a go routine is in `tracingGoRoutines` as often as functions on its stack
  are in a session, and depths count from the outermost of them.
* *UntracedNotStopped* – a go routine outside of a session is stopped at trace points
  only. *ImplementsMainLoop* – the refinement.
* *AllTraced*, *NeverInsideInstruction*, *TextMatchesBreakpoints*, *EachIsContinued*,
  *UndisturbedSteppedOne*, *NoTrapLeft* – no thread of a launched process runs untraced or is
  missing from the client's list; none continues behind a trap; the text agrees with the table
  except during a step; a resume reaches each stopped thread once; a step without a signal in
  it is one instruction; a tracee that lives on after Detach has its own instructions back.
  The second, and the client's list in the first, are conditioned on `Unsignalled` (no signals
  and no early first stops), the last on no thread exiting alone; they fail without (section 6).
* *EventNamesTrapped*, *SignalGoesBack*, *HelperLeft*, *StopNoticed*, *StepsEnd* – Darwin: an event
  names exactly the threads that have trapped; a signal is passed on once; no thread is left
  in the client's own instruction; a stop whose reply is lost is noticed; retries end. The
  first and the third are conditioned on `Prompt` (no call's timeout passes while the process
  runs) and fail without it; the last on no signals and on replies in time.
* *LoopHasController*, *AttachmentsSeparate*, *ResumesWithRequests*, *DetachEnds*, *CallsAnswered* –
  the service and its loop. The second says that one attachment does not reach into the next:
  there is one loop at a time, and an interrupt that comes too late, since the loop had
  returned by itself, does not end a later one. Whether the reply "already attached" is true
  is not among them, because it is not (section 6).
* *NoServerLeft*, *AttachEnables*, *StopEnds*, *StartReturns* – the library.

* *FindsFunction*, *SearchStaysInside*, *FindFunctionEnds* – the search finds the right
  function from any rough index, inside the table, and ends. *FilledInTruly* – a place that
  is worked out is the compiler's.
* *PrintsValue* – the text is the value as the language defines it (`Meant`, which reads the
  runtime's structures on its own), with the program's structs cut at the level and the
  runtime's not counted. *NeverCrashes* – parsing and printing neither panic nor run for ever.

Type invariants (`TypeOK`) are not among the runs' properties; those of Breakpoints,
MainLoop, Service, TracerLibrary, Process and DarwinProcess are proved. Deadlock is checked in
the Breakpoints run and in function_lookup. Elsewhere the system may really stop: the main
loop returns, the process exits, attaching fails.

## 4. Fairness

Service: `WF` for the main loop's go routine and for the one Detach leaves, as the Go
scheduler runs what can run; `SF` for each call, because it needs the mutex and
`sync.Mutex` hands itself to a waiter that starves. `service` also needs `WF` of
`TraceeTraps`: the code only looks at the interrupt and the requests when the tracee
traps, so without it Detach need not end. That is a limit of the code and not an
assumption it justifies (section 6). No fairness is assumed for clients, and none
between the threads whose traps wait: the liveness properties hold in any order
wait4 may choose.

TracerLibrary: `WF` for a thread in Start and for the server's go routines, `SF` for
`serverMtx`. Nothing obliges the server to listen or to stay alive: the bounded number
of dials and failing calls end Start.

DarwinProcess: `WF` for each thread of the process (the operating system's scheduler), for
the debugserver, for the client's steps, of which its timer is one, and for the handlers.
Nothing obliges the debugserver to send a reply or the process to stop. FunctionLookup:
`WF` of the lookup's own steps. The other runs are about safety only.

## 5. Proofs

All proofs hold for every value of the constants that satisfies the named assumptions
(`NoGoRoutine \notin GoRoutine`, `NoAddr \notin Addr`, `MainLoopAssumption`,
`ProgramsAssumption` and `SignaturesAssumption`; for Process `PtraceAssumption`, of which only that the threads are
finitely many is more than a type, and `BreakAddrAssumption`: no breakpoint at a system call;
for TracerLibrary `LibraryAssumption`: the callers are the program's threads, the trace points
are those of Start and Stop, and there is room for a request and at least one dial; for
DarwinProcess `DebugserverAssumption`, of which only that the debugserver lists no thread twice
and that the client's instruction is not part of the program is more than a type, and
`BreakAddrAssumption`: breakpoints are in the program).

*Breakpoints_proofs*

* `TypeCorrect`: `TypeOK` is inductive; `TableTypes` says that each operator maps
  tables to tables.
* `InsertedCorrect`: inductive together with `TypeOK`. The point is `ClearAllFailed`,
  where both sides lose the same entries, those without association among the visited.
* `Isolation`, `TracePointsStay`: action properties; every step needs `TypeOK` and
  `ConditionalCallsAreLocal` (an operation for g leaves what h hits).
* `Silenced`: after `ClearAllByGoRoutineID` no entry has the go routine left.
* `NothingOrphaned` (`NoOrphan`: no entry without association, checked by no run of its own):
  under `Spec`, `TypeOK /\ NoOrphan` is inductive. `NoOrphan` has `~clearFailed` as its
  premise, and until a clearing fails every step is one of `ReliableNext` (`ReliableSoFar`),
  in which clearing removes an entry with its last association.
* `NilMeansHitCorrect`: needs `NoOrphan`, since an existing entry without association
  is what makes `SetConditional` return nil for nothing.
* `PromiseKept`: `Spec => KeepsPromise`, the promise's initial states and every step up to the
  first clearing that fails (`clearFailed'`), whatever settings fail. The mapping reads "wanted" off the
  associations. `NeededIsDomain` (with NoOrphan, the needed addresses are the table's
  domain) and `InsertedMatchesTable` give `trapping`; every action maps to a step of the
  promise or to `Refuse`.
* `SetsInARow`, `ClearsInARow`: the combined operators used by Controller are empty at the
  start and one more call at each step.

*Controller_proofs*

* `MainLoopImplemented`: `Spec => ImplementsMainLoop`, for any program. Each handler
  maps to a thread that stops and is held, ContinueAndWait to the loop's resuming, the
  requests to themselves; the steps of the program change nothing that MainLoop sees.
* `UntracedNotStoppedCorrect`: the invariant is `UntracedQuiet`, which says that the
  breakpoints are well-formed entries and that none that is conditional counts for a go
  routine whose tracing count is 0. It is stronger than the property, which looks only at
  where the go routine is now. `Preserves` carries it through a handler: each operator on
  breakpoints leaves other go routines as quiet as they were (`SettingPreserves`,
  `ClearingPreserves`), and of the go routine itself a handler leaves either its count
  positive or its breakpoints cleared (`Settled`; `exitTracepoint` is where it matters).
* `PrintedMatchesStackBracketed`, `ReturnsMatchCallsBracketed`, `BreakpointsBalancedUnnested`,
  `SessionsCountedBracketed`: for every program, scenario and discipline that the program keeps to,
  any trace level and any number of go routines. The hypothesis `SessionsBracketed` is needed:
  without it the first fails (controller_deferstop), since functions stay in `statusStore` when
  a session ends above its own function. It leaves out deferred calls and panics, for which the
  run `controller` is all there is. `Unnested` is needed for the balance: an inner session
  sets the breakpoints of the calls once more. The run `controller` has
  a program for each.

  None of the properties is inductive: they say nothing of a go routine that is about to hit a
  breakpoint, nor why one is there to be hit. The invariant (`BracketedIInv`, `Following`)
  says of each go routine at every step what the controller knows of it:
  - `FramesMatch`: the functions in `statusStore`, from where the session started, are frames of
    the stack with their return addresses, by depth; the last one may just have returned, and then
    the go routine is at its return address. `DepthsMatch`: down to the trace level no frame is
    missing, and `printed` is what they give. `HintsMatch`, `Enough`: the calls that have to be
    seen are marked and have breakpoints, and so has each return.
  - `Exact` (with `Unnested`): the breakpoints are there no more often than that.
  - `Sessions`: the tracing count is the number of functions on the stack that are in their
    session, and the known functions are forgotten when it becomes 0. This is where the
    discipline counts: a session ends in the function it began in, when all it called have
    returned. `InsideSteps` says what one instruction does to the set.
  - `Awaiting`: nothing runs before the two trace points are set.

  Four groups of lemmas carry it through a handler. What breakpoint operations do to counts
  (`SetConditionalCounts` to `SetAllCounts`) and that clearing the functions gone undoes exactly
  what adding them did (`ClearingsOfCalls`, `AddingFunction`, `Unwinding`). The handler's parts:
  trace points (`AtTracePoints`), returns (`AfterReturning`: at most one function has returned
  since, the last, because each return has a breakpoint), calls (`AtCallees`). Instructions
  that need not be seen (`Executing`, `Intercepted`, `ReturnNoticed`: with no breakpoint here,
  nothing has just returned and no call to be recorded is next). And that the handling for one
  go routine leaves what is known of the others (`OthersSame`, `Keeping`).

*MainLoop_proofs*: `TypeCorrect`; `RequestsBeforeResuming`, from the invariant that no
thread is held while the loop waits: only ContinueAndWait then lets a held thread
run, and it applies what is pending; a handler replaces `held` only when it is empty.

*Service_proofs*: `LoopHasControllerCorrect` (inductive: the controller is dropped only
together with the loop) and `OneLoopCorrect` from it: Attach starts a loop only without
a controller, hence without a loop. `ServiceTypeCorrect`: the types, with those of MainLoop
(`AddTyped`: a request is sent only into a channel with room).
`AttachmentsSeparateCorrect`: `InterruptAwaited`, an interrupt in the channel of a loop is that of
the Detach which holds the mutex, is inductive with `LoopHasController`. Where it could break is
AttachSucceeds, which starts a loop while nobody holds the mutex: its controller is new and
has an empty channel. All of these hold with attachments that fail.

*TracerLibrary_proofs*: `NoServerLeftCorrect`, from `Terminable`: as long as Start can still
fail, the client is open, or it was closed together with the server; `terminateServer` gives up
when closing the client fails, and that is why this matters. `LibraryTypeCorrect`: the types,
with `Control`: only the thread with `serverMtx` has a call in progress, the one of its step,
and once some Start was successful nobody launches or terminates a server any more.
`AttachEnablesCorrect` and `StopEndsCorrect` need what a thread relies on before the property
says anything about it (`Promises`): from the answer to Attach until the thread has passed its
trace point, this is active, or requested while the thread is stopped; from the answer to the
second call on the entry of Stop is requested; and a thread in a session has the entry active,
or requested while it is stopped. `LoopKeepsRequests` is the main loop's part: no step loses a
request, and none lets a stopped thread run before the requests are active.

*Process_proofs* – for any number of threads, any program and any breakpoints:

* `TextMatchesCorrect`: `TextFollows` says it with the record `handling` written out, so that
  each step shows which address is out of the text.
* `TypeCorrect`: `Typed` is `TypeOK` and that a clone event names a thread, which keeps
  `tracingThreadIDs` a set of threads. `SetToSeqLists` and `RemoveLists` say what
  the two operators on the client's list do to it.
* `NeverInsideInstructionCorrect`: the invariant `Orders` relates what the kernel, the client
  and MainLoop know of a thread. `PastWaits`: a thread behind a trap is stopped, and its trap
  is still to be waited for, or is the event in hand. `BirthsFit`: a child belongs to one
  creator and is waited for once; without it `continueClone` could continue a thread that has
  hit a trap. `WaitFits`: during a step the client waits for the stepped thread and no other.
  `ListFits`, `StatusFits` and `AtFirst` support these. `Orders` holds while MainLoop is
  `Going`: when ContinueAndWait fails half way (`Over`), some threads of the list run already,
  and all that is left is that none of these is behind a trap.
* `AllTracedCorrect`: `AllUnderTrace` (threads descend from the launched one) needs nothing
  else; `Tracked` (a thread not on the client's list has its first stop behind its creator's
  clone event) needs `Orders`, and holds in `Over` too.
* `SteppedOneCorrect`: `StepFits` says where a stepped thread is until SingleStep returns.
* `EachIsContinuedCorrect`: `Fits` holds with signals, exits and any order of first stops. The
  point is a resume that fails half way: the list has a thread that is not stopped only if
  that is dead, and then all are, for a stopped thread dies with the process only.
* `NoTrapLeftCorrect`: `Writable` says that outside of a call of the client there is a stopped
  thread on the list, or nobody is left (`DieTogether`); Detach writes through its first.

*DarwinProcess_proofs* – for any threads, program, breakpoints and scenarios. Five layers, each
of which needs those before it:

* `DarwinTypeCorrect`: `ControlInv` is `TypeOK`, `HandlersCall` (calls of SingleStep and
  CurrentGoRoutineInfo are inside a handler; one inside another is a step for a thread the outer
  one waits for) and `CallsStep` (a call of the client belongs to the main loop or to the
  innermost frame, and an event to the call that has ended). `ReturnFromIs`, `BecomesIs` and
  `PushIs` say what the three operators on the stack of calls do.
* `SignalCorrect`: while a call waits, what is owed is what `pendingSignal` was, or what the stop
  reply has named, for as long as threads are selected. It needs no premise about time.
* `NamesTrappedCorrect` (under `Prompt`): `Quiet` says what the channel holds at each place of a
  call: at most one reply for a resume, last and after output only; exactly one answer for a
  request; nothing when no call is in progress. Hence an answer belongs to its request.
  `Found`: threads found or still to be asked are all that have trapped.
* `HelperLeftCorrect` (under `Prompt`): only the thread of a CurrentGoRoutineInfo that is
  stepping, and has no call inside, is in the client's instruction, and no frame has a place
  there to come back to.
* `TextCorrect` (under `Unsignalled`): a trap is absent only at the place of some frame. It needs
  `TrapsOnly`: stops have no other reason than a trap or a step, and once a call's reply is due
  some thread has trapped, so that no step fails half way; a step that fails leaves the text
  as it is, which is why the property fails with signals.
* `UndisturbedStepCorrect` (under `Undisturbed`): `OneByOne`. Frames are for different threads,
  and those an outer frame has still to step are not those of frames outside of it
  (`NestedDistinct`); no thread that a frame or a handler is for has a stop that waits to be
  reported (`ReportedFrames`, `ReportedTodo`), so it does not stop in somebody else's step;
  while a step is in progress, either nothing moves because earlier stops are
  reported first, or one thread moves, and it stops after one instruction (`StepsOnce`).
  `Settled` concludes: a step that ends for its own thread was one instruction, and one that
  ends for others was none, so that repeating it is right.

*FunctionLookup_proofs*: `FindsFunctionCorrect` and `SearchStaysInsideCorrect`, from
`SearchInvariant`: walking back, the address is before the entry behind the index (except
at the first step, where only the entry itself is known to be behind the address) and not
in the first function; walking forth, it is at the entry or behind it. `BeforeTheEnd` is
why the second loop needs no bound: the table's last entry is `maxpc`. Where a rough
index points is left open by the assumption.

`FilledInTrulyCorrect`, for signatures of any length with any of the places dropped. The
offsets are sums of sizes; instead of an induction over the parameters, which the provers
cannot do, the proof counts bytes:

* `SumIsBytes`: as parameters share no byte, a sum of sizes is the number of bytes of these
  parameters. (The fold that defines the sum is compared with that number at the smallest set
  where they would differ, `LeastNatural`.) If the sum is the size of all arguments, no byte is
  left over (`NoByteLeft`). So a parameter begins where another one ends, unless it is the
  first (`OneEnds`), and another one begins where it ends, unless it is the last (`NextBegins`).
* `OutputPlace`: the bytes before an output are those of the inputs and of the outputs before
  it, which the code adds up. `NamesLikeNumbers` is where the names' order is needed.
* `SortedRearranges`: what `SortedByOffset` gives are the same parameters, ordered by offset.
  Nothing else is used of the sort, above all not that it keeps the order of equal offsets, so
  the steps hold for longer lists too, where `sort.Slice` does not.
* `UnknownPlace`: with one parameter missing and the others in order, there is a gap behind a
  parameter exactly if the missing one begins there (`GapBefore`), and if there is none, the
  missing one is the first.
* `FillingInvariant` puts them together. While the size is looked up, the search that finds it
  is for the function DWARF has found, in the program's own module data (`Located`, on top of
  `SearchInvariant`, and `SizeKnown`); at each stage the known places are true, and if the sizes
  add up, what is still missing is what the next part can fill in (`Locatable`).

What it assumes of the compiler is `SignaturesAssumption`: parameters share no byte and end
within the arguments, outputs follow the inputs in the order of their numbers, places that
DWARF tells are true, and a parameter has bytes. The last one is needed: an empty struct
of which the place is dropped makes no gap, and gets offset 0. No byte is read of it.

Only model-checked: what Controller prints, and that its breakpoints balance, in programs that
defer calls or panic; ValueParser, whose operators are recursive over the values; and all
liveness, which under fairness is out of the prover's reach.

## 6. What the checks found

Kept as runs that must end in a counterexample:

* **controller_deferstop** – `exitTracepoint` forgets the breakpoints of the go routine
  but not its `statusStore`. If Stop is reached inside a traced call (`defer
  tracer.Stop()`), the functions recorded then are taken for callers in the next session
  when that starts on a deeper stack: depths are too large, calls are missing.
* **process_signalled** – a signal in the middle of a single step: `handleWaitStatus`
  passes it on with `continueAndWait`, so the thread runs on instead of stepping,
  `StepAndWait` returns the next event of any thread, and `SingleStep` drops it.
* **darwin_repeats** – `StepAndWait` answers with `UnspecifiedThreadError` when the stepped
  thread and another have stopped together; `SingleStep` cannot tell whether its own step
  was taken, puts the program counter back and executes the instruction again.
* **library_again** – a second Start at another place only queues its trace point. If no
  breakpoint is hit before Start returns, the thread passes its trace point untraced.

Seen while modelling, not kept as runs:

* a deferred function that is also called directly: its first arrival, by whomever, uses
  up the breakpoint for the deferred call (`handleTrapAtDeferredFuncCall`). For the same
  reason BreakpointsBalanced fails in programs whose stack is deeper than the trace level and
  whose deferred calls below it share a function with those above;
* a deferred function that runs at the return of a function which a panic's deferred
  function has called is taken for one that the panic runs, too: `findPanicHandler` then
  unwinds calls that are still on the stack, and the depths printed are wrong;
* a session that starts inside a session sets the breakpoints of the calls again, and one
  clearing does not remove them; they go when the outermost session ends;
* `SetConditional` returns nil without effect if an earlier clearing of that entry failed
  (NilMeansHit without its premise `~clearFailed`);
* after a single step with a signal in it the thread runs on, and may stop with a clone event
  before `handleTrapBeforeFunctionCall` makes its second step: PTRACE_SINGLESTEP drops the
  event, and the child never comes on `tracingThreadIDs` (AllTraced without Unsignalled), so
  Detach skips it;
* when a child's first stop is reported before its creator's clone event, `continueClone` waits
  for a stop that was consumed already and takes the child's next one for it. If that is a
  trap, the trap is lost and the child runs on behind it (NeverInsideInstruction without its
  premise); if there is none, the proxy waits on with the creator stopped;
* after the exit of one thread is taken for that of the process, there may be no stopped
  thread to write through: Detach leaves the traps in the text (NoTrapLeft without its premise);
* with a second thread running, `DetachProcess` skips it (PTRACE_DETACH needs a stopped
  thread): it stays traced, and one with a pending trap continues behind it;
* the exit of any thread is taken for the exit of the process (`EventTypeExited`), so
  the main loop ends early and cannot clear its breakpoints;
* after a failed Attach the controller stays: the next Attach says "already attached" and
  Detach waits for a loop that never ran, with the mutex held;
* when the main loop has returned by itself (the tracee has exited, or something has failed),
  the controller stays too: until somebody calls Detach, Attach says "already attached" and
  attaches to nothing, and the RPCs that add trace points put them into channels that
  nobody reads (service.go:48, 65-69);
* unnamed outputs are ordered by their names as strings, so with outputs 9 and 10 of one
  function `~r10` gets the place of `~r9` (FilledInTruly without its premise NamesInOrder);
* `functab` answers a failing read with entry 0, so the search would not end if the tracee
  were killed in the middle of it;
* with a tracee that hits no breakpoint, Detach does not end;
* Darwin: the threads of an `UnspecifiedThreadError` are stepped over their traps and no handler
  is called for them, so a call or return of theirs is missed;
* Darwin: a stop reply that arrives after the timeout is taken for the answer to a request,
  and every later answer for that of the request before (EventNamesTrapped without `Prompt`);
  an error of a step inside `CurrentGoRoutineInfo` is taken for a system routine, and the trap
  it has removed stays out of the text (TextMatchesBreakpoints with signals); a signal is
  passed on again after a resume that failed;
* values (each is a member of `odd`; without it in the premise the property fails): a
  deleted cell is printed as an entry, since the code only skips mark 0 and Go 1.12 marks
  such cells 1; of a growing map the entries not yet moved are missing and the moved ones
  may be printed (the code says so in a log line); a map in an interface is
  dereferenced once too often, because only `*dwarf.PtrType` is taken for the pointer itself
  and a map is a typedef of one: it is printed empty; a typed nil in an empty interface is printed `nil`; an array longer than 8
  is printed with length 8; a map whose parsed keys hold structs, arrays, slices or maps
  panics when the key is put into a Go map; a type made by `reflect` lies in no module and
  `mapRuntimeType` dereferences nil; a string is allocated before it is read, so that a length
  which is none panics in `make`, and a slice of such a length is followed until there is no
  memory left; an interface that holds a pointer to itself is followed
  until the stack overflows, since the depth only decreases at structs;
* a thread created while the client attaches may stay untraced (the code names this
  race), and an attach that fails at an exited thread leaves the others stopped.

## 7. What is not modelled

* A panic while panicking, `runtime.Goexit`, and growing stacks of the tracee.
* A handler that fails in the middle. MainLoop returns then and its bookkeeping is not
  used any more; Process and Breakpoints have the failures of the single calls.
* The SIGSTOP of an early first stop is passed on to the thread like any signal, without the
  group stop that it may cause. Instructions with a breakpoint are not system calls. Exec stops, thread-local storage and registers other
  than the program counter are left out.
* The server dying while attached: the program would run into traps left in its text.
* Attaching on Linux fails at a member that has exited. A first stop by another signal
  (client_linux.go:185) has the same effect and is not there.
* Darwin: the debugserver may refuse the requests of the initialisation, but no other: refused
  requests for registers and memory or for a thread's stop info (client_darwin.go:631, 739, 765)
  end the call with an error, and one that puts the registers back at the end of ReadTLS
  (client_darwin.go:504) is swallowed, with the thread left in the helper. HelperLeft and
  TextMatchesBreakpoints hold for a debugserver that does not do so.
* Darwin: the bytes of packets, acknowledgements and checksums, register contents, memory
  reads; a run longer than the timeout is in `Happening` and in no run, because what follows
  from it (section 6) would hide the rest.
* Values: widths and formats of numbers, function values and void values, Go versions
  without a type table (interfaces are then abbreviated).
* DWARF and Mach-O/ELF parsing, the fields of module data, command line and logging: see the
  components in `PROJECT.json`. They read files once, in order, and keep no state that
  anything else changes; the version comparison is pure. DWARF of the program that cannot be
  decoded (binary.go:259) makes FindFunction fall back on the module data, which it does here
  only for functions that DWARF does not know. Parameters of size zero are left out
  of FunctionLookup. Its sort is stable, as `sort.Slice` is for fewer than twelve elements.

## 8. The plan

Done, in this order: Breakpoints with its promise and proofs; Tracee and Controller;
MainLoop, its refinement and proofs; Service and proofs; Ptrace, LinuxClient and Process;
TracerLibrary; FunctionTable with proofs and FunctionLookup; panics and recover; the Darwin
client with its debugserver; the value parser; first stops in any order, and the proofs of
Process, Service, TracerLibrary and DarwinProcess; what Controller prints in programs with
bracketed sessions, and the places that FindFunction works out.

Left, in the order of what it would add:

1. Proofs: PrintedMatchesStack for programs with deferred calls, whose invariant would have to
   say which deferred functions have a breakpoint.
2. Errors in the middle of handlers; the server's death while attached.
3. Reads that fail during a lookup; the version comparison.
