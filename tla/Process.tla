------------------------------- MODULE Process -------------------------------
(***************************************************************************)
(* tracee.Process over the Linux client: breakpoints are written into the  *)
(* text that all threads execute, and stepping over one takes it out of    *)
(* the text for the time of the step.  Controller's handlers appear as     *)
(* what they ask of the Process: a step for each trap and breakpoints set  *)
(* and cleared before and after it.                                        *)
(***************************************************************************)
EXTENDS LinuxClient

CONSTANT BreakAddr   \* where breakpoints are set

ASSUME BreakAddrAssumption == BreakAddr \subseteq Addr \ CloneAddr

VARIABLES breakpoints, \* addresses with a breakpoint
          handling     \* what MainLoop does, for which thread and address

processVars == <<scenario, kernel, client, breakpoints, handling>>

Phase == {"attaching", "failed", "resuming", "waiting", "trapped", "stepping", "ending", "detached"}

Handling(at, t, a) == [at |-> at, thread |-> t, addr |-> a]

TypeOK ==
  /\ KernelTypeOK /\ ClientTypeOK
  /\ breakpoints \subseteq BreakAddr
  /\ handling \in [at : Phase, thread : Thread \cup {NoThread}, addr : Addr]

ProcessInit ==
  /\ KernelInit /\ ClientInit
  /\ breakpoints = {}
  /\ \E a \in Addr : handling = Handling("attaching", NoThread, a)

GoTo(at) == handling' = [handling EXCEPT !.at = at]

-----------------------------------------------------------------------------

Attach ==
  /\ handling.at = "attaching" /\ trappedThreadIDs = <<>>
  /\ IF scenario.started = {} THEN LaunchProcess ELSE \/ ListMembers
                                         \/ \E t \in Thread : AttachToMember(t)
  /\ UNCHANGED <<breakpoints, handling>>

FailToAttach ==
  /\ handling.at = "attaching" /\ AttachFails
  /\ GoTo("failed")
  /\ UNCHANGED breakpoints

NewProcess ==
  /\ handling.at = "attaching" /\ trappedThreadIDs # <<>>
  /\ GoTo("resuming")
  /\ UNCHANGED <<kernel, client, breakpoints>>

\* The binary cannot be opened: nobody stays stopped.
NewProcessFails ==
  /\ handling.at = "attaching" /\ trappedThreadIDs # <<>>
  /\ DetachProcess
  /\ GoTo("detached")
  /\ UNCHANGED <<text, breakpoints>>

\* A handler or setPendingTracePoints is between two calls of the client.
Handles == handling.at \in {"resuming", "trapped"}

WriteText(a, insts) == text' = [text EXCEPT ![a] = insts]

SetBreakpoint(a) ==
  /\ Handles /\ a \in BreakAddr \ breakpoints
  /\ IF CanWriteMemory(trappedThreadIDs)
       THEN WriteText(a, "trap") /\ breakpoints' = breakpoints \cup {a} /\ UNCHANGED handling
       ELSE GoTo("ending") /\ UNCHANGED <<text, breakpoints>>
  /\ UNCHANGED <<thread, killed, client>>

ClearBreakpoint(a) ==
  /\ Handles /\ a \in breakpoints
  /\ IF CanWriteMemory(trappedThreadIDs)
       THEN WriteText(a, "org") /\ breakpoints' = breakpoints \ {a} /\ UNCHANGED handling
       ELSE GoTo("ending") /\ UNCHANGED <<text, breakpoints>>
  /\ UNCHANGED <<thread, killed, client>>

\* As if the program counter were set only where a breakpoint is.
SingleStep_SetsPCAtBreakpoints(t, a) ==
  /\ Handles /\ t = handling.thread /\ a = thread[t].pc /\ a \notin CloneAddr
  /\ Stopped(t) /\ (a \in breakpoints => CanWriteMemory(trappedThreadIDs))
  /\ StepAndWait(IF a \in breakpoints THEN [thread EXCEPT ![t].past = FALSE] ELSE thread, t)
  /\ IF a \in breakpoints THEN WriteText(a, "org") ELSE UNCHANGED text
  /\ handling' = Handling("stepping", t, a)
  /\ UNCHANGED <<killed, breakpoints>>

\* SingleStep up to StepAndWait's wait4: a is the address of the trap instruction
\* or, in handleTrapBeforeFunctionCall, the function the first step led to; it
\* begins with no system call.
SingleStep(t, a) ==
  /\ Handles /\ t = handling.thread /\ a = thread[t].pc /\ a \notin CloneAddr
  /\ LET writable == a \in breakpoints => CanWriteMemory(trappedThreadIDs)
     IN  IF Stopped(t) /\ writable
           THEN /\ StepAndWait([thread EXCEPT ![t].past = FALSE], t)
                /\ IF a \in breakpoints THEN WriteText(a, "org") ELSE UNCHANGED text
                /\ handling' = Handling("stepping", t, a)
                /\ UNCHANGED killed
           ELSE GoTo("ending") /\ UNCHANGED <<kernel, client>>
  /\ UNCHANGED breakpoints

\* As if the trap were not written again.
SingleStepReturns_LeavesText ==
  /\ handling.at = "stepping" /\ waiting = NotWaiting
  /\ GoTo("resuming")
  /\ UNCHANGED <<kernel, client, breakpoints>>

\* StepAndWait has returned.  Its event is dropped, also when it is an exit.
SingleStepReturns ==
  /\ handling.at = "stepping" /\ waiting = NotWaiting
  /\ LET set == handling.addr \in breakpoints
         failed == event = Failed \/ (set /\ ~CanWriteMemory(trappedThreadIDs))
     IN  /\ GoTo(IF failed THEN "ending" ELSE "resuming")
         /\ IF set /\ ~failed THEN WriteText(handling.addr, "trap") ELSE UNCHANGED text
  /\ UNCHANGED <<thread, killed, client, breakpoints>>

Resume ==
  /\ handling.at = "resuming" /\ ContinueAndWait
  /\ handling' = [handling EXCEPT !.at = "waiting", !.thread = NoThread]
  /\ UNCHANGED breakpoints

\* continueAndWait has returned to MainLoop.
Returns ==
  /\ handling.at = "waiting" /\ waiting = NotWaiting
  /\ handling' = IF event.type = "trapped"
                   THEN Handling("trapped", event.thread, handling.addr)
                   ELSE [handling EXCEPT !.at = "ending"]
  /\ UNCHANGED <<kernel, client, breakpoints>>

Interrupted ==
  /\ "interrupt" \in scenario.happens /\ handling.at = "resuming"
  /\ GoTo("ending")
  /\ UNCHANGED <<kernel, client, breakpoints>>

\* Every breakpoint that can be cleared is cleared; errors are only logged.
Detach ==
  /\ handling.at = "ending"
  /\ IF CanWriteMemory(trappedThreadIDs)
       THEN /\ text' = [a \in Addr |-> IF a \in breakpoints THEN "org" ELSE text[a]]
            /\ breakpoints' = {}
       ELSE UNCHANGED <<text, breakpoints>>
  /\ DetachProcess
  /\ GoTo("detached")

ClientWaits == Wait /\ UNCHANGED <<breakpoints, handling>>

TraceeMoves == KernelNext /\ UNCHANGED <<client, breakpoints, handling>>

ProcessStep ==
  \/ Attach \/ FailToAttach \/ NewProcess \/ NewProcessFails
  \/ Resume \/ Returns \/ SingleStepReturns \/ Interrupted \/ Detach
  \/ \E a \in Addr : SetBreakpoint(a) \/ ClearBreakpoint(a) \/ \E t \in Thread : SingleStep(t, a)
  \/ ClientWaits \/ TraceeMoves

ProcessNext == ProcessStep /\ UNCHANGED scenario

ProcessSpec == ProcessInit /\ [][ProcessNext]_processVars

-----------------------------------------------------------------------------
(* Properties.                                                             *)

Tracing == handling.at \notin {"attaching", "failed", "ending", "detached"}

\* While MainLoop runs, a trap instruction is in the text exactly where
\* Process.breakpoints has an entry, but for the address being stepped over: no
\* handler leaves one behind, or the original instruction in its place.
TextMatchesBreakpoints ==
  Tracing => LET out == IF handling.at = "stepping" THEN {handling.addr} ELSE {}
             IN  {a \in Addr : text[a] = "trap"} = breakpoints \ out

\* No stop but traps and clones, in their order: continueAndWait is not called again
\* with the signal of a thread that wait4 was not asked for.
Unsignalled == scenario.happens \cap {"signal", "early stop"} = {}

\* A thread that has hit a trap is put back to the instruction's beginning
\* before it runs again (setPC), also when the breakpoint was cleared, or set
\* again, between the trap and its turn in wait4.  A signal during a single step
\* breaks this, see SteppedOne.
NeverInsideInstruction ==
  Tracing /\ Unsignalled => \A t \in Thread : thread[t].past => ~(thread[t].life \in {"running", "stepping"})

\* The list of trapped threads names each thread that is stopped and waited for,
\* once: a thread on it twice could not be continued the second time, and a
\* stopped one that is not on it would never run again (trappedThreadIDs).
EachIsContinued ==
  Tracing =>
    /\ IsInjective(trappedThreadIDs)
    /\ \A t \in Thread : Alive(t) /\ thread[t].traced =>
         (t \in Ids(trappedThreadIDs) <=> Stopped(t) /\ thread[t].status = "none")

\* A tracee that lives on after Detach has no trap left in its text to run into
\* untraced, although its memory can only be written through a stopped thread.  The
\* exit of one thread breaks this: it is taken for the end of the process.
NoTrapLeft ==
  handling.at = "detached" /\ "thread exit" \notin scenario.happens /\ (\E t \in Thread : Alive(t)) =>
    \A a \in Addr : text[a] = "org"

\* SingleStep executes the one instruction at the address it is given, and the
\* thread is stopped behind it when SingleStep returns.
Steps ==
  handling.at = "stepping" /\ handling'.at = "resuming" =>
    LET r == thread[handling.thread]
    IN  r.life = "stopped" /\ ~r.past /\ r.pc \in Successors[handling.addr]
SteppedOne == [][Steps]_processVars

\* ... as long as the tracee does nothing but run and create threads.
Undisturbed == scenario.happens \subseteq {"clone", "interrupt"}
UndisturbedSteppedOne == [][Undisturbed => Steps]_processVars

\* No thread of a process that was launched runs into a trap untraced, and each is on
\* the client's list as soon as its creator's clone event was handled.  A signal
\* during a single step breaks the latter: the next step may lose a clone event.
AllTraced ==
  scenario.started = {} =>
    /\ ~killed
    /\ Tracing /\ Unsignalled => \A t \in Thread : Alive(t) =>
         /\ thread[t].traced
         /\ t \in tracingThreadIDs \/ thread[t].status = "stop"

=============================================================================
