---------------------------- MODULE DarwinProcess ----------------------------
(***************************************************************************)
(* tracee.Process over the Darwin client, under Controller's main loop.    *)
(* For each trapped thread a handler reads the go routine's address, by    *)
(* stepping the thread over an instruction of the client's own, sets and   *)
(* clears breakpoints, and steps the thread over the trap.  When a step    *)
(* ends with other threads stopped, those are stepped over their own traps *)
(* and then the step is done again: calls inside calls.                    *)
(***************************************************************************)
EXTENDS DarwinClient

CONSTANT BreakAddr   \* where breakpoints are set

ASSUME BreakAddrAssumption == BreakAddr \subseteq Addr

VARIABLES breakpoints, \* addresses with a breakpoint
          handling,    \* what MainLoop does, and for which threads
          frames       \* calls of SingleStep and CurrentGoRoutineInfo, innermost first

processVars == <<happens, server, client, breakpoints, handling, frames>>

\* at: for a handler, how far it is: "info" before and after its first
\* CurrentGoRoutineInfo, "stepped" after a SingleStep.
Handling == [at : {"attaching", "failed", "resuming", "waiting", "info", "handler", "system",
                   "stepped", "ending", "detached"},
             todo : Seq(Thread)]

\* place: the instruction to be stepped over or, if the thread executes the
\* helper, where it came from; others: unspecified threads.
Place == [pc : Addr \cup {Helper, HelperEnd}, past : BOOLEAN, inside : BOOLEAN]
Frame == [op : {"tls", "step"}, at : {"begin", "stepping", "others"}, thread : Thread,
          place : Place, others : Seq(Thread)]

TypeOK ==
  /\ ServerTypeOK /\ ClientTypeOK
  /\ breakpoints \subseteq BreakAddr
  /\ handling \in Handling
  /\ frames \in Seq(Frame)

ProcessInit ==
  /\ ServerInit /\ ClientInit
  /\ breakpoints = {}
  /\ handling = [at |-> "attaching", todo |-> <<>>]
  /\ frames = <<>>

GoTo(at) == handling' = [handling EXCEPT !.at = at]

-----------------------------------------------------------------------------
(* Launching and attaching, and the main loop.                             *)

Attach ==
  /\ handling.at = "attaching" /\ link.at # "up" /\ event # Failed
  /\ Connect \/ Initialize
  /\ UNCHANGED <<breakpoints, handling, frames>>

\* The error is returned at once: nobody detaches from the process.
AttachFails ==
  /\ handling.at = "attaching" /\ event = Failed
  /\ GoTo("failed")
  /\ UNCHANGED <<server, client, breakpoints, frames>>

NewProcess ==
  /\ handling.at = "attaching" /\ link.at = "up"
  /\ GoTo("resuming")
  /\ UNCHANGED <<server, client, breakpoints, frames>>

\* The binary cannot be opened.
NewProcessFails ==
  /\ "refusal" \in happens
  /\ handling.at = "attaching" /\ link.at = "up"
  /\ DetachProcess
  /\ GoTo("detached")
  /\ UNCHANGED <<text, breakpoints, frames>>

Resumes ==
  /\ handling.at = "resuming" /\ ContinueAndWait
  /\ GoTo("waiting")
  /\ UNCHANGED <<breakpoints, frames>>

Interrupted ==
  /\ "interrupt" \in happens /\ handling.at = "resuming"
  /\ GoTo("ending")
  /\ UNCHANGED <<server, client, breakpoints, frames>>

\* continueAndWait has returned to MainLoop.
Returns ==
  /\ handling.at = "waiting" /\ call = Idle
  /\ handling' = IF event.type = "trapped" THEN [at |-> "info", todo |-> event.threads]
                                           ELSE [handling EXCEPT !.at = "ending"]
  /\ UNCHANGED <<server, client, breakpoints, frames>>

\* Every breakpoint that can be cleared is cleared; errors are only logged.
Detach ==
  /\ handling.at = "ending"
  /\ IF CanAsk THEN /\ text' = [a \in Addr |-> IF a \in breakpoints THEN "org" ELSE text[a]]
                    /\ breakpoints' = {}
               ELSE UNCHANGED <<text, breakpoints>>
  /\ DetachProcess
  /\ GoTo("detached")
  /\ UNCHANGED frames

-----------------------------------------------------------------------------
(* The handlers.                                                           *)

Trapping == Head(handling.todo)
Handles(at) == handling.at = at /\ frames = <<>>

At(a) == [pc |-> a, past |-> FALSE, inside |-> FALSE]
PlaceOf(t) == [pc |-> thread[t].pc, past |-> thread[t].past, inside |-> thread[t].inside]
PutAt(t, place) == [thread EXCEPT ![t].pc = place.pc, ![t].past = place.past,
                                  ![t].inside = place.inside]

FrameOf(op, t, place) ==
  [op |-> op, at |-> "begin", thread |-> t, place |-> place, others |-> <<>>]

\* The trap is at the program counter less one.
StepOverTrap(t) == FrameOf("step", t, [At(thread[t].pc) EXCEPT !.inside = ~thread[t].past])

CurrentGoRoutineInfo ==
  /\ Handles("info")
  /\ frames' = <<FrameOf("tls", Trapping, PlaceOf(Trapping))>>
  /\ UNCHANGED <<server, client, breakpoints, handling>>

SetsBreakpoints == Handles("handler") \/ Handles("resuming")

SetBreakpoint(a) ==
  /\ SetsBreakpoints /\ a \in BreakAddr \ breakpoints
  /\ IF CanAsk THEN /\ text' = [text EXCEPT ![a] = "trap"]
                    /\ breakpoints' = breakpoints \cup {a}
                    /\ UNCHANGED handling
               ELSE GoTo("ending") /\ UNCHANGED <<text, breakpoints>>
  /\ UNCHANGED <<thread, running, due, channel, client, frames>>

ClearBreakpoint(a) ==
  /\ SetsBreakpoints /\ a \in breakpoints
  /\ IF CanAsk THEN /\ text' = [text EXCEPT ![a] = "org"]
                    /\ breakpoints' = breakpoints \ {a}
                    /\ UNCHANGED handling
               ELSE GoTo("ending") /\ UNCHANGED <<text, breakpoints>>
  /\ UNCHANGED <<thread, running, due, channel, client, frames>>

NoSteps(t) == thread' = [thread EXCEPT ![t].steps = 0]

\* The step over the trap, in whichever handler.
HandleTrap ==
  /\ Handles("handler") \/ Handles("system")
  /\ frames' = <<StepOverTrap(Trapping)>> /\ NoSteps(Trapping)
  /\ UNCHANGED <<text, running, due, channel, client, breakpoints, handling>>

\* handleTrapBeforeFunctionCall goes on with the function that the step led to.
HandleCalledFunction ==
  /\ Handles("stepped") /\ thread[Trapping].pc \in Addr
  /\ frames' = <<FrameOf("step", Trapping, At(thread[Trapping].pc))>> /\ NoSteps(Trapping)
  /\ UNCHANGED <<text, running, due, channel, client, breakpoints, handling>>

HandlerReturns ==
  /\ Handles("stepped")
  /\ handling' = LET rest == Tail(handling.todo)
                 IN  [at |-> IF rest = <<>> THEN "resuming" ELSE "info", todo |-> rest]
  /\ UNCHANGED <<server, client, breakpoints, frames>>

-----------------------------------------------------------------------------
(* CurrentGoRoutineInfo and SingleStep.                                    *)

Frm == Head(frames)
In(op, at) == frames # <<>> /\ Frm.op = op /\ Frm.at = at

Becomes(f) == frames' = <<f>> \o Tail(frames)

\* The caller is a handler, or singleStepUnspecifiedThreads of an outer call,
\* which goes on with its next thread or fails too.  Without go routine's info the
\* handler takes the go routine for a system routine.
ReturnFrom(ok) ==
  LET outer == Tail(frames)
      handlers == frames[Len(frames)].op
  IN
  IF ok /\ outer # <<>>
    THEN frames' = <<[outer[1] EXCEPT !.others = Tail(@)]>> \o Tail(outer) /\ UNCHANGED handling
    ELSE /\ frames' = <<>>
         /\ GoTo(IF handlers = "tls" THEN (IF ok THEN "handler" ELSE "system")
                                   ELSE (IF ok THEN "stepped" ELSE "ending"))

StepOthers == Becomes([Frm EXCEPT !.at = "others", !.others = event.threads])

\* The helper is written and the thread put at its beginning.
ReadTLS ==
  /\ In("tls", "begin")
  /\ IF CanAsk
       THEN /\ Becomes([Frm EXCEPT !.at = "stepping", !.place = PlaceOf(Frm.thread)])
            /\ StepAndWait(PutAt(Frm.thread, At(Helper)), Frm.thread)
            /\ UNCHANGED <<text, handling>>
       ELSE ReturnFrom(FALSE) /\ UNCHANGED <<server, client>>
  /\ UNCHANGED breakpoints

\* As if only a step that has worked put the registers back.
ReadTLSReturns_OnlyOnSuccess ==
  /\ In("tls", "stepping") /\ call = Idle
  /\ thread' = IF CanAsk /\ event.type = "trapped" THEN PutAt(Frm.thread, Frm.place) ELSE thread
  /\ IF event.type = "unspecified"
       THEN StepOthers /\ UNCHANGED handling
       ELSE ReturnFrom(event.type = "trapped" /\ CanAsk)
  /\ UNCHANGED <<text, running, due, channel, client, breakpoints>>

\* StepAndWait has returned; the registers are put back in any case.
ReadTLSReturns ==
  /\ In("tls", "stepping") /\ call = Idle
  /\ thread' = IF CanAsk THEN PutAt(Frm.thread, Frm.place) ELSE thread
  /\ IF event.type = "unspecified"
       THEN StepOthers /\ UNCHANGED handling
       ELSE ReturnFrom(event.type = "trapped" /\ CanAsk)
  /\ UNCHANGED <<text, running, due, channel, client, breakpoints>>

AtBreakpoint == Frm.place.pc \in breakpoints /\ ~Frm.place.inside

\* setPC, the original instruction, and the step.
SingleStep ==
  /\ In("step", "begin")
  /\ IF CanAsk
       THEN /\ text' = IF AtBreakpoint THEN [text EXCEPT ![Frm.place.pc] = "org"] ELSE text
            /\ StepAndWait(PutAt(Frm.thread, Frm.place), Frm.thread)
            /\ Becomes([Frm EXCEPT !.at = "stepping"])
            /\ UNCHANGED handling
       ELSE ReturnFrom(FALSE) /\ UNCHANGED <<server, client>>
  /\ UNCHANGED breakpoints

\* As if the trap were not written again.
SingleStepReturns_LeavesText ==
  /\ In("step", "stepping") /\ call = Idle
  /\ CASE event.type = "unspecified" -> StepOthers /\ UNCHANGED <<text, handling>>
       [] event.type = "trapped" -> ReturnFrom(TRUE) /\ UNCHANGED text
       [] OTHER -> ReturnFrom(FALSE) /\ UNCHANGED text
  /\ UNCHANGED <<thread, running, due, channel, client, breakpoints>>

\* Any other event, an exit too, is an error of StepAndWait.
SingleStepReturns ==
  /\ In("step", "stepping") /\ call = Idle
  /\ CASE event.type = "unspecified" -> StepOthers /\ UNCHANGED <<text, handling>>
       [] event.type = "trapped" /\ (AtBreakpoint => CanAsk) ->
            /\ ReturnFrom(TRUE)
            /\ text' = IF AtBreakpoint THEN [text EXCEPT ![Frm.place.pc] = "trap"] ELSE text
       [] OTHER -> ReturnFrom(FALSE) /\ UNCHANGED text
  /\ UNCHANGED <<thread, running, due, channel, client, breakpoints>>

\* singleStepUnspecifiedThreads: the next thread, if it is another one, is stepped
\* over its trap.
StepUnspecifiedThread ==
  /\ frames # <<>> /\ Frm.at = "others" /\ Frm.others # <<>>
  /\ LET u == Head(Frm.others) IN
     CASE u = Frm.thread -> Becomes([Frm EXCEPT !.others = Tail(@)]) /\ UNCHANGED <<thread, handling>>
       [] u # Frm.thread /\ CanAsk -> /\ frames' = <<StepOverTrap(u)>> \o frames /\ NoSteps(u)
                                      /\ UNCHANGED handling
       [] OTHER -> ReturnFrom(FALSE) /\ UNCHANGED thread
  /\ UNCHANGED <<text, running, due, channel, client, breakpoints>>

\* As if the step were not done again.
StepAgain_Never ==
  /\ frames # <<>> /\ Frm.at = "others" /\ Frm.others = <<>>
  /\ ReturnFrom(TRUE)
  /\ UNCHANGED <<server, client, breakpoints>>

StepAgain ==
  /\ frames # <<>> /\ Frm.at = "others" /\ Frm.others = <<>>
  /\ Becomes([Frm EXCEPT !.at = "begin"])
  /\ UNCHANGED <<server, client, breakpoints, handling>>

-----------------------------------------------------------------------------

ClientWaits == Waits /\ UNCHANGED <<breakpoints, handling, frames>>

ServerMoves == ServerNext /\ UNCHANGED <<client, breakpoints, handling, frames>>

Handlers ==
  \/ CurrentGoRoutineInfo \/ HandleTrap \/ HandleCalledFunction \/ HandlerReturns
  \/ ReadTLS \/ ReadTLSReturns \/ SingleStep \/ SingleStepReturns
  \/ StepUnspecifiedThread \/ StepAgain

ProcessStep ==
  \/ Attach \/ AttachFails \/ NewProcess \/ NewProcessFails
  \/ Resumes \/ Interrupted \/ Returns \/ Detach
  \/ \E a \in Addr : SetBreakpoint(a) \/ ClearBreakpoint(a)
  \/ Handlers \/ ClientWaits \/ ServerMoves

ProcessNext == ProcessStep /\ UNCHANGED happens

ProcessSpec == ProcessInit /\ [][ProcessNext]_processVars

\* The scheduler runs every thread that may run, the server answers, and the
\* client goes on; its timer is one of its steps.
Fairness ==
  /\ \A t \in Thread : WF_processVars((HitTrap(t) \/ Execute(t) \/ Interfere(t))
                           /\ UNCHANGED <<happens, client, breakpoints, handling, frames>>)
  /\ WF_processVars((Stop \/ SendReply) /\ UNCHANGED <<happens, client, breakpoints, handling, frames>>)
  /\ WF_processVars(ClientWaits /\ UNCHANGED happens)
  /\ WF_processVars(Handlers /\ UNCHANGED happens)

Spec == ProcessSpec /\ Fairness

-----------------------------------------------------------------------------
(* Properties.                                                             *)

Tracing == handling.at \notin {"attaching", "failed", "ending", "detached"} /\ link.at = "up"

\* No call's timeout passes before something has stopped.
Prompt == "long run" \notin happens

\* An event names the threads that have stopped at a trap or after a step, and no
\* others (EventTypeTrapped: a list of trapped thread id).
NamesTrapped ==
  Tracing /\ call = Idle /\ event.type \in {"trapped", "unspecified"} =>
    {event.threads[i] : i \in DOMAIN event.threads} = {t \in Thread : thread[t].stop = "trap"}

\* ... also when the reply was lost, unless the timeout of a call that nothing has
\* stopped is on its way.
EventNamesTrapped == Prompt => NamesTrapped

\* A signal that a stop reply has named is passed on with the next resume, and once
\* (pendingSignal).  After a step that failed it is passed on again.
SignalGoesBack ==
  Tracing /\ call = Idle /\ event # Failed => (pendingSignal <=> owed)

\* Once CurrentGoRoutineInfo has returned, no thread is left in the helper: the
\* handlers, and SingleStep inside them, find the thread at its trap.
HelperLeft ==
  Prompt /\ Tracing /\ (frames = <<>> \/ frames[Len(frames)].op = "step") =>
    \A t \in Thread : thread[t].pc \in Addr

\* No signal makes the client resume all threads in the middle of a step.
Unsignalled == happens \cap {"signal", "bad access", "long run"} = {}
Undisturbed == Unsignalled /\ "overtaking" \notin happens

\* A trap is in the text where Process.breakpoints has an entry, but for the
\* addresses that threads are being stepped over, one inside another, and again
\* after other threads were.  A step that fails inside CurrentGoRoutineInfo breaks
\* this: its error is taken for that of a system routine.
TextMatchesBreakpoints ==
  Unsignalled /\ Tracing =>
    LET traps == {a \in Addr : text[a] = "trap"}
        out == {frames[i].place.pc : i \in DOMAIN frames}
    IN  traps \subseteq breakpoints /\ breakpoints \subseteq traps \cup out

\* SingleStep executes one instruction, also when it has to be tried again because
\* other threads have stopped, and when it is itself a step over such a thread's trap.
StepReturns ==
  /\ frames # <<>> /\ Frm.op = "step"
  /\ Len(frames') = Len(frames) - 1
  /\ frames' = <<>> => handling'.at = "stepped"
Steps == StepReturns => thread[Frm.thread].steps = 1
SteppedOne == [][Steps]_processVars
UndisturbedSteppedOne ==
  [][Undisturbed => Steps]_processVars

\* A stop of the process is noticed although its reply is lost.
StopNoticed == (call # Idle /\ ~running) ~> (call = Idle \/ running)

\* Retrying a step comes to an end.
StepsEnd == (Undisturbed /\ frames # <<>>) ~> frames = <<>>

=============================================================================
