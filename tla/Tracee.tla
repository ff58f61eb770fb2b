------------------------------- MODULE Tracee -------------------------------
(***************************************************************************)
(* The traced Go program as the tracer sees it: functions are sequences of *)
(* instructions, a go routine is a program counter, a stack of frames with *)
(* return addresses and a list of deferred calls.  This code is external   *)
(* to the tracer; what is modelled is what the controller's logic depends  *)
(* on (controller.go, process.go CurrentGoRoutineInfo): where call         *)
(* instructions, return addresses and function entries are, how much stack *)
(* is used there, and how the runtime of Go 1.12 and older runs deferred   *)
(* calls and panics: deferproc registers; deferreturn jumps to the         *)
(* deferred function with the CALL of deferreturn as its return address;   *)
(* gopanic calls the deferred functions through reflectcall and, when one  *)
(* of them has recovered, continues at the instruction after its           *)
(* deferproc, which tests for that.  A panic while panicking is left out.  *)
(***************************************************************************)
EXTENDS Naturals, Sequences

CONSTANT Code   \* Code[f]: the instructions of function f

Func == DOMAIN Code

\* An address is an instruction of a function; <<f, 1>> is the entry of f.
Addr == UNION {{f} \X DOMAIN Code[f] : f \in Func}

Entry(f) == <<f, 1>>

InstAt(a) == Code[a[1]][a[2]]

callInstAddrCache ==
  [f \in Func |-> {a \in {f} \X DOMAIN Code[f] : InstAt(a).op = "call"}]
CallInsts(f) == callInstAddrCache[f]

Frame == [fn : Func, ret : Addr]
Deferred == [fn : Func, level : Nat, pc : Addr, started : BOOLEAN]

\* panic is "back" from the recovery to the test after deferproc.
Thread == [pc : Addr, stack : Seq(Frame), defers : Seq(Deferred),
           panic : {"no", "panicking", "recovered", "back"}]

StartOf(f) ==
  [pc |-> Entry(f), stack |-> <<[fn |-> f, ret |-> Entry(f)]>>, defers |-> <<>>, panic |-> "no"]

-----------------------------------------------------------------------------
(* What can be read from a stopped go routine.                             *)

Top(t) == t.stack[Len(t.stack)]

\* One unit for the return address, one for the frame, which the first
\* instruction of the function allocates.
UsedStackSize(t) == IF t.pc = Entry(t.pc[1]) THEN 2 * Len(t.stack) - 1 ELSE 2 * Len(t.stack)

HasDeferred(t) == t.defers # <<>>
NextDeferFunc(t) == Head(t.defers).fn

\* The panic of the go routine lasts until the recovery.
Panicking(t) == t.panic \in {"panicking", "recovered"}

\* The deferred calls that the panic has started, or, with no panic, that are not.
PanicHandlers(t) == SelectSeq(t.defers, LAMBDA d : d.started = Panicking(t))
HasPanicHandler(t) == PanicHandlers(t) # <<>>
UsedStackSizeAtDefer(t) == 2 * Head(PanicHandlers(t)).level

-----------------------------------------------------------------------------
(* One instruction.                                                        *)

After(a) == <<a[1], a[2] + 1>>
Before(a) == <<a[1], a[2] - 1>>

SetTop(stack, frame) == [stack EXCEPT ![Len(stack)] = frame]

\* The deferred call that deferreturn, on top of the stack, has to run.
IsDue(t) == HasDeferred(t) /\ Head(t.defers).level = Len(t.stack) - 1

\* What gopanic does between and after the deferred calls; without one left, the
\* program dies.
StartDefer(t) ==
  IF HasDeferred(t) THEN {[t EXCEPT !.pc = After(t.pc), !.defers[1].started = TRUE]} ELSE {}
EndDefer(t) ==
  LET d == Head(t.defers)
  IN  IF t.panic = "recovered"
        THEN [pc |-> d.pc, stack |-> SubSeq(t.stack, 1, d.level), defers |-> Tail(t.defers),
              panic |-> "back"]
        ELSE [t EXCEPT !.pc = <<t.pc[1], InstAt(t.pc).to>>, !.defers = Tail(@)]

\* recover works in a function that the panic has called, not deeper.
CanRecover(t) ==
  /\ t.panic = "panicking"
  /\ Top(t).ret[1] = "runtime.reflectcall"

\* The set of states after the next instruction of t.
Succ(t) ==
  LET i    == InstAt(t.pc)
      next == [t EXCEPT !.pc = After(t.pc)]
  IN CASE i.op = "op" -> {next}
       [] i.op = "jmp" -> {[t EXCEPT !.pc = <<t.pc[1], i.to>>]}
       [] i.op = "br" ->         \* bound: taken on stacks less deep than i.bound only
            {next} \cup {u \in {[t EXCEPT !.pc = <<t.pc[1], i.to>>]} : Len(t.stack) < i.bound}
       [] i.op = "call" ->
            {[t EXCEPT !.pc = Entry(i.fn), !.stack = Append(@, [fn |-> i.fn, ret |-> After(t.pc)])]}
       [] i.op = "ret" ->
            IF Len(t.stack) = 1 THEN {}
            ELSE {[t EXCEPT !.pc = Top(t).ret, !.stack = SubSeq(@, 1, Len(@) - 1)]}
       [] i.op = "pushdefer" ->  \* in deferproc: the argument is the caller's
            LET d == [fn |-> InstAt(Before(Top(t).ret)).arg, level |-> Len(t.stack) - 1,
                      pc |-> Top(t).ret, started |-> FALSE]
            IN {[next EXCEPT !.defers = <<d>> \o @]}
       [] i.op = "jmpdefer" ->   \* in deferreturn
            IF IsDue(t)
              THEN {[t EXCEPT !.pc = Entry(NextDeferFunc(t)),
                              !.stack = SetTop(@, [fn |-> NextDeferFunc(t), ret |-> Before(Top(t).ret)]),
                              !.defers = Tail(@)]}
              ELSE {next}
       [] i.op = "startpanic" -> {[next EXCEPT !.panic = "panicking"]}
       [] i.op = "startdefer" -> StartDefer(t)
       [] i.op = "calldefer" ->  \* in reflectcall, which has no CALL of its own
            {[t EXCEPT !.pc = Entry(NextDeferFunc(t)),
                       !.stack = Append(@, [fn |-> NextDeferFunc(t), ret |-> After(t.pc)])]}
       [] i.op = "enddefer" -> {EndDefer(t)}
       [] i.op = "recover" -> {[next EXCEPT !.panic = IF CanRecover(t) THEN "recovered" ELSE @]}
       [] i.op = "test" ->       \* after deferproc: to the deferreturn after a recovery
            IF t.panic = "back" THEN {[t EXCEPT !.pc = <<t.pc[1], i.to>>, !.panic = "no"]} ELSE {next}

=============================================================================
