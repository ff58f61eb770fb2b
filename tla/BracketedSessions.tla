-------------------------- MODULE BracketedSessions --------------------------
(***************************************************************************)
(* Programs that start and stop the tracing the way tracer.Start and       *)
(* tracer.Stop are meant to be used (lib/tracer/tracer.go:64): a function  *)
(* that gets past the start point also calls the stop function before it   *)
(* returns.  Nothing is deferred and nothing panics.  Recursion, sessions  *)
(* within sessions and any number of go routines are allowed.              *)
(*                                                                         *)
(* The discipline is static, a matter of the program's text and of the     *)
(* requested trace points: fs are the functions that run, region is where  *)
(* a function is during its session.                                       *)
(***************************************************************************)
EXTENDS Controller

\* Functions that compute, branch, call each other and return, and do not end
\* without a return.  The first instruction allocates the frame.
PlainFunctions(fs) ==
  /\ fs \subseteq Func
  /\ \A f \in fs :
       /\ 1 \in DOMAIN Code[f] /\ DOMAIN Code[f] \subseteq Nat /\ 0 \notin DOMAIN Code[f]
       /\ Code[f][1].op = "op"
       /\ \A k \in DOMAIN Code[f] :
            LET i == Code[f][k]
            IN  /\ i.op \in {"op", "jmp", "br", "call", "ret"}
                /\ i.op \in {"op", "br", "call"} => k + 1 \in DOMAIN Code[f]
                /\ i.op \in {"jmp", "br"} => i.to \in DOMAIN Code[f]
                /\ i.op = "call" => i.fn \in fs

\* Of the instruction at a: the start point leads into the region, the call of the
\* stop function out of it, and nothing else crosses its border.
KeepsTo(region, a) ==
  LET i == InstAt(a)
      stop == scenario.end[1]
  IN
  /\ a = scenario.start => i.op = "op" /\ a \notin region
  /\ a[2] = 1 \/ i.op = "ret" => a \notin region
  /\ i.op = "op" => (After(a) \in region <=> a \in region \/ a = scenario.start)
  /\ i.op = "br" => (After(a) \in region <=> a \in region)
  /\ i.op \in {"jmp", "br"} => /\ <<a[1], i.to>> \in region <=> a \in region
                               /\ a[1] = stop => i.to # 1
  /\ i.op = "call" => /\ i.fn = stop => a \in region
                      /\ After(a) \in region <=> a \in region /\ i.fn # stop

\* The scenario's two trace points are the only ones; requesting them again is allowed.
SessionsBracketed(fs, region) ==
  /\ PlainFunctions(fs)
  /\ \A g \in GoRoutine : scenario.main[g] \in fs \ {scenario.end[1]}
  /\ StartPoint = {scenario.start} /\ EndPoint = {scenario.end}
  /\ scenario.end = Entry(scenario.end[1]) /\ scenario.start[2] # 1
  /\ \A f \in fs : \A k \in DOMAIN Code[f] : KeepsTo(region, <<f, k>>)

\* No sessions within sessions: what is called in one, directly or not, are the
\* functions inner, none of which starts one.
Unnested(fs, region, inner) ==
  /\ scenario.start[1] \notin inner
  /\ \A a \in region : a[1] \notin inner
  /\ \A f \in fs : \A k \in DOMAIN Code[f] :
       LET i == Code[f][k]
       IN  i.op = "call" /\ (f \in inner \/ (<<f, k>> \in region /\ i.fn # scenario.end[1])) =>
             i.fn \in inner

-----------------------------------------------------------------------------

\* Where the i-th function of the stack is, or will be after the call that it is in.
Site(t, i) == IF i = Len(t.stack) THEN t.pc ELSE t.stack[i+1].ret

\* The functions on the stack that are in their session.
Inside(t, region) == {i \in 1..Len(t.stack) : Site(t, i) \in region}

\* A go routine is in the list of traced ones as often as functions of its stack are
\* in a session, once more on its way into the stop function, and the outermost of
\* them is where the output's depths start (enterTracepoint, exitTracepoint).
SessionsCounted(region) ==
  \A g \in GoRoutine \ SystemRoutine :
    LET t == goRoutines[g]
        I == Inside(t, region)
    IN  /\ tracingGoRoutines[g] = Cardinality(I) + (IF t.pc = scenario.end THEN 1 ELSE 0)
        /\ tracingGoRoutines[g] > 0 => base[g] \in I /\ \A i \in I : base[g] <= i

=============================================================================
