---------------------------- MODULE MCController ----------------------------
(* Instances of Controller for TLC: small programs and their trace points.  *)
EXTENDS BracketedSessions, TLC

CONSTANTS g1, g2

Two == {g1, g2}

Op == [op |-> "op"]
Ret == [op |-> "ret"]
Call(f) == [op |-> "call", fn |-> f]
Defer(f) == [op |-> "call", fn |-> "runtime.deferproc", arg |-> f]
Branch(i, bound) == [op |-> "br", to |-> i, bound |-> bound]
Jump(i) == [op |-> "jmp", to |-> i]
Test(i) == [op |-> "test", to |-> i]
DeferReturn == Call("runtime.deferreturn")

\* main1: for { Start(); f1(); Stop() }   h: {}   d: h()   sys, a system routine: for { h() }
\* f1: defer d(); if * { f1() } else { defer d() }; h()
\* main2: for { Start(); f2(); Stop() }   f2: Start(); h(); Stop(); if * { f2(); h() }
\* main3: for { Start(); f3(); Stop() }   f3: defer r(); if * { f3() } else { defer d(); g() }; h()
\* g: defer d(); if * { panic() }; h()    r: recover(); h()
\* main4: for { if * { f4() } else { w() } }   w: f4()   f4: Start(); defer Stop(); h()
\* main5: for { Start(); f5(); Stop() }   f5: h(); if * { f5() } else { h() }
\* main6: for { f6() }   f6: Start(); h(); if * { f6() }; Stop()
Callee == [main1 |-> "f1", main2 |-> "f2", main3 |-> "f3", main5 |-> "f5", main6 |-> "f6",
           sys |-> "h", d |-> "h", w |-> "f4"]

Programs ==
  [f \in {"main1", "f1", "main2", "f2", "main3", "f3", "g", "h", "d", "r", "sys", "main4", "w",
         "f4", "main5", "f5", "main6", "f6", "Start", "Stop", "runtime.deferproc",
         "runtime.deferreturn", "runtime.gopanic", "runtime.reflectcall"} |->
     CASE f \in {"main1", "main2", "main3", "main5"} ->
            <<Op, Call("Start"), Op, Call(Callee[f]), Call("Stop"), Jump(2)>>
       [] f \in {"main6", "sys"} -> <<Op, Call(Callee[f]), Jump(2)>>
       [] f \in {"d", "w"} -> <<Op, Call(Callee[f]), Ret>>
       [] f \in {"h", "Start", "Stop"} -> <<Op, Ret>>
       [] f = "f1" -> <<Op, Defer("d"), Branch(6, 3), Defer("d"), Jump(7), Call("f1"), Call("h"),
                        DeferReturn, Ret>>
       [] f = "f2" -> <<Op, Call("Start"), Op, Call("h"), Call("Stop"), Branch(8, 3), Ret,
                        Call("f2"), Call("h"), Ret>>
       [] f = "f3" -> <<Op, Defer("r"), Test(11), Branch(9, 3), Defer("d"), Test(11), Call("g"),
                        Jump(10), Call("f3"), Call("h"), DeferReturn, Ret>>
       [] f = "g" -> <<Op, Defer("d"), Test(8), Branch(7, 5), Call("runtime.gopanic"), Op,
                       Call("h"), DeferReturn, Ret>>
       [] f = "r" -> <<Op, [op |-> "recover"], Call("h"), Ret>>
       [] f = "main4" -> <<Op, Branch(5, 2), Call("f4"), Jump(2), Call("w"), Jump(2)>>
       [] f = "f4" -> <<Op, Call("Start"), Op, Defer("Stop"), Call("h"), DeferReturn, Ret>>
       [] f = "f5" -> <<Op, Call("h"), Branch(6, 3), Call("h"), Jump(7), Call("f5"), Ret>>
       [] f = "f6" -> <<Op, Call("Start"), Op, Call("h"), Branch(7, 3), Jump(8), Call("f6"),
                        Call("Stop"), Ret>>
       [] f = "runtime.deferproc" -> <<Op, [op |-> "pushdefer"], Ret>>
       [] f = "runtime.deferreturn" -> <<Op, [op |-> "jmpdefer"], Ret>>
       [] f = "runtime.reflectcall" -> <<Op, [op |-> "calldefer"], Ret>>
       [] f = "runtime.gopanic" ->
            <<Op, [op |-> "startpanic"], [op |-> "startdefer"], Call("runtime.reflectcall"),
              [op |-> "enddefer", to |-> 3]>>]

None == [start |-> {}, end |-> {}]

Session(main, other, start, late, level) ==
  [main |-> (g1 :> main @@ g2 :> other), system |-> IF other = "sys" THEN {g2} ELSE {},
   start |-> <<start, 3>>, end |-> Entry("Stop"), late |-> late, traceLevel |-> level]

\* Recursion below a session; two go routines with sessions within sessions.  The
\* trace points are requested again at any time.
Bracketed ==
  {Session("main5", "sys", "main5", [start |-> {}, end |-> {Entry("Stop")}], 2),
   Session("main6", "main6", "f6", [start |-> {<<"f6", 3>>}, end |-> {}], 2)}

\* Deferred calls and recursion; two go routines with nested sessions and trace
\* points requested late; panics; and the programs of Bracketed.
Sessions ==
  {Session("main1", "sys", "main1", [start |-> {}, end |-> {Entry("Stop")}], 3),
   Session("main2", "main2", "f2", [start |-> {<<"main2", 3>>}, end |-> {}], 2),
   Session("main3", "sys", "main3", None, 4)}
  \cup Bracketed

DeferStop == {Session("main4", "sys", "f4", None, 1)}

Functions(main) ==
  {"h", "Start", "Stop"} \cup (IF main = "main5" THEN {"main5", "f5", "sys"} ELSE {"main6", "f6"})
Region(main) == IF main = "main5" THEN {"main5"} \X (4..5) ELSE {"f6"} \X (4..8)

\* The programs of Bracketed keep to the discipline, main5 without sessions in sessions,
\* and the go routines are in tracingGoRoutines as often as they are in a session
\* (enterTracepoint, exitTracepoint).
BracketedSessionsCounted ==
  scenario.main[g1] \in {"main5", "main6"} =>
    LET main == scenario.main[g1]
    IN  /\ SessionsBracketed(Functions(main), Region(main))
        /\ main = "main5" => Unnested(Functions(main), Region(main), {"f5", "h"})
        /\ SessionsCounted(Region(main))

PrintedFuncs == Func \ {"runtime.deferproc", "runtime.deferreturn", "runtime.gopanic",
                        "runtime.reflectcall"}

=============================================================================
