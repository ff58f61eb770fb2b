---------------------------- MODULE Process_proofs ----------------------------
(***************************************************************************)
(* Process over the Linux client, for any number of threads, any program   *)
(* and any breakpoints.                                                    *)
(***************************************************************************)
EXTENDS Process, SequenceTheorems, FiniteSetTheorems, WellFoundedInduction, TLAPS

\* What the text is out of step with, if anything: the address being stepped over.
Out == IF handling.at = "stepping" THEN {handling.addr} ELSE {}

\* The text follows the breakpoints until the process is being detached from.
TextFollows ==
  /\ breakpoints \subseteq BreakAddr
  /\ text \in [Addr -> {"org", "trap"}]
  /\ handling = Handling(handling.at, handling.thread, handling.addr) /\ handling.addr \in Addr
  /\ handling.at \notin {"ending", "detached"} =>
       \A a \in Addr : text[a] = "trap" <=> a \in breakpoints \ Out

\* Only writing breakpoints changes the text.
LEMMA ClientKeepsText ==
  ClientWaits \/ TraceeMoves => UNCHANGED <<text, breakpoints, handling>>
BY DEF ClientWaits, TraceeMoves, Wait, WaitTrapped, WaitSignalled, WaitExited, WaitCloned, WaitChild,
       KernelNext, HitTrap, Execute, Clone, Signal, ThreadExits, ProcessExits

LEMMA OthersKeepText ==
  Attach \/ FailToAttach \/ NewProcess \/ NewProcessFails \/ Resume \/ Returns \/ Interrupted
    => UNCHANGED <<text, breakpoints>>
BY DEF Attach, FailToAttach, NewProcess, NewProcessFails, Resume, Returns, Interrupted,
       LaunchProcess, ListMembers, AttachToMember, AttachFails, ContinueAndWait, kernel

LEMMA TextFollowsStays ==
  ASSUME TextFollows, [ProcessNext]_processVars
  PROVE  TextFollows'
<1> USE BreakAddrAssumption DEF TextFollows, Out, Handling
<1>1. CASE ClientWaits \/ TraceeMoves \/ UNCHANGED processVars
  <2>1. UNCHANGED <<text, breakpoints, handling>>
    BY <1>1, ClientKeepsText DEF processVars, kernel
  <2> QED BY <2>1
<1>2. ASSUME UNCHANGED <<text, breakpoints>>,
             handling.at \notin {"stepping", "ending", "detached"},
             NEW at, NEW t, at # "stepping", handling' = Handling(at, t, handling.addr)
      PROVE  TextFollows'
  BY <1>2
<1>3. CASE Attach
  BY <1>3, OthersKeepText DEF Attach
<1>4. CASE FailToAttach \/ NewProcess \/ NewProcessFails \/ Interrupted
  <2>1. PICK at \in {"failed", "resuming", "detached", "ending"} :
          handling.at \in {"attaching", "resuming"} /\ handling' = Handling(at, handling.thread, handling.addr)
    BY <1>4 DEF FailToAttach, NewProcess, NewProcessFails, Interrupted, GoTo
  <2> QED BY <1>2, <1>4, <2>1, OthersKeepText
<1>5. CASE Resume
  BY <1>2, <1>5, OthersKeepText DEF Resume
<1>6. CASE Returns
  <2>1. /\ event.type = "trapped" => handling' = Handling("trapped", event.thread, handling.addr)
        /\ event.type # "trapped" => handling' = Handling("ending", handling.thread, handling.addr)
    BY <1>6 DEF Returns
  <2> QED BY <1>2, <1>6, <2>1, OthersKeepText DEF Returns
<1>7. ASSUME NEW a \in Addr, SetBreakpoint(a) \/ ClearBreakpoint(a)
      PROVE  TextFollows'
  BY <1>7 DEF SetBreakpoint, ClearBreakpoint, Handles, WriteText, GoTo
<1>8. ASSUME NEW a \in Addr, NEW t \in Thread, SingleStep(t, a)
      PROVE  TextFollows'
  BY <1>8 DEF SingleStep, Handles, WriteText, GoTo, kernel
<1>9. CASE SingleStepReturns
  BY <1>9 DEF SingleStepReturns, WriteText, GoTo
<1>10. CASE Detach
  BY <1>10 DEF Detach, GoTo
<1> QED
  BY <1>1, <1>2, <1>3, <1>4, <1>5, <1>6, <1>7, <1>8, <1>9, <1>10
  DEF ProcessNext, ProcessStep

\* While MainLoop runs, the traps in the text are the breakpoints but for the one
\* being stepped over, whatever fails, for any threads, program and breakpoints
\* (SetBreakpoint, ClearBreakpoint, SingleStep).
THEOREM TextMatchesCorrect == ProcessSpec => []TextMatchesBreakpoints
<1>1. ProcessInit => TextFollows
  BY DEF ProcessInit, KernelInit, TextFollows, Out, Handling
<1>2. TextFollows => TextMatchesBreakpoints
  BY BreakAddrAssumption, PtraceAssumption DEF TextFollows, TextMatchesBreakpoints, Tracing, Out
<1> QED BY <1>1, <1>2, TextFollowsStays, PTL DEF ProcessSpec

-----------------------------------------------------------------------------
(* The list of trapped threads.                                            *)

LEMMA SetToSeqLists ==
  ASSUME NEW S \in SUBSET Thread
  PROVE  SetToSeq(S) \in Seq(Thread) /\ IsInjective(SetToSeq(S)) /\ Ids(SetToSeq(S)) = S
<1> DEFINE n == Cardinality(S)
           q == SetToSeq(S)
<1>1. IsFiniteSet(S) /\ n \in Nat /\ ExistsBijection(1..n, S)
  BY PtraceAssumption, FS_Subset, FS_CardinalityType
<1>2. \E f \in [1..n -> S] : IsInjective(f)
  BY <1>1 DEF ExistsBijection, Bijection, Injection
<1>3. q \in [1..n -> S] /\ IsInjective(q)
  BY <1>2 DEF SetToSeq
<1>4. Cardinality(1..n) = n
  BY <1>1, FS_Interval
<1> HIDE DEF q
<1>5. q \in Injection(1..n, S)
  BY <1>3 DEF Injection
<1>6. q \in Surjection(1..n, S)
  BY <1>1, <1>4, <1>5, FS_Injection
<1>7. \A u \in S : \E i \in 1..n : q[i] = u
  BY <1>6 DEF Surjection
<1> HIDE DEF n
<1>8. Ids(q) = S
  BY <1>3, <1>7 DEF Ids
<1>9. q \in Seq(Thread)
  BY <1>1, <1>3
<1> QED BY <1>3, <1>8, <1>9 DEF q

LEMMA AppendLists ==
  ASSUME NEW s \in Seq(Thread), NEW t \in Thread
  PROVE  /\ Append(s, t) \in Seq(Thread) /\ Ids(Append(s, t)) = Ids(s) \cup {t}
         /\ IsInjective(s) /\ t \notin Ids(s) => IsInjective(Append(s, t))
BY DEF Ids, IsInjective

LEMMA RemoveAtLists ==
  ASSUME NEW s \in Seq(Thread), NEW k \in 1..Len(s)
  PROVE  /\ RemoveAt(s, k) \in Seq(Thread) /\ Len(RemoveAt(s, k)) = Len(s) - 1
         /\ \A i \in 1..(Len(s) - 1) : RemoveAt(s, k)[i] = IF i < k THEN s[i] ELSE s[i + 1]
<1> DEFINE u == SubSeq(s, 1, k - 1)
           v == SubSeq(s, k + 1, Len(s))
<1>1. u \in Seq(Thread) /\ Len(u) = k - 1 /\ \A i \in 1..(k - 1) : u[i] = s[i]
  BY SubSeqProperties
<1>2. v \in Seq(Thread) /\ Len(v) = Len(s) - k /\ \A i \in 1..(Len(s) - k) : v[i] = s[k + i]
  BY SubSeqProperties
<1>3. RemoveAt(s, k) = u \o v
  BY DEF RemoveAt
<1> HIDE DEF u, v
<1>4. /\ u \o v \in Seq(Thread) /\ Len(u \o v) = Len(s) - 1
      /\ \A i \in 1..(Len(s) - 1) : (u \o v)[i] = IF i < k THEN u[i] ELSE v[i - (k - 1)]
  <2>1. /\ u \o v \in Seq(Thread) /\ Len(u \o v) = Len(u) + Len(v)
        /\ \A i \in 1..(Len(u) + Len(v)) :
             (u \o v)[i] = IF i <= Len(u) THEN u[i] ELSE v[i - Len(u)]
    BY <1>1, <1>2, ConcatProperties
  <2>2. Len(u) + Len(v) = Len(s) - 1
    BY <1>1, <1>2
  <2> QED BY <1>1, <2>1, <2>2
<1>5. ASSUME NEW i \in 1..(Len(s) - 1)  PROVE (u \o v)[i] = IF i < k THEN s[i] ELSE s[i + 1]
  <2>1. CASE i < k
    <3>1. (u \o v)[i] = u[i] /\ i \in 1..(k - 1)
      BY <1>4, <2>1
    <3> QED BY <1>1, <2>1, <3>1
  <2>2. CASE ~(i < k)
    <3>1. i - (k - 1) \in 1..(Len(s) - k) /\ k + (i - (k - 1)) = i + 1
      BY <2>2
    <3>2. v[i - (k - 1)] = s[i + 1]
      BY <1>2, <3>1
    <3> QED BY <1>4, <2>2, <3>2
  <2> QED BY <2>1, <2>2
<1> QED BY <1>3, <1>4, <1>5

LEMMA RemoveLists ==
  ASSUME NEW s \in Seq(Thread), NEW t \in Thread
  PROVE  /\ RemoveFirst(s, t) \in Seq(Thread)
         /\ Ids(RemoveFirst(s, t)) \subseteq Ids(s) /\ Ids(s) \subseteq Ids(RemoveFirst(s, t)) \cup {t}
         /\ IsInjective(s) => IsInjective(RemoveFirst(s, t)) /\ t \notin Ids(RemoveFirst(s, t))
<1>1. CASE \E i \in 1..Len(s) : s[i] = t
  <2> DEFINE I == {i \in 1..Len(s) : s[i] = t}
             k == Min(I)
  <2>1. k \in I
    <3> DEFINE Less == OpToRel(<, Nat)
    <3>1. I \subseteq Nat /\ I # {}
      BY <1>1
    <3>2. IsWellFoundedOn(Less, Nat)
      BY NatLessThanWellFounded
    <3>3. \A x, y \in Nat : x < y => <<x, y>> \in Less
      BY DEF OpToRel
    <3> HIDE DEF Less, I
    <3>4. PICK x \in I : \A y \in I : ~(<<y, x>> \in Less)
      BY <3>1, <3>2, WFMin
    <3>5. ASSUME NEW y \in I  PROVE x =< y
      <4>1. x \in Nat /\ y \in Nat
        BY <3>1
      <4>2. ~(y < x)
        BY <3>3, <3>4, <4>1
      <4> QED BY <4>1, <4>2
    <3> QED BY <3>5 DEF Min
  <2>2. RemoveFirst(s, t) = RemoveAt(s, k)
    BY <1>1, <2>1 DEF RemoveFirst, SelectInSeq
  <2> DEFINE r == RemoveFirst(s, t)
  <2> HIDE DEF k, r
  <2>3. /\ k \in 1..Len(s) /\ s[k] = t /\ r \in Seq(Thread) /\ Len(r) = Len(s) - 1
        /\ \A i \in 1..(Len(s) - 1) : r[i] = IF i < k THEN s[i] ELSE s[i + 1]
    BY <2>1, <2>2, RemoveAtLists DEF r
  <2>4. ASSUME NEW i \in DOMAIN r  PROVE \E j \in DOMAIN s : r[i] = s[j] /\ j # k
    <3>1. i \in 1..(Len(s) - 1) /\ i \in DOMAIN s /\ i + 1 \in DOMAIN s
      BY <2>3, LenProperties
    <3> QED BY <2>3, <3>1
  <2>5. Ids(r) \subseteq Ids(s)
    BY <2>4 DEF Ids
  <2>6. IsInjective(s) => t \notin Ids(r)
    BY <2>3, <2>4 DEF Ids, IsInjective
  <2>7. ASSUME IsInjective(s), NEW i \in DOMAIN r, NEW j \in DOMAIN r, r[i] = r[j]
        PROVE  i = j
    <3> DEFINE From(m) == IF m < k THEN m ELSE m + 1
    <3>1. ASSUME NEW m \in DOMAIN r
          PROVE  m \in 1..(Len(s) - 1) /\ From(m) \in DOMAIN s /\ r[m] = s[From(m)]
      <4>1. m \in 1..(Len(s) - 1)
        BY <2>3, LenProperties
      <4>2. From(m) \in DOMAIN s
        BY <2>3, <4>1
      <4> QED BY <2>3, <4>1, <4>2
    <3>2. s[From(i)] = s[From(j)]
      BY <2>7, <3>1
    <3>3. From(i) = From(j)
      <4> HIDE DEF From
      <4> QED BY <2>7, <3>1, <3>2 DEF IsInjective
    <3> QED BY <2>3, <3>1, <3>3
  <2>8. IsInjective(s) => IsInjective(r)
    BY <2>7 DEF IsInjective
  <2>9. ASSUME NEW j \in DOMAIN s, j # k  PROVE \E i \in DOMAIN r : r[i] = s[j]
    <3>1. j \in 1..Len(s)
      OBVIOUS
    <3>2. CASE j < k
      <4>1. j \in 1..(Len(s) - 1) /\ j \in DOMAIN r /\ r[j] = s[j]
        BY <2>3, <3>1, <3>2
      <4> QED BY <4>1
    <3>3. CASE j > k
      <4>1. j - 1 \in 1..(Len(s) - 1) /\ j - 1 \in DOMAIN r /\ ~(j - 1 < k) /\ (j - 1) + 1 = j
        BY <2>3, <3>1, <3>3
      <4>2. r[j - 1] = s[j]
        BY <2>3, <4>1
      <4> QED BY <4>1, <4>2
    <3> QED BY <2>3, <2>9, <3>1, <3>2, <3>3
  <2>10. Ids(s) \subseteq Ids(r) \cup {t}
    BY <2>3, <2>9 DEF Ids
  <2> QED BY <2>3, <2>5, <2>6, <2>8, <2>10 DEF r
<1>2. CASE ~\E i \in 1..Len(s) : s[i] = t
  BY <1>2 DEF RemoveFirst, Ids
<1> QED BY <1>1, <1>2

-----------------------------------------------------------------------------
(* Types.                                                                  *)

\* A thread that has cloned has a child, and the client waits for no other.
State == {r \in ThreadState : r.status = "clone" => r.child \in Thread}
Threads == [Thread -> State]
Wait4s == [for : {"nothing", "any", "one", "child"},
           thread : Thread \cup {NoThread}, child : Thread \cup {NoThread}]
Waits == {w \in Wait4s : w.for = "child" => w.child \in Thread}
Events == [type : {"none", "trapped", "exited", "error"}, thread : Thread \cup {NoThread}]

Typed ==
  /\ scenario \in Scenario
  /\ thread \in Threads /\ text \in [Addr -> {"org", "trap"}] /\ killed \in BOOLEAN
  /\ tracingThreadIDs \subseteq Thread /\ trappedThreadIDs \in Seq(Thread)
  /\ killOnDetach \in BOOLEAN /\ members \subseteq Thread
  /\ waiting \in Waits /\ event \in Events
  /\ breakpoints \subseteq BreakAddr
  /\ handling \in [at : Phase, thread : Thread \cup {NoThread}, addr : Addr]

LEMMA WaitTypes ==
  /\ NotWaiting \in Waits /\ AnyThread \in Waits
  /\ \A t \in Thread : One(t) \in Waits /\ \A c \in Thread : Child(t, c) \in Waits
  /\ Exited \in Events /\ Failed \in Events /\ NoEvent \in Events
  /\ \A t \in Thread : Trapped(t) \in Events
BY DEF Waits, Wait4s, Events, NotWaiting, AnyThread, One, Child, Exited, Failed, NoEvent, Trapped

LEMMA ThreadTypes ==
  ASSUME NEW th \in Threads, NEW T
  PROVE  /\ Continued(th, T) \in Threads
         /\ \A t \in Thread : Waited(th, t) \in Threads
<1>1. ASSUME NEW r \in State
      PROVE  /\ [r EXCEPT !.life = "running", !.status = "none"] \in State
             /\ [r EXCEPT !.status = "none"] \in State
  BY DEF State, ThreadState, Life, Status
<1>2. Continued(th, T) \in Threads
  BY <1>1 DEF Threads, Continued
<1>3. ASSUME NEW t \in Thread  PROVE Waited(th, t) \in Threads
  BY <1>1 DEF Threads, Waited
<1> QED BY <1>2, <1>3

LEMMA ContinuedThreads ==
  ASSUME NEW th \in Threads, NEW T, NEW u \in Thread
  PROVE  /\ u \in T => /\ Continued(th, T)[u].life = "running" /\ Continued(th, T)[u].status = "none"
                       /\ Continued(th, T)[u].past = th[u].past
         /\ u \notin T => Continued(th, T)[u] = th[u]
         /\ \A t \in Thread : /\ u = t => /\ Waited(th, t)[u].status = "none"
                                        /\ Waited(th, t)[u].life = th[u].life
                                        /\ Waited(th, t)[u].past = th[u].past
                              /\ u # t => Waited(th, t)[u] = th[u]
<1>1. th[u] \in State
  BY DEF Threads
<1>2. \A r \in State : /\ [r EXCEPT !.life = "running", !.status = "none"].life = "running"
                       /\ [r EXCEPT !.life = "running", !.status = "none"].status = "none"
                       /\ [r EXCEPT !.life = "running", !.status = "none"].past = r.past
                       /\ [r EXCEPT !.status = "none"].status = "none"
                       /\ [r EXCEPT !.status = "none"].life = r.life
                       /\ [r EXCEPT !.status = "none"].past = r.past
  BY DEF State, ThreadState
<1>3. /\ u \in T => Continued(th, T)[u] = [th[u] EXCEPT !.life = "running", !.status = "none"]
      /\ u \notin T => Continued(th, T)[u] = th[u]
  BY DEF Continued
<1>4. \A t \in Thread : /\ u = t => Waited(th, t)[u] = [th[u] EXCEPT !.status = "none"]
                        /\ u # t => Waited(th, t)[u] = th[u]
  BY DEF Waited, Threads
<1> QED BY <1>1, <1>2, <1>3, <1>4

LEMMA ContinueFromTypes ==
  ASSUME Typed, NEW th \in Threads, NEW s \in Seq(Thread), ContinueFrom(th, s)
  PROVE  thread' \in Threads /\ trappedThreadIDs' \in Seq(Thread) /\ waiting' \in Waits /\ event' \in Events
<1> DEFINE bad == {i \in DOMAIN s : th[s[i]].life # "stopped"}
<1>1. CASE bad = {}
  <2>1. thread' = Continued(th, Ids(s)) /\ trappedThreadIDs' = <<>> /\ waiting' = AnyThread /\ UNCHANGED event
    BY <1>1 DEF ContinueFrom
  <2> QED BY <2>1, ThreadTypes, WaitTypes DEF Typed
<1>2. CASE bad # {}
  <2>1. PICK T : thread' = Continued(th, T)
    BY <1>2 DEF ContinueFrom
  <2>2. trappedThreadIDs' = s /\ event' = Failed /\ waiting' = NotWaiting
    BY <1>2 DEF ContinueFrom, Return
  <2> QED BY <2>1, <2>2, ThreadTypes, WaitTypes
<1> QED BY <1>1, <1>2

LEMMA StateTypes ==
  ASSUME NEW r \in State
  PROVE  /\ \A s \in Status \ {"clone"} : Stop(r, s) \in State
         /\ \A l \in Life : [r EXCEPT !.life = l] \in State
         /\ \A a \in Addr : [r EXCEPT !.pc = a] \in State
         /\ \A c \in Thread : [Stop(r, "clone") EXCEPT !.child = c] \in State
         /\ \A b \in BOOLEAN : [r EXCEPT !.past = b] \in State
         /\ Dead(r) \in State
BY DEF State, ThreadState, Stop, Dead, Life, Status

LEMMA UpdateTypes ==
  ASSUME NEW th \in Threads, NEW t \in Thread, NEW r \in State
  PROVE  th[t] \in State /\ [th EXCEPT ![t] = r] \in Threads
BY DEF Threads

LEMMA KernelTypes ==
  ASSUME Typed, KernelNext
  PROVE  thread' \in Threads /\ text' = text /\ killed' \in BOOLEAN
<1>1. /\ thread \in Threads /\ killed \in BOOLEAN
      /\ \A t \in Thread : thread[t] \in State /\ thread[t].pc \in Addr
  BY DEF Typed, Threads, State, ThreadState
<1>2. \A a \in Addr : \A b \in Successors[a] : b \in Addr
  BY PtraceAssumption
<1>3. {"stopped", "running", "dead"} \subseteq Life /\ {"trap", "clone", "signal", "stop", "exit", "none"} \subseteq Status
  BY DEF Life, Status
<1>4. ASSUME NEW t \in Thread, HitTrap(t)  PROVE thread' \in Threads /\ text' = text /\ killed' \in BOOLEAN
  <2> DEFINE r == [Stop(thread[t], "trap") EXCEPT !.past = TRUE]
  <2>1. r \in State
    BY <1>1, <1>3, StateTypes
  <2>2. thread' \in {thread, [thread EXCEPT ![t] = r]} /\ text' = text /\ killed' \in {killed, TRUE}
    BY <1>1, <1>4 DEF HitTrap, Threads
  <2> QED BY <1>1, <2>1, <2>2, UpdateTypes
<1>5. ASSUME NEW t \in Thread, Execute(t)  PROVE thread' \in Threads /\ text' = text /\ killed' \in BOOLEAN
  <2>1. PICK a \in Successors[thread[t].pc] :
          LET r == [thread[t] EXCEPT !.pc = a]
          IN  thread' = [thread EXCEPT ![t] = IF r.life = "stepping" THEN Stop(r, "trap") ELSE r]
    BY <1>5 DEF Execute
  <2> DEFINE r == [thread[t] EXCEPT !.pc = a]
  <2>2. r \in State /\ Stop(r, "trap") \in State
    BY <1>1, <1>2, <1>3, StateTypes
  <2>3. text' = text /\ killed' = killed
    BY <1>5 DEF Execute
  <2> QED BY <1>1, <2>1, <2>2, <2>3, UpdateTypes
<1>6. ASSUME NEW t \in Thread, Clone(t)  PROVE thread' \in Threads /\ text' = text /\ killed' \in BOOLEAN
  <2>1. PICK c \in scenario.threads, a \in Successors[thread[t].pc] :
          LET r == [thread[t] EXCEPT !.pc = a]
              u == [r EXCEPT !.life = "running"]
          IN  thread' = IF r.traced
                THEN [thread EXCEPT ![t] = [Stop(r, "clone") EXCEPT !.child = c], ![c] = Stop(u, "stop")]
                ELSE [thread EXCEPT ![t] = r, ![c] = u]
    BY <1>6 DEF Clone
  <2> DEFINE r == [thread[t] EXCEPT !.pc = a]
             u == [r EXCEPT !.life = "running"]
             p == [Stop(r, "clone") EXCEPT !.child = c]
  <2>2. c \in Thread
    BY PtraceAssumption DEF Typed
  <2>3. r \in State /\ u \in State /\ p \in State /\ Stop(u, "stop") \in State
    BY <1>1, <1>2, <1>3, <2>2, StateTypes
  <2>4. thread' \in {[thread EXCEPT ![t] = p, ![c] = Stop(u, "stop")], [thread EXCEPT ![t] = r, ![c] = u]}
    BY <2>1
  <2>5. text' = text /\ killed' = killed
    BY <1>6 DEF Clone
  <2> HIDE DEF r, u, p
  <2> QED BY <1>1, <2>2, <2>3, <2>4, <2>5 DEF Threads
<1>7. ASSUME NEW t \in Thread, Signal(t) \/ ThreadExits(t)
      PROVE  thread' \in Threads /\ text' = text /\ killed' \in BOOLEAN
  <2>1. PICK r \in {Stop(thread[t], "signal"), Dead(thread[t])} : thread' = [thread EXCEPT ![t] = r]
    BY <1>1, <1>7 DEF Signal, ThreadExits, Threads
  <2>2. r \in State
    BY <1>1, <1>3, StateTypes
  <2>3. text' = text /\ killed' = killed
    BY <1>7 DEF Signal, ThreadExits
  <2> QED BY <1>1, <2>1, <2>2, <2>3, UpdateTypes
<1>8. CASE ProcessExits
  <2>1. \A t \in Thread : Dead(thread[t]) \in State
    BY <1>1, StateTypes
  <2>2. /\ thread' = [t \in Thread |-> IF Alive(t) THEN Dead(thread[t]) ELSE thread[t]]
        /\ text' = text /\ killed' = killed
    BY <1>8 DEF ProcessExits
  <2> QED BY <1>1, <2>1, <2>2 DEF Threads
<1> QED BY <1>4, <1>5, <1>6, <1>7, <1>8 DEF KernelNext

\* The client's part of TypeOK, and that of the threads, which its steps change.
LEMMA ClientTypes ==
  ASSUME Typed, Wait
  PROVE  /\ thread' \in Threads /\ UNCHANGED <<text, killed, killOnDetach, members>>
         /\ tracingThreadIDs' \subseteq Thread /\ trappedThreadIDs' \in Seq(Thread)
         /\ waiting' \in Waits /\ event' \in Events
<1> DEFINE Ok == /\ thread' \in Threads /\ UNCHANGED <<text, killed, killOnDetach, members>>
                    /\ tracingThreadIDs' \subseteq Thread /\ trappedThreadIDs' \in Seq(Thread)
                    /\ waiting' \in Waits /\ event' \in Events
<1>1. /\ thread \in Threads /\ tracingThreadIDs \subseteq Thread /\ trappedThreadIDs \in Seq(Thread)
      /\ event \in Events /\ waiting \in Waits
  BY DEF Typed
<1>2. ASSUME NEW t \in Thread, WaitTrapped(t)  PROVE Ok
  BY <1>1, <1>2, ThreadTypes, WaitTypes, AppendLists DEF WaitTrapped, Return
<1>3. ASSUME NEW t \in Thread, WaitSignalled(t)  PROVE Ok
  <2>1. Waited(thread, t) \in Threads /\ Append(trappedThreadIDs, t) \in Seq(Thread)
    BY <1>1, ThreadTypes, AppendLists
  <2> QED BY <1>1, <1>3, <2>1, ContinueFromTypes DEF WaitSignalled
<1>4. ASSUME NEW t \in Thread, WaitExited(t)  PROVE Ok
  BY <1>1, <1>4, ThreadTypes, WaitTypes DEF WaitExited, Return
<1>5. ASSUME NEW t \in Thread, WaitCloned(t)  PROVE Ok
  <2>1. thread[t].status = "clone"
    BY <1>5 DEF WaitCloned
  <2>2. thread[t].child \in Thread
    BY <1>1, <2>1 DEF Threads, State
  <2> QED BY <1>1, <1>5, <2>2, ThreadTypes, WaitTypes, AppendLists DEF WaitCloned
<1>6. CASE WaitChild
  <2> DEFINE c == waiting.child
             th == Continued(Waited(thread, c), {c})
  <2>1. c \in Thread
    BY <1>1, <1>6 DEF WaitChild, Waits
  <2>2. Waited(thread, c) \in Threads /\ th \in Threads
    BY <1>1, <2>1, ThreadTypes
  <2> HIDE DEF th
  <2>3. CASE Stopped(c)
    <3>1. /\ ContinueFrom(th, trappedThreadIDs)
          /\ UNCHANGED <<text, killed, tracingThreadIDs, killOnDetach, members>>
      BY <1>6, <2>3 DEF WaitChild, th
    <3> QED BY <1>1, <2>2, <3>1, ContinueFromTypes
  <2>4. CASE ~Stopped(c)
    BY <1>1, <1>6, <2>2, <2>4, WaitTypes DEF WaitChild, Return
  <2> QED BY <2>3, <2>4
<1> QED BY <1>2, <1>3, <1>4, <1>5, <1>6 DEF Wait

LEMMA AttachTypes ==
  ASSUME Typed, LaunchProcess \/ ListMembers \/ \E t \in Thread : AttachToMember(t)
  PROVE  /\ thread' \in Threads /\ UNCHANGED <<text, killed, waiting, event>>
         /\ tracingThreadIDs' \subseteq Thread /\ trappedThreadIDs' \in Seq(Thread)
         /\ killOnDetach' \in BOOLEAN /\ members' \subseteq Thread
<1>1. /\ thread \in Threads /\ Leader \in Thread
      /\ \A t \in Thread : [thread[t] EXCEPT !.life = "stopped", !.traced = TRUE] \in State
  <2>1. ASSUME NEW r \in State  PROVE [r EXCEPT !.life = "stopped", !.traced = TRUE] \in State
    BY DEF State, ThreadState, Life
  <2> QED BY <2>1, PtraceAssumption DEF Typed, Threads
<1>2. CASE LaunchProcess
  <2>1. thread' = [thread EXCEPT ![Leader] = [@ EXCEPT !.life = "stopped", !.traced = TRUE]]
    BY <1>1, <1>2 DEF LaunchProcess, Threads
  <2>2. thread' \in Threads
    BY <1>1, <2>1 DEF Threads
  <2>3. {Leader} \subseteq Thread /\ <<Leader>> \in Seq(Thread)
    BY PtraceAssumption
  <2>4. /\ tracingThreadIDs' = {Leader} /\ trappedThreadIDs' = <<Leader>> /\ killOnDetach' = TRUE
        /\ UNCHANGED <<text, killed, members, waiting, event>>
    BY <1>2 DEF LaunchProcess
  <2> QED BY <2>2, <2>3, <2>4 DEF Typed
<1>3. CASE ListMembers
  BY <1>3 DEF ListMembers, Typed, kernel
<1>4. ASSUME NEW t \in Thread, AttachToMember(t)
      PROVE  /\ thread' \in Threads /\ tracingThreadIDs' \subseteq Thread
             /\ trappedThreadIDs' \in Seq(Thread) /\ members' \subseteq Thread
  <2>1. thread' = [thread EXCEPT ![t] = [@ EXCEPT !.life = "stopped", !.traced = TRUE]]
    BY <1>1, <1>4 DEF AttachToMember, Threads
  <2>2. thread' \in Threads
    BY <1>1, <2>1 DEF Threads
  <2>3. \/ UNCHANGED <<tracingThreadIDs, trappedThreadIDs>>
        \/ tracingThreadIDs' \in SUBSET Thread /\ trappedThreadIDs' = SetToSeq(tracingThreadIDs')
    BY <1>4 DEF AttachToMember
  <2> QED BY <1>4, <2>2, <2>3, SetToSeqLists DEF AttachToMember, Typed
<1>5. ASSUME NEW t \in Thread, AttachToMember(t)
      PROVE  UNCHANGED <<text, killed, waiting, event, killOnDetach>>
  BY <1>5 DEF AttachToMember
<1> QED BY <1>2, <1>3, <1>4, <1>5 DEF Typed

LEMMA DetachTypes ==
  ASSUME Typed, DetachProcess
  PROVE  thread' \in Threads /\ UNCHANGED <<client, killed>>
<1>1. ASSUME NEW r \in State
      PROVE  /\ [r EXCEPT !.life = "running", !.traced = FALSE, !.status = "none"] \in State
             /\ [r EXCEPT !.life = "dead", !.status = "none"] \in State
  BY DEF State, ThreadState, Life, Status
<1>2. DetachedThreads \in Threads /\ KilledThreads \in Threads
  BY <1>1 DEF Typed, Threads, DetachedThreads, KilledThreads
<1> QED BY <1>2 DEF DetachProcess

LEMMA TypedStays ==
  ASSUME Typed, TextFollows, [ProcessNext]_processVars
  PROVE  Typed'
<1> USE BreakAddrAssumption
<1>1. /\ text' \in [Addr -> {"org", "trap"}] /\ breakpoints' \subseteq BreakAddr /\ scenario' \in Scenario
  <2>1. TextFollows'
    BY TextFollowsStays
  <2> QED BY <2>1 DEF TextFollows, Typed, ProcessNext, processVars
<1> DEFINE Handlings == [at : Phase, thread : Thread \cup {NoThread}, addr : Addr]
<1>2. handling \in Handlings /\ \A at \in Phase : [handling EXCEPT !.at = at] \in Handlings
  BY DEF Typed
<1>3. ASSUME thread' \in Threads, killed' \in BOOLEAN,
             tracingThreadIDs' \subseteq Thread, trappedThreadIDs' \in Seq(Thread),
             killOnDetach' \in BOOLEAN, members' \subseteq Thread,
             waiting' \in Waits, event' \in Events, handling' \in Handlings
      PROVE  Typed'
  BY <1>1, <1>3 DEF Typed
<1>4. CASE UNCHANGED processVars
  BY <1>3, <1>4 DEF processVars, kernel, client, Typed
<1>5. CASE ClientWaits
  BY <1>2, <1>3, <1>5, ClientTypes DEF ClientWaits, Typed
<1>6. CASE TraceeMoves
  BY <1>2, <1>3, <1>6, KernelTypes DEF TraceeMoves, client, Typed
<1>7. CASE Attach
  BY <1>2, <1>3, <1>7, AttachTypes DEF Attach, Typed
<1>8. CASE FailToAttach
  BY <1>2, <1>3, <1>8, WaitTypes DEF FailToAttach, AttachFails, Return, GoTo, kernel, Phase, Typed
<1>9. CASE NewProcess \/ Interrupted
  BY <1>2, <1>3, <1>9 DEF NewProcess, Interrupted, GoTo, kernel, client, Phase, Typed
<1>10. CASE NewProcessFails \/ Detach
  BY <1>2, <1>3, <1>10, DetachTypes DEF NewProcessFails, Detach, GoTo, client, Phase, Typed
<1>11. ASSUME NEW a \in Addr, SetBreakpoint(a) \/ ClearBreakpoint(a)  PROVE Typed'
  BY <1>2, <1>3, <1>11 DEF SetBreakpoint, ClearBreakpoint, GoTo, client, Phase, Typed
<1>12. CASE Resume
  <2>1. handling' \in Handlings
    <3>1. handling' = [handling EXCEPT !.at = "waiting", !.thread = NoThread]
      BY <1>12 DEF Resume
    <3> QED BY <3>1 DEF Phase, Typed
  <2> QED BY <1>3, <1>12, <2>1, ContinueFromTypes DEF Resume, ContinueAndWait, Typed
<1>13. CASE Returns
  BY <1>2, <1>3, <1>13 DEF Returns, Handling, Events, kernel, client, Phase, Typed
<1>14. ASSUME NEW a \in Addr, NEW t \in Thread, SingleStep(t, a)  PROVE Typed'
  <2>1. handling' \in Handlings
    BY <1>2, <1>14 DEF SingleStep, GoTo, Handling, Phase
  <2>2. CASE UNCHANGED <<kernel, client>>
    BY <1>3, <2>1, <2>2 DEF kernel, client, Typed
  <2>3. CASE StepAndWait([thread EXCEPT ![t].past = FALSE], t) /\ UNCHANGED killed
    <3>1. ASSUME NEW r \in State
          PROVE  [r EXCEPT !.past = FALSE, !.life = "stepping", !.status = "none"] \in State
      BY DEF State, ThreadState, Life, Status
    <3>2. thread' = [thread EXCEPT ![t] = [@ EXCEPT !.past = FALSE, !.life = "stepping", !.status = "none"]]
      BY <2>3 DEF StepAndWait, Typed, Threads, State, ThreadState
    <3>3. thread' \in Threads
      BY <3>1, <3>2 DEF Typed, Threads
    <3> QED BY <1>3, <2>1, <2>3, <3>3, WaitTypes, RemoveLists DEF StepAndWait, Typed
  <2> QED BY <1>14, <2>2, <2>3 DEF SingleStep
<1>15. CASE SingleStepReturns
  BY <1>2, <1>3, <1>15 DEF SingleStepReturns, GoTo, client, Phase, Typed
<1> QED
  BY <1>4, <1>5, <1>6, <1>7, <1>8, <1>9, <1>10, <1>11, <1>12, <1>13, <1>14, <1>15
  DEF ProcessNext, ProcessStep

LEMMA TypedAtFirst ==
  ASSUME ProcessInit
  PROVE  Typed /\ TextFollows
<1>1. ASSUME NEW a \in Addr  PROVE Unborn(a) \in State /\ [Unborn(a) EXCEPT !.life = "running"] \in State
  BY DEF Unborn, State, ThreadState, Life, Status
<1>2. thread \in Threads
  BY <1>1 DEF ProcessInit, KernelInit, Threads
<1>3. handling \in [at : Phase, thread : Thread \cup {NoThread}, addr : Addr]
  BY DEF ProcessInit, Handling, Phase
<1>4. <<>> \in Seq(Thread)
  OBVIOUS
<1> QED
  BY <1>2, <1>3, <1>4, WaitTypes
  DEF ProcessInit, KernelInit, ClientInit, TextFollows, Out, Handling, Typed

\* The variables have the types that the code declares, for any number of threads,
\* any program and any breakpoints; wait4's answers name threads (handleWaitStatus).
THEOREM TypeCorrect == ProcessSpec => []TypeOK
<1>1. Typed => TypeOK
  BY DEF Typed, Threads, State, Waits, Wait4s, Events, TypeOK, KernelTypeOK, ClientTypeOK
<1> QED BY <1>1, TypedAtFirst, TextFollowsStays, TypedStays, PTL DEF ProcessSpec

-----------------------------------------------------------------------------
(* No thread continues inside an instruction.                              *)

\* ContinueAndWait has failed: some threads of the list may run already.
Over == handling.at = "waiting" /\ waiting = NotWaiting /\ event = Failed

Going == handling.at \notin {"failed", "ending", "detached"} /\ ~Over

\* t has hit a trap, and MainLoop deals with it.
InHand(t) ==
  \/ handling.at = "waiting" /\ waiting = NotWaiting /\ event = Trapped(t)
  \/ handling.at = "trapped" /\ handling.thread = t

Listed(t) == t \in Ids(trappedThreadIDs)
Is(t, life) == thread[t].life = life

\* While attaching no thread has hit anything.
AtFirst ==
  handling.at = "attaching" =>
    /\ breakpoints = {} /\ handling.thread = NoThread
    /\ \A t \in Thread : /\ ~thread[t].past /\ thread[t].status \in {"none", "exit"}
                         /\ ~Is(t, "stepping")
                         /\ thread[t].traced => Is(t, "stopped") \/ Is(t, "dead")

StatusFits ==
  \A t \in Thread :
    /\ thread[t].status # "none" => Is(t, "stopped") \/ Is(t, "dead")
    /\ thread[t].status = "exit" => Is(t, "dead")
    /\ Is(t, "dead") => thread[t].status \in {"none", "exit"}
    /\ thread[t].status # "signal"

ListFits ==
  /\ IsInjective(trappedThreadIDs)
  /\ \A t \in Thread : Listed(t) => Is(t, "dead") \/ (Is(t, "stopped") /\ thread[t].status = "none")

PastWaits ==
  \A t \in Thread :
    thread[t].past => Is(t, "dead") \/ (Is(t, "stopped") /\ (thread[t].status = "trap" \/ InHand(t)))

\* A thread whose birth has not been handled.
Newborn(c) == c \in Thread /\ (Is(c, "dead") \/ (Is(c, "stopped") /\ thread[c].status = "stop"))

BirthsFit ==
  /\ \A p \in Thread : thread[p].status = "clone" =>
       /\ Newborn(thread[p].child)
       /\ \A q \in Thread : thread[q].status = "clone" /\ thread[q].child = thread[p].child => q = p
       /\ waiting.for = "child" => waiting.child # thread[p].child
  /\ waiting.for = "child" => Newborn(waiting.child)

\* Which wait the client may be in, and which thread MainLoop deals with.
WaitFits ==
  LET h == handling.thread
      e == event.thread
  IN
  /\ handling.at \in {"attaching", "resuming", "trapped"} => waiting = NotWaiting
  /\ handling.at = "waiting" => waiting = NotWaiting \/ waiting = AnyThread \/ waiting.for = "child"
  /\ handling.at = "waiting" /\ waiting = NotWaiting /\ event.type = "trapped" =>
       e \in Thread /\ (Listed(e) \/ Is(e, "dead"))
  /\ handling.at \in {"trapped", "resuming"} /\ h # NoThread =>
       h \in Thread /\ (Listed(h) \/ Is(h, "dead"))
  /\ handling.at = "stepping" =>
       /\ h \in Thread /\ handling.addr \notin CloneAddr /\ ~thread[h].past
       /\ waiting = NotWaiting => Listed(h) \/ Is(h, "dead")
       /\ waiting # NotWaiting =>
            /\ waiting = One(h)
            /\ thread[h].status \in {"none", "trap", "exit"}
            /\ \/ Is(h, "stepping") /\ thread[h].pc = handling.addr
               \/ Is(h, "stopped") \/ Is(h, "dead")

Orders == AtFirst /\ StatusFits /\ ListFits /\ PastWaits /\ BirthsFit /\ WaitFits

NonePastRuns == \A t \in Thread : thread[t].past => ~(thread[t].life \in {"running", "stepping"})

\* The premise under which each step is looked at.
Before == Typed /\ TextFollows /\ Unsignalled /\ Going /\ Orders

\* A thread that runs is on no list and has nothing to report; so it may stop, exit
\* or go on, if it says so and is behind a trap only if it reports it.
LEMMA OneMoves ==
  ASSUME Before, UNCHANGED <<client, breakpoints, handling>>,
         NEW t \in Thread, Is(t, "running") \/ Is(t, "stepping"),
         NEW r, thread' = [thread EXCEPT ![t] = r],
         handling.at = "attaching" =>
           /\ ~r.past /\ r.status \in {"none", "exit"} /\ r.life # "stepping"
           /\ r.traced => r.life \in {"stopped", "dead"},
         r.status \in {"none", "trap", "exit"},
         r.status # "none" => r.life \in {"stopped", "dead"},
         r.status = "exit" => r.life = "dead",
         r.life = "dead" => r.status \in {"none", "exit"},
         r.past => r.life = "dead" \/ (r.life = "stopped" /\ r.status = "trap"),
         handling.at = "stepping" /\ t = handling.thread =>
           ~r.past /\ (r.life \in {"stopped", "dead"} \/ (r.life = "stepping" /\ r.pc = thread[t].pc))
  PROVE  Orders'
<1> USE DEF Before, Orders, Is
<1>1. /\ thread'[t] = r /\ \A u \in Thread \ {t} : thread'[u] = thread[u]
      /\ UNCHANGED <<trappedThreadIDs, waiting, event, breakpoints, handling>>
  BY DEF client, Typed, Threads
<1>2. thread[t].status = "none" /\ ~Listed(t) /\ ~Newborn(t) /\ ~thread[t].past
  BY DEF StatusFits, ListFits, PastWaits, Newborn
<1>3. \A u : Listed(u)' <=> Listed(u)
  BY <1>1 DEF Listed, Ids
<1>4. \A u : InHand(u)' <=> InHand(u)
  BY <1>1 DEF InHand
<1>5. \A u : Newborn(u) => Newborn(u)'
  BY <1>1, <1>2 DEF Newborn
<1>6. AtFirst'
  BY <1>1 DEF AtFirst
<1>7. StatusFits'
  BY <1>1 DEF StatusFits
<1>8. ListFits'
  BY <1>1, <1>2, <1>3 DEF ListFits
<1>9. PastWaits'
  BY <1>1, <1>4 DEF PastWaits
<1>10. BirthsFit'
  BY <1>1, <1>5 DEF BirthsFit
<1>11. WaitFits'
  BY <1>1, <1>2, <1>3 DEF WaitFits
<1> QED BY <1>6, <1>7, <1>8, <1>9, <1>10, <1>11

LEMMA KernelOrders ==
  ASSUME Before, TraceeMoves
  PROVE  Orders'
<1> USE DEF Before
<1>1. UNCHANGED <<client, breakpoints, handling>> /\ \A u \in Thread : thread[u] \in State
  BY DEF TraceeMoves, Typed, Threads
<1>2. ASSUME NEW t \in Thread, HitTrap(t)  PROVE Orders'
  <2> DEFINE r == [Stop(thread[t], "trap") EXCEPT !.past = TRUE]
  <2>1. Is(t, "running") \/ Is(t, "stepping")
    BY <1>2 DEF HitTrap, Executes, Is
  <2>2. thread[t].pc \in breakpoints \ Out
    BY <1>1, <1>2 DEF HitTrap, Executes, Going, TextFollows, Typed, State, ThreadState
  <2>3. handling.at # "attaching" /\ ~(handling.at = "stepping" /\ t = handling.thread)
    BY <2>1, <2>2 DEF Orders, AtFirst, WaitFits, ListFits, Out, Is
  <2>4. thread' = [thread EXCEPT ![t] = r] \/ UNCHANGED thread
    BY <1>1, <1>2 DEF HitTrap, Typed, Threads
  <2>5. r.life = "stopped" /\ r.status = "trap" /\ r.past
    BY <1>1 DEF Stop, State, ThreadState
  <2>6. CASE thread' = [thread EXCEPT ![t] = r]
    BY <1>1, <2>1, <2>3, <2>5, <2>6, OneMoves
  <2>7. CASE UNCHANGED thread
    BY <1>1, <2>7 DEF Orders, AtFirst, StatusFits, ListFits, PastWaits, BirthsFit, WaitFits,
                      InHand, Listed, Newborn, Is, client
  <2> QED BY <2>4, <2>6, <2>7
<1>3. ASSUME NEW t \in Thread, Execute(t)  PROVE Orders'
  <2>1. PICK a \in Addr :
          LET r == [thread[t] EXCEPT !.pc = a]
          IN  thread' = [thread EXCEPT ![t] = IF r.life = "stepping" THEN Stop(r, "trap") ELSE r]
    BY <1>1, <1>3, PtraceAssumption DEF Execute, State, ThreadState
  <2> DEFINE r == [thread[t] EXCEPT !.pc = a]
             q == IF r.life = "stepping" THEN Stop(r, "trap") ELSE r
  <2>2. /\ Is(t, "running") \/ Is(t, "stepping")
        /\ ~thread[t].past
    BY <1>3 DEF Execute, Executes, Is
  <2>3. thread[t].status = "none"
    BY <2>2 DEF Orders, StatusFits, Is
  <2>4. /\ ~q.past /\ q.traced = thread[t].traced
        /\ Is(t, "running") => q.life = "running" /\ q.status = "none"
        /\ Is(t, "stepping") => q.life = "stopped" /\ q.status = "trap"
    BY <1>1, <2>2, <2>3 DEF Stop, Is, State, ThreadState
  <2>5. handling.at = "stepping" /\ t = handling.thread => Is(t, "stepping")
    BY <2>2 DEF Orders, WaitFits, ListFits, Is
  <2>6. handling.at = "attaching" => ~Is(t, "stepping") /\ ~thread[t].traced
    BY <2>2 DEF Orders, AtFirst, Is
  <2> HIDE DEF q
  <2> QED BY <1>1, <2>1, <2>2, <2>4, <2>5, <2>6, OneMoves DEF q, Is
<1>4. ASSUME NEW t \in Thread, Signal(t)  PROVE Orders'
  BY <1>4 DEF Signal, Unsignalled
<1>5. ASSUME NEW t \in Thread, ThreadExits(t)  PROVE Orders'
  <2> DEFINE r == Dead(thread[t])
  <2>1. Is(t, "running") \/ Is(t, "stepping")
    BY <1>5 DEF ThreadExits, Executes, Is
  <2>2. thread' = [thread EXCEPT ![t] = r]
    BY <1>1, <1>5 DEF ThreadExits, Typed, Threads
  <2>3. ~thread[t].past
    BY <1>5 DEF ThreadExits, Executes
  <2>4. r.life = "dead" /\ r.status \in {"none", "exit"} /\ ~r.past /\ r.traced = thread[t].traced
    BY <1>1, <2>3 DEF Dead, State, ThreadState
  <2> HIDE DEF r
  <2> QED BY <1>1, <2>1, <2>2, <2>4, OneMoves
<1>6. CASE ProcessExits
  <2>1. \A u \in Thread :
          \/ thread'[u] = thread[u] /\ ~Alive(u)
          \/ /\ Alive(u) /\ thread'[u].life = "dead" /\ thread'[u].status \in {"none", "exit"}
             /\ thread'[u].past = thread[u].past
    <3>1. \A r \in State : /\ Dead(r).life = "dead" /\ Dead(r).status \in {"none", "exit"}
                            /\ Dead(r).past = r.past
      BY DEF Dead, State, ThreadState
    <3>2. thread' = [u \in Thread |-> IF Alive(u) THEN Dead(thread[u]) ELSE thread[u]]
      BY <1>6 DEF ProcessExits
    <3> QED BY <1>1, <3>1, <3>2
  <2>2. UNCHANGED <<trappedThreadIDs, waiting, event, breakpoints, handling>>
    BY <1>1 DEF client
  <2>3. \A u : (Listed(u)' <=> Listed(u)) /\ (InHand(u)' <=> InHand(u))
    BY <2>2 DEF Listed, Ids, InHand
  <2>4. \A u : Newborn(u) => Newborn(u)'
    BY <2>1 DEF Newborn, Is
  <2> USE DEF Orders, Is, Alive
  <2>5. AtFirst'  BY <2>1, <2>2 DEF AtFirst
  <2>6. StatusFits'  BY <2>1 DEF StatusFits
  <2>7. ListFits'  BY <2>1, <2>2, <2>3 DEF ListFits
  <2>8. PastWaits'  BY <2>1, <2>3 DEF PastWaits
  <2>9. BirthsFit'
    <3>1. \A u \in Thread : thread'[u].status = "clone" => thread'[u] = thread[u]
      BY <2>1
    <3> QED BY <2>2, <2>4, <3>1 DEF BirthsFit
  <2>10. WaitFits'  BY <2>1, <2>2, <2>3 DEF WaitFits
  <2> QED BY <2>5, <2>6, <2>7, <2>8, <2>9, <2>10
<1>7. ASSUME NEW t \in Thread, Clone(t)  PROVE Orders'
  <2>1. PICK c \in Thread, a \in Addr :
          /\ thread[c].life = "unborn"
          /\ LET r == [thread[t] EXCEPT !.pc = a]
                 u == [r EXCEPT !.life = "running"]
             IN  thread' = IF r.traced
                   THEN [thread EXCEPT ![t] = [Stop(r, "clone") EXCEPT !.child = c], ![c] = Stop(u, "stop")]
                   ELSE [thread EXCEPT ![t] = r, ![c] = u]
    BY <1>1, <1>7, PtraceAssumption DEF Clone, Typed, State, ThreadState
  <2>2. /\ t # c /\ ~thread[t].past
        /\ Is(t, "running") \/ Is(t, "stepping")
    BY <1>7, <2>1 DEF Clone, Executes, Is
  <2>3. /\ ~(handling.at = "stepping" /\ t = handling.thread)
        /\ ~(handling.at = "stepping" /\ c = handling.thread)
    BY <1>7, <2>1, <2>2 DEF Clone, Orders, WaitFits, ListFits, Is
  <2>4. /\ thread[t].status = "none" /\ thread[c].status = "none" /\ ~thread[c].past
        /\ ~Listed(t) /\ ~Listed(c) /\ ~Newborn(t) /\ ~Newborn(c)
    BY <2>1, <2>2 DEF Orders, StatusFits, ListFits, PastWaits, Newborn, Is
  <2>5. UNCHANGED <<trappedThreadIDs, waiting, event, breakpoints, handling>>
    BY <1>1 DEF client
  <2>6. \A u : (Listed(u)' <=> Listed(u)) /\ (InHand(u)' <=> InHand(u))
    BY <2>5 DEF Listed, Ids, InHand
  <2>7. \A u \in Thread \ {t, c} : thread'[u] = thread[u]
    BY <2>1 DEF Typed, Threads
  <2>8. \A u : Newborn(u) => Newborn(u)'
    BY <2>4, <2>7 DEF Newborn, Is
  <2> DEFINE r == [thread[t] EXCEPT !.pc = a]
             u == [r EXCEPT !.life = "running"]
             p == [Stop(r, "clone") EXCEPT !.child = c]
             q == Stop(u, "stop")
  <2>9. /\ r.life = thread[t].life /\ r.status = "none" /\ ~r.past /\ r.traced = thread[t].traced
        /\ u.life = "running" /\ u.status = "none" /\ ~u.past /\ u.traced = thread[t].traced
        /\ p.life = "stopped" /\ p.status = "clone" /\ ~p.past /\ p.child = c
        /\ q.life = "stopped" /\ q.status = "stop" /\ ~q.past
    BY <1>1, <2>2, <2>4 DEF Stop, State, ThreadState
  <2>10. \/ thread[t].traced /\ thread'[t] = p /\ thread'[c] = q
         \/ ~thread[t].traced /\ thread'[t] = r /\ thread'[c] = u
    BY <2>1, <2>2, <2>9 DEF Typed, Threads
  <2> HIDE DEF r, u, p, q
  <2> USE DEF Orders, Is
  <2>11. AtFirst'  BY <2>2, <2>5, <2>7, <2>9, <2>10 DEF AtFirst
  <2>12. StatusFits'  BY <2>2, <2>7, <2>9, <2>10 DEF StatusFits
  <2>13. ListFits'  BY <2>4, <2>5, <2>6, <2>7 DEF ListFits
  <2>14. PastWaits'  BY <2>6, <2>7, <2>9, <2>10 DEF PastWaits
  <2>15. BirthsFit'
    <3>1. \A v \in Thread : thread'[v].status = "clone" =>
             \/ v \in Thread \ {t, c} /\ thread'[v] = thread[v]
             \/ v = t /\ thread'[t].child = c /\ Newborn(c)'
      BY <2>2, <2>4, <2>7, <2>9, <2>10 DEF Newborn
    <3> QED BY <2>4, <2>5, <2>8, <3>1 DEF BirthsFit
  <2>16. WaitFits'
    <3>1. \A v \in Thread : Is(v, "dead") => thread'[v] = thread[v]
      BY <2>1, <2>2, <2>7
    <3> HIDE DEF Is
    <3>2. \A v \in Thread : Is(v, "dead") => Is(v, "dead")'
      BY <3>1 DEF Is
    <3>3. handling.at = "stepping" => handling.thread \in Thread /\ thread'[handling.thread] = thread[handling.thread]
      BY <2>3, <2>7 DEF WaitFits
    <3> QED BY <2>5, <2>6, <3>2, <3>3 DEF WaitFits, Is
  <2> QED BY <2>11, <2>12, <2>13, <2>14, <2>15, <2>16
<1> QED BY <1>2, <1>3, <1>4, <1>5, <1>6, <1>7 DEF TraceeMoves, KernelNext

\* What ContinueFrom does: it continues stopped threads of the list, all of them or
\* those up to the first that is not stopped.
LEMMA ContinueFromDoes ==
  ASSUME NEW th, NEW s \in Seq(Thread), ContinueFrom(th, s)
  PROVE  \E T \in SUBSET Ids(s) :
           /\ \A u \in T : th[u].life = "stopped"
           /\ thread' = Continued(th, T)
           /\ \/ T = Ids(s) /\ trappedThreadIDs' = <<>> /\ waiting' = AnyThread /\ UNCHANGED event
              \/ event' = Failed /\ waiting' = NotWaiting
<1> DEFINE bad == {i \in DOMAIN s : th[s[i]].life # "stopped"}
           first == {i \in DOMAIN s : \A k \in bad : i < k}
           T == IF bad = {} THEN Ids(s) ELSE {s[i] : i \in first}
<1>1. T \subseteq Ids(s)
  BY DEF Ids
<1>2. CASE bad = {}
  <2>1. \A u \in T : th[u].life = "stopped"
    BY <1>2 DEF Ids
  <2>2. /\ thread' = Continued(th, T)
        /\ T = Ids(s) /\ trappedThreadIDs' = <<>> /\ waiting' = AnyThread /\ UNCHANGED event
    BY <1>2 DEF ContinueFrom
  <2> QED BY <1>1, <2>1, <2>2
<1>3. CASE bad # {}
  <2>1. \A i \in first : i \notin bad
    <3>1. \A i \in DOMAIN s : ~(i < i)
      OBVIOUS
    <3> QED BY <3>1
  <2>2. \A u \in T : th[u].life = "stopped"
    BY <1>3, <2>1
  <2>3. /\ thread' = Continued(th, T)
        /\ event' = Failed /\ waiting' = NotWaiting
    BY <1>3 DEF ContinueFrom, Return
  <2> QED BY <1>1, <2>2, <2>3
<1> QED BY <1>2, <1>3

\* Stopped threads run again: none that is behind a trap, and none just born whose
\* birth has not been handled.
LEMMA ContinuingOrders ==
  ASSUME Before, handling'.at = "waiting", waiting' = AnyThread, trappedThreadIDs' = <<>>,
         \A u \in Thread : ~InHand(u),
         NEW T \in SUBSET Thread,
         \A u \in T : /\ Is(u, "stopped") /\ ~thread[u].past
                      /\ thread'[u].life = "running" /\ thread'[u].status = "none" /\ ~thread'[u].past
                      /\ \A p \in Thread : thread[p].status = "clone" => thread[p].child # u,
         \A u \in Thread \ T : thread'[u] = thread[u]
  PROVE  Orders'
<1> USE DEF Before, Orders, Is
<1>1. \A u : ~Listed(u)'
  BY DEF Listed, Ids
<1>2. waiting'.for = "any" /\ waiting' # NotWaiting
  BY DEF AnyThread, NotWaiting
<1>3. AtFirst'  BY DEF AtFirst
<1>4. StatusFits'  BY DEF StatusFits
<1>5. ListFits'  BY <1>1 DEF ListFits, IsInjective
<1>6. PastWaits'  BY DEF PastWaits
<1>7. BirthsFit'
  <2>1. \A p \in Thread : thread'[p].status = "clone" => p \notin T /\ thread'[p] = thread[p]
    OBVIOUS
  <2>2. \A p \in Thread : thread[p].status = "clone" => thread[p].child \notin T
    OBVIOUS
  <2>3. \A c : Newborn(c) /\ c \notin T => Newborn(c)'
    BY DEF Newborn
  <2> QED BY <1>2, <2>1, <2>2, <2>3 DEF BirthsFit
<1>8. WaitFits'  BY <1>2 DEF WaitFits
<1> QED BY <1>3, <1>4, <1>5, <1>6, <1>7, <1>8

\* Threads that run again although not all of the list could be continued.
LEMMA FailingRunsNonePast ==
  ASSUME Before, \A u \in Thread : ~InHand(u),
         NEW T, \A u \in T \cap Thread : ~thread'[u].past,
         \A u \in Thread \ T : thread'[u].life = thread[u].life /\ thread'[u].past = thread[u].past
  PROVE  NonePastRuns'
BY DEF Before, Orders, PastWaits, NonePastRuns, Is

LEMMA WaitRecords ==
  /\ NotWaiting.for = "nothing" /\ AnyThread.for = "any"
  /\ \A t : One(t).for = "one" /\ One(t).thread = t
  /\ \A t, c : Child(t, c).for = "child" /\ Child(t, c).child = c
BY DEF NotWaiting, AnyThread, One, Child

LEMMA ResumeOrders ==
  ASSUME Before, Resume
  PROVE  (Going' => Orders') /\ (Over' => NonePastRuns')
<1> USE DEF Before
<1>1. handling.at = "resuming" /\ handling'.at = "waiting" /\ ContinueFrom(thread, trappedThreadIDs)
  BY DEF Resume, ContinueAndWait, Typed, Phase
<1>2. PICK T \in SUBSET Ids(trappedThreadIDs) :
        /\ \A u \in T : thread[u].life = "stopped"
        /\ thread' = Continued(thread, T)
        /\ \/ T = Ids(trappedThreadIDs) /\ trappedThreadIDs' = <<>> /\ waiting' = AnyThread /\ UNCHANGED event
           \/ event' = Failed /\ waiting' = NotWaiting
  BY <1>1, ContinueFromDoes DEF Typed
<1>3. \A u \in T : u \in Thread /\ Is(u, "stopped") /\ thread[u].status = "none"
  BY <1>2 DEF Typed, Threads, Orders, ListFits, Listed, Ids, Is
<1>4. \A u \in Thread : ~InHand(u)
  BY <1>1 DEF InHand
<1>5. \A u \in T : /\ thread'[u].life = "running" /\ thread'[u].status = "none"
                   /\ thread'[u].past = thread[u].past
  BY <1>2, <1>3, ContinuedThreads DEF Typed
<1>6. \A u \in Thread \ T : thread'[u] = thread[u]
  BY <1>2 DEF Continued
<1>7. \A u \in T : ~thread[u].past
  BY <1>3, <1>4 DEF Orders, PastWaits, Is
<1>8. CASE trappedThreadIDs' = <<>> /\ waiting' = AnyThread
  <2>1. \A p \in Thread : thread[p].status = "clone" => thread[p].child \notin T
    BY <1>3 DEF Orders, BirthsFit, Newborn, Is
  <2>2. Orders'
    BY <1>1, <1>3, <1>4, <1>5, <1>6, <1>7, <1>8, <2>1, ContinuingOrders
  <2> QED BY <1>8, <2>2, WaitRecords DEF Over
<1>9. CASE event' = Failed /\ waiting' = NotWaiting
  <2>1. NonePastRuns'
    BY <1>4, <1>5, <1>6, <1>7, FailingRunsNonePast
  <2> QED BY <1>1, <1>9, <2>1 DEF Going, Over
<1> QED BY <1>2, <1>8, <1>9

\* wait4 has returned: the main loop waits for any thread, or steps one and waits for it.
LEMMA WaitedFor ==
  ASSUME Before, NEW t \in Thread, Wait4(t)
  PROVE  /\ waiting # NotWaiting /\ waiting.for # "child"
         /\ \A u \in Thread : ~InHand(u)
         /\ \/ handling.at = "waiting" /\ waiting = AnyThread
            \/ handling.at = "stepping" /\ waiting = One(t) /\ t = handling.thread
<1> USE DEF Before
<1>1. waiting \in {AnyThread, One(t)}
  BY DEF Wait4
<1>2. waiting # NotWaiting /\ waiting.for # "child"
  BY <1>1, WaitRecords
<1>3. handling.at \in {"waiting", "stepping"}
  BY <1>2 DEF Orders, WaitFits, Going, Typed, Phase
<1>4. \A u \in Thread : ~InHand(u)
  BY <1>2, <1>3 DEF InHand
<1>5. CASE handling.at = "waiting"
  <2>1. waiting = AnyThread
    BY <1>2, <1>5 DEF Orders, WaitFits
  <2> QED BY <1>2, <1>4, <1>5, <2>1
<1>6. CASE handling.at = "stepping"
  <2>1. waiting = One(handling.thread)
    BY <1>2, <1>6 DEF Orders, WaitFits
  <2>2. waiting = One(t) /\ t = handling.thread
    BY <1>1, <2>1, WaitRecords
  <2> QED BY <1>2, <1>4, <1>6, <2>2
<1> QED BY <1>3, <1>5, <1>6

LEMMA WaitTrappedOrders ==
  ASSUME Before, ClientWaits, NEW t \in Thread, WaitTrapped(t)
  PROVE  Orders'
<1> USE DEF Before
<1>1. /\ UNCHANGED <<breakpoints, handling>> /\ waiting' = NotWaiting /\ event' = Trapped(t)
      /\ trappedThreadIDs' = Append(trappedThreadIDs, t)
      /\ thread[t].status = "trap" /\ Wait4(t)
  BY DEF ClientWaits, WaitTrapped, Return
<1>2. /\ thread'[t].status = "none" /\ thread'[t].life = thread[t].life /\ thread'[t].past = thread[t].past
      /\ \A u \in Thread \ {t} : thread'[u] = thread[u]
  BY DEF WaitTrapped, Waited, Typed, Threads, State, ThreadState
<1>3. Is(t, "stopped") /\ ~Listed(t)
  BY <1>1 DEF Orders, StatusFits, ListFits, Is
<1>4. /\ IsInjective(trappedThreadIDs) => IsInjective(trappedThreadIDs')
      /\ \A u : Listed(u)' <=> Listed(u) \/ u = t
  BY <1>1, <1>3, AppendLists DEF Typed, Listed
<1>5. \A u \in Thread : ~InHand(u)
  BY <1>1, WaitedFor
<1>6. handling.at = "waiting" \/ (handling.at = "stepping" /\ t = handling.thread)
  BY <1>1, WaitedFor
<1>7. Trapped(t).thread = t /\ waiting'.for = "nothing" /\ ~Newborn(t)
  BY <1>1, <1>3, WaitRecords DEF Trapped, Newborn, Is
<1> USE DEF Orders, Is
<1>8. AtFirst'  BY <1>1, <1>6 DEF AtFirst
<1>9. StatusFits'  BY <1>2, <1>3 DEF StatusFits
<1>10. ListFits'  BY <1>2, <1>3, <1>4 DEF ListFits
<1>11. PastWaits'
  <2>1. handling.at = "waiting" => InHand(t)'
    BY <1>1 DEF InHand
  <2>2. handling.at = "stepping" => ~thread[t].past
    BY <1>6 DEF WaitFits
  <2> QED BY <1>2, <1>3, <1>5, <1>6, <2>1, <2>2 DEF PastWaits
<1>12. BirthsFit'
  <2>1. \A u : Newborn(u) => Newborn(u)'
    BY <1>2, <1>7 DEF Newborn
  <2>2. \A u \in Thread : thread'[u].status = "clone" => thread'[u] = thread[u]
    BY <1>2
  <2> QED BY <1>7, <2>1, <2>2 DEF BirthsFit
<1>13. WaitFits'  BY <1>1, <1>2, <1>4, <1>6, <1>7 DEF WaitFits
<1> QED BY <1>8, <1>9, <1>10, <1>11, <1>12, <1>13

LEMMA WaitExitedOrders ==
  ASSUME Before, ClientWaits, NEW t \in Thread, WaitExited(t)
  PROVE  Orders'
<1> USE DEF Before
<1>1. /\ UNCHANGED <<breakpoints, handling, trappedThreadIDs>> /\ waiting' = NotWaiting /\ event' = Exited
      /\ thread[t].status = "exit" /\ Wait4(t)
  BY DEF ClientWaits, WaitExited, Return
<1>2. /\ thread'[t].status = "none" /\ thread'[t].life = thread[t].life /\ thread'[t].past = thread[t].past
      /\ \A u \in Thread \ {t} : thread'[u] = thread[u]
  BY DEF WaitExited, Waited, Typed, Threads, State, ThreadState
<1>3. Is(t, "dead")
  BY <1>1 DEF Orders, StatusFits
<1>4. \A u : Listed(u)' <=> Listed(u)
  BY <1>1 DEF Listed, Ids
<1>5. \A u \in Thread : ~InHand(u)
  BY <1>1, WaitedFor
<1>6. handling.at = "waiting" \/ (handling.at = "stepping" /\ t = handling.thread)
  BY <1>1, WaitedFor
<1>7. event'.type = "exited" /\ waiting'.for = "nothing"
  BY <1>1, WaitRecords DEF Exited
<1> USE DEF Orders, Is
<1>8. AtFirst'  BY <1>1, <1>6 DEF AtFirst
<1>9. StatusFits'  BY <1>2, <1>3 DEF StatusFits
<1>10. ListFits'  BY <1>1, <1>2, <1>3, <1>4 DEF ListFits
<1>11. PastWaits'  BY <1>2, <1>3, <1>5 DEF PastWaits
<1>12. BirthsFit'
  <2>1. \A u : Newborn(u) => Newborn(u)'
    BY <1>2, <1>3 DEF Newborn
  <2>2. \A u \in Thread : thread'[u].status = "clone" => thread'[u] = thread[u]
    BY <1>2
  <2> QED BY <1>7, <2>1, <2>2 DEF BirthsFit
<1>13. WaitFits'  BY <1>1, <1>2, <1>3, <1>4, <1>6, <1>7 DEF WaitFits
<1> QED BY <1>8, <1>9, <1>10, <1>11, <1>12, <1>13

LEMMA WaitClonedOrders ==
  ASSUME Before, ClientWaits, NEW t \in Thread, WaitCloned(t)
  PROVE  Orders'
<1> USE DEF Before
<1> DEFINE c == thread[t].child
<1>1. /\ UNCHANGED <<breakpoints, handling>> /\ waiting' = Child(t, c)
      /\ trappedThreadIDs' = Append(trappedThreadIDs, t)
      /\ thread[t].status = "clone" /\ Wait4(t)
  BY DEF ClientWaits, WaitCloned
<1>2. /\ thread'[t].status = "none" /\ thread'[t].life = thread[t].life /\ thread'[t].past = thread[t].past
      /\ \A u \in Thread \ {t} : thread'[u] = thread[u]
  BY DEF WaitCloned, Waited, Typed, Threads, State, ThreadState
<1>3. Is(t, "stopped") /\ ~Listed(t) /\ ~Newborn(t)
  BY <1>1 DEF Orders, StatusFits, ListFits, Newborn, Is
<1>4. /\ IsInjective(trappedThreadIDs) => IsInjective(trappedThreadIDs')
      /\ \A u : Listed(u)' <=> Listed(u) \/ u = t
  BY <1>1, <1>3, AppendLists DEF Typed, Listed
<1>5. \A u \in Thread : ~InHand(u)
  BY <1>1, WaitedFor
<1>6. handling.at = "waiting"
  BY <1>1, WaitedFor DEF Orders, WaitFits
<1>7. waiting'.for = "child" /\ waiting'.child = c /\ waiting' # NotWaiting
  BY <1>1, WaitRecords
<1> USE DEF Orders, Is
<1> HIDE DEF c
<1>8. AtFirst'  BY <1>1, <1>6 DEF AtFirst
<1>9. StatusFits'  BY <1>2, <1>3 DEF StatusFits
<1>10. ListFits'  BY <1>2, <1>3, <1>4 DEF ListFits
<1>11. PastWaits'
  <2>1. ~thread[t].past
    BY <1>1, <1>3, <1>5 DEF PastWaits
  <2> QED BY <1>2, <1>5, <2>1 DEF PastWaits
<1>12. BirthsFit'
  <2>1. \A u : Newborn(u) => Newborn(u)'
    BY <1>2, <1>3 DEF Newborn
  <2>2. \A u \in Thread : thread'[u].status = "clone" =>
           u # t /\ thread'[u] = thread[u] /\ thread[u].child # c
    BY <1>1, <1>2 DEF BirthsFit, c
  <2>3. Newborn(c)
    BY <1>1 DEF BirthsFit, c
  <2> QED BY <1>7, <2>1, <2>2, <2>3 DEF BirthsFit
<1>13. WaitFits'  BY <1>1, <1>6, <1>7 DEF WaitFits
<1> QED BY <1>8, <1>9, <1>10, <1>11, <1>12, <1>13

LEMMA WaitSignalledOrders ==
  ASSUME Before, ClientWaits, NEW t \in Thread, WaitSignalled(t)
  PROVE  (Going' => Orders') /\ (Over' => NonePastRuns')
<1> USE DEF Before
<1> DEFINE th == Waited(thread, t)
           s == Append(trappedThreadIDs, t)
<1>1. /\ UNCHANGED <<breakpoints, handling>> /\ Wait4(t) /\ Reported(t)
      /\ thread[t].status \in {"signal", "stop"} /\ ContinueFrom(th, s)
  BY DEF ClientWaits, WaitSignalled, Wait4
<1>2. /\ th[t].life = thread[t].life /\ th[t].past = thread[t].past /\ th \in Threads
      /\ \A u \in Thread \ {t} : th[u] = thread[u]
  BY ThreadTypes DEF Waited, Typed, Threads, State, ThreadState
<1>3. Is(t, "stopped") /\ thread[t].status = "stop"
  BY <1>1 DEF Orders, StatusFits, Is
<1>4. \A u \in Thread : ~InHand(u)
  BY <1>1, WaitedFor
<1>5. handling.at = "waiting"
  BY <1>1, <1>3, WaitedFor, WaitRecords DEF Orders, WaitFits
<1>6. \A p \in Thread : thread[p].status = "clone" => thread[p].child # t
  BY <1>1, <1>3 DEF Reported, Unsignalled
<1>7. s \in Seq(Thread) /\ Ids(s) = Ids(trappedThreadIDs) \cup {t} /\ Ids(s) \subseteq Thread
  <2>1. s \in Seq(Thread) /\ Ids(s) = Ids(trappedThreadIDs) \cup {t}
    BY AppendLists DEF Typed
  <2>2. Ids(trappedThreadIDs) \subseteq Thread
    BY DEF Typed, Ids
  <2> QED BY <2>1, <2>2
<1> HIDE DEF th, s
<1>8. PICK T \in SUBSET Ids(s) :
        /\ \A u \in T : th[u].life = "stopped"
        /\ thread' = Continued(th, T)
        /\ \/ T = Ids(s) /\ trappedThreadIDs' = <<>> /\ waiting' = AnyThread /\ UNCHANGED event
           \/ event' = Failed /\ waiting' = NotWaiting
  BY <1>1, <1>7, ContinueFromDoes
<1>9. \A u \in T : u \in Thread /\ Is(u, "stopped") /\ (u = t \/ thread[u].status = "none")
  BY <1>2, <1>3, <1>7, <1>8 DEF Orders, ListFits, Listed, Is
<1>10. \A u \in T : ~thread[u].past
  BY <1>3, <1>4, <1>9 DEF Orders, PastWaits, Is
<1>11. \A u \in T : /\ thread'[u].life = "running" /\ thread'[u].status = "none"
                    /\ thread'[u].past = th[u].past
  BY <1>2, <1>8, <1>9, ContinuedThreads
<1>12. \A u \in Thread \ T : thread'[u] = th[u]
  BY <1>2, <1>8, ContinuedThreads
<1>13. \A u \in T : ~thread'[u].past
  BY <1>2, <1>9, <1>10, <1>11
<1>14. CASE T = Ids(s) /\ trappedThreadIDs' = <<>> /\ waiting' = AnyThread
  <2>1. \A u \in Thread \ T : thread'[u] = thread[u]
    BY <1>2, <1>7, <1>12, <1>14
  <2>2. \A p \in Thread : thread[p].status = "clone" => thread[p].child \notin T
    BY <1>6, <1>9 DEF Orders, BirthsFit, Newborn, Is
  <2>3. T \subseteq Thread
    BY <1>9
  <2>4. Orders'
    BY <1>1, <1>4, <1>5, <1>9, <1>10, <1>11, <1>13, <1>14, <2>1, <2>2, <2>3, ContinuingOrders
  <2> QED BY <1>14, <2>4, WaitRecords DEF Over
<1>15. CASE event' = Failed /\ waiting' = NotWaiting
  <2>1. \A u \in Thread \ T : thread'[u].life = thread[u].life /\ thread'[u].past = thread[u].past
    BY <1>2, <1>12
  <2>2. NonePastRuns'
    BY <1>4, <1>13, <2>1, FailingRunsNonePast
  <2> QED BY <1>1, <1>5, <1>15, <2>2 DEF Going, Over
<1> QED BY <1>8, <1>14, <1>15

LEMMA WaitChildOrders ==
  ASSUME Before, ClientWaits, WaitChild
  PROVE  (Going' => Orders') /\ (Over' => NonePastRuns')
<1> USE DEF Before
<1> DEFINE c == waiting.child
           th == Continued(Waited(thread, c), {c})
<1>1. /\ UNCHANGED <<breakpoints, handling>> /\ waiting.for = "child" /\ thread[c].status # "none"
  BY DEF ClientWaits, WaitChild
<1>2. c \in Thread /\ waiting # NotWaiting /\ Newborn(c) /\ thread[c] \in State
  BY <1>1, WaitRecords DEF Typed, Threads, Waits, Orders, BirthsFit
<1>3. handling.at = "waiting"
  BY <1>1, <1>2, WaitRecords DEF Orders, WaitFits, Going, Typed, Phase
<1>4. \A u \in Thread : ~InHand(u)
  BY <1>2, <1>3 DEF InHand
<1>5. CASE ~Stopped(c)
  <2>1. thread' = Waited(thread, c) /\ event' = Failed /\ waiting' = NotWaiting
    BY <1>5 DEF WaitChild, Return
  <2>2. \A u \in Thread : thread'[u].life = thread[u].life /\ thread'[u].past = thread[u].past
    <3>1. /\ thread'[c].life = thread[c].life /\ thread'[c].past = thread[c].past
          /\ \A u \in Thread \ {c} : thread'[u] = thread[u]
      BY <1>2, <2>1 DEF Waited, Typed, Threads, State, ThreadState
    <3> HIDE DEF c
    <3> QED BY <3>1
  <2>3. NonePastRuns'
    BY <1>4, <2>2 DEF Orders, PastWaits, NonePastRuns, Is
  <2> QED BY <1>1, <1>3, <2>1, <2>3 DEF Going, Over
<1>6. CASE Stopped(c)
  <2>1. /\ th \in Threads /\ th[c].life = "running" /\ th[c].status = "none" /\ th[c].past = thread[c].past
        /\ \A u \in Thread \ {c} : th[u] = thread[u]
    <3> DEFINE w == Waited(thread, c)
    <3>1. w \in Threads
      BY <1>2, ThreadTypes DEF Typed
    <3>2. w[c].past = thread[c].past /\ \A u \in Thread \ {c} : w[u] = thread[u]
      BY <1>2 DEF Waited, Typed, Threads, State, ThreadState
    <3> HIDE DEF w
    <3> DEFINE C == {c}
    <3>3. c \in C /\ \A u \in Thread \ {c} : u \notin C
      OBVIOUS
    <3>4. th = Continued(w, C)
      BY DEF w
    <3> HIDE DEF th, C
    <3>5. th \in Threads
      BY <3>1, <3>4, ThreadTypes
    <3>6. th[c].life = "running" /\ th[c].status = "none" /\ th[c].past = w[c].past
      BY <1>2, <3>1, <3>3, <3>4, ContinuedThreads
    <3>7. \A u \in Thread \ {c} : th[u] = w[u]
      BY <3>1, <3>3, <3>4, ContinuedThreads
    <3> QED BY <3>2, <3>5, <3>6, <3>7
  <2>2. ContinueFrom(th, trappedThreadIDs)
    BY <1>6 DEF WaitChild
  <2> HIDE DEF th
  <2>3. PICK T \in SUBSET Ids(trappedThreadIDs) :
          /\ \A u \in T : th[u].life = "stopped"
          /\ thread' = Continued(th, T)
          /\ \/ T = Ids(trappedThreadIDs) /\ trappedThreadIDs' = <<>> /\ waiting' = AnyThread /\ UNCHANGED event
             \/ event' = Failed /\ waiting' = NotWaiting
    BY <2>2, ContinueFromDoes DEF Typed
  <2> DEFINE R == T \cup {c}
  <2>4. \A u \in T : u \in Thread /\ u # c /\ Is(u, "stopped") /\ thread[u].status = "none"
    BY <2>1, <2>3 DEF Typed, Orders, ListFits, Listed, Ids, Is
  <2>5. Is(c, "stopped") /\ thread[c].status = "stop"
    BY <1>2, <1>6 DEF Newborn, Stopped, Is
  <2>6. \A u \in R : u \in Thread /\ Is(u, "stopped") /\ ~thread[u].past
    BY <1>2, <1>4, <2>4, <2>5 DEF Orders, PastWaits, Is
  <2>7. \A u \in T : /\ thread'[u].life = "running" /\ thread'[u].status = "none"
                     /\ thread'[u].past = thread[u].past
    BY <2>1, <2>3, <2>4, ContinuedThreads
  <2>8. thread'[c] = th[c] /\ \A u \in Thread \ R : thread'[u] = thread[u]
    BY <1>2, <2>1, <2>3, <2>4 DEF Continued
  <2>9. \A u \in R : thread'[u].life = "running" /\ thread'[u].status = "none" /\ ~thread'[u].past
    BY <2>1, <2>6, <2>7, <2>8
  <2>10. R \subseteq Thread
    BY <2>6
  <2>11. CASE trappedThreadIDs' = <<>> /\ waiting' = AnyThread
    <3>1. \A p \in Thread : thread[p].status = "clone" => thread[p].child \notin R
      BY <1>1, <2>4 DEF Orders, BirthsFit, Newborn, Is
    <3> HIDE DEF R
    <3>2. Orders'
      BY <1>1, <1>3, <1>4, <2>6, <2>8, <2>9, <2>10, <2>11, <3>1, ContinuingOrders
    <3> QED BY <2>11, <3>2, WaitRecords DEF Over
  <2>12. CASE event' = Failed /\ waiting' = NotWaiting
    <3> HIDE DEF R
    <3>1. NonePastRuns'
      BY <1>4, <2>8, <2>9, FailingRunsNonePast
    <3> QED BY <1>1, <1>3, <2>12, <3>1 DEF Going, Over
  <2> QED BY <2>3, <2>11, <2>12
<1> QED BY <1>5, <1>6

LEMMA SingleStepOrders ==
  ASSUME Before, NEW a \in Addr, NEW t \in Thread, SingleStep(t, a)
  PROVE  Going' => Orders'
<1> USE DEF Before
<1>1. handling.at \in {"resuming", "trapped"} /\ t = handling.thread /\ a = thread[t].pc /\ a \notin CloneAddr
  BY DEF SingleStep, Handles
<1>2. CASE ~Going'
  BY <1>2
<1>3. CASE Going'
  <2>1. /\ Stopped(t) /\ StepAndWait([thread EXCEPT ![t].past = FALSE], t)
        /\ handling' = Handling("stepping", t, a) /\ UNCHANGED breakpoints
    BY <1>3 DEF SingleStep, GoTo, Going, Typed
  <2>2. handling'.at = "stepping" /\ handling'.thread = t /\ handling'.addr = a
    BY <2>1 DEF Handling
  <2>3. trappedThreadIDs' = RemoveFirst(trappedThreadIDs, t) /\ waiting' = One(t) /\ UNCHANGED event
    BY <2>1 DEF StepAndWait
  <2>4. thread' = [thread EXCEPT ![t] = [@ EXCEPT !.past = FALSE, !.life = "stepping", !.status = "none"]]
    BY <2>1 DEF StepAndWait, Typed, Threads, State, ThreadState
  <2>5. /\ thread'[t].life = "stepping" /\ thread'[t].status = "none" /\ ~thread'[t].past
        /\ thread'[t].pc = a
        /\ \A u \in Thread \ {t} : thread'[u] = thread[u]
    BY <1>1, <2>4 DEF Typed, Threads, State, ThreadState
  <2>6. t # NoThread /\ waiting = NotWaiting
    BY <1>1, PtraceAssumption DEF Orders, WaitFits
  <2>7. Is(t, "stopped") /\ thread[t].status = "none"
    BY <1>1, <2>1, <2>6 DEF Orders, WaitFits, ListFits, Stopped, Is
  <2>8. /\ IsInjective(trappedThreadIDs') /\ ~Listed(t)'
        /\ \A u : Listed(u)' => Listed(u)
    BY <2>3, RemoveLists DEF Typed, Orders, ListFits, Listed
  <2>9. \A u \in Thread : InHand(u) => u = t
    BY <1>1 DEF InHand
  <2>10. waiting'.for = "one" /\ waiting'.thread = t /\ waiting' # NotWaiting
    BY <2>3, WaitRecords
  <2> USE DEF Orders, Is
  <2>11. AtFirst'  BY <2>2 DEF AtFirst
  <2>12. StatusFits'  BY <2>5 DEF StatusFits
  <2>13. ListFits'  BY <2>5, <2>8 DEF ListFits
  <2>14. PastWaits'  BY <2>5, <2>9 DEF PastWaits
  <2>15. BirthsFit'
    <3>1. \A u : Newborn(u) => Newborn(u)'
      BY <2>5, <2>7 DEF Newborn
    <3>2. \A u \in Thread : thread'[u].status = "clone" => thread'[u] = thread[u]
      BY <2>5
    <3> QED BY <2>10, <3>1, <3>2 DEF BirthsFit
  <2>16. WaitFits'  BY <1>1, <2>2, <2>3, <2>5, <2>10 DEF WaitFits
  <2> QED BY <2>11, <2>12, <2>13, <2>14, <2>15, <2>16
<1> QED BY <1>2, <1>3

LEMMA ClientOrders ==
  ASSUME Before, ClientWaits
  PROVE  (Going' => Orders') /\ (Over' => NonePastRuns')
<1>1. ASSUME NEW t \in Thread, WaitTrapped(t)  PROVE Orders' /\ ~Over'
  <2>1. event' = Trapped(t)
    BY <1>1 DEF WaitTrapped, Return
  <2> QED BY <1>1, <2>1, WaitTrappedOrders DEF Over, Trapped, Failed
<1>2. ASSUME NEW t \in Thread, WaitExited(t)  PROVE Orders' /\ ~Over'
  <2>1. event' = Exited
    BY <1>2 DEF WaitExited, Return
  <2> QED BY <1>2, <2>1, WaitExitedOrders DEF Over, Exited, Failed
<1>3. ASSUME NEW t \in Thread, WaitCloned(t)  PROVE Orders' /\ ~Over'
  <2>1. waiting' # NotWaiting
    BY <1>3, WaitRecords DEF WaitCloned
  <2> QED BY <1>3, <2>1, WaitClonedOrders DEF Over
<1> QED BY <1>1, <1>2, <1>3, WaitSignalledOrders, WaitChildOrders DEF ClientWaits, Wait

\* Attaching stops threads that nothing has happened to.
LEMMA StoppingOrders ==
  ASSUME Before, handling.at = "attaching", UNCHANGED <<waiting, event, breakpoints, handling>>,
         NEW T \in SUBSET Thread,
         \A u \in T : /\ thread[u].status = "none"
                      /\ thread'[u].life = "stopped" /\ thread'[u].status = "none" /\ ~thread'[u].past,
         \A u \in Thread \ T : thread'[u] = thread[u],
         IsInjective(trappedThreadIDs'),
         \A u \in Thread : Listed(u)' =>
           Is(u, "dead") \/ u \in T \/ (Is(u, "stopped") /\ thread[u].status = "none")
  PROVE  Orders'
<1> USE DEF Before, Orders, Is
<1>1. waiting.for = "nothing" /\ \A u \in Thread : ~Is(u, "dead") \/ u \notin T \/ thread'[u].life = "stopped"
  BY WaitRecords DEF WaitFits
<1>2. AtFirst'  BY DEF AtFirst
<1>3. StatusFits'  BY DEF StatusFits
<1>4. ListFits'
  <2>1. \A u \in Thread : u \in T \/ u \notin T
    OBVIOUS
  <2> QED BY <2>1 DEF ListFits
<1>5. PastWaits'  BY DEF PastWaits, AtFirst
<1>6. BirthsFit'
  <2>1. \A u \in Thread : thread'[u].status # "clone"
    BY DEF AtFirst
  <2> QED BY <1>1, <2>1 DEF BirthsFit
<1>7. WaitFits'  BY DEF WaitFits, AtFirst
<1> QED BY <1>2, <1>3, <1>4, <1>5, <1>6, <1>7

LEMMA AttachOrders ==
  ASSUME Before, Attach
  PROVE  Orders'
<1> USE DEF Before
<1>1. handling.at = "attaching" /\ trappedThreadIDs = <<>> /\ UNCHANGED <<breakpoints, handling>>
  BY DEF Attach
<1>2. \A u \in Thread : thread[u] \in State
  BY DEF Typed, Threads
<1>3. \A r \in State : LET q == [r EXCEPT !.life = "stopped", !.traced = TRUE]
                      IN  q.life = "stopped" /\ q.traced /\ q.status = r.status /\ q.past = r.past
  BY DEF State, ThreadState
<1>4. \A u \in Thread : ~thread[u].past /\ (~Is(u, "dead") => thread[u].status = "none")
  BY <1>1 DEF Orders, AtFirst, StatusFits
<1>5. ASSUME NEW t \in Thread, ~Is(t, "dead"), UNCHANGED <<waiting, event>>,
             thread' = [thread EXCEPT ![t].life = "stopped", ![t].traced = TRUE],
             IsInjective(trappedThreadIDs'),
             \A u \in Thread : Listed(u)' => u = t \/ thread[u].traced
      PROVE  Orders'
  <2>1. thread'[t] = [thread[t] EXCEPT !.life = "stopped", !.traced = TRUE]
    BY <1>5 DEF Typed, Threads, State, ThreadState
  <2> DEFINE T == {t}
  <2>2. \A u \in Thread \ T : thread'[u] = thread[u]
    BY <1>5 DEF Typed, Threads
  <2>3. \A u \in T : /\ thread[u].status = "none"
                     /\ thread'[u].life = "stopped" /\ thread'[u].status = "none" /\ ~thread'[u].past
    <3>1. thread'[t].life = "stopped" /\ thread'[t].status = thread[t].status /\ thread'[t].past = thread[t].past
      BY <1>2, <1>3, <2>1
    <3> QED BY <1>4, <1>5, <3>1
  <2>4. \A u \in Thread : Listed(u)' =>
          Is(u, "dead") \/ u \in T \/ (Is(u, "stopped") /\ thread[u].status = "none")
    BY <1>1, <1>4, <1>5 DEF Orders, AtFirst, Is
  <2>5. T \in SUBSET Thread
    OBVIOUS
  <2> HIDE DEF T
  <2> QED BY <1>1, <1>5, <2>2, <2>3, <2>4, <2>5, StoppingOrders
<1>6. CASE LaunchProcess
  <2>1. /\ ~Is(Leader, "dead") /\ Leader \in Thread /\ trappedThreadIDs' = <<Leader>>
        /\ UNCHANGED <<waiting, event>>
        /\ thread' = [thread EXCEPT ![Leader].life = "stopped", ![Leader].traced = TRUE]
    BY <1>6, PtraceAssumption DEF LaunchProcess, Is
  <2>2. IsInjective(trappedThreadIDs')
    BY <2>1 DEF IsInjective
  <2>3. \A u \in Thread : Listed(u)' => u = Leader
    BY <2>1 DEF Listed, Ids
  <2> QED BY <1>5, <2>1, <2>2, <2>3
<1>7. CASE ListMembers
  <2>1. UNCHANGED <<thread, trappedThreadIDs, waiting, event, breakpoints, handling>>
    BY <1>1, <1>7 DEF ListMembers, kernel
  <2> QED BY <2>1 DEF Orders, AtFirst, StatusFits, ListFits, PastWaits, BirthsFit, WaitFits,
                      InHand, Listed, Newborn, Is
<1>8. ASSUME NEW t \in Thread, AttachToMember(t)  PROVE Orders'
  <2>1. /\ ~Is(t, "dead") /\ UNCHANGED <<waiting, event>>
        /\ thread' = [thread EXCEPT ![t].life = "stopped", ![t].traced = TRUE]
    BY <1>8 DEF AttachToMember, Alive, Is
  <2> DEFINE S == {u \in Thread : thread'[u].traced}
  <2>2. CASE trappedThreadIDs' = SetToSeq(S)
    <3>1. IsInjective(trappedThreadIDs') /\ \A u \in Thread : Listed(u)' => u \in S
      BY <2>2, SetToSeqLists DEF Listed
    <3>2. \A u \in S : u = t \/ thread[u].traced
      BY <2>1 DEF Typed, Threads
    <3> QED BY <1>5, <2>1, <3>1, <3>2
  <2>3. CASE UNCHANGED trappedThreadIDs
    <3>1. IsInjective(trappedThreadIDs') /\ \A u : ~Listed(u)'
      BY <1>1, <2>3 DEF IsInjective, Listed, Ids
    <3> QED BY <1>5, <2>1, <3>1
  <2> QED BY <1>8, <2>2, <2>3 DEF AttachToMember
<1> QED BY <1>6, <1>7, <1>8 DEF Attach

\* The threads and the client's lists are what they were, and so is the thread
\* that is dealt with.
LEMMA TurnOrders ==
  ASSUME Before, UNCHANGED <<thread, client>>,
         handling'.at \notin {"attaching", "stepping"},
         \A u \in Thread : InHand(u) => InHand(u)',
         WaitFits'
  PROVE  Orders'
<1> USE DEF Before, Orders, Is
<1>1. UNCHANGED <<trappedThreadIDs, waiting, event>>
  BY DEF client
<1>2. \A u : (Listed(u)' <=> Listed(u)) /\ (Newborn(u)' <=> Newborn(u))
  BY <1>1 DEF Listed, Ids, Newborn
<1>3. AtFirst'  BY DEF AtFirst
<1>4. StatusFits'  BY DEF StatusFits
<1>5. ListFits'  BY <1>1, <1>2 DEF ListFits
<1>6. PastWaits'  BY DEF PastWaits
<1>7. BirthsFit'  BY <1>1, <1>2 DEF BirthsFit
<1> QED BY <1>3, <1>4, <1>5, <1>6, <1>7

LEMMA BreakpointOrders ==
  ASSUME Before, NEW a \in Addr, SetBreakpoint(a) \/ ClearBreakpoint(a)
  PROVE  Going' => Orders'
<1> USE DEF Before
<1>1. handling.at \in {"resuming", "trapped"} /\ UNCHANGED <<thread, client>>
  BY DEF SetBreakpoint, ClearBreakpoint, Handles
<1>2. CASE ~Going'
  BY <1>2
<1>3. CASE UNCHANGED handling
  <2>1. \A u \in Thread : InHand(u) => InHand(u)'
    BY <1>1, <1>3 DEF InHand
  <2>2. \A u : (Listed(u)' <=> Listed(u)) /\ (Is(u, "dead")' <=> Is(u, "dead"))
    BY <1>1 DEF client, Listed, Ids, Is
  <2>3. WaitFits'
    BY <1>1, <1>3, <2>2 DEF client, Orders, WaitFits
  <2> QED BY <1>1, <1>3, <2>1, <2>3, TurnOrders
<1> QED BY <1>2, <1>3 DEF SetBreakpoint, ClearBreakpoint, GoTo, Going, Typed

LEMMA NewProcessOrders ==
  ASSUME Before, NewProcess
  PROVE  Orders'
<1> USE DEF Before
<1>1. /\ handling.at = "attaching" /\ handling'.at = "resuming" /\ handling'.thread = handling.thread
      /\ UNCHANGED <<thread, client>>
  BY DEF NewProcess, GoTo, Typed, kernel
<1>2. \A u \in Thread : ~InHand(u)
  BY <1>1 DEF InHand
<1>3. WaitFits'
  BY <1>1 DEF client, Orders, AtFirst, WaitFits
<1> QED BY <1>1, <1>2, <1>3, TurnOrders

LEMMA SingleStepReturnsOrders ==
  ASSUME Before, SingleStepReturns
  PROVE  Going' => Orders'
<1> USE DEF Before
<1>1. CASE ~Going'
  BY <1>1
<1>2. CASE Going'
  <2>1. /\ handling.at = "stepping" /\ handling'.at = "resuming" /\ handling'.thread = handling.thread
        /\ waiting = NotWaiting /\ UNCHANGED <<thread, client>>
    BY <1>2 DEF SingleStepReturns, GoTo, Going, Typed
  <2>2. \A u \in Thread : ~InHand(u)
    BY <2>1 DEF InHand
  <2>3. \A u : (Listed(u)' <=> Listed(u)) /\ (Is(u, "dead")' <=> Is(u, "dead"))
    BY <2>1 DEF client, Listed, Ids, Is
  <2>4. WaitFits'
    BY <2>1, <2>3 DEF client, Orders, WaitFits
  <2> QED BY <2>1, <2>2, <2>4, TurnOrders
<1> QED BY <1>1, <1>2

LEMMA ReturnsOrders ==
  ASSUME Before, Returns
  PROVE  Going' => Orders'
<1> USE DEF Before
<1>1. CASE event.type # "trapped"
  BY <1>1 DEF Returns, Going, Typed
<1>2. CASE event.type = "trapped"
  <2>1. /\ handling.at = "waiting" /\ waiting = NotWaiting
        /\ handling'.at = "trapped" /\ handling'.thread = event.thread /\ UNCHANGED <<thread, client>>
    BY <1>2 DEF Returns, Handling, kernel
  <2>2. \A u \in Thread : InHand(u) => InHand(u)'
    BY <2>1 DEF InHand, Trapped
  <2>3. \A u : (Listed(u)' <=> Listed(u)) /\ (Is(u, "dead")' <=> Is(u, "dead"))
    BY <2>1 DEF client, Listed, Ids, Is
  <2>4. WaitFits'
    BY <1>2, <2>1, <2>3 DEF client, Orders, WaitFits
  <2> QED BY <2>1, <2>2, <2>4, TurnOrders
<1> QED BY <1>1, <1>2

\* What the tracee does by itself never makes a thread behind a trap run.
LEMMA KernelKeepsPast ==
  ASSUME Typed, NonePastRuns, KernelNext
  PROVE  NonePastRuns'
<1>1. \A t \in Thread : thread[t] \in State
  BY DEF Typed, Threads
<1>2. ASSUME NEW t \in Thread, HitTrap(t) \/ Signal(t) \/ ThreadExits(t)  PROVE NonePastRuns'
  <2>1. PICK r \in {thread[t], [Stop(thread[t], "trap") EXCEPT !.past = TRUE],
                    Stop(thread[t], "signal"), Dead(thread[t])} : thread' = [thread EXCEPT ![t] = r]
    BY <1>1, <1>2 DEF HitTrap, Signal, ThreadExits, Typed, Threads
  <2>2. r = thread[t] \/ r.life \in {"stopped", "dead"}
    BY <1>1, <2>1 DEF Stop, Dead, State, ThreadState
  <2> QED BY <2>1, <2>2 DEF NonePastRuns, Typed, Threads
<1>3. ASSUME NEW t \in Thread, Execute(t)  PROVE NonePastRuns'
  <2>1. PICK a \in Successors[thread[t].pc] :
          LET r == [thread[t] EXCEPT !.pc = a]
          IN  thread' = [thread EXCEPT ![t] = IF r.life = "stepping" THEN Stop(r, "trap") ELSE r]
    BY <1>3 DEF Execute
  <2> DEFINE r == [thread[t] EXCEPT !.pc = a]
             q == IF r.life = "stepping" THEN Stop(r, "trap") ELSE r
  <2>2. ~q.past
    BY <1>1, <1>3 DEF Execute, Executes, Stop, State, ThreadState
  <2> HIDE DEF q
  <2>3. thread' = [thread EXCEPT ![t] = q]
    BY <2>1 DEF q
  <2> QED BY <2>2, <2>3 DEF NonePastRuns, Typed, Threads
<1>4. ASSUME NEW t \in Thread, Clone(t)  PROVE NonePastRuns'
  <2>1. PICK c \in scenario.threads, a \in Successors[thread[t].pc] :
          LET r == [thread[t] EXCEPT !.pc = a]
              u == [r EXCEPT !.life = "running"]
          IN  thread' = IF r.traced
                THEN [thread EXCEPT ![t] = [Stop(r, "clone") EXCEPT !.child = c], ![c] = Stop(u, "stop")]
                ELSE [thread EXCEPT ![t] = r, ![c] = u]
    BY <1>4 DEF Clone
  <2> DEFINE r == [thread[t] EXCEPT !.pc = a]
             u == [r EXCEPT !.life = "running"]
             p == [Stop(r, "clone") EXCEPT !.child = c]
             q == Stop(u, "stop")
  <2>2. ~r.past /\ ~u.past /\ ~p.past /\ ~q.past
    BY <1>1, <1>4 DEF Clone, Executes, Stop, State, ThreadState
  <2>3. \E x \in {p, r}, y \in {q, u} : thread' = [thread EXCEPT ![t] = x, ![c] = y]
    BY <2>1
  <2> HIDE DEF r, u, p, q
  <2> QED BY <2>2, <2>3 DEF NonePastRuns, Typed, Threads
<1>5. CASE ProcessExits
  <2>1. \A r \in State : Dead(r).life = "dead"
    BY DEF Dead, State, ThreadState
  <2> QED BY <1>1, <1>5, <2>1 DEF ProcessExits, NonePastRuns
<1> QED BY <1>2, <1>3, <1>4, <1>5 DEF KernelNext

\* No thread behind a trap runs while MainLoop does; Orders is why, as long as no
\* call has failed half way.
Orderly == Unsignalled => (Tracing => NonePastRuns) /\ (Going => Orders)

LEMMA OrderlyStays ==
  ASSUME Typed, TextFollows, Orderly, [ProcessNext]_processVars
  PROVE  Orderly'
<1>1. CASE UNCHANGED processVars
  BY <1>1 DEF processVars, kernel, client, Orderly, Unsignalled, Tracing, NonePastRuns, Going, Over, Orders,
              AtFirst, StatusFits, ListFits, PastWaits, BirthsFit, WaitFits, InHand, Listed, Newborn, Is
<1>2. CASE ProcessStep /\ UNCHANGED scenario /\ Unsignalled
  <2>1. CASE Going
    <3>1. Before
      BY <1>2, <2>1 DEF Orderly, Before
    <3>2. ~Over
      BY <2>1 DEF Going
    <3> SUFFICES (Going' => Orders') /\ (Over' => NonePastRuns')
      <4>1. Orders' => NonePastRuns'
        BY DEF Orders, PastWaits, NonePastRuns, Is
      <4>2. Tracing' => Going' \/ Over'
        BY DEF Tracing, Going
      <4> QED BY <4>1, <4>2 DEF Orderly
    <3>3. CASE ClientWaits
      <4>1. (Going' => Orders') /\ (Over' => NonePastRuns')
        BY <3>1, <3>3, ClientOrders
      <4> QED BY <4>1
    <3>4. CASE TraceeMoves
      <4>1. ~Over'
        BY <3>2, <3>4 DEF TraceeMoves, client, Over
      <4> QED BY <3>1, <3>4, <4>1, KernelOrders
    <3>5. CASE Resume
      BY <3>1, <3>5, ResumeOrders
    <3>6. CASE Attach
      <4>1. handling'.at = "attaching"
        BY <3>6 DEF Attach
      <4> QED BY <3>1, <3>6, <4>1, AttachOrders DEF Over
    <3>7. CASE FailToAttach \/ NewProcessFails \/ Interrupted \/ Detach
      BY <3>7 DEF FailToAttach, NewProcessFails, Interrupted, Detach, GoTo, Going, Over, Typed
    <3>8. CASE NewProcess
      <4>1. handling'.at = "resuming"
        BY <3>8 DEF NewProcess, GoTo, Typed
      <4> QED BY <3>1, <3>8, <4>1, NewProcessOrders DEF Over
    <3>9. CASE Returns
      <4>1. handling'.at # "waiting"
        BY <3>9 DEF Returns, Handling, Typed
      <4> QED BY <3>1, <3>9, <4>1, ReturnsOrders DEF Over
    <3>10. CASE SingleStepReturns
      <4>1. handling'.at # "waiting"
        BY <3>10 DEF SingleStepReturns, GoTo, Typed
      <4> QED BY <3>1, <3>10, <4>1, SingleStepReturnsOrders DEF Over
    <3>11. ASSUME NEW a \in Addr, SetBreakpoint(a) \/ ClearBreakpoint(a)
           PROVE  (Going' => Orders') /\ (Over' => NonePastRuns')
      <4>1. handling'.at # "waiting"
        BY <3>11 DEF SetBreakpoint, ClearBreakpoint, Handles, GoTo, Typed
      <4> QED BY <3>1, <3>11, <4>1, BreakpointOrders DEF Over
    <3>12. ASSUME NEW a \in Addr, NEW t \in Thread, SingleStep(t, a)
           PROVE  (Going' => Orders') /\ (Over' => NonePastRuns')
      <4>1. handling'.at # "waiting"
        BY <3>12 DEF SingleStep, Handling, GoTo, Typed
      <4> QED BY <3>1, <3>12, <4>1, SingleStepOrders DEF Over
    <3> QED
      BY <1>2, <3>3, <3>4, <3>5, <3>6, <3>7, <3>8, <3>9, <3>10, <3>11, <3>12 DEF ProcessStep
  <2>2. CASE Over
    <3>1. NonePastRuns /\ handling.at = "waiting" /\ waiting = NotWaiting /\ event.type = "error"
      BY <1>2, <2>2 DEF Orderly, Tracing, Over, Failed
    <3>2. CASE TraceeMoves
      <4>1. NonePastRuns' /\ UNCHANGED <<client, handling>>
        BY <3>1, <3>2, KernelKeepsPast DEF TraceeMoves
      <4> QED BY <2>2, <4>1 DEF Orderly, Going, Over, client
    <3>3. CASE Returns
      <4>1. handling'.at = "ending"
        BY <3>1, <3>3 DEF Returns, Typed
      <4> QED BY <4>1 DEF Orderly, Tracing, Going
    <3>4. ~ClientWaits
      BY <3>1, WaitRecords DEF ClientWaits, Wait, WaitTrapped, WaitSignalled, WaitExited, WaitCloned,
                               WaitChild, Wait4
    <3> QED BY <1>2, <3>1, <3>2, <3>3, <3>4
            DEF ProcessStep, Attach, FailToAttach, NewProcess, NewProcessFails, Resume, SingleStepReturns,
                Interrupted, Detach, SetBreakpoint, ClearBreakpoint, SingleStep, Handles
  <2>3. CASE handling.at \in {"failed", "ending", "detached"}
    <3>1. handling'.at \in {"failed", "ending", "detached"}
      BY <1>2, <2>3 DEF ProcessStep, Attach, FailToAttach, NewProcess, NewProcessFails, Resume, Returns,
                        SingleStepReturns, Interrupted, Detach, SetBreakpoint, ClearBreakpoint, SingleStep,
                        Handles, ClientWaits, TraceeMoves, GoTo, Typed
    <3> QED BY <3>1 DEF Orderly, Tracing, Going
  <2> QED BY <2>1, <2>2, <2>3 DEF Going
<1>3. CASE UNCHANGED scenario /\ ~Unsignalled
  BY <1>3 DEF Orderly, Unsignalled
<1> QED BY <1>1, <1>2, <1>3 DEF ProcessNext

LEMMA OrderlyAtFirst ==
  ASSUME ProcessInit
  PROVE  Orderly
<1>1. /\ handling.at = "attaching" /\ handling.thread = NoThread
      /\ breakpoints = {} /\ trappedThreadIDs = <<>> /\ waiting = NotWaiting
  BY DEF ProcessInit, ClientInit, Handling
<1>2. \A t \in Thread : /\ ~thread[t].past /\ thread[t].status = "none" /\ ~thread[t].traced
                        /\ thread[t].life \in {"unborn", "running"}
  BY DEF ProcessInit, KernelInit, Unborn
<1>3. \A t : ~Listed(t)
  BY <1>1 DEF Listed, Ids
<1> USE DEF Is
<1>4. AtFirst /\ StatusFits /\ PastWaits  BY <1>1, <1>2 DEF AtFirst, StatusFits, PastWaits
<1>5. ListFits  BY <1>1, <1>3 DEF ListFits, IsInjective
<1>6. BirthsFit /\ WaitFits  BY <1>1, <1>2, WaitRecords DEF BirthsFit, WaitFits
<1> QED BY <1>1, <1>4, <1>5, <1>6 DEF Orderly, Orders, Tracing

\* A thread that has hit a trap is put back to the instruction's beginning before it
\* runs again (SingleStep's setPC), whatever the threads do in which order and
\* whichever breakpoints are set and cleared meanwhile.
THEOREM NeverInsideInstructionCorrect == ProcessSpec => []NeverInsideInstruction
<1>1. ProcessInit => Typed /\ TextFollows /\ Orderly
  BY OrderlyAtFirst, TypedAtFirst
<1>2. Orderly => NeverInsideInstruction
  BY DEF Orderly, NonePastRuns, NeverInsideInstruction
<1> QED BY <1>1, <1>2, TextFollowsStays, TypedStays, OrderlyStays, PTL DEF ProcessSpec

-----------------------------------------------------------------------------
(* A launched process has no untraced thread.                              *)

\* All threads descend from the one that was launched.
AllUnderTrace ==
  scenario.started = {} =>
    /\ ~killed
    /\ \A t \in Thread : Alive(t) => thread[t].traced
    /\ (\E t \in Thread : Alive(t)) => killOnDetach

LEMMA AllUnderTraceStays ==
  ASSUME Typed, AllUnderTrace, [ProcessNext]_processVars
  PROVE  AllUnderTrace'
<1>1. \A t \in Thread : thread[t] \in State
  BY DEF Typed, Threads
<1>2. UNCHANGED scenario
  BY DEF ProcessNext, processVars
<1>3. ASSUME killed' = killed,
             killOnDetach => killOnDetach',
             \A t \in Thread : Alive(t)' => Alive(t) /\ thread'[t].traced = thread[t].traced
      PROVE  AllUnderTrace'
  BY <1>2, <1>3 DEF AllUnderTrace
<1>4. ASSUME NEW th \in Threads, NEW s \in Seq(Thread), ContinueFrom(th, s),
             \A t \in Thread : th[t].life \in {"running", "stepping", "stopped"} =>
                                Alive(t) /\ th[t].traced = thread[t].traced
      PROVE  \A t \in Thread : Alive(t)' => Alive(t) /\ thread'[t].traced = thread[t].traced
  <2>1. PICK T \in SUBSET Ids(s) : (\A u \in T : th[u].life = "stopped") /\ thread' = Continued(th, T)
    BY <1>4, ContinueFromDoes
  <2>2. ASSUME NEW t \in Thread
        PROVE  thread'[t].traced = th[t].traced /\ (t \notin T => thread'[t] = th[t])
    <3>1. \A r \in State : [r EXCEPT !.life = "running", !.status = "none"].traced = r.traced
      BY DEF State, ThreadState
    <3> QED BY <2>1, <3>1 DEF Continued, Threads
  <2>3. ASSUME NEW t \in Thread, Alive(t)'
        PROVE  th[t].life \in {"running", "stepping", "stopped"}
    BY <2>1, <2>2, <2>3 DEF Alive
  <2> QED BY <1>4, <2>2, <2>3
<1>5. \A t \in Thread : LET w == Waited(thread, t)
                        IN  /\ w \in Threads
                            /\ \A u \in Thread : w[u].life = thread[u].life /\ w[u].traced = thread[u].traced
  <2>1. \A r \in State : LET q == [r EXCEPT !.status = "none"] IN q.life = r.life /\ q.traced = r.traced
    BY DEF State, ThreadState
  <2>2. \A t \in Thread, u \in Thread :
          Waited(thread, t)[u] = IF u = t THEN [thread[u] EXCEPT !.status = "none"] ELSE thread[u]
    BY DEF Waited, Typed, Threads
  <2> QED BY <1>1, <2>1, <2>2, ThreadTypes DEF Typed
<1>6. CASE UNCHANGED processVars
  BY <1>3, <1>6 DEF processVars, kernel, client, Alive
<1>7. CASE TraceeMoves
  <2>1. UNCHANGED client
    BY <1>7 DEF TraceeMoves
  <2>2. ASSUME NEW t \in Thread, HitTrap(t)  PROVE AllUnderTrace'
    <3> DEFINE r == [Stop(thread[t], "trap") EXCEPT !.past = TRUE]
    <3>1. r.life = "stopped" /\ r.traced = thread[t].traced
      BY <1>1 DEF Stop, State, ThreadState
    <3>2. Alive(t)
      BY <2>2 DEF HitTrap, Executes, Alive
    <3>3. CASE thread[t].traced
      <4>1. thread' = [thread EXCEPT ![t] = r] /\ killed' = killed
        BY <2>2, <3>3 DEF HitTrap, Typed, Threads
      <4> QED BY <1>3, <2>1, <3>1, <3>2, <4>1 DEF client, Alive, Typed, Threads
    <3>4. CASE ~thread[t].traced
      BY <1>2, <3>2, <3>4 DEF AllUnderTrace
    <3> QED BY <3>3, <3>4
  <2>3. ASSUME NEW t \in Thread, Execute(t) \/ Signal(t) \/ ThreadExits(t)  PROVE AllUnderTrace'
    <3>1. PICK r \in State : /\ thread' = [thread EXCEPT ![t] = r] /\ killed' = killed /\ Alive(t)
                             /\ r.traced = thread[t].traced
      <4>1. CASE Execute(t)
        <5>1. PICK a \in Addr :
                LET r == [thread[t] EXCEPT !.pc = a]
                IN  thread' = [thread EXCEPT ![t] = IF r.life = "stepping" THEN Stop(r, "trap") ELSE r]
          BY <1>1, <4>1, PtraceAssumption DEF Execute, State, ThreadState
        <5> DEFINE r == [thread[t] EXCEPT !.pc = a]
        <5>2. r \in State /\ Stop(r, "trap") \in State
          BY <1>1, StateTypes DEF Status
        <5>3. r.traced = thread[t].traced /\ Stop(r, "trap").traced = thread[t].traced
          BY <1>1 DEF Stop, State, ThreadState
        <5>4. killed' = killed /\ Alive(t)
          BY <4>1 DEF Execute, Executes, Alive
        <5> QED BY <5>1, <5>2, <5>3, <5>4
      <4>2. CASE Signal(t) \/ ThreadExits(t)
        <5>1. PICK r \in {Stop(thread[t], "signal"), Dead(thread[t])} : thread' = [thread EXCEPT ![t] = r]
          BY <1>1, <4>2 DEF Signal, ThreadExits, Typed, Threads
        <5>2. r \in State /\ r.traced = thread[t].traced
          <6>1. Stop(thread[t], "signal") \in State /\ Dead(thread[t]) \in State
            BY <1>1, StateTypes DEF Status
          <6>2. Stop(thread[t], "signal").traced = thread[t].traced /\ Dead(thread[t]).traced = thread[t].traced
            BY <1>1 DEF Stop, Dead, State, ThreadState
          <6> QED BY <6>1, <6>2
        <5>3. killed' = killed /\ Alive(t)
          BY <4>2 DEF Signal, ThreadExits, Executes, Alive
        <5> QED BY <5>1, <5>2, <5>3
      <4> QED BY <2>3, <4>1, <4>2
    <3> QED BY <1>3, <2>1, <3>1 DEF client, Alive, Typed, Threads
  <2>4. ASSUME NEW t \in Thread, Clone(t)  PROVE AllUnderTrace'
    <3>1. PICK c \in scenario.threads, a \in Successors[thread[t].pc] :
            LET r == [thread[t] EXCEPT !.pc = a]
                u == [r EXCEPT !.life = "running"]
            IN  thread' = IF r.traced
                  THEN [thread EXCEPT ![t] = [Stop(r, "clone") EXCEPT !.child = c], ![c] = Stop(u, "stop")]
                  ELSE [thread EXCEPT ![t] = r, ![c] = u]
      BY <2>4 DEF Clone
    <3> DEFINE r == [thread[t] EXCEPT !.pc = a]
               u == [r EXCEPT !.life = "running"]
               p == [Stop(r, "clone") EXCEPT !.child = c]
               q == Stop(u, "stop")
    <3>2. /\ r.traced = thread[t].traced /\ u.traced = thread[t].traced
          /\ p.traced = thread[t].traced /\ q.traced = thread[t].traced
      BY <1>1 DEF Stop, State, ThreadState
    <3>3. PICK x \in {p, r}, y \in {q, u} : thread' = [thread EXCEPT ![t] = x, ![c] = y]
      BY <3>1
    <3>4. x.traced = thread[t].traced /\ y.traced = thread[t].traced
      BY <3>2
    <3> HIDE DEF r, u, p, q
    <3>5. \A v \in Thread : /\ v \in {t, c} => thread'[v].traced = thread[t].traced
                            /\ v \notin {t, c} => thread'[v] = thread[v]
      BY <3>3, <3>4 DEF Typed, Threads
    <3>6. Alive(t) /\ killed' = killed /\ killOnDetach' = killOnDetach
      BY <2>1, <2>4 DEF Clone, Executes, Alive, client
    <3> QED BY <1>2, <3>5, <3>6 DEF AllUnderTrace, Alive
  <2>5. CASE ProcessExits
    <3>1. \A r \in State : Dead(r).life = "dead"
      BY DEF Dead, State, ThreadState
    <3>2. \A t \in Thread : ~Alive(t)'
      BY <1>1, <2>5, <3>1 DEF ProcessExits, Alive
    <3> QED BY <1>3, <2>1, <2>5, <3>2 DEF ProcessExits, client
  <2> QED BY <1>7, <2>2, <2>3, <2>4, <2>5 DEF TraceeMoves, KernelNext
<1>8. CASE ClientWaits
  <2>1. ASSUME NEW t \in Thread, WaitTrapped(t) \/ WaitExited(t) \/ WaitCloned(t)  PROVE AllUnderTrace'
    <3>1. thread' = Waited(thread, t) /\ killed' = killed /\ killOnDetach' = killOnDetach
      BY <2>1 DEF WaitTrapped, WaitExited, WaitCloned
    <3> QED BY <1>3, <1>5, <3>1 DEF Alive
  <2>2. ASSUME NEW t \in Thread, WaitSignalled(t)  PROVE AllUnderTrace'
    <3> DEFINE w == Waited(thread, t)
               s == Append(trappedThreadIDs, t)
    <3>1. ContinueFrom(w, s) /\ killed' = killed /\ killOnDetach' = killOnDetach
      BY <2>2 DEF WaitSignalled
    <3>2. s \in Seq(Thread)
      BY DEF Typed
    <3>3. w \in Threads /\ \A u \in Thread : w[u].life = thread[u].life /\ w[u].traced = thread[u].traced
      BY <1>5
    <3> HIDE DEF w, s
    <3> QED BY <1>3, <1>4, <3>1, <3>2, <3>3 DEF Alive
  <2>3. CASE WaitChild
    <3> DEFINE c == waiting.child
               w == Waited(thread, c)
               C == {c}
               th == Continued(w, C)
    <3>1. c \in Thread /\ killed' = killed /\ killOnDetach' = killOnDetach
      BY <2>3 DEF WaitChild, Typed, Waits
    <3>2. w \in Threads /\ \A u \in Thread : w[u].life = thread[u].life /\ w[u].traced = thread[u].traced
      BY <1>5, <3>1
    <3>3. CASE ~Stopped(c)
      <4>1. thread' = w
        BY <2>3, <3>3 DEF WaitChild
      <4> HIDE DEF w
      <4> QED BY <1>3, <3>1, <3>2, <4>1 DEF Alive
    <3>4. CASE Stopped(c)
      <4>1. ContinueFrom(th, trappedThreadIDs)
        BY <2>3, <3>4 DEF WaitChild
      <4>2. C = {c}
        OBVIOUS
      <4> HIDE DEF w, c, C
      <4>3. th \in Threads
        BY <3>2, ThreadTypes
      <4>4. \A r \in State : [r EXCEPT !.life = "running", !.status = "none"].traced = r.traced
        BY DEF State, ThreadState
      <4>5. \A u \in Thread : th[u].traced = thread[u].traced /\ (u # c => th[u] = w[u])
        BY <3>2, <4>2, <4>4 DEF Continued, Threads
      <4> HIDE DEF th
      <4>6. Alive(c)
        BY <3>4 DEF Stopped, Alive
      <4>7. \A u \in Thread : th[u].life \in {"running", "stepping", "stopped"} =>
                              Alive(u) /\ th[u].traced = thread[u].traced
        BY <3>2, <4>5, <4>6 DEF Alive
      <4> QED BY <1>3, <1>4, <3>1, <4>1, <4>3, <4>7 DEF Typed
    <3> QED BY <3>3, <3>4
  <2> QED BY <1>8, <2>1, <2>2, <2>3 DEF ClientWaits, Wait
<1>9. CASE Resume
  <2>1. ContinueFrom(thread, trappedThreadIDs) /\ killed' = killed /\ killOnDetach' = killOnDetach
    BY <1>9 DEF Resume, ContinueAndWait
  <2>2. \A t \in Thread : Alive(t)' => Alive(t) /\ thread'[t].traced = thread[t].traced
    BY <1>4, <2>1 DEF Typed, Alive
  <2> QED BY <1>3, <2>1, <2>2
<1>10. CASE Attach /\ scenario.started = {}
  <2>1. /\ thread' = [thread EXCEPT ![Leader].life = "stopped", ![Leader].traced = TRUE]
        /\ killed' = killed /\ killOnDetach'
    BY <1>10 DEF Attach, LaunchProcess
  <2>2. \A t \in Thread : \/ thread'[t].traced = thread[t].traced /\ thread'[t].life = thread[t].life
                         \/ thread'[t].traced
    <3>1. \A r \in State : [r EXCEPT !.life = "stopped", !.traced = TRUE].traced
      BY DEF State, ThreadState
    <3>2. thread' = [thread EXCEPT ![Leader] = [@ EXCEPT !.life = "stopped", !.traced = TRUE]]
      BY <1>1, <2>1, PtraceAssumption DEF Typed, Threads, State, ThreadState
    <3> QED BY <1>1, <3>1, <3>2 DEF Typed, Threads
  <2> QED BY <1>2, <2>1, <2>2 DEF AllUnderTrace, Alive
<1>11. CASE NewProcessFails \/ Detach
  <2>1. DetachProcess /\ killed' = killed /\ killOnDetach' = killOnDetach
    BY <1>11 DEF NewProcessFails, Detach, DetachProcess, client
  <2>2. CASE killOnDetach
    <3>1. \A r \in State : [r EXCEPT !.life = "dead", !.status = "none"].life = "dead"
      BY DEF State, ThreadState
    <3>2. \A t \in Thread : ~Alive(t)'
      BY <1>1, <2>1, <2>2, <3>1 DEF DetachProcess, KilledThreads, Alive
    <3> QED BY <1>3, <2>1, <3>2
  <2>3. CASE ~killOnDetach /\ scenario.started = {}
    <3>1. \A t \in Thread : ~Alive(t)
      BY <2>3 DEF AllUnderTrace
    <3>2. \A t \in Thread : thread'[t] = thread[t]
      BY <2>1, <2>3, <3>1 DEF DetachProcess, DetachedThreads, Alive, Stopped
    <3> QED BY <1>3, <2>1, <3>1, <3>2 DEF Alive
  <2> QED BY <1>2, <2>2, <2>3 DEF AllUnderTrace
<1>12. ASSUME NEW a \in Addr, NEW t \in Thread, SingleStep(t, a)  PROVE AllUnderTrace'
  <2>1. killed' = killed /\ killOnDetach' = killOnDetach
    BY <1>12 DEF SingleStep, StepAndWait, kernel, client
  <2>2. CASE UNCHANGED thread
    BY <1>3, <2>1, <2>2 DEF Alive
  <2>3. CASE Stopped(t) /\ StepAndWait([thread EXCEPT ![t].past = FALSE], t)
    <3>1. thread' = [thread EXCEPT ![t] = [@ EXCEPT !.past = FALSE, !.life = "stepping", !.status = "none"]]
      BY <2>3 DEF StepAndWait, Typed, Threads, State, ThreadState
    <3>2. thread'[t].traced = thread[t].traced /\ \A u \in Thread \ {t} : thread'[u] = thread[u]
      BY <3>1 DEF Typed, Threads, State, ThreadState
    <3> QED BY <1>3, <2>1, <2>3, <3>2 DEF Alive, Stopped
  <2> QED BY <1>12, <2>2, <2>3 DEF SingleStep, kernel
<1>13. ASSUME UNCHANGED <<thread, killed, killOnDetach>>  PROVE AllUnderTrace'
  BY <1>3, <1>13 DEF Alive
<1>14. CASE FailToAttach \/ NewProcess \/ Returns \/ SingleStepReturns \/ Interrupted
            \/ \E a \in Addr : SetBreakpoint(a) \/ ClearBreakpoint(a)
  BY <1>13, <1>14 DEF FailToAttach, AttachFails, NewProcess, Returns, SingleStepReturns, Interrupted,
                      SetBreakpoint, ClearBreakpoint, kernel, client
<1>15. CASE scenario.started # {}
  BY <1>2, <1>15 DEF AllUnderTrace
<1> QED BY <1>6, <1>7, <1>8, <1>9, <1>10, <1>11, <1>12, <1>14, <1>15 DEF ProcessNext, ProcessStep

\* Every thread is on the client's list, or its first stop waits behind its parent's
\* clone event.
Tracked ==
  /\ \A t \in Thread : thread[t].status # "none" => thread[t].life \in {"stopped", "dead"}
  /\ \A t \in Thread : Alive(t) =>
       \/ t \in tracingThreadIDs
       \/ thread[t].status = "stop" /\ \E p \in Thread : thread[p].status = "clone" /\ thread[p].child = t
  /\ waiting.for = "child" => waiting.child \in tracingThreadIDs
  /\ handling.at = "attaching" /\ trappedThreadIDs = <<>> => \A t \in Thread : ~Alive(t)

AllTracked == scenario.started = {} /\ Unsignalled /\ (Going \/ Over) => Tracked

\* What the client does takes no thread off the list and drops the event of none
\* that is not on it.
LEMMA ClientKeepsTracked ==
  ASSUME Tracked, tracingThreadIDs \subseteq tracingThreadIDs', handling'.at # "attaching",
         \A t \in Thread :
           /\ Alive(t)' => Alive(t)
           /\ thread'[t].child = thread[t].child
           /\ thread'[t].status = "none" \/ (thread'[t].status = thread[t].status /\ thread'[t].life = thread[t].life)
           /\ thread'[t].status # thread[t].status =>
                /\ thread[t].status = "stop" => t \in tracingThreadIDs'
                /\ thread[t].status = "clone" => thread[t].child \in tracingThreadIDs',
         waiting'.for = "child" => waiting'.child \in tracingThreadIDs'
  PROVE  Tracked'
<1>1. \A t \in Thread : thread'[t].status # "none" => thread'[t].life \in {"stopped", "dead"}
  BY DEF Tracked
<1>2. ASSUME NEW t \in Thread, Alive(t)', t \notin tracingThreadIDs'
      PROVE  /\ thread'[t].status = "stop"
             /\ \E p \in Thread : thread'[p].status = "clone" /\ thread'[p].child = t
  <2>1. Alive(t) /\ t \notin tracingThreadIDs
    BY <1>2
  <2>2. thread[t].status = "stop"
    BY <2>1 DEF Tracked
  <2>3. PICK p \in Thread : thread[p].status = "clone" /\ thread[p].child = t
    BY <2>1 DEF Tracked
  <2>4. thread'[t].status = thread[t].status /\ thread'[p].status = thread[p].status
    BY <1>2, <2>2, <2>3
  <2> QED BY <2>2, <2>3, <2>4
<1> QED BY <1>1, <1>2 DEF Tracked

LEMMA KernelKeepsTracked ==
  ASSUME Typed, Tracked, Unsignalled, TraceeMoves, \A t \in Thread : Alive(t) => thread[t].traced
  PROVE  Tracked'
<1>1. UNCHANGED <<tracingThreadIDs, waiting, trappedThreadIDs, handling>> /\ \A t \in Thread : thread[t] \in State
  BY DEF TraceeMoves, client, Typed, Threads
<1>2. ASSUME NEW t \in Thread, NEW r, thread' = [thread EXCEPT ![t] = r],
             thread[t].life \in {"running", "stepping"},
             r.status # "none" => r.life \in {"stopped", "dead"}
      PROVE  Tracked'
  <2>1. thread'[t] = r /\ \A u \in Thread \ {t} : thread'[u] = thread[u]
    BY <1>2 DEF Typed, Threads
  <2>2. thread[t].status = "none" /\ Alive(t)
    BY <1>2 DEF Tracked, Alive
  <2>3. \A p \in Thread : thread[p].status = "clone" => thread'[p] = thread[p]
    BY <2>1, <2>2
  <2>4. t \in tracingThreadIDs
    BY <2>2 DEF Tracked
  <2> QED BY <1>1, <1>2, <2>1, <2>2, <2>3, <2>4 DEF Tracked, Alive
<1>3. ASSUME NEW t \in Thread, HitTrap(t)  PROVE Tracked'
  <2> DEFINE r == [Stop(thread[t], "trap") EXCEPT !.past = TRUE]
  <2>1. r.life = "stopped" /\ thread[t].life \in {"running", "stepping"} /\ thread[t].traced
    BY <1>1, <1>3 DEF HitTrap, Executes, Alive, Stop, State, ThreadState
  <2>2. thread' = [thread EXCEPT ![t] = r]
    BY <1>3, <2>1 DEF HitTrap, Typed, Threads
  <2> HIDE DEF r
  <2> QED BY <1>2, <2>1, <2>2
<1>4. ASSUME NEW t \in Thread, Execute(t)  PROVE Tracked'
  <2>1. PICK a \in Addr :
          LET r == [thread[t] EXCEPT !.pc = a]
          IN  thread' = [thread EXCEPT ![t] = IF r.life = "stepping" THEN Stop(r, "trap") ELSE r]
    BY <1>1, <1>4, PtraceAssumption DEF Execute, State, ThreadState
  <2> DEFINE r == [thread[t] EXCEPT !.pc = a]
             q == IF r.life = "stepping" THEN Stop(r, "trap") ELSE r
  <2>2. thread[t].life \in {"running", "stepping"} /\ thread[t].status = "none"
    BY <1>4 DEF Execute, Executes, Tracked
  <2>3. q.status # "none" => q.life = "stopped"
    BY <1>1, <2>2 DEF Stop, State, ThreadState
  <2> HIDE DEF q
  <2> QED BY <1>2, <2>1, <2>2, <2>3 DEF q
<1>5. ASSUME NEW t \in Thread, ThreadExits(t)  PROVE Tracked'
  <2>1. thread' = [thread EXCEPT ![t] = Dead(thread[t])] /\ thread[t].life \in {"running", "stepping"}
    BY <1>5 DEF ThreadExits, Executes, Typed, Threads
  <2>2. Dead(thread[t]).life = "dead"
    BY <1>1 DEF Dead, State, ThreadState
  <2> QED BY <1>2, <2>1, <2>2
<1>6. CASE ProcessExits
  <2>1. \A r \in State : Dead(r).life = "dead"
    BY DEF Dead, State, ThreadState
  <2>2. \A t \in Thread : ~Alive(t)'
    BY <1>1, <1>6, <2>1 DEF ProcessExits, Alive
  <2>3. \A t \in Thread : thread'[t] = thread[t] \/ thread'[t].life = "dead"
    BY <1>1, <1>6, <2>1 DEF ProcessExits
  <2> QED BY <1>1, <2>2, <2>3 DEF Tracked
<1>7. ASSUME NEW t \in Thread, Clone(t)  PROVE Tracked'
  <2>1. /\ thread[t].life \in {"running", "stepping"} /\ thread[t].traced /\ Alive(t)
        /\ thread[t].status = "none" /\ t \in tracingThreadIDs
    BY <1>7 DEF Clone, Executes, Alive, Tracked
  <2>2. PICK c \in Thread, a \in Addr :
          /\ thread[c].life = "unborn"
          /\ LET r == [thread[t] EXCEPT !.pc = a]
                 u == [r EXCEPT !.life = "running"]
             IN  thread' = IF r.traced
                   THEN [thread EXCEPT ![t] = [Stop(r, "clone") EXCEPT !.child = c], ![c] = Stop(u, "stop")]
                   ELSE [thread EXCEPT ![t] = r, ![c] = u]
    BY <1>1, <1>7, PtraceAssumption DEF Clone, Typed, State, ThreadState
  <2> DEFINE r == [thread[t] EXCEPT !.pc = a]
             u == [r EXCEPT !.life = "running"]
             p == [Stop(r, "clone") EXCEPT !.child = c]
             q == Stop(u, "stop")
  <2>3. /\ r.traced /\ t # c
        /\ p.life = "stopped" /\ p.status = "clone" /\ p.child = c
        /\ q.life = "stopped" /\ q.status = "stop"
    BY <1>1, <2>1, <2>2 DEF Stop, State, ThreadState
  <2>4. thread' = [thread EXCEPT ![t] = p, ![c] = q]
    BY <2>2, <2>3
  <2> HIDE DEF r, u, p, q
  <2>5. thread'[t] = p /\ thread'[c] = q /\ \A v \in Thread \ {t, c} : thread'[v] = thread[v]
    BY <2>3, <2>4 DEF Typed, Threads
  <2>6. thread[c].status = "none"
    BY <2>2 DEF Tracked
  <2>7. \A v \in Thread : thread[v].status = "clone" => thread'[v] = thread[v]
    BY <2>1, <2>5, <2>6
  <2>8. ~(handling.at = "attaching" /\ trappedThreadIDs = <<>>)
    BY <2>1 DEF Tracked
  <2>9. \A v \in Thread : Alive(v)' =>
          \/ v \in tracingThreadIDs'
          \/ thread'[v].status = "stop" /\ \E w \in Thread : thread'[w].status = "clone" /\ thread'[w].child = v
    <3>1. ASSUME NEW v \in Thread \ {t, c}, Alive(v)', v \notin tracingThreadIDs
          PROVE  thread'[v].status = "stop" /\ \E w \in Thread : thread'[w].status = "clone" /\ thread'[w].child = v
      <4>1. thread[v].status = "stop" /\ \E w \in Thread : thread[w].status = "clone" /\ thread[w].child = v
        BY <2>5, <3>1 DEF Tracked, Alive
      <4> QED BY <2>5, <2>7, <4>1
    <3> QED BY <1>1, <2>1, <2>3, <2>5, <3>1
  <2>10. \A v \in Thread : thread'[v].status # "none" => thread'[v].life \in {"stopped", "dead"}
    BY <2>3, <2>5 DEF Tracked
  <2> QED BY <1>1, <2>8, <2>9, <2>10 DEF Tracked
<1> QED BY <1>3, <1>4, <1>5, <1>6, <1>7 DEF TraceeMoves, KernelNext, Signal, Unsignalled

LEMMA ContinueKeepsTracked ==
  ASSUME Typed, Tracked, tracingThreadIDs' = tracingThreadIDs, handling'.at # "attaching",
         NEW th \in Threads, NEW s \in Seq(Thread), ContinueFrom(th, s),
         \A t \in Thread :
           /\ th[t].child = thread[t].child
           /\ t \in Ids(s) /\ th[t].life = "stopped" => Alive(t) /\ th[t].status = "none"
           /\ th[t].life \in {"running", "stepping", "stopped"} => Alive(t)
           /\ th[t].status = "none" \/ (th[t].status = thread[t].status /\ th[t].life = thread[t].life)
           /\ th[t].status # thread[t].status =>
                thread[t].status # "clone" /\ (thread[t].status = "stop" => t \in tracingThreadIDs)
  PROVE  Tracked'
<1>1. PICK T \in SUBSET Ids(s) :
        /\ \A u \in T : th[u].life = "stopped"
        /\ thread' = Continued(th, T)
        /\ waiting' = AnyThread \/ waiting' = NotWaiting
  BY ContinueFromDoes
<1>2. \A r \in State : LET q == [r EXCEPT !.life = "running", !.status = "none"]
                      IN  q.status = "none" /\ q.child = r.child
  BY DEF State, ThreadState
<1>3. \A t \in Thread : /\ thread'[t].child = th[t].child
                        /\ t \in T => thread'[t].status = "none"
                        /\ t \notin T => thread'[t] = th[t]
  BY <1>1, <1>2 DEF Continued, Threads
<1>4. waiting'.for # "child"
  BY <1>1, WaitRecords
<1>5. \A t \in Thread : Alive(t)' => Alive(t)
  BY <1>1, <1>3 DEF Alive
<1> QED BY <1>1, <1>3, <1>4, <1>5, ClientKeepsTracked

\* What Waited and ContinueFrom need to know of a thread that wait4 returns.
LEMMA WaitedThreads ==
  ASSUME Typed, NEW t \in Thread
  PROVE  LET w == Waited(thread, t)
         IN  /\ w \in Threads
             /\ \A u \in Thread : w[u].child = thread[u].child /\ w[u].life = thread[u].life
             /\ w[t].status = "none" /\ \A u \in Thread \ {t} : w[u] = thread[u]
<1>1. \A r \in State : LET q == [r EXCEPT !.status = "none"]
                      IN  q.status = "none" /\ q.child = r.child /\ q.life = r.life
  BY DEF State, ThreadState
<1>2. \A u \in Thread :
        /\ thread[u] \in State
        /\ Waited(thread, t)[u] = IF u = t THEN [thread[u] EXCEPT !.status = "none"] ELSE thread[u]
  BY DEF Waited, Typed, Threads
<1> QED BY <1>1, <1>2, ThreadTypes DEF Typed

LEMMA WaitKeepsTracked ==
  ASSUME Before, Tracked, ClientWaits
  PROVE  Tracked'
<1> USE DEF Before
<1>1. handling' = handling
  BY DEF ClientWaits
<1>2. waiting # NotWaiting => handling.at # "attaching"
  BY DEF Orders, WaitFits
<1>3. ASSUME NEW t \in Thread, WaitTrapped(t) \/ WaitExited(t) \/ WaitCloned(t)  PROVE Tracked'
  <2>1. /\ Wait4(t) /\ thread' = Waited(thread, t) /\ thread[t].status \in {"trap", "exit", "clone"}
        /\ tracingThreadIDs \subseteq tracingThreadIDs'
        /\ thread[t].status = "clone" => thread[t].child \in tracingThreadIDs'
        /\ \/ waiting' = NotWaiting
           \/ waiting' = Child(t, thread[t].child) /\ thread[t].status = "clone"
    BY <1>3 DEF WaitTrapped, WaitExited, WaitCloned, Return
  <2>2. handling'.at # "attaching"
    BY <1>1, <1>2, <2>1, WaitedFor
  <2>3. waiting'.for = "child" => waiting'.child \in tracingThreadIDs'
    BY <2>1, WaitRecords
  <2>4. /\ \A u \in Thread : thread'[u].child = thread[u].child /\ thread'[u].life = thread[u].life
        /\ thread'[t].status = "none" /\ \A u \in Thread \ {t} : thread'[u].status = thread[u].status
    BY <2>1, WaitedThreads
  <2> QED BY <2>1, <2>2, <2>3, <2>4, ClientKeepsTracked DEF Alive
<1>4. ASSUME NEW t \in Thread, WaitSignalled(t)  PROVE Tracked'
  <2> DEFINE w == Waited(thread, t)
             s == Append(trappedThreadIDs, t)
  <2>1. /\ Wait4(t) /\ Reported(t) /\ thread[t].status \in {"signal", "stop"}
        /\ ContinueFrom(w, s) /\ tracingThreadIDs' = tracingThreadIDs
    BY <1>4 DEF WaitSignalled, Wait4
  <2>2. handling'.at # "attaching"
    BY <1>1, <1>2, <2>1, WaitedFor
  <2>3. thread[t].status = "stop" /\ Is(t, "stopped") /\ Alive(t)
    BY <2>1 DEF Orders, StatusFits, Is, Alive
  <2>4. t \in tracingThreadIDs
    BY <2>1, <2>3 DEF Reported, Tracked, Unsignalled
  <2>5. s \in Seq(Thread) /\ Ids(s) = Ids(trappedThreadIDs) \cup {t}
    BY AppendLists DEF Typed
  <2>6. /\ w \in Threads
        /\ \A u \in Thread : w[u].child = thread[u].child /\ w[u].life = thread[u].life
        /\ w[t].status = "none" /\ \A u \in Thread \ {t} : w[u].status = thread[u].status
    BY WaitedThreads
  <2> HIDE DEF w, s
  <2>7. \A u \in Thread : u \in Ids(s) /\ w[u].life = "stopped" => Alive(u) /\ w[u].status = "none"
    BY <2>5, <2>6 DEF Orders, ListFits, Listed, Is, Alive
  <2> QED BY <2>1, <2>2, <2>3, <2>4, <2>5, <2>6, <2>7, ContinueKeepsTracked DEF Alive
<1>5. CASE WaitChild
  <2> DEFINE c == waiting.child
             w == Waited(thread, c)
             C == {c}
             th == Continued(w, C)
  <2>1. /\ waiting.for = "child" /\ tracingThreadIDs' = tracingThreadIDs
        /\ c \in Thread /\ c \in tracingThreadIDs /\ thread[c].status # "clone"
    BY <1>5 DEF WaitChild, Tracked, Typed, Waits, Orders, BirthsFit, StatusFits, Newborn, Is
  <2>2. handling'.at # "attaching"
    BY <1>1, <1>2, <2>1, WaitRecords
  <2>3. /\ w \in Threads
        /\ \A u \in Thread : w[u].child = thread[u].child /\ w[u].life = thread[u].life
        /\ w[c].status = "none" /\ \A u \in Thread \ {c} : w[u].status = thread[u].status
    BY <2>1, WaitedThreads
  <2>4. CASE ~Stopped(c)
    <3>1. thread' = w /\ waiting' = NotWaiting
      BY <1>5, <2>4 DEF WaitChild, Return
    <3>2. waiting'.for # "child"
      BY <3>1, WaitRecords
    <3> HIDE DEF w, c
    <3> QED BY <2>1, <2>2, <2>3, <3>1, <3>2, ClientKeepsTracked DEF Alive
  <2>5. CASE Stopped(c)
    <3>1. ContinueFrom(th, trappedThreadIDs)
      BY <1>5, <2>5 DEF WaitChild
    <3>2. c \in C /\ \A u \in Thread \ {c} : u \notin C
      OBVIOUS
    <3> HIDE DEF w, c, C
    <3>3. th \in Threads
      BY <2>3, ThreadTypes
    <3>4. \A r \in State : LET q == [r EXCEPT !.life = "running", !.status = "none"]
                          IN  q.status = "none" /\ q.child = r.child /\ q.life = "running"
      BY DEF State, ThreadState
    <3>5. /\ th[c].status = "none" /\ th[c].child = thread[c].child /\ th[c].life = "running"
          /\ \A u \in Thread \ {c} : th[u] = w[u]
      BY <2>1, <2>3, <3>2, <3>4 DEF Continued, Threads
    <3> HIDE DEF th
    <3>6. Alive(c)
      BY <2>5 DEF Stopped, Alive
    <3>7. \A u \in Thread : u \in Ids(trappedThreadIDs) /\ th[u].life = "stopped" =>
                            Alive(u) /\ th[u].status = "none"
      BY <2>3, <3>5, <3>6 DEF Orders, ListFits, Listed, Is, Alive
    <3>8. \A u \in Thread :
            /\ th[u].child = thread[u].child
            /\ th[u].life \in {"running", "stepping", "stopped"} => Alive(u)
            /\ th[u].status = "none" \/ (th[u].status = thread[u].status /\ th[u].life = thread[u].life)
            /\ th[u].status # thread[u].status => u = c
      BY <2>3, <3>5, <3>6 DEF Alive
    <3> QED BY <2>1, <2>2, <3>1, <3>3, <3>7, <3>8, ContinueKeepsTracked DEF Typed
  <2> QED BY <2>4, <2>5
<1> QED BY <1>3, <1>4, <1>5 DEF ClientWaits, Wait

LEMMA AllTrackedStays ==
  ASSUME Typed, TextFollows, Orderly, AllUnderTrace, AllTracked, [ProcessNext]_processVars
  PROVE  AllTracked'
<1>1. CASE UNCHANGED processVars
  BY <1>1 DEF processVars, kernel, client, AllTracked, Unsignalled, Going, Over, Tracked, Alive
<1>2. CASE /\ ProcessStep /\ UNCHANGED scenario
           /\ scenario.started = {} /\ Unsignalled /\ Going
  <2>1. Before /\ Tracked
    BY <1>2 DEF Orderly, Before, AllTracked
  <2> SUFFICES ASSUME Going' \/ Over'  PROVE Tracked'
    BY <1>2 DEF AllTracked, Unsignalled
  <2>2. handling'.at \notin {"failed", "ending", "detached"}
    BY DEF Going, Over
  <2>3. CASE ClientWaits
    BY <2>1, <2>3, WaitKeepsTracked
  <2>4. CASE TraceeMoves
    BY <1>2, <2>1, <2>4, KernelKeepsTracked DEF Before, AllUnderTrace
  <2>5. CASE Resume
    <3>1. /\ ContinueFrom(thread, trappedThreadIDs) /\ tracingThreadIDs' = tracingThreadIDs
          /\ handling'.at = "waiting"
      BY <2>5 DEF Resume, ContinueAndWait, Typed
    <3>2. \A u \in Thread : u \in Ids(trappedThreadIDs) /\ thread[u].life = "stopped" =>
                            Alive(u) /\ thread[u].status = "none"
      BY <2>1 DEF Before, Orders, ListFits, Listed, Is, Alive
    <3> QED BY <2>1, <3>1, <3>2, ContinueKeepsTracked DEF Typed, Alive
  <2>6. CASE Attach
    <3>1. /\ handling.at = "attaching" /\ trappedThreadIDs = <<>> /\ trappedThreadIDs' = <<Leader>>
          /\ tracingThreadIDs' = {Leader} /\ UNCHANGED waiting
          /\ thread' = [thread EXCEPT ![Leader].life = "stopped", ![Leader].traced = TRUE]
      BY <1>2, <2>6 DEF Attach, LaunchProcess
    <3>2. \A u \in Thread : ~Alive(u)
      BY <2>1, <3>1 DEF Tracked
    <3>3. waiting.for = "nothing"
      BY <2>1, <3>1, WaitRecords DEF Before, Orders, WaitFits
    <3>4. \A u \in Thread \ {Leader} : thread'[u] = thread[u]
      BY <3>1 DEF Typed, Threads
    <3>5. thread'[Leader].life = "stopped"
      <4>1. \A r \in State : [r EXCEPT !.life = "stopped", !.traced = TRUE].life = "stopped"
        BY DEF State, ThreadState
      <4>2. thread' = [thread EXCEPT ![Leader] = [@ EXCEPT !.life = "stopped", !.traced = TRUE]]
        BY <3>1, PtraceAssumption DEF Typed, Threads, State, ThreadState
      <4> QED BY <4>1, <4>2, PtraceAssumption DEF Typed, Threads
    <3>6. trappedThreadIDs' # <<>>
      BY <3>1
    <3>7. \A u \in Thread : thread'[u].status # "none" => thread'[u].life \in {"stopped", "dead"}
      BY <2>1, <3>4, <3>5 DEF Tracked
    <3>8. \A u \in Thread : Alive(u)' => u = Leader
      BY <3>2, <3>4 DEF Alive
    <3> QED BY <3>1, <3>3, <3>6, <3>7, <3>8 DEF Tracked
  <2>7. ASSUME NEW a \in Addr, NEW t \in Thread, SingleStep(t, a)  PROVE Tracked'
    <3>1. /\ handling.at \in {"resuming", "trapped"} /\ t = handling.thread
          /\ Stopped(t) /\ StepAndWait([thread EXCEPT ![t].past = FALSE], t)
          /\ handling'.at = "stepping"
      BY <2>2, <2>7 DEF SingleStep, Handles, Handling, GoTo, Typed
    <3>2. thread' = [thread EXCEPT ![t] = [@ EXCEPT !.past = FALSE, !.life = "stepping", !.status = "none"]]
      BY <3>1 DEF StepAndWait, Typed, Threads, State, ThreadState
    <3>3. thread'[t].child = thread[t].child /\ thread'[t].status = "none"
      BY <3>2 DEF Typed, Threads, State, ThreadState
    <3>4. \A u \in Thread \ {t} : thread'[u] = thread[u]
      BY <3>2 DEF Typed, Threads
    <3>5. t # NoThread
      BY PtraceAssumption
    <3>6. thread[t].status = "none" /\ Alive(t)
      BY <2>1, <3>1, <3>5 DEF Before, Orders, WaitFits, ListFits, Stopped, Is, Alive
    <3>7. tracingThreadIDs' = tracingThreadIDs /\ waiting'.for # "child"
      BY <3>1, WaitRecords DEF StepAndWait
    <3>8. handling'.at # "attaching"
      BY <3>1
    <3>9. \A u \in Thread : Alive(u)' => Alive(u)
      BY <3>4, <3>6 DEF Alive
    <3> QED BY <2>1, <3>3, <3>4, <3>6, <3>7, <3>8, <3>9, ClientKeepsTracked
  <2>8. ASSUME UNCHANGED <<thread, client>>, handling'.at # "attaching"  PROVE Tracked'
    BY <2>1, <2>8 DEF Tracked, Alive, client
  <2>9. ~(FailToAttach \/ NewProcessFails \/ Interrupted \/ Detach)
    BY <2>2 DEF FailToAttach, NewProcessFails, Interrupted, Detach, GoTo, Typed
  <2>10. CASE NewProcess \/ Returns \/ SingleStepReturns
    BY <2>8, <2>10 DEF NewProcess, Returns, SingleStepReturns, GoTo, Handling, Typed, kernel
  <2>11. ASSUME NEW a \in Addr, SetBreakpoint(a) \/ ClearBreakpoint(a)  PROVE Tracked'
    BY <2>8, <2>11 DEF SetBreakpoint, ClearBreakpoint, GoTo, Handles, Typed
  <2> QED BY <1>2, <2>3, <2>4, <2>5, <2>6, <2>7, <2>9, <2>10, <2>11 DEF ProcessStep
<1>3. CASE /\ ProcessStep /\ UNCHANGED scenario
           /\ scenario.started = {} /\ Unsignalled /\ Over
  <2>1. Tracked /\ handling.at = "waiting" /\ waiting = NotWaiting /\ event.type = "error"
    BY <1>3 DEF AllTracked, Over, Failed
  <2>2. CASE TraceeMoves
    <3>1. Tracked'
      BY <1>3, <2>1, <2>2, KernelKeepsTracked DEF AllUnderTrace
    <3> QED BY <3>1 DEF AllTracked
  <2>3. CASE Returns
    <3>1. handling'.at = "ending"
      BY <2>1, <2>3 DEF Returns, Typed
    <3> QED BY <3>1 DEF AllTracked, Going, Over
  <2>4. ~ClientWaits
    BY <2>1, WaitRecords DEF ClientWaits, Wait, WaitTrapped, WaitSignalled, WaitExited, WaitCloned,
                             WaitChild, Wait4
  <2> QED BY <1>3, <2>1, <2>2, <2>3, <2>4
          DEF ProcessStep, Attach, FailToAttach, NewProcess, NewProcessFails, Resume, SingleStepReturns,
              Interrupted, Detach, SetBreakpoint, ClearBreakpoint, SingleStep, Handles
<1>4. CASE ProcessStep /\ UNCHANGED scenario /\ handling.at \in {"failed", "ending", "detached"}
  <2>1. handling'.at \in {"failed", "ending", "detached"}
    BY <1>4 DEF ProcessStep, Attach, FailToAttach, NewProcess, NewProcessFails, Resume, Returns,
                SingleStepReturns, Interrupted, Detach, SetBreakpoint, ClearBreakpoint, SingleStep,
                Handles, ClientWaits, TraceeMoves, GoTo, Typed
  <2> QED BY <2>1 DEF AllTracked, Going, Over
<1>5. CASE UNCHANGED scenario /\ ~(scenario.started = {} /\ Unsignalled)
  BY <1>5 DEF AllTracked, Unsignalled
<1>6. Going \/ Over \/ handling.at \in {"failed", "ending", "detached"}
  BY DEF Going
<1> QED BY <1>1, <1>2, <1>3, <1>4, <1>5, <1>6 DEF ProcessNext

\* No thread of a launched process runs into a trap untraced, whichever threads are
\* created when (PTRACE_O_TRACECLONE), and continueClone takes each on the list.
THEOREM AllTracedCorrect == ProcessSpec => []AllTraced
<1>1. ProcessInit => Typed /\ TextFollows /\ Orderly /\ AllUnderTrace /\ AllTracked
  <2> SUFFICES ASSUME ProcessInit  PROVE AllUnderTrace /\ AllTracked
    BY OrderlyAtFirst, TypedAtFirst
  <2>1. /\ ~killed /\ waiting = NotWaiting
        /\ \A t \in Thread : thread[t].status = "none" /\ (Alive(t) => t \in scenario.started)
    BY DEF ProcessInit, KernelInit, ClientInit, Unborn, Alive
  <2> QED BY <2>1, WaitRecords DEF AllUnderTrace, AllTracked, Tracked
<1>2. AllUnderTrace /\ AllTracked => AllTraced
  <2>1. Tracing => Going \/ Over
    BY DEF Tracing, Going
  <2> QED BY <2>1 DEF AllUnderTrace, AllTracked, Tracked, AllTraced
<1> QED
  BY <1>1, <1>2, TextFollowsStays, TypedStays, OrderlyStays, AllUnderTraceStays, AllTrackedStays, PTL
  DEF ProcessSpec

-----------------------------------------------------------------------------
(* A step is one instruction.                                              *)

\* The thread is before the instruction, or behind it and stopped.
StepFits ==
  handling.at = "stepping" /\ Undisturbed =>
    LET r == thread[handling.thread]
        taken == r.life = "stopped" /\ r.pc \in Successors[handling.addr]
    IN  /\ handling.thread \in Thread /\ ~r.past
        /\ waiting # NotWaiting => (r.life = "stepping" /\ r.pc = handling.addr) \/ taken
        /\ waiting = NotWaiting => taken

LEMMA StepFitsStays ==
  ASSUME Typed, TextFollows, Orderly, StepFits, [ProcessNext]_processVars
  PROVE  StepFits'
<1>1. CASE UNCHANGED processVars
  BY <1>1 DEF processVars, kernel, client, StepFits, Undisturbed
<1>2. CASE ProcessStep /\ UNCHANGED scenario /\ handling.at = "stepping" /\ Undisturbed
  <2> SUFFICES ASSUME handling'.at = "stepping"  PROVE StepFits'
    BY DEF StepFits
  <2> DEFINE h == handling.thread
             Took == thread[h].life = "stopped" /\ thread[h].pc \in Successors[handling.addr]
  <2>1. Unsignalled /\ Going
    BY <1>2 DEF Undisturbed, Unsignalled, Going, Over
  <2>2. Before
    BY <2>1, <1>2 DEF Orderly, Before
  <2>3. /\ h \in Thread /\ ~thread[h].past /\ thread[h] \in State
        /\ waiting # NotWaiting => (thread[h].life = "stepping" /\ thread[h].pc = handling.addr) \/ Took
        /\ waiting = NotWaiting => Took
    BY <1>2 DEF StepFits, Typed, Threads
  <2>4. handling.addr \notin CloneAddr /\ handling.addr \in Addr
    BY <1>2, <2>2 DEF Before, Orders, WaitFits, Typed
  <2>5. text[handling.addr] = "org"
    BY <1>2, <2>4 DEF TextFollows, Out
  <2>6. CASE ClientWaits
    <3>1. ~WaitChild
      BY <1>2, <2>2, WaitRecords DEF WaitChild, Before, Orders, WaitFits
    <3>2. PICK t \in Thread : WaitTrapped(t) \/ WaitSignalled(t) \/ WaitExited(t) \/ WaitCloned(t)
      BY <2>6, <3>1 DEF ClientWaits, Wait
    <3>3. t = h /\ waiting # NotWaiting /\ handling' = handling
      BY <1>2, <2>2, <2>6, <3>2, WaitedFor DEF WaitTrapped, WaitSignalled, WaitExited, WaitCloned, ClientWaits
    <3>4. thread[h].status \in {"none", "trap", "exit"} /\ (thread[h].status = "exit" => thread[h].life = "dead")
      BY <1>2, <2>2, <3>3 DEF Before, Orders, WaitFits, StatusFits, Is
    <3>5. WaitTrapped(h)
      BY <2>3, <3>2, <3>3, <3>4 DEF WaitTrapped, WaitSignalled, WaitExited, WaitCloned
    <3>6. /\ thread'[h].life = thread[h].life /\ thread'[h].past = thread[h].past
          /\ thread'[h].pc = thread[h].pc /\ thread[h].status = "trap" /\ waiting' = NotWaiting
      BY <2>3, <3>5 DEF WaitTrapped, Waited, Return, Typed, Threads, State, ThreadState
    <3>7. Took
      BY <2>2, <2>3, <3>6 DEF Before, Orders, StatusFits, Is
    <3> QED BY <2>3, <3>3, <3>6, <3>7 DEF StepFits
  <2>7. CASE TraceeMoves
    <3>1. waiting' = waiting /\ handling' = handling
      BY <2>7 DEF TraceeMoves, client
    <3>2. ASSUME thread'[h] = thread[h]  PROVE StepFits'
      BY <2>3, <3>1, <3>2 DEF StepFits
    <3>3. ASSUME NEW t \in Thread \ {h}, HitTrap(t) \/ Execute(t) \/ Signal(t) \/ ThreadExits(t)
          PROVE  thread'[h] = thread[h]
      BY <2>3, <3>3 DEF HitTrap, Execute, Signal, ThreadExits, Typed, Threads
    <3>4. ASSUME NEW t \in Thread \ {h}, Clone(t)  PROVE thread'[h] = thread[h]
      <4>1. thread[h].life # "unborn"
        BY <2>3
      <4> QED BY <2>3, <3>4, <4>1 DEF Clone, Typed, Threads
    <3>5. ~ProcessExits /\ ~Signal(h) /\ ~ThreadExits(h)
      BY <1>2 DEF ProcessExits, Signal, ThreadExits, Undisturbed
    <3>6. ~HitTrap(h) /\ ~Clone(h)
      BY <2>3, <2>4, <2>5 DEF HitTrap, Clone, Executes
    <3>7. CASE Execute(h)
      <4>1. thread[h].life = "stepping" /\ thread[h].pc = handling.addr
        BY <2>3, <3>7 DEF Execute, Executes
      <4>2. PICK a \in Successors[handling.addr] :
              LET r == [thread[h] EXCEPT !.pc = a]
              IN  thread' = [thread EXCEPT ![h] = IF r.life = "stepping" THEN Stop(r, "trap") ELSE r]
        BY <3>7, <4>1 DEF Execute
      <4> DEFINE r == [thread[h] EXCEPT !.pc = a]
      <4>3. /\ r.life = "stepping" /\ Stop(r, "trap").life = "stopped" /\ Stop(r, "trap").pc = a
            /\ ~Stop(r, "trap").past
        BY <2>3, <4>1 DEF Stop, State, ThreadState
      <4>4. thread'[h] = Stop(r, "trap")
        BY <2>3, <4>2, <4>3 DEF Typed, Threads
      <4>5. waiting # NotWaiting
        BY <2>3, <4>1
      <4> HIDE DEF r
      <4> QED BY <2>3, <3>1, <4>3, <4>4, <4>5 DEF StepFits
    <3> QED BY <2>7, <3>2, <3>3, <3>4, <3>5, <3>6, <3>7 DEF TraceeMoves, KernelNext
  <2> QED
    BY <1>2, <2>6, <2>7
    DEF ProcessStep, Attach, FailToAttach, NewProcess, NewProcessFails, Resume, Returns, SingleStepReturns,
        Interrupted, Detach, SetBreakpoint, ClearBreakpoint, SingleStep, Handles, GoTo, Typed
<1>3. CASE ProcessStep /\ UNCHANGED scenario /\ handling.at # "stepping" /\ Undisturbed
  <2> SUFFICES ASSUME handling'.at = "stepping"  PROVE StepFits'
    BY DEF StepFits
  <2>1. PICK a \in Addr, t \in Thread : SingleStep(t, a)
    <3>1. \A at \in Phase : [handling EXCEPT !.at = at].at = at
      BY DEF Typed
    <3>2. ~(FailToAttach \/ NewProcess \/ NewProcessFails \/ SingleStepReturns \/ Interrupted \/ Detach)
      BY <3>1 DEF FailToAttach, NewProcess, NewProcessFails, SingleStepReturns, Interrupted, Detach, GoTo, Phase
    <3>3. ~(Attach \/ ClientWaits \/ TraceeMoves)
      BY <1>3 DEF Attach, ClientWaits, TraceeMoves
    <3>4. ~(Resume \/ Returns)
      <4>1. [handling EXCEPT !.at = "waiting", !.thread = NoThread].at = "waiting"
        BY DEF Typed
      <4>2. ~Resume
        BY <4>1 DEF Resume
      <4>3. Handling("trapped", event.thread, handling.addr).at = "trapped"
            /\ [handling EXCEPT !.at = "ending"].at = "ending"
        BY DEF Handling, Typed
      <4>4. ~Returns
        BY <4>3 DEF Returns
      <4> QED BY <4>2, <4>4
    <3>5. ~\E a \in Addr : SetBreakpoint(a) \/ ClearBreakpoint(a)
      BY <1>3, <3>1 DEF SetBreakpoint, ClearBreakpoint, GoTo, Phase
    <3> QED BY <1>3, <3>2, <3>3, <3>4, <3>5 DEF ProcessStep
  <2>2. /\ StepAndWait([thread EXCEPT ![t].past = FALSE], t) /\ handling' = Handling("stepping", t, a)
        /\ thread[t].pc = a
    BY <1>3, <2>1 DEF SingleStep, GoTo, Typed
  <2>3. thread' = [thread EXCEPT ![t] = [@ EXCEPT !.past = FALSE, !.life = "stepping", !.status = "none"]]
    BY <2>2 DEF StepAndWait, Typed, Threads, State, ThreadState
  <2>4. thread'[t].life = "stepping" /\ ~thread'[t].past /\ thread'[t].pc = a
    BY <2>2, <2>3 DEF Typed, Threads, State, ThreadState
  <2>5. waiting' # NotWaiting
    BY <2>2, WaitRecords DEF StepAndWait
  <2> QED BY <2>2, <2>4, <2>5 DEF StepFits, Handling
<1>4. CASE UNCHANGED scenario /\ ~Undisturbed
  BY <1>4 DEF StepFits, Undisturbed
<1> QED BY <1>1, <1>2, <1>3, <1>4 DEF ProcessNext

\* SingleStep executes one instruction of the thread it is given, whatever the
\* others do meanwhile, and returns when the thread is stopped behind it.
THEOREM SteppedOneCorrect == ProcessSpec => UndisturbedSteppedOne
<1>1. ProcessInit => Typed /\ TextFollows /\ Orderly /\ StepFits
  <2>1. ProcessInit => StepFits
    BY DEF ProcessInit, Handling, StepFits
  <2> QED BY <2>1, OrderlyAtFirst, TypedAtFirst
<1>2. StepFits /\ [ProcessNext]_processVars => [Undisturbed => Steps]_processVars
  <2> SUFFICES ASSUME StepFits, ProcessNext, Undisturbed,
                      handling.at = "stepping", handling'.at = "resuming"
               PROVE  Steps
    BY DEF Steps
  <2>1. SingleStepReturns
    BY DEF ProcessNext, ProcessStep, Attach, FailToAttach, NewProcess, NewProcessFails, Resume, Returns,
           Interrupted, Detach, SetBreakpoint, ClearBreakpoint, SingleStep, Handles, GoTo,
           ClientWaits, TraceeMoves
  <2> QED BY <2>1 DEF SingleStepReturns, StepFits, Steps
<1> QED
  BY <1>1, <1>2, TextFollowsStays, TypedStays, OrderlyStays, StepFitsStays, PTL
  DEF ProcessSpec, UndisturbedSteppedOne

-----------------------------------------------------------------------------
(* The list of trapped threads.                                            *)

NobodyAlive(th) == \A t \in Thread : th[t].life \in {"unborn", "dead"}

\* The list has the threads that are stopped and waited for; dead ones stay on it
\* only when the whole process is gone, as no other death takes a stopped thread.
Fits(th, s) ==
  /\ IsInjective(s)
  /\ \A t \in Thread :
       /\ th[t].status # "none" => th[t].life \in {"stopped", "dead"}
       /\ th[t].life = "dead" => th[t].status \in {"none", "exit"}
       /\ th[t].status = "exit" => th[t].life = "dead"
       /\ t \in Ids(s) => \/ th[t].life = "stopped" /\ th[t].status = "none"
                          \/ th[t].life = "dead" /\ NobodyAlive(th)
       /\ th[t].traced /\ th[t].life = "stopped" /\ th[t].status = "none" => t \in Ids(s)

\* Before the list is made, the threads attached to are stopped.
Arriving ==
  /\ breakpoints = {}
  /\ \A t \in Thread :
       /\ thread[t].life # "stepping"
       /\ thread[t].status = "none" \/ (thread[t].status = "exit" /\ thread[t].life = "dead")
       /\ thread[t].traced => thread[t].life = "stopped" \/ (thread[t].life = "dead" /\ NobodyAlive(thread))
       /\ thread[t].life = "stopped" => thread[t].traced
       /\ scenario.started = {} => thread[t].life = "unborn" /\ ~thread[t].traced

Lists ==
  /\ handling.at = "attaching" => waiting = NotWaiting
  /\ handling.at = "attaching" /\ trappedThreadIDs = <<>> => Arriving
  /\ Tracing \/ (handling.at = "attaching" /\ trappedThreadIDs # <<>>) => Fits(thread, trappedThreadIDs)

\* What a step of the tracee does to the threads, as far as the list is concerned.
LEMMA KernelMoves ==
  ASSUME Typed, KernelNext
  PROVE  \/ UNCHANGED thread
         \/ \E t \in Thread, r \in State :
              /\ thread[t].life \in {"running", "stepping"}
              /\ thread'[t] = r /\ \A u \in Thread \ {t} : thread'[u] = thread[u]
              /\ r.traced = thread[t].traced
              /\ \/ r.life = thread[t].life /\ r.status = thread[t].status
                 \/ /\ r.life = "stopped" /\ r.status \in {"trap", "signal"}
                    /\ \/ thread[t].life = "stepping"
                       \/ thread[t].traced
                 \/ /\ r.life = "dead" /\ r.status \in {"none", "exit"}
                    /\ "thread exit" \in scenario.happens
         \/ \E t, c \in Thread :
              /\ t # c /\ thread[t].life \in {"running", "stepping"} /\ thread[c].life = "unborn"
              /\ \A u \in Thread \ {t, c} : thread'[u] = thread[u]
              /\ thread'[t].traced = thread[t].traced /\ thread'[c].traced = thread[t].traced
              /\ IF thread[t].traced
                   THEN /\ thread'[t].life = "stopped" /\ thread'[t].status = "clone"
                        /\ thread'[c].life = "stopped" /\ thread'[c].status = "stop"
                   ELSE /\ thread'[t].life = thread[t].life /\ thread'[t].status = thread[t].status
                        /\ thread'[c].life = "running" /\ thread'[c].status = thread[t].status
         \/ /\ \E t \in Thread : Alive(t)
            /\ \A t \in Thread : IF Alive(t) THEN /\ thread'[t].life = "dead" /\ thread'[t].status \in {"none", "exit"}
                                                  /\ thread'[t].traced = thread[t].traced
                                             ELSE thread'[t] = thread[t]
<1> DEFINE Moves(t, r) ==
             /\ thread[t].life \in {"running", "stepping"}
             /\ thread'[t] = r /\ \A u \in Thread \ {t} : thread'[u] = thread[u]
             /\ r.traced = thread[t].traced
             /\ \/ r.life = thread[t].life /\ r.status = thread[t].status
                \/ /\ r.life = "stopped" /\ r.status \in {"trap", "signal"}
                   /\ \/ thread[t].life = "stepping"
                      \/ thread[t].traced
                \/ /\ r.life = "dead" /\ r.status \in {"none", "exit"}
                   /\ "thread exit" \in scenario.happens
           Births(t, c) ==
             /\ t # c /\ thread[t].life \in {"running", "stepping"} /\ thread[c].life = "unborn"
             /\ \A u \in Thread \ {t, c} : thread'[u] = thread[u]
             /\ thread'[t].traced = thread[t].traced /\ thread'[c].traced = thread[t].traced
             /\ IF thread[t].traced
                  THEN /\ thread'[t].life = "stopped" /\ thread'[t].status = "clone"
                       /\ thread'[c].life = "stopped" /\ thread'[c].status = "stop"
                  ELSE /\ thread'[t].life = thread[t].life /\ thread'[t].status = thread[t].status
                       /\ thread'[c].life = "running" /\ thread'[c].status = thread[t].status
<1>1. \A t \in Thread : thread[t] \in State
  BY DEF Typed, Threads
<1>2. \A r \in State :
        /\ Stop(r, "trap") \in State /\ Stop(r, "signal") \in State /\ Dead(r) \in State
        /\ [Stop(r, "trap") EXCEPT !.past = TRUE] \in State
        /\ \A a \in Addr : [r EXCEPT !.pc = a] \in State
  BY StateTypes DEF Status
<1>3. \A r \in State :
        /\ Stop(r, "trap").life = "stopped" /\ Stop(r, "trap").status = "trap" /\ Stop(r, "trap").traced = r.traced
        /\ Stop(r, "signal").life = "stopped" /\ Stop(r, "signal").status = "signal"
        /\ Stop(r, "signal").traced = r.traced
        /\ Dead(r).life = "dead" /\ Dead(r).status \in {"none", "exit"} /\ Dead(r).traced = r.traced
  BY DEF Stop, Dead, State, ThreadState
<1>4. ASSUME NEW t \in Thread, HitTrap(t)  PROVE UNCHANGED thread \/ \E r \in State : Moves(t, r)
  <2> DEFINE q == Stop(thread[t], "trap")
             r == [q EXCEPT !.past = TRUE]
  <2>1. CASE thread[t].traced
    <3>1. r \in State /\ r.life = "stopped" /\ r.status = "trap" /\ r.traced = thread[t].traced
      BY <1>1, <1>2, <1>3 DEF State, ThreadState
    <3>2. thread' = [thread EXCEPT ![t] = r] /\ thread[t].life \in {"running", "stepping"}
      BY <1>4, <2>1 DEF HitTrap, Executes, Typed, Threads
    <3> HIDE DEF r
    <3>3. thread'[t] = r /\ \A u \in Thread \ {t} : thread'[u] = thread[u]
      BY <3>2 DEF Typed, Threads
    <3>4. Moves(t, r)
      BY <2>1, <3>1, <3>2, <3>3
    <3> HIDE DEF Moves
    <3> QED BY <3>1, <3>4
  <2>2. CASE ~thread[t].traced
    BY <1>4, <2>2 DEF HitTrap
  <2> QED BY <2>1, <2>2
<1>5. ASSUME NEW t \in Thread, Execute(t)  PROVE \E r \in State : Moves(t, r)
  <2>1. PICK a \in Addr :
          LET r == [thread[t] EXCEPT !.pc = a]
          IN  thread' = [thread EXCEPT ![t] = IF r.life = "stepping" THEN Stop(r, "trap") ELSE r]
    BY <1>1, <1>5, PtraceAssumption DEF Execute, State, ThreadState
  <2> DEFINE q == [thread[t] EXCEPT !.pc = a]
             r == IF q.life = "stepping" THEN Stop(q, "trap") ELSE q
  <2>2. q \in State /\ q.life = thread[t].life /\ q.status = thread[t].status /\ q.traced = thread[t].traced
    BY <1>1, <1>2 DEF State, ThreadState
  <2>3. /\ r \in State /\ r.traced = thread[t].traced
        /\ \/ r.life = thread[t].life /\ r.status = thread[t].status
           \/ r.life = "stopped" /\ r.status = "trap" /\ thread[t].life = "stepping"
    BY <1>2, <1>3, <2>2
  <2>4. thread' = [thread EXCEPT ![t] = r] /\ thread[t].life \in {"running", "stepping"}
    BY <1>5, <2>1 DEF Execute, Executes
  <2> HIDE DEF q, r
  <2>5. thread'[t] = r /\ \A u \in Thread \ {t} : thread'[u] = thread[u]
    BY <2>4 DEF Typed, Threads
  <2>6. Moves(t, r)
    BY <2>3, <2>4, <2>5
  <2> HIDE DEF Moves
  <2> QED BY <2>3, <2>6
<1>6. ASSUME NEW t \in Thread, Signal(t) \/ ThreadExits(t)  PROVE \E r \in State : Moves(t, r)
  <2>1. ASSUME NEW r \in State, thread' = [thread EXCEPT ![t] = r], thread[t].life \in {"running", "stepping"},
               r.traced = thread[t].traced,
               \/ r.life = "stopped" /\ r.status = "signal" /\ thread[t].traced
               \/ /\ r.life = "dead" /\ r.status \in {"none", "exit"}
                  /\ "thread exit" \in scenario.happens
        PROVE  \E v \in State : Moves(t, v)
    <3>1. thread'[t] = r /\ \A u \in Thread \ {t} : thread'[u] = thread[u]
      BY <2>1 DEF Typed, Threads
    <3>2. Moves(t, r)
      BY <2>1, <3>1
    <3> HIDE DEF Moves
    <3> QED BY <3>2
  <2> HIDE DEF Moves
  <2>2. CASE Signal(t)
    <3> DEFINE r == Stop(thread[t], "signal")
    <3>1. /\ thread' = [thread EXCEPT ![t] = r] /\ thread[t].life \in {"running", "stepping"}
          /\ thread[t].traced
      BY <2>2 DEF Signal, Executes, Typed, Threads
    <3>2. r \in State /\ r.traced = thread[t].traced /\ r.life = "stopped" /\ r.status = "signal"
      BY <1>1, <1>2, <1>3
    <3> HIDE DEF r
    <3> QED BY <2>1, <3>1, <3>2
  <2>3. CASE ThreadExits(t)
    <3> DEFINE r == Dead(thread[t])
    <3>1. /\ thread' = [thread EXCEPT ![t] = r] /\ thread[t].life \in {"running", "stepping"}
          /\ "thread exit" \in scenario.happens
      BY <2>3 DEF ThreadExits, Executes, Typed, Threads
    <3>2. r \in State /\ r.traced = thread[t].traced /\ r.life = "dead" /\ r.status \in {"none", "exit"}
      BY <1>1, <1>2, <1>3
    <3> HIDE DEF r
    <3> QED BY <2>1, <3>1, <3>2
  <2> QED BY <1>6, <2>2, <2>3
<1>7. ASSUME NEW t \in Thread, Clone(t)
      PROVE  \E c \in Thread : Births(t, c)
  <2>1. thread[t].life \in {"running", "stepping"}
    BY <1>7 DEF Clone, Executes
  <2>2. PICK c \in Thread, a \in Addr :
          /\ thread[c].life = "unborn"
          /\ LET r == [thread[t] EXCEPT !.pc = a]
                 u == [r EXCEPT !.life = "running"]
             IN  thread' = IF r.traced
                   THEN [thread EXCEPT ![t] = [Stop(r, "clone") EXCEPT !.child = c], ![c] = Stop(u, "stop")]
                   ELSE [thread EXCEPT ![t] = r, ![c] = u]
    BY <1>1, <1>7, PtraceAssumption DEF Clone, Typed, State, ThreadState
  <2> DEFINE r == [thread[t] EXCEPT !.pc = a]
             u == [r EXCEPT !.life = "running"]
             p == [Stop(r, "clone") EXCEPT !.child = c]
             q == Stop(u, "stop")
  <2>3. /\ r.traced = thread[t].traced /\ r.life = thread[t].life /\ r.status = thread[t].status
        /\ u.traced = thread[t].traced /\ u.life = "running" /\ u.status = thread[t].status
        /\ p.traced = thread[t].traced /\ p.life = "stopped" /\ p.status = "clone"
        /\ q.traced = thread[t].traced /\ q.life = "stopped" /\ q.status = "stop"
    BY <1>1 DEF Stop, State, ThreadState
  <2>4. t # c
    BY <2>1, <2>2
  <2>5. thread' = IF thread[t].traced THEN [thread EXCEPT ![t] = p, ![c] = q] ELSE [thread EXCEPT ![t] = r, ![c] = u]
    BY <2>2, <2>3
  <2> HIDE DEF r, u, p, q
  <2>6. /\ \A v \in Thread \ {t, c} : thread'[v] = thread[v]
        /\ thread'[t] = IF thread[t].traced THEN p ELSE r
        /\ thread'[c] = IF thread[t].traced THEN q ELSE u
    BY <2>4, <2>5 DEF Typed, Threads
  <2>7. thread'[t].traced = thread[t].traced /\ thread'[c].traced = thread[t].traced
    BY <2>3, <2>6
  <2>8. IF thread[t].traced
          THEN /\ thread'[t].life = "stopped" /\ thread'[t].status = "clone"
               /\ thread'[c].life = "stopped" /\ thread'[c].status = "stop"
          ELSE /\ thread'[t].life = thread[t].life /\ thread'[t].status = thread[t].status
               /\ thread'[c].life = "running" /\ thread'[c].status = thread[t].status
    <3>1. CASE thread[t].traced
      BY <2>3, <2>6, <3>1
    <3>2. CASE ~thread[t].traced
      BY <2>3, <2>6, <3>2
    <3> QED BY <3>1, <3>2
  <2>9. thread[c].life = "unborn"
    BY <2>2
  <2>10. Births(t, c)
    BY <2>1, <2>4, <2>6, <2>7, <2>8, <2>9
  <2> HIDE DEF Births
  <2> QED BY <2>10
<1>8. CASE ProcessExits
  <2>1. /\ \E t \in Thread : Alive(t)
        /\ \A t \in Thread : IF Alive(t) THEN thread'[t] = Dead(thread[t]) ELSE thread'[t] = thread[t]
    BY <1>8 DEF ProcessExits, Executes, Alive
  <2>2. \A t \in Thread : IF Alive(t) THEN /\ thread'[t].life = "dead" /\ thread'[t].status \in {"none", "exit"}
                                          /\ thread'[t].traced = thread[t].traced
                                     ELSE thread'[t] = thread[t]
    BY <1>1, <1>3, <2>1
  <2> QED BY <2>1, <2>2
<1> HIDE DEF Moves, Births
<1>9. (\E t \in Thread, r \in State : Moves(t, r)) \/ UNCHANGED thread \/ ProcessExits \/ \E t \in Thread : Clone(t)
  BY <1>4, <1>5, <1>6 DEF KernelNext
<1>10. \/ \E t \in Thread, r \in State : Moves(t, r)
       \/ UNCHANGED thread
       \/ \E t, c \in Thread : Births(t, c)
       \/ ProcessExits
  BY <1>7, <1>9
<1> QED BY <1>8, <1>10 DEF Moves, Births

LEMMA KernelFits ==
  ASSUME Typed, KernelNext, UNCHANGED trappedThreadIDs, Fits(thread, trappedThreadIDs)
  PROVE  Fits(thread, trappedThreadIDs)'
<1> DEFINE s == trappedThreadIDs
<1>1. s' = s /\ Ids(s)' = Ids(s) /\ IsInjective(s')
  BY DEF Fits
<1>2. CASE UNCHANGED thread
  BY <1>1, <1>2 DEF Fits, NobodyAlive
<1>3. \A t \in Thread : Alive(t) => \A u \in Thread : u \in Ids(s) => thread[u].life = "stopped" /\ thread[u].status = "none"
  BY DEF Fits, NobodyAlive, Alive
<1>4. ASSUME NEW t \in Thread, NEW r \in State,
             thread[t].life \in {"running", "stepping"},
             thread'[t] = r, \A u \in Thread \ {t} : thread'[u] = thread[u],
             r.traced = thread[t].traced,
             \/ r.life = thread[t].life /\ r.status = thread[t].status
             \/ r.life = "stopped" /\ r.status \in {"trap", "signal"}
             \/ r.life = "dead" /\ r.status \in {"none", "exit"}
      PROVE  Fits(thread, trappedThreadIDs)'
  <2>1. Alive(t) /\ t \notin Ids(s) /\ thread[t].status = "none"
    BY <1>3, <1>4 DEF Alive, Fits
  <2>2. \A u \in Thread : u \in Ids(s) => thread'[u].life = "stopped" /\ thread'[u].status = "none"
    BY <1>3, <1>4, <2>1
  <2> QED BY <1>1, <1>4, <2>1, <2>2 DEF Fits
<1>5. ASSUME NEW t \in Thread, NEW c \in Thread,
             t # c, thread[t].life \in {"running", "stepping"}, thread[c].life = "unborn",
             \A u \in Thread \ {t, c} : thread'[u] = thread[u],
             IF thread[t].traced
               THEN /\ thread'[t].life = "stopped" /\ thread'[t].status = "clone"
                    /\ thread'[c].life = "stopped" /\ thread'[c].status = "stop"
               ELSE /\ thread'[t].life = thread[t].life /\ thread'[t].status = thread[t].status
                    /\ thread'[c].life = "running" /\ thread'[c].status = thread[t].status
      PROVE  Fits(thread, trappedThreadIDs)'
  <2>1. Alive(t) /\ t \notin Ids(s) /\ c \notin Ids(s) /\ thread[t].status = "none"
    BY <1>3, <1>5 DEF Alive, Fits
  <2>2. \A u \in Thread : u \in Ids(s) => thread'[u].life = "stopped" /\ thread'[u].status = "none"
    BY <1>3, <1>5, <2>1
  <2> QED BY <1>1, <1>5, <2>1, <2>2 DEF Fits
<1>6. CASE /\ \E t \in Thread : Alive(t)
           /\ \A t \in Thread : IF Alive(t) THEN /\ thread'[t].life = "dead" /\ thread'[t].status \in {"none", "exit"}
                                                 /\ thread'[t].traced = thread[t].traced
                                            ELSE thread'[t] = thread[t]
  <2>1. \A t \in Thread : thread'[t].life \in {"unborn", "dead"}
    <3>1. \A t \in Thread : thread[t].life \in Life
      BY DEF Typed, Threads, State, ThreadState
    <3> QED BY <1>6, <3>1 DEF Alive, Life
  <2>2. \A t \in Thread : t \in Ids(s) => thread'[t].life = "dead"
    BY <1>3, <1>6 DEF Alive
  <2> QED BY <1>1, <1>6, <2>1, <2>2 DEF Fits, NobodyAlive
<1> QED BY <1>2, <1>4, <1>5, <1>6, KernelMoves

LEMMA KernelArriving ==
  ASSUME Typed, KernelNext, UNCHANGED breakpoints, Arriving, scenario' = scenario
  PROVE  Arriving'
<1>1. CASE UNCHANGED thread
  BY <1>1 DEF Arriving, NobodyAlive
<1>2. \A t \in Thread : Alive(t) => \A u \in Thread : thread[u].traced => thread[u].life = "stopped"
  BY DEF Arriving, NobodyAlive, Alive
<1>3. \A t \in Thread : Alive(t) => scenario.started # {}
  BY DEF Arriving, Alive
<1>4. ASSUME NEW t \in Thread, NEW r \in State,
             thread[t].life \in {"running", "stepping"},
             thread'[t] = r, \A u \in Thread \ {t} : thread'[u] = thread[u],
             r.traced = thread[t].traced,
             \/ r.life = thread[t].life /\ r.status = thread[t].status
             \/ r.life = "stopped" /\ r.status \in {"trap", "signal"} /\ (thread[t].life = "stepping" \/ thread[t].traced)
             \/ r.life = "dead" /\ r.status \in {"none", "exit"}
      PROVE  Arriving'
  <2>1. Alive(t) /\ ~thread[t].traced /\ thread[t].life = "running"
    BY <1>2, <1>4 DEF Alive, Arriving
  <2>2. \A u \in Thread : thread'[u].traced => thread'[u].life = "stopped"
    BY <1>2, <1>4, <2>1
  <2> QED BY <1>3, <1>4, <2>1, <2>2 DEF Arriving
<1>5. ASSUME NEW t \in Thread, NEW c \in Thread,
             t # c, thread[t].life \in {"running", "stepping"},
             \A u \in Thread \ {t, c} : thread'[u] = thread[u],
             thread'[t].traced = thread[t].traced, thread'[c].traced = thread[t].traced,
             ~thread[t].traced =>
               /\ thread'[t].life = thread[t].life /\ thread'[t].status = thread[t].status
               /\ thread'[c].life = "running" /\ thread'[c].status = thread[t].status
      PROVE  Arriving'
  <2>1. Alive(t) /\ ~thread[t].traced /\ thread[t].life = "running"
    BY <1>2, <1>5 DEF Alive, Arriving
  <2>2. \A u \in Thread : thread'[u].traced => thread'[u].life = "stopped"
    BY <1>2, <1>5, <2>1
  <2> QED BY <1>3, <1>5, <2>1, <2>2 DEF Arriving
<1>6. CASE /\ \E t \in Thread : Alive(t)
           /\ \A t \in Thread : IF Alive(t) THEN /\ thread'[t].life = "dead" /\ thread'[t].status \in {"none", "exit"}
                                                 /\ thread'[t].traced = thread[t].traced
                                            ELSE thread'[t] = thread[t]
  <2>1. \A t \in Thread : thread'[t].life \in {"unborn", "dead"}
    <3>1. \A t \in Thread : thread[t].life \in Life
      BY DEF Typed, Threads, State, ThreadState
    <3> QED BY <1>6, <3>1 DEF Alive, Life
  <2>2. \A t \in Thread : thread'[t].traced => thread'[t].life = "dead"
    BY <1>2, <1>6 DEF Alive
  <2> QED BY <1>3, <1>6, <2>1, <2>2 DEF Arriving, NobodyAlive
<1> QED BY <1>1, <1>4, <1>5, <1>6, KernelMoves

\* continueAndWait takes all from the list, or none of them runs.
LEMMA ContinueFits ==
  ASSUME NEW th \in Threads, NEW s \in Seq(Thread), Fits(th, s), ContinueFrom(th, s)
  PROVE  Fits(thread, trappedThreadIDs)'
<1> DEFINE bad == {i \in DOMAIN s : th[s[i]].life # "stopped"}
<1>1. Ids(s) \subseteq Thread
  BY DEF Ids
<1>2. CASE bad = {}
  <2> DEFINE T == Ids(s)
  <2>1. thread' = Continued(th, T) /\ trappedThreadIDs' = <<>>
    BY <1>2 DEF ContinueFrom
  <2> HIDE DEF T
  <2>2. \A u \in Thread : /\ u \in T => thread'[u].life = "running" /\ thread'[u].status = "none"
                          /\ u \notin T => thread'[u] = th[u]
    BY <2>1, ContinuedThreads
  <2>3. IsInjective(<<>>) /\ Ids(<<>>) = {}
    BY DEF IsInjective, Ids
  <2> QED BY <2>1, <2>2, <2>3 DEF Fits, T
<1>3. CASE bad # {}
  <2>1. PICK T \in SUBSET Ids(s) : (\A u \in T : th[u].life = "stopped") /\ thread' = Continued(th, T)
    BY ContinueFromDoes
  <2>2. trappedThreadIDs' = s
    BY <1>3 DEF ContinueFrom
  <2>3. NobodyAlive(th)
    BY <1>1, <1>3 DEF Fits, Ids
  <2>4. \A u \in Thread : u \notin T
    BY <2>1, <2>3 DEF NobodyAlive
  <2>5. \A u \in Thread : thread'[u] = th[u]
    BY <2>1, <2>4, ContinuedThreads
  <2> QED BY <2>2, <2>3, <2>5 DEF Fits, NobodyAlive
<1> QED BY <1>2, <1>3

\* A thread that is waited for goes on the list, unless it has exited.
LEMMA WaitedFits ==
  ASSUME Typed, NEW t \in Thread, thread[t].status # "none", Fits(thread, trappedThreadIDs)
  PROVE  /\ thread[t].status = "exit" => Fits(Waited(thread, t), trappedThreadIDs)
         /\ thread[t].status # "exit" => Fits(Waited(thread, t), Append(trappedThreadIDs, t))
<1> DEFINE w == Waited(thread, t)
           s == trappedThreadIDs
           a == Append(s, t)
<1>1. /\ w[t].status = "none" /\ w[t].life = thread[t].life
      /\ \A u \in Thread \ {t} : w[u] = thread[u]
  BY WaitedThreads
<1>2. \A u \in Thread : w[u].life = thread[u].life
  BY <1>1
<1>3. NobodyAlive(thread) => NobodyAlive(w)
  BY <1>2 DEF NobodyAlive
<1>4. Ids(a) = Ids(s) \cup {t} /\ (IsInjective(s) /\ t \notin Ids(s) => IsInjective(a))
  BY AppendLists DEF Typed
<1> HIDE DEF w, s, a
<1>5. CASE thread[t].status = "exit"
  <2>1. Fits(w, s)
    BY <1>1, <1>3, <1>5 DEF Fits, s
  <2> QED BY <1>5, <2>1 DEF w, s
<1>6. CASE thread[t].status # "exit"
  <2>1. thread[t].life = "stopped" /\ t \notin Ids(s)
    BY <1>6 DEF Fits, s
  <2>2. Fits(w, a)
    BY <1>1, <1>3, <1>4, <1>6, <2>1 DEF Fits, s
  <2> QED BY <1>6, <2>2 DEF w, s, a
<1> QED BY <1>5, <1>6

LEMMA ClientFits ==
  ASSUME Typed, Wait, Fits(thread, trappedThreadIDs)
  PROVE  Fits(thread, trappedThreadIDs)'
<1>1. \A t \in Thread : Waited(thread, t) \in Threads /\ Append(trappedThreadIDs, t) \in Seq(Thread)
  BY ThreadTypes, AppendLists DEF Typed
<1>2. ASSUME NEW t \in Thread, WaitTrapped(t) \/ WaitCloned(t)  PROVE Fits(thread, trappedThreadIDs)'
  <2>1. /\ thread' = Waited(thread, t) /\ trappedThreadIDs' = Append(trappedThreadIDs, t)
        /\ thread[t].status \in {"trap", "clone"}
    BY <1>2 DEF WaitTrapped, WaitCloned
  <2> QED BY <2>1, WaitedFits
<1>3. ASSUME NEW t \in Thread, WaitExited(t)  PROVE Fits(thread, trappedThreadIDs)'
  <2>1. /\ thread' = Waited(thread, t) /\ trappedThreadIDs' = trappedThreadIDs /\ thread[t].status = "exit"
    BY <1>3 DEF WaitExited
  <2> QED BY <2>1, WaitedFits
<1>4. ASSUME NEW t \in Thread, WaitSignalled(t)  PROVE Fits(thread, trappedThreadIDs)'
  <2>1. /\ ContinueFrom(Waited(thread, t), Append(trappedThreadIDs, t))
        /\ thread[t].status \in {"signal", "stop"}
    BY <1>4 DEF WaitSignalled
  <2> QED BY <1>1, <2>1, WaitedFits, ContinueFits
<1>5. CASE WaitChild
  <2> DEFINE c == waiting.child
             w == Waited(thread, c)
             C == {c}
             th == Continued(w, C)
  <2>1. c \in Thread /\ thread[c].status # "none"
    BY <1>5 DEF WaitChild, Typed, Waits
  <2>2. CASE ~Stopped(c)
    <3>1. thread' = w /\ trappedThreadIDs' = trappedThreadIDs
      BY <1>5, <2>2 DEF WaitChild
    <3>2. thread[c].status = "exit"
      <4>1. thread[c].life = "dead" /\ thread[c].status \in {"none", "exit"}
        BY <2>1, <2>2 DEF Fits, Stopped
      <4> QED BY <2>1, <4>1
    <3> QED BY <2>1, <3>1, <3>2, WaitedFits
  <2>3. CASE Stopped(c)
    <3>1. ContinueFrom(th, trappedThreadIDs)
      BY <1>5, <2>3 DEF WaitChild
    <3>2. w \in Threads /\ w[c].life = "stopped" /\ \A u \in Thread \ {c} : w[u] = thread[u]
      BY <2>1, <2>3, WaitedThreads DEF Stopped
    <3>3. c \notin Ids(trappedThreadIDs) /\ ~NobodyAlive(thread)
      BY <2>1, <2>3 DEF Fits, Stopped, NobodyAlive
    <3>4. c \in C /\ \A u \in Thread \ {c} : u \notin C
      OBVIOUS
    <3> HIDE DEF C, c, w
    <3>5. /\ th \in Threads /\ th[c].life = "running" /\ th[c].status = "none"
          /\ \A u \in Thread \ {c} : th[u] = thread[u]
      BY <2>1, <3>2, <3>4, ThreadTypes, ContinuedThreads
    <3> HIDE DEF th
    <3>6. Fits(th, trappedThreadIDs)
      BY <2>1, <3>3, <3>5 DEF Fits
    <3> QED BY <3>1, <3>5, <3>6, ContinueFits DEF Typed
  <2> QED BY <2>2, <2>3
<1> QED BY <1>2, <1>3, <1>4, <1>5 DEF Wait

LEMMA SingleStepFits ==
  ASSUME Typed, NEW a \in Addr, NEW t \in Thread, SingleStep(t, a), handling'.at # "ending",
         Fits(thread, trappedThreadIDs)
  PROVE  Fits(thread, trappedThreadIDs)'
<1>1. Stopped(t) /\ StepAndWait([thread EXCEPT ![t].past = FALSE], t)
  BY DEF SingleStep, GoTo, Typed
<1> DEFINE s == trappedThreadIDs
           q == RemoveFirst(s, t)
<1>2. thread' = [thread EXCEPT ![t] = [@ EXCEPT !.past = FALSE, !.life = "stepping", !.status = "none"]]
  BY <1>1 DEF StepAndWait, Typed, Threads, State, ThreadState
<1>3. /\ thread'[t].life = "stepping" /\ thread'[t].status = "none"
      /\ \A u \in Thread \ {t} : thread'[u] = thread[u]
  BY <1>2 DEF Typed, Threads, State, ThreadState
<1>4. trappedThreadIDs' = q
  BY <1>1 DEF StepAndWait
<1>5. IsInjective(q) /\ t \notin Ids(q) /\ Ids(q) \subseteq Ids(s) /\ Ids(s) \subseteq Ids(q) \cup {t}
  BY RemoveLists DEF Typed, Fits
<1>6. ~NobodyAlive(thread)
  BY <1>1 DEF Stopped, NobodyAlive
<1> HIDE DEF q
<1> QED BY <1>3, <1>4, <1>5, <1>6 DEF Fits

LEMMA AttachLists ==
  ASSUME Typed, Arriving, Attach, scenario' = scenario
  PROVE  IF trappedThreadIDs' = <<>> THEN Arriving' ELSE Fits(thread, trappedThreadIDs)'
<1>1. breakpoints' = breakpoints /\ trappedThreadIDs = <<>>
  BY DEF Attach
<1>2. \A r \in State : LET q == [r EXCEPT !.life = "stopped", !.traced = TRUE]
                      IN  q.life = "stopped" /\ q.traced /\ q.status = r.status
  BY DEF State, ThreadState
<1>3. ASSUME NEW t \in Thread, thread' = [thread EXCEPT ![t].life = "stopped", ![t].traced = TRUE]
      PROVE  /\ thread'[t].life = "stopped" /\ thread'[t].traced /\ thread'[t].status = thread[t].status
             /\ \A u \in Thread \ {t} : thread'[u] = thread[u]
  <2>1. thread' = [thread EXCEPT ![t] = [@ EXCEPT !.life = "stopped", !.traced = TRUE]]
    BY <1>3 DEF Typed, Threads
  <2> QED BY <1>2, <2>1 DEF Typed, Threads
<1>4. CASE scenario.started = {} /\ LaunchProcess
  <2>1. /\ thread' = [thread EXCEPT ![Leader].life = "stopped", ![Leader].traced = TRUE] /\ Leader \in Thread
        /\ trappedThreadIDs' = <<Leader>>
    BY <1>4, PtraceAssumption DEF LaunchProcess
  <2>2. IsInjective(<<Leader>>) /\ Ids(<<Leader>>) = {Leader} /\ <<Leader>> # <<>>
    BY DEF IsInjective, Ids
  <2>3. \A u \in Thread : thread[u].life = "unborn" /\ thread[u].status = "none"
    BY <1>4 DEF Arriving
  <2>4. /\ thread'[Leader].life = "stopped" /\ thread'[Leader].status = "none"
        /\ \A u \in Thread \ {Leader} : thread'[u] = thread[u]
    BY <1>3, <2>1, <2>3
  <2> QED BY <2>1, <2>2, <2>3, <2>4 DEF Fits
<1>5. CASE scenario.started # {} /\ ListMembers
  <2>1. UNCHANGED <<thread, trappedThreadIDs, breakpoints, scenario>>
    BY <1>1, <1>5 DEF ListMembers, kernel
  <2> QED BY <1>1, <2>1 DEF Arriving, NobodyAlive
<1>6. ASSUME scenario.started # {}, NEW t \in Thread, AttachToMember(t)
      PROVE  IF trappedThreadIDs' = <<>> THEN Arriving' ELSE Fits(thread, trappedThreadIDs)'
  <2>1. /\ Alive(t) /\ thread' = [thread EXCEPT ![t].life = "stopped", ![t].traced = TRUE]
        /\ \/ UNCHANGED trappedThreadIDs
           \/ trappedThreadIDs' = SetToSeq({u \in Thread : thread'[u].traced})
    BY <1>6 DEF AttachToMember
  <2>2. /\ thread'[t].life = "stopped" /\ thread'[t].traced /\ thread'[t].status = "none"
        /\ \A u \in Thread \ {t} : thread'[u] = thread[u]
    BY <1>3, <2>1 DEF Arriving, Alive
  <2>3. \A u \in Thread : thread'[u].traced => thread'[u].life = "stopped"
    BY <2>1, <2>2 DEF Arriving, NobodyAlive, Alive
  <2>4. CASE UNCHANGED trappedThreadIDs
    BY <1>1, <1>6, <2>2, <2>3, <2>4 DEF Arriving
  <2>5. CASE trappedThreadIDs' = SetToSeq({u \in Thread : thread'[u].traced})
    <3> DEFINE S == {u \in Thread : thread'[u].traced}
    <3>1. t \in S /\ S \in SUBSET Thread
      BY <2>2
    <3>2. \A u \in Thread : u \in S <=> thread'[u].traced
      OBVIOUS
    <3> HIDE DEF S
    <3>3. IsInjective(trappedThreadIDs') /\ Ids(trappedThreadIDs') = S
      BY <2>5, <3>1, SetToSeqLists DEF S
    <3>4. trappedThreadIDs' # <<>>
      BY <3>1, <3>3 DEF Ids
    <3>5. \A u \in Thread : /\ thread'[u].status \in {"none", "exit"}
                            /\ thread'[u].status = "exit" => thread'[u].life = "dead"
      BY <2>2 DEF Arriving
    <3> QED BY <2>3, <3>2, <3>3, <3>4, <3>5 DEF Fits
  <2> QED BY <2>1, <2>4, <2>5
<1> QED BY <1>4, <1>5, <1>6 DEF Attach

LEMMA ListsStay ==
  ASSUME Typed, Lists, [ProcessNext]_processVars
  PROVE  Lists'
<1> DEFINE Listing == Tracing \/ (handling.at = "attaching" /\ trappedThreadIDs # <<>>)
           Fit == Fits(thread, trappedThreadIDs)
<1>1. UNCHANGED scenario
  BY DEF ProcessNext, processVars
<1>2. ASSUME UNCHANGED <<thread, trappedThreadIDs>>  PROVE Fit => Fit'
  BY <1>2 DEF Fits, NobodyAlive
<1>3. ASSUME handling'.at # "attaching", Tracing' => Listing /\ (Fit => Fit')  PROVE Lists'
  BY <1>3 DEF Lists, Tracing
<1>4. CASE UNCHANGED processVars
  <2>1. UNCHANGED <<thread, trappedThreadIDs, waiting, handling, breakpoints>>
    BY <1>4 DEF processVars, kernel, client
  <2> QED BY <1>1, <1>2, <2>1 DEF Lists, Arriving, NobodyAlive, Tracing
<1>5. CASE TraceeMoves
  <2>1. KernelNext /\ UNCHANGED <<trappedThreadIDs, waiting, handling, breakpoints>>
    BY <1>5 DEF TraceeMoves, client
  <2> QED BY <1>1, <2>1, KernelFits, KernelArriving DEF Lists, Tracing
<1>6. CASE ClientWaits
  <2>1. Wait /\ UNCHANGED handling
    BY <1>6 DEF ClientWaits
  <2>2. waiting # NotWaiting
    BY <2>1, WaitRecords DEF Wait, WaitTrapped, WaitSignalled, WaitExited, WaitCloned, WaitChild, Wait4
  <2>3. handling.at # "attaching"
    BY <2>2 DEF Lists
  <2> QED BY <1>3, <2>1, <2>3, ClientFits DEF Tracing
<1>7. CASE Attach
  <2>1. handling.at = "attaching" /\ trappedThreadIDs = <<>> /\ UNCHANGED <<handling, waiting>>
    BY <1>7 DEF Attach, LaunchProcess, ListMembers, AttachToMember
  <2> QED BY <1>1, <1>7, <2>1, AttachLists DEF Lists, Tracing
<1>8. CASE NewProcess
  <2>1. Listing /\ handling'.at = "resuming" /\ UNCHANGED <<thread, trappedThreadIDs>>
    BY <1>8 DEF NewProcess, GoTo, Typed, kernel, client
  <2> QED BY <1>2, <1>3, <2>1
<1>9. CASE FailToAttach \/ NewProcessFails \/ Interrupted \/ Detach
  <2>1. handling'.at \in {"failed", "detached", "ending"}
    BY <1>9 DEF FailToAttach, NewProcessFails, Interrupted, Detach, GoTo, Typed
  <2> QED BY <1>3, <2>1 DEF Tracing
<1>10. CASE Resume
  <2>1. Tracing /\ handling'.at = "waiting" /\ ContinueFrom(thread, trappedThreadIDs)
    BY <1>10 DEF Resume, ContinueAndWait, Tracing, Typed
  <2> QED BY <1>3, <2>1, ContinueFits DEF Typed
<1>11. CASE Returns
  <2>1. /\ handling.at = "waiting" /\ handling'.at \in {"trapped", "ending"}
        /\ UNCHANGED <<thread, trappedThreadIDs>>
    BY <1>11 DEF Returns, Handling, Typed, kernel, client
  <2> QED BY <1>2, <1>3, <2>1 DEF Tracing
<1>12. CASE SingleStepReturns
  <2>1. /\ handling.at = "stepping" /\ handling'.at \in {"resuming", "ending"}
        /\ UNCHANGED <<thread, trappedThreadIDs>>
    BY <1>12 DEF SingleStepReturns, GoTo, Typed, client
  <2> QED BY <1>2, <1>3, <2>1 DEF Tracing
<1>13. ASSUME NEW a \in Addr, SetBreakpoint(a) \/ ClearBreakpoint(a)  PROVE Lists'
  <2>1. /\ handling.at \in {"resuming", "trapped"} /\ handling'.at \in {handling.at, "ending"}
        /\ UNCHANGED <<thread, trappedThreadIDs>>
    BY <1>13 DEF SetBreakpoint, ClearBreakpoint, Handles, GoTo, Typed, client
  <2> QED BY <1>2, <1>3, <2>1 DEF Tracing
<1>14. ASSUME NEW a \in Addr, NEW t \in Thread, SingleStep(t, a)  PROVE Lists'
  <2>1. handling.at \in {"resuming", "trapped"} /\ handling'.at \in {"stepping", "ending"}
    BY <1>14 DEF SingleStep, Handles, Handling, GoTo, Typed
  <2> QED BY <1>3, <1>14, <2>1, SingleStepFits DEF Tracing
<1> QED BY <1>4, <1>5, <1>6, <1>7, <1>8, <1>9, <1>10, <1>11, <1>12, <1>13, <1>14
        DEF ProcessNext, ProcessStep

LEMMA ListsAtFirst ==
  ASSUME ProcessInit
  PROVE  Lists
<1>1. /\ handling.at = "attaching" /\ trappedThreadIDs = <<>> /\ waiting = NotWaiting /\ breakpoints = {}
  BY DEF ProcessInit, ClientInit, Handling
<1>2. \A t \in Thread : /\ thread[t].life \in {"unborn", "running"} /\ thread[t].status = "none" /\ ~thread[t].traced
                        /\ thread[t].life = "running" => t \in scenario.started
  BY DEF ProcessInit, KernelInit, Unborn
<1> QED BY <1>1, <1>2 DEF Lists, Arriving, Tracing

\* A resume reaches each stopped thread once: the list neither names a thread twice
\* nor leaves one out, whatever stops, is created or exits while the client waits,
\* steps or attaches (trappedThreadIDs).
THEOREM EachIsContinuedCorrect == ProcessSpec => []EachIsContinued
<1>1. ProcessInit => Typed /\ TextFollows /\ Lists
  BY ListsAtFirst, TypedAtFirst
<1>2. Lists => EachIsContinued
  <2> SUFFICES ASSUME Lists, Tracing
               PROVE  EachIsContinued
    BY DEF EachIsContinued
  <2>1. Fits(thread, trappedThreadIDs)
    BY DEF Lists
  <2>2. ASSUME NEW t \in Thread, Alive(t), thread[t].traced
        PROVE  t \in Ids(trappedThreadIDs) <=> Stopped(t) /\ thread[t].status = "none"
    BY <2>1, <2>2 DEF Fits, Alive, Stopped
  <2> QED BY <2>1, <2>2 DEF EachIsContinued, Fits
<1> QED BY <1>1, <1>2, TextFollowsStays, TypedStays, ListsStay, PTL DEF ProcessSpec

-----------------------------------------------------------------------------
(* What Detach leaves.                                                     *)

\* All threads die together, as long as none exits alone.
DieTogether(th) == \A t \in Thread : th[t].life = "dead" => NobodyAlive(th)

\* While the client is not in a call there is a stopped thread to write through, or
\* nobody is left; traps are at breakpoints only.
Writable ==
  /\ handling.at \notin {"waiting", "stepping"} => waiting = NotWaiting
  /\ handling.at = "attaching" => breakpoints = {}
  /\ handling.at = "ending" => /\ Fits(thread, trappedThreadIDs)
                               /\ \A a \in Addr : text[a] = "trap" => a \in breakpoints
  /\ "thread exit" \notin scenario.happens =>
       /\ DieTogether(thread)
       /\ (Tracing \/ handling.at = "ending") /\ waiting = NotWaiting =>
            trappedThreadIDs # <<>> \/ NobodyAlive(thread)

\* All deaths are those of the process.
LEMMA KernelDies ==
  ASSUME Typed, KernelNext, "thread exit" \notin scenario.happens
  PROVE  /\ NobodyAlive(thread) => NobodyAlive(thread)'
         /\ (\A t \in Thread : thread[t].life = "dead" => NobodyAlive(thread))
              => \A t \in Thread : thread'[t].life = "dead" => NobodyAlive(thread)'
<1>1. \A t \in Thread : thread[t].life \in Life
  BY DEF Typed, Threads, State, ThreadState
<1>2. ~NobodyAlive(thread)
  BY DEF KernelNext, HitTrap, Execute, Clone, Signal, ThreadExits, ProcessExits, Executes, NobodyAlive
<1>3. NobodyAlive(thread)' \/ \A t \in Thread : thread'[t].life = "dead" => thread[t].life = "dead"
  <2>1. CASE /\ \E t \in Thread : Alive(t)
             /\ \A t \in Thread : IF Alive(t) THEN /\ thread'[t].life = "dead" /\ thread'[t].status \in {"none", "exit"}
                                                   /\ thread'[t].traced = thread[t].traced
                                              ELSE thread'[t] = thread[t]
    BY <1>1, <2>1 DEF Alive, NobodyAlive, Life
  <2>2. CASE UNCHANGED thread
    BY <2>2
  <2>3. ASSUME NEW t \in Thread, thread'[t].life # "dead", \A u \in Thread \ {t} : thread'[u] = thread[u]
        PROVE  \A u \in Thread : thread'[u].life = "dead" => thread[u].life = "dead"
    BY <2>3
  <2>4. ASSUME NEW t \in Thread, NEW c \in Thread, thread'[t].life # "dead", thread'[c].life # "dead",
               \A u \in Thread \ {t, c} : thread'[u] = thread[u]
        PROVE  \A u \in Thread : thread'[u].life = "dead" => thread[u].life = "dead"
    BY <2>4
  <2> QED BY <2>1, <2>2, <2>3, <2>4, KernelMoves
<1> QED BY <1>2, <1>3 DEF DieTogether

\* th2 differs from th in no birth and no death.
KeepsLives(th, th2) ==
  \A t \in Thread : /\ th2[t].life = "dead" <=> th[t].life = "dead"
                    /\ th2[t].life = "unborn" <=> th[t].life = "unborn"

LEMMA LivesKept ==
  ASSUME NEW th, NEW th2, KeepsLives(th, th2)
  PROVE  /\ NobodyAlive(th2) <=> NobodyAlive(th)
         /\ DieTogether(th) => DieTogether(th2)
BY DEF KeepsLives, NobodyAlive, DieTogether

LEMMA OneKept ==
  ASSUME NEW t \in Thread, thread[t].life \notin {"unborn", "dead"}, thread'[t].life \notin {"unborn", "dead"},
         \A u \in Thread \ {t} : thread'[u] = thread[u]
  PROVE  KeepsLives(thread, thread')
BY DEF KeepsLives

\* What is continued was stopped; the list is not empty if that fails.
LEMMA ContinueKeepsLives ==
  ASSUME NEW th \in Threads, NEW s \in Seq(Thread), ContinueFrom(th, s)
  PROVE  KeepsLives(th, thread') /\ (waiting' = NotWaiting => trappedThreadIDs' # <<>>)
<1>1. PICK T \in SUBSET Ids(s) : (\A u \in T : th[u].life = "stopped") /\ thread' = Continued(th, T)
  BY ContinueFromDoes
<1>2. \A u \in Thread : /\ u \in T => thread'[u].life = "running" /\ th[u].life = "stopped"
                        /\ u \notin T => thread'[u] = th[u]
  BY <1>1, ContinuedThreads
<1>3. KeepsLives(th, thread')
  BY <1>2 DEF KeepsLives
<1>4. ASSUME waiting' = NotWaiting  PROVE trappedThreadIDs' # <<>>
  <2>1. {i \in DOMAIN s : th[s[i]].life # "stopped"} # {}
    BY <1>4, WaitRecords DEF ContinueFrom
  <2>2. trappedThreadIDs' = s
    BY <2>1 DEF ContinueFrom
  <2> QED BY <2>1, <2>2
<1> QED BY <1>3, <1>4

LEMMA WaitKeepsLives ==
  ASSUME Typed, Wait, Fits(thread, trappedThreadIDs)
  PROVE  /\ KeepsLives(thread, thread')
         /\ DieTogether(thread) /\ waiting' = NotWaiting => trappedThreadIDs' # <<>> \/ NobodyAlive(thread)
<1>1. \A t \in Thread : /\ KeepsLives(thread, Waited(thread, t)) /\ Waited(thread, t) \in Threads
                        /\ Append(trappedThreadIDs, t) \in Seq(Thread) /\ Append(trappedThreadIDs, t) # <<>>
  BY WaitedThreads, AppendLists DEF KeepsLives, Typed
<1>2. ASSUME NEW t \in Thread, WaitTrapped(t) \/ WaitCloned(t)
      PROVE  KeepsLives(thread, thread') /\ trappedThreadIDs' # <<>>
  <2>1. thread' = Waited(thread, t) /\ trappedThreadIDs' = Append(trappedThreadIDs, t)
    BY <1>2 DEF WaitTrapped, WaitCloned
  <2> QED BY <1>1, <2>1
<1>3. ASSUME NEW t \in Thread, WaitExited(t)
      PROVE  KeepsLives(thread, thread') /\ (DieTogether(thread) => NobodyAlive(thread))
  <2>1. thread' = Waited(thread, t) /\ thread[t].status = "exit"
    BY <1>3 DEF WaitExited
  <2> QED BY <1>1, <2>1 DEF Fits, DieTogether
<1>4. ASSUME NEW t \in Thread, WaitSignalled(t)
      PROVE  KeepsLives(thread, thread') /\ (waiting' = NotWaiting => trappedThreadIDs' # <<>>)
  <2>1. ContinueFrom(Waited(thread, t), Append(trappedThreadIDs, t))
    BY <1>4 DEF WaitSignalled
  <2>2. KeepsLives(Waited(thread, t), thread') /\ (waiting' = NotWaiting => trappedThreadIDs' # <<>>)
    BY <1>1, <2>1, ContinueKeepsLives
  <2> QED BY <1>1, <2>2 DEF KeepsLives
<1>5. CASE WaitChild
  <2> DEFINE c == waiting.child
             w == Waited(thread, c)
             C == {c}
             th == Continued(w, C)
  <2>1. c \in Thread /\ thread[c].status # "none"
    BY <1>5 DEF WaitChild, Typed, Waits
  <2>2. CASE ~Stopped(c)
    <3>1. thread' = w
      BY <1>5, <2>2 DEF WaitChild
    <3>2. thread[c].life = "dead"
      BY <2>1, <2>2 DEF Fits, Stopped
    <3> QED BY <1>1, <2>1, <3>1, <3>2 DEF DieTogether
  <2>3. CASE Stopped(c)
    <3>1. ContinueFrom(th, trappedThreadIDs)
      BY <1>5, <2>3 DEF WaitChild
    <3>2. w \in Threads /\ w[c].life = "stopped" /\ \A u \in Thread \ {c} : w[u] = thread[u]
      BY <2>1, <2>3, WaitedThreads DEF Stopped
    <3>3. thread[c].life = "stopped"
      BY <2>3 DEF Stopped
    <3>4. c \in C /\ \A u \in Thread \ {c} : u \notin C
      OBVIOUS
    <3> HIDE DEF C, c, w
    <3>5. th \in Threads /\ th[c].life = "running" /\ \A u \in Thread \ {c} : th[u] = thread[u]
      BY <2>1, <3>2, <3>4, ThreadTypes, ContinuedThreads
    <3> HIDE DEF th
    <3>6. KeepsLives(thread, th)
      BY <2>1, <3>3, <3>5 DEF KeepsLives
    <3>7. KeepsLives(th, thread') /\ (waiting' = NotWaiting => trappedThreadIDs' # <<>>)
      BY <3>1, <3>5, ContinueKeepsLives DEF Typed
    <3> QED BY <3>6, <3>7 DEF KeepsLives
  <2> QED BY <2>2, <2>3
<1> QED BY <1>2, <1>3, <1>4, <1>5 DEF Wait

LEMMA AttachKeepsTogether ==
  ASSUME Typed, Arriving, Attach, DieTogether(thread)
  PROVE  DieTogether(thread')
<1>1. \A r \in State : [r EXCEPT !.life = "stopped", !.traced = TRUE].life = "stopped"
  BY DEF State, ThreadState
<1>2. ASSUME NEW t \in Thread, thread' = [thread EXCEPT ![t].life = "stopped", ![t].traced = TRUE]
      PROVE  thread'[t].life = "stopped" /\ \A u \in Thread \ {t} : thread'[u] = thread[u]
  <2>1. thread' = [thread EXCEPT ![t] = [@ EXCEPT !.life = "stopped", !.traced = TRUE]]
    BY <1>2 DEF Typed, Threads
  <2> QED BY <1>1, <2>1 DEF Typed, Threads
<1>3. CASE scenario.started = {} /\ LaunchProcess
  <2>1. Leader \in Thread /\ thread'[Leader].life = "stopped" /\ \A u \in Thread \ {Leader} : thread'[u] = thread[u]
    BY <1>2, <1>3, PtraceAssumption DEF LaunchProcess
  <2>2. \A u \in Thread : thread[u].life = "unborn"
    BY <1>3 DEF Arriving
  <2> QED BY <2>1, <2>2 DEF DieTogether
<1>4. CASE ListMembers
  BY <1>4 DEF ListMembers, kernel
<1>5. ASSUME NEW t \in Thread, AttachToMember(t)  PROVE DieTogether(thread')
  <2>1. thread'[t].life = "stopped" /\ \A u \in Thread \ {t} : thread'[u] = thread[u]
    BY <1>2, <1>5 DEF AttachToMember
  <2>2. thread[t].life \notin {"unborn", "dead"}
    BY <1>5 DEF AttachToMember, Alive
  <2> QED BY <2>1, <2>2, OneKept, LivesKept
<1> QED BY <1>3, <1>4, <1>5 DEF Attach

\* Detaching ends all threads or none.
LEMMA DetachKeepsTogether ==
  ASSUME Typed, DetachProcess
  PROVE  /\ NobodyAlive(thread) => NobodyAlive(thread)'
         /\ DieTogether(thread) => DieTogether(thread')
<1>1. \A r \in State : /\ [r EXCEPT !.life = "running", !.traced = FALSE, !.status = "none"].life = "running"
                       /\ [r EXCEPT !.life = "dead", !.status = "none"].life = "dead"
  BY DEF State, ThreadState
<1>2. \A t \in Thread : thread[t] \in State /\ thread[t].life \in Life
  BY DEF Typed, Threads, State, ThreadState
<1>3. CASE killOnDetach
  <2>1. \A t \in Thread : thread'[t] = IF Alive(t) THEN [thread[t] EXCEPT !.life = "dead", !.status = "none"]
                                       ELSE thread[t]
    BY <1>3 DEF DetachProcess, KilledThreads
  <2>2. \A t \in Thread : thread'[t].life \in {"unborn", "dead"}
    <3> TAKE t \in Thread
    <3> DEFINE q == [thread[t] EXCEPT !.life = "dead", !.status = "none"]
    <3>1. q.life = "dead" /\ thread'[t] = IF Alive(t) THEN q ELSE thread[t]
      BY <1>1, <1>2, <2>1
    <3> HIDE DEF q
    <3> QED BY <1>2, <3>1 DEF Alive, Life
  <2> QED BY <2>2 DEF NobodyAlive, DieTogether
<1>4. CASE ~killOnDetach
  <2>1. \A t \in Thread :
          thread'[t] = IF t \in tracingThreadIDs /\ Stopped(t)
                         THEN [thread[t] EXCEPT !.life = "running", !.traced = FALSE, !.status = "none"]
                         ELSE thread[t]
    BY <1>4 DEF DetachProcess, DetachedThreads
  <2>2. \A t \in Thread : thread'[t] = thread[t] \/ (thread'[t].life = "running" /\ thread[t].life = "stopped")
    <3> TAKE t \in Thread
    <3> DEFINE q == [thread[t] EXCEPT !.life = "running", !.traced = FALSE, !.status = "none"]
    <3>1. q.life = "running" /\ thread'[t] = IF t \in tracingThreadIDs /\ Stopped(t) THEN q ELSE thread[t]
      BY <1>1, <1>2, <2>1
    <3> HIDE DEF q
    <3> QED BY <3>1 DEF Stopped
  <2>3. KeepsLives(thread, thread')
    BY <2>2 DEF KeepsLives
  <2> QED BY <2>3, LivesKept
<1> QED BY <1>3, <1>4

\* What ends in front of Detach.
LEMMA EndingFits ==
  ASSUME Typed, TextFollows, Lists, [ProcessNext]_processVars, handling.at # "ending", handling'.at = "ending"
  PROVE  /\ Fits(thread, trappedThreadIDs)'
         /\ \A a \in Addr : text'[a] = "trap" => a \in breakpoints'
<1>1. Returns \/ Interrupted \/ SingleStepReturns
      \/ \E a \in Addr : SetBreakpoint(a) \/ ClearBreakpoint(a) \/ \E t \in Thread : SingleStep(t, a)
  <2>1. ~(ClientWaits \/ TraceeMoves \/ UNCHANGED processVars \/ Attach)
    BY DEF ClientWaits, TraceeMoves, processVars, Attach
  <2>2. ~(FailToAttach \/ NewProcess \/ NewProcessFails \/ Resume \/ Detach)
    BY DEF FailToAttach, NewProcess, NewProcessFails, Resume, Detach, GoTo, Typed
  <2> QED BY <2>1, <2>2 DEF ProcessNext, ProcessStep
<1>2. Tracing /\ UNCHANGED <<thread, text, trappedThreadIDs, breakpoints, waiting>>
  <2>1. CASE Returns \/ Interrupted
    BY <2>1 DEF Returns, Interrupted, Tracing, kernel, client
  <2>2. CASE SingleStepReturns
    BY <2>2 DEF SingleStepReturns, Tracing, GoTo, client, Typed
  <2>3. ASSUME NEW a \in Addr, SetBreakpoint(a) \/ ClearBreakpoint(a)
        PROVE  Tracing /\ UNCHANGED <<thread, text, trappedThreadIDs, breakpoints, waiting>>
    BY <2>3 DEF SetBreakpoint, ClearBreakpoint, Handles, Tracing, client
  <2>4. ASSUME NEW a \in Addr, NEW t \in Thread, SingleStep(t, a)
        PROVE  Tracing /\ UNCHANGED <<thread, text, trappedThreadIDs, breakpoints, waiting>>
    BY <2>4 DEF SingleStep, Handles, Tracing, Handling, kernel, client
  <2> QED BY <1>1, <2>1, <2>2, <2>3, <2>4
<1>3. Fits(thread, trappedThreadIDs)'
  BY <1>2 DEF Lists, Fits, NobodyAlive
<1>4. \A a \in Addr : text[a] = "trap" => a \in breakpoints
  BY <1>2 DEF TextFollows, Tracing
<1> QED BY <1>2, <1>3, <1>4

LEMMA WritableStays ==
  ASSUME Typed, TextFollows, Lists, Writable, [ProcessNext]_processVars
  PROVE  Writable'
<1> DEFINE Turn == handling.at \notin {"waiting", "stepping"}
           Whole == "thread exit" \notin scenario.happens
           Usable == (Tracing \/ handling.at = "ending") /\ waiting = NotWaiting =>
                       trappedThreadIDs # <<>> \/ NobodyAlive(thread)
<1>1. UNCHANGED scenario
  BY DEF ProcessNext, processVars
<1>2. ASSUME handling'.at = "ending" => /\ Fits(thread, trappedThreadIDs)'
                                        /\ \A a \in Addr : text'[a] = "trap" => a \in breakpoints',
             Turn' => waiting' = NotWaiting,
             handling'.at = "attaching" => breakpoints' = {},
             Whole => DieTogether(thread') /\ Usable'
      PROVE  Writable'
  BY <1>1, <1>2 DEF Writable, DieTogether, NobodyAlive
<1>3. ASSUME handling.at = "ending", handling'.at = "ending"
      PROVE  /\ Fits(thread, trappedThreadIDs)'
             /\ \A a \in Addr : text'[a] = "trap" => a \in breakpoints'
  <2>1. TraceeMoves \/ UNCHANGED processVars
    <3>1. ~ClientWaits
      <4>1. waiting = NotWaiting
        BY <1>3 DEF Writable
      <4> QED BY <4>1, WaitRecords
              DEF ClientWaits, Wait, WaitTrapped, WaitSignalled, WaitExited, WaitCloned, WaitChild, Wait4
    <3> QED BY <1>3, <3>1 DEF ProcessNext, ProcessStep, Attach, FailToAttach, NewProcess, NewProcessFails, Resume,
            Returns, SingleStepReturns, Interrupted, Detach, SetBreakpoint, ClearBreakpoint, SingleStep, Handles,
            GoTo, Typed
  <2>2. UNCHANGED <<text, breakpoints, trappedThreadIDs>> /\ (KernelNext \/ UNCHANGED thread)
    BY <2>1, ClientKeepsText DEF TraceeMoves, processVars, kernel, client
  <2>3. Fits(thread, trappedThreadIDs)
    BY <1>3 DEF Writable
  <2>4. Fits(thread, trappedThreadIDs)'
    BY <2>2, <2>3, KernelFits DEF Fits, NobodyAlive
  <2> QED BY <1>3, <2>2, <2>4 DEF Writable
<1>4. handling'.at = "ending" => /\ Fits(thread, trappedThreadIDs)'
                                 /\ \A a \in Addr : text'[a] = "trap" => a \in breakpoints'
  BY <1>3, EndingFits
<1>5. SUFFICES /\ Turn' => waiting' = NotWaiting
               /\ handling'.at = "attaching" => breakpoints' = {}
               /\ Whole => DieTogether(thread') /\ Usable'
  BY <1>2, <1>4
<1>6. /\ Turn => waiting = NotWaiting
      /\ handling.at = "attaching" => breakpoints = {}
      /\ Whole => DieTogether(thread) /\ Usable
  BY DEF Writable
<1> HIDE DEF Turn, Whole, Usable
<1>7. ASSUME UNCHANGED <<thread, trappedThreadIDs>>, waiting' = NotWaiting,
             waiting = NotWaiting, Tracing, handling'.at # "attaching"
      PROVE  /\ Turn' => waiting' = NotWaiting
             /\ handling'.at = "attaching" => breakpoints' = {}
             /\ Whole => DieTogether(thread') /\ Usable'
  BY <1>6, <1>7 DEF Usable, NobodyAlive
<1>8. CASE UNCHANGED processVars
  BY <1>6, <1>8 DEF processVars, kernel, client, Usable, Turn, Tracing, NobodyAlive, DieTogether
<1>9. CASE TraceeMoves
  <2>1. KernelNext /\ UNCHANGED <<trappedThreadIDs, waiting, handling, breakpoints>>
    BY <1>9 DEF TraceeMoves, client
  <2>2. Whole => DieTogether(thread') /\ (NobodyAlive(thread) => NobodyAlive(thread)')
    BY <1>6, <2>1, KernelDies DEF Whole, DieTogether, NobodyAlive
  <2> QED BY <1>6, <2>1, <2>2 DEF Usable, Turn, Tracing, NobodyAlive
<1>10. CASE ClientWaits
  <2>1. Wait /\ UNCHANGED <<handling, breakpoints>>
    BY <1>10 DEF ClientWaits
  <2>2. waiting # NotWaiting
    BY <2>1, WaitRecords DEF Wait, WaitTrapped, WaitSignalled, WaitExited, WaitCloned, WaitChild, Wait4
  <2>3. handling.at \in {"waiting", "stepping"} /\ Tracing
    BY <1>6, <2>2 DEF Turn, Tracing
  <2>4. Fits(thread, trappedThreadIDs)
    BY <2>3 DEF Lists
  <2>5. KeepsLives(thread, thread')
        /\ (DieTogether(thread) /\ waiting' = NotWaiting => trappedThreadIDs' # <<>> \/ NobodyAlive(thread))
    BY <2>1, <2>4, WaitKeepsLives
  <2>6. Whole => DieTogether(thread') /\ (NobodyAlive(thread) => NobodyAlive(thread)')
    BY <1>6, <2>5, LivesKept DEF NobodyAlive
  <2> QED BY <1>6, <2>1, <2>3, <2>5, <2>6 DEF Usable, Turn
<1>11. CASE Attach
  <2>1. /\ handling.at = "attaching" /\ UNCHANGED <<handling, waiting, breakpoints>> /\ trappedThreadIDs = <<>>
    BY <1>11 DEF Attach, LaunchProcess, ListMembers, AttachToMember
  <2>2. Whole => DieTogether(thread')
    BY <1>6, <1>11, <2>1, AttachKeepsTogether DEF Lists
  <2> QED BY <1>6, <2>1, <2>2 DEF Usable, Turn, Tracing
<1>12. CASE NewProcess
  <2>1. /\ handling.at = "attaching" /\ trappedThreadIDs # <<>> /\ handling'.at = "resuming"
        /\ UNCHANGED <<thread, trappedThreadIDs, waiting>>
    BY <1>12 DEF NewProcess, GoTo, Typed, kernel, client
  <2> QED BY <1>6, <2>1 DEF Usable, Turn, DieTogether, NobodyAlive
<1>13. CASE FailToAttach
  <2>1. handling.at = "attaching" /\ handling'.at = "failed" /\ waiting' = NotWaiting /\ UNCHANGED thread
    BY <1>13 DEF FailToAttach, AttachFails, Return, GoTo, Typed, kernel
  <2> QED BY <1>6, <2>1 DEF Usable, Turn, Tracing, DieTogether, NobodyAlive
<1>14. CASE NewProcessFails \/ Detach
  <2>1. Turn /\ DetachProcess /\ handling'.at = "detached"
    BY <1>14 DEF NewProcessFails, Detach, GoTo, Typed, Turn
  <2>2. UNCHANGED waiting /\ (Whole => DieTogether(thread'))
    BY <1>6, <2>1, DetachKeepsTogether DEF DetachProcess, client
  <2> QED BY <1>6, <2>1, <2>2 DEF Usable, Tracing
<1>15. CASE Interrupted
  <2>1. Tracing /\ Turn /\ handling'.at = "ending" /\ UNCHANGED <<thread, trappedThreadIDs, waiting>>
    BY <1>15 DEF Interrupted, GoTo, Typed, Turn, Tracing, kernel, client
  <2> QED BY <1>6, <1>7, <2>1
<1>16. CASE Resume
  <2>1. Tracing /\ handling'.at = "waiting" /\ ContinueFrom(thread, trappedThreadIDs)
    BY <1>16 DEF Resume, ContinueAndWait, Tracing, Typed
  <2>2. KeepsLives(thread, thread') /\ (waiting' = NotWaiting => trappedThreadIDs' # <<>>)
    BY <2>1, ContinueKeepsLives DEF Typed
  <2>3. Whole => DieTogether(thread')
    BY <1>6, <2>2, LivesKept
  <2> QED BY <1>6, <2>1, <2>2, <2>3 DEF Usable, Turn
<1>17. CASE Returns
  <2>1. /\ Tracing /\ waiting = NotWaiting /\ handling'.at \in {"trapped", "ending"}
        /\ UNCHANGED <<thread, trappedThreadIDs, waiting>>
    BY <1>17 DEF Returns, Handling, Typed, Tracing, kernel, client
  <2> QED BY <1>7, <2>1
<1>18. CASE SingleStepReturns
  <2>1. /\ Tracing /\ waiting = NotWaiting /\ handling'.at \in {"resuming", "ending"}
        /\ UNCHANGED <<thread, trappedThreadIDs, waiting>>
    BY <1>18 DEF SingleStepReturns, GoTo, Typed, Tracing, client
  <2> QED BY <1>7, <2>1
<1>19. ASSUME NEW a \in Addr, SetBreakpoint(a) \/ ClearBreakpoint(a)
       PROVE  /\ Turn' => waiting' = NotWaiting
              /\ handling'.at = "attaching" => breakpoints' = {}
              /\ Whole => DieTogether(thread') /\ Usable'
  <2>1. /\ Tracing /\ Turn /\ handling'.at \in {"resuming", "trapped", "ending"}
        /\ UNCHANGED <<thread, trappedThreadIDs, waiting>>
    BY <1>19 DEF SetBreakpoint, ClearBreakpoint, Handles, GoTo, Typed, client, Tracing, Turn
  <2> QED BY <1>6, <1>7, <2>1
<1>20. ASSUME NEW a \in Addr, NEW t \in Thread, SingleStep(t, a)
       PROVE  /\ Turn' => waiting' = NotWaiting
              /\ handling'.at = "attaching" => breakpoints' = {}
              /\ Whole => DieTogether(thread') /\ Usable'
  <2>1. Tracing /\ Turn
    BY <1>20 DEF SingleStep, Handles, Tracing, Turn
  <2>2. CASE Stopped(t) /\ StepAndWait([thread EXCEPT ![t].past = FALSE], t) /\ handling' = Handling("stepping", t, a)
    <3>1. handling'.at = "stepping" /\ waiting' # NotWaiting
      BY <2>2, WaitRecords DEF Handling, StepAndWait
    <3>2. thread' = [thread EXCEPT ![t] = [@ EXCEPT !.past = FALSE, !.life = "stepping", !.status = "none"]]
      BY <2>2 DEF StepAndWait, Typed, Threads, State, ThreadState
    <3>3. thread'[t].life = "stepping" /\ \A u \in Thread \ {t} : thread'[u] = thread[u]
      BY <3>2 DEF Typed, Threads, State, ThreadState
    <3>4. thread[t].life = "stopped"
      BY <2>2 DEF Stopped
    <3>5. Whole => DieTogether(thread')
      BY <1>6, <3>3, <3>4, OneKept, LivesKept
    <3> QED BY <3>1, <3>5 DEF Usable, Turn
  <2>3. CASE GoTo("ending") /\ UNCHANGED <<kernel, client>>
    <3>1. handling'.at = "ending" /\ UNCHANGED <<thread, trappedThreadIDs, waiting>>
      BY <2>3 DEF GoTo, Typed, kernel, client
    <3> QED BY <1>6, <1>7, <2>1, <3>1
  <2> QED BY <1>20, <2>2, <2>3 DEF SingleStep
<1> QED BY <1>8, <1>9, <1>10, <1>11, <1>12, <1>13, <1>14, <1>15, <1>16, <1>17, <1>18, <1>19, <1>20
        DEF ProcessNext, ProcessStep

LEMMA FirstOfList ==
  ASSUME NEW s \in Seq(Thread), s # <<>>
  PROVE  s[1] \in Thread /\ s[1] \in Ids(s)
<1>1. ASSUME NEW n \in Nat, n # 0  PROVE 1 \in 1 .. n
  BY <1>1
<1>2. Len(s) \in Nat /\ Len(s) # 0 /\ DOMAIN s = 1 .. Len(s)
  BY EmptySeq, LenProperties
<1>3. 1 \in 1 .. Len(s)
  BY <1>1, <1>2
<1> QED BY <1>2, <1>3, ElementOfSeq DEF Ids

\* Detach writes through the first stopped thread of the list.
LEMMA NoTrapStays ==
  ASSUME Typed, TextFollows, Writable, NoTrapLeft, [ProcessNext]_processVars
  PROVE  NoTrapLeft'
<1> SUFFICES ASSUME handling'.at = "detached", "thread exit" \notin scenario.happens, ~NobodyAlive(thread')
             PROVE  \A a \in Addr : text'[a] = "org"
  <2>1. UNCHANGED scenario
    BY DEF ProcessNext, processVars
  <2>2. (\E t \in Thread : Alive(t)') => ~NobodyAlive(thread')
    BY DEF Alive, NobodyAlive
  <2> QED BY <2>1, <2>2 DEF NoTrapLeft
<1>1. \A a \in Addr : text[a] = "org" \/ text[a] = "trap"
  BY DEF Typed
<1>2. CASE Detach
  <2>1. ~NobodyAlive(thread)
    BY <1>2, DetachKeepsTogether DEF Detach, NobodyAlive
  <2>2. waiting = NotWaiting /\ handling.at = "ending"
    BY <1>2 DEF Detach, Writable
  <2>3. Fits(thread, trappedThreadIDs) /\ trappedThreadIDs # <<>>
    BY <2>1, <2>2 DEF Writable
  <2>4. trappedThreadIDs[1] \in Thread /\ trappedThreadIDs[1] \in Ids(trappedThreadIDs)
    BY <2>3, FirstOfList DEF Typed
  <2>5. CanWriteMemory(trappedThreadIDs)
    BY <2>1, <2>3, <2>4 DEF CanWriteMemory, Stopped, Fits
  <2>6. text' = [a \in Addr |-> IF a \in breakpoints THEN "org" ELSE text[a]]
    BY <1>2, <2>5 DEF Detach
  <2>7. \A a \in Addr : text[a] = "trap" => a \in breakpoints
    BY <2>2 DEF Writable
  <2> QED BY <1>1, <2>6, <2>7
<1>3. CASE NewProcessFails
  <2>1. handling.at = "attaching" /\ breakpoints = {} /\ UNCHANGED text
    BY <1>3 DEF NewProcessFails, Writable
  <2> QED BY <1>1, <2>1 DEF TextFollows
<1>4. CASE handling.at = "detached"
  <2>1. TraceeMoves \/ UNCHANGED processVars
    <3>1. waiting = NotWaiting
      BY <1>4 DEF Writable
    <3>2. ~ClientWaits
      BY <3>1, WaitRecords
         DEF ClientWaits, Wait, WaitTrapped, WaitSignalled, WaitExited, WaitCloned, WaitChild, Wait4
    <3> QED BY <1>4, <3>2 DEF ProcessNext, ProcessStep, Attach, FailToAttach, NewProcess, NewProcessFails, Resume,
            Returns, SingleStepReturns, Interrupted, Detach, SetBreakpoint, ClearBreakpoint, SingleStep, Handles
  <2>2. UNCHANGED text /\ (KernelNext \/ UNCHANGED thread)
    BY <2>1, ClientKeepsText DEF TraceeMoves, processVars, kernel
  <2>3. ~NobodyAlive(thread)
    BY <2>2, KernelDies DEF NobodyAlive
  <2>4. (\E t \in Thread : Alive(t)) <=> ~NobodyAlive(thread)
    BY DEF Alive, NobodyAlive, Typed, Threads, State, ThreadState, Life
  <2> QED BY <1>4, <2>2, <2>3, <2>4 DEF NoTrapLeft
<1>5. CASE handling.at # "detached" /\ ~Detach /\ ~NewProcessFails
  <2>1. ~(ClientWaits \/ TraceeMoves \/ UNCHANGED processVars \/ Attach)
    BY <1>5 DEF ClientWaits, TraceeMoves, processVars, Attach
  <2>2. ~(FailToAttach \/ NewProcess \/ Interrupted \/ SingleStepReturns)
    BY DEF FailToAttach, NewProcess, Interrupted, SingleStepReturns, GoTo, Typed
  <2>3. ~(Resume \/ Returns)
    <3>1. [handling EXCEPT !.at = "waiting", !.thread = NoThread].at = "waiting"
          /\ Handling("trapped", event.thread, handling.addr).at = "trapped"
          /\ [handling EXCEPT !.at = "ending"].at = "ending"
      BY DEF Handling, Typed
    <3> QED BY <3>1 DEF Resume, Returns
  <2>4. ~\E a \in Addr : SetBreakpoint(a) \/ ClearBreakpoint(a)
    BY <1>5 DEF SetBreakpoint, ClearBreakpoint, GoTo, Typed
  <2>5. ~\E a \in Addr : \E t \in Thread : SingleStep(t, a)
    <3>1. \A t, a : Handling("stepping", t, a).at = "stepping"
      BY DEF Handling
    <3>2. [handling EXCEPT !.at = "ending"].at = "ending"
      BY DEF Typed
    <3> QED BY <3>1, <3>2 DEF SingleStep, GoTo
  <2> QED BY <1>5, <2>1, <2>2, <2>3, <2>4, <2>5 DEF ProcessNext, ProcessStep
<1> QED BY <1>2, <1>3, <1>4, <1>5

LEMMA WritableAtFirst ==
  ASSUME ProcessInit
  PROVE  Writable /\ NoTrapLeft
<1>1. handling.at = "attaching" /\ waiting = NotWaiting /\ breakpoints = {}
  BY DEF ProcessInit, ClientInit, Handling
<1>2. \A t \in Thread : thread[t].life \in {"unborn", "running"}
  BY DEF ProcessInit, KernelInit, Unborn
<1> QED BY <1>1, <1>2 DEF Writable, DieTogether, Tracing, NoTrapLeft

\* However tracing ends, a tracee that lives on without tgo has its own instructions
\* back, unless one thread has exited alone: there is a stopped thread to write them through
\* (Process.Detach, trappedThreadIDs).
THEOREM NoTrapLeftCorrect == ProcessSpec => []NoTrapLeft
<1>1. ProcessInit => Typed /\ TextFollows /\ Lists /\ Writable /\ NoTrapLeft
  BY ListsAtFirst, TypedAtFirst, WritableAtFirst
<1> QED BY <1>1, TextFollowsStays, TypedStays, ListsStay, WritableStays, NoTrapStays, PTL DEF ProcessSpec

=============================================================================
