------------------------------- MODULE Ptrace -------------------------------
(***************************************************************************)
(* The threads of the tracee and what Linux does with them under ptrace    *)
(* (external: modelled from how debugapi/client_linux.go uses it).  A      *)
(* traced thread that executes a trap instruction, gets a signal, clones   *)
(* or is born stops and has a status for the tracer to wait for; only a    *)
(* stopped thread can be continued, single-stepped or detached.            *)
(***************************************************************************)
EXTENDS Naturals, Sequences, FiniteSets

CONSTANTS Thread, NoThread,
          Leader,      \* the first thread
          Addr,        \* instruction addresses
          Successors,  \* Successors[a]: where an instruction may lead
          CloneAddr,   \* instructions that create a thread
          Scenario     \* [threads: the threads there may be,
                       \*  started: those there are at first; none if it is launched,
                       \*  happens: which of Happening there is]

\* early stop: wait4 may report a new thread's first stop before its creator's clone.
Happening == {"signal", "clone", "early stop", "thread exit", "process exit", "interrupt"}

ASSUME PtraceAssumption ==
  /\ IsFiniteSet(Thread) /\ NoThread \notin Thread /\ Leader \in Thread
  /\ Successors \in [Addr -> SUBSET Addr]
  /\ CloneAddr \subseteq Addr
  /\ \A s \in Scenario : /\ s.started \subseteq s.threads /\ s.threads \subseteq Thread
                         /\ s.happens \subseteq Happening

VARIABLES scenario, \* one of Scenario, from the beginning to the end
          thread,  \* the state of each thread
          text,    \* what is at an instruction address
          killed   \* an untraced thread has hit a trap: the process is gone

kernel == <<thread, text, killed>>

Life == {"unborn", "running", "stepping", "stopped", "dead"}
Status == {"none", "trap", "clone", "signal", "stop", "exit"}

\* past: the program counter is behind the trap instruction at pc.
ThreadState == [life : Life, traced : BOOLEAN, pc : Addr, past : BOOLEAN,
                status : Status, child : Thread \cup {NoThread}]

KernelTypeOK ==
  /\ scenario \in Scenario
  /\ thread \in [Thread -> ThreadState]
  /\ text \in [Addr -> {"org", "trap"}]
  /\ killed \in BOOLEAN

Unborn(a) == [life |-> "unborn", traced |-> FALSE, pc |-> a, past |-> FALSE,
              status |-> "none", child |-> NoThread]

KernelInit ==
  /\ scenario \in Scenario
  /\ \E a \in Addr : thread = [t \in Thread |->
       IF t \in scenario.started THEN [Unborn(a) EXCEPT !.life = "running"] ELSE Unborn(a)]
  /\ text = [a \in Addr |-> "org"]
  /\ killed = FALSE

Alive(t) == thread[t].life \in {"running", "stepping", "stopped"}
Stopped(t) == thread[t].life = "stopped"
Executes(t) == thread[t].life \in {"running", "stepping"} /\ ~thread[t].past /\ ~killed

\* What remains of a thread that stops with status s.
Stop(r, s) == [r EXCEPT !.life = "stopped", !.status = s]

-----------------------------------------------------------------------------
(* What the threads do.                                                    *)

HitTrap(t) ==
  /\ Executes(t) /\ text[thread[t].pc] = "trap"
  /\ IF thread[t].traced
       THEN /\ thread' = [thread EXCEPT ![t] = [Stop(@, "trap") EXCEPT !.past = TRUE]]
            /\ UNCHANGED killed
       ELSE killed' = TRUE /\ UNCHANGED thread
  /\ UNCHANGED text

Execute(t) ==
  /\ Executes(t) /\ text[thread[t].pc] = "org"
  /\ \E a \in Successors[thread[t].pc] :
       LET r == [thread[t] EXCEPT !.pc = a]
       IN  thread' = [thread EXCEPT ![t] = IF r.life = "stepping" THEN Stop(r, "trap") ELSE r]
  /\ UNCHANGED <<text, killed>>

\* The new thread of a traced one is traced and stops at once.
Clone(t) ==
  /\ "clone" \in scenario.happens
  /\ Executes(t) /\ thread[t].pc \in CloneAddr /\ text[thread[t].pc] = "org"
  /\ \E c \in scenario.threads, a \in Successors[thread[t].pc] :
       /\ thread[c].life = "unborn"
       /\ LET r == [thread[t] EXCEPT !.pc = a]
              u == [r EXCEPT !.life = "running"]
          IN  thread' = IF r.traced
                THEN [thread EXCEPT ![t] = [Stop(r, "clone") EXCEPT !.child = c], ![c] = Stop(u, "stop")]
                ELSE [thread EXCEPT ![t] = r, ![c] = u]
  /\ UNCHANGED <<text, killed>>

Signal(t) ==
  /\ "signal" \in scenario.happens
  /\ Executes(t) /\ thread[t].traced
  /\ thread' = [thread EXCEPT ![t] = Stop(@, "signal")]
  /\ UNCHANGED <<text, killed>>

Dead(r) == [r EXCEPT !.life = "dead", !.status = IF r.traced THEN "exit" ELSE "none"]

ThreadExits(t) ==
  /\ "thread exit" \in scenario.happens
  /\ Executes(t) /\ t # Leader
  /\ thread' = [thread EXCEPT ![t] = Dead(@)]
  /\ UNCHANGED <<text, killed>>

ProcessExits ==
  /\ "process exit" \in scenario.happens
  /\ \E t \in Thread : Executes(t)
  /\ thread' = [t \in Thread |-> IF Alive(t) THEN Dead(thread[t]) ELSE thread[t]]
  /\ UNCHANGED <<text, killed>>

KernelNext ==
  \/ \E t \in Thread : HitTrap(t) \/ Execute(t) \/ Clone(t) \/ Signal(t) \/ ThreadExits(t)
  \/ ProcessExits

-----------------------------------------------------------------------------
(* What the tracer gets from a thread.                                     *)

\* The statuses that wait4 can return for t now.  Without early stops the parent's
\* clone is reported before the child's first stop, as continueClone expects.
Reported(t) ==
  /\ thread[t].status # "none"
  /\ thread[t].status = "stop" /\ "early stop" \notin scenario.happens =>
       ~\E p \in Thread : thread[p].status = "clone" /\ thread[p].child = t

Waited(th, t) == [th EXCEPT ![t].status = "none"]

\* A status that was not waited for is lost.
Continued(th, T) ==
  [t \in Thread |-> IF t \in T THEN [th[t] EXCEPT !.life = "running", !.status = "none"] ELSE th[t]]

=============================================================================
