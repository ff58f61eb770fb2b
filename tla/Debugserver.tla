----------------------------- MODULE Debugserver -----------------------------
(***************************************************************************)
(* lldb's debugserver with the traced process and the connection to it     *)
(* (external: modelled from how debugapi/client_darwin.go uses it).  The   *)
(* client resumes the process with vCont, and the server answers with a    *)
(* stop reply once a thread has stopped.  A thread stops when it hits a    *)
(* trap, ends a single step or gets a signal; the server may get to know   *)
(* of one thread before it knows of another, whose stop is then reported   *)
(* after the next vCont.  Replies come in order, but one read may return   *)
(* several of them.                                                        *)
(***************************************************************************)
EXTENDS Naturals, Sequences, FiniteSets

CONSTANTS ThreadList,   \* the threads, in the order of qfThreadInfo
          NoThread,
          Addr,         \* instruction addresses of the process
          Successors,   \* Successors[a]: where an instruction may lead
          Helper,       \* the instruction that the client has put into the process,
          HelperEnd,    \* and the address behind it
          Scenario      \* which of Happening there is

Happening ==
  {"signal",       \* a thread gets a signal
   "bad access",   \* a thread stops with EXC_BAD_ACCESS
   "exit",         \* the process exits
   "output",       \* it writes to its console
   "lost reply",   \* a stop reply is not sent
   "long run",     \* no thread stops for as long as the client's timeout
   "overtaking",   \* threads run on while an earlier stop waits to be reported
   "refusal",      \* the server answers a request with an error
   "interrupt",    \* the main loop is interrupted
   "last thread"}  \* the last of ThreadList exists, too

Thread == {ThreadList[i] : i \in DOMAIN ThreadList}

ASSUME DebugserverAssumption ==
  /\ ThreadList \in Seq(Thread)
  /\ \A i, j \in DOMAIN ThreadList : ThreadList[i] = ThreadList[j] => i = j
  /\ NoThread \notin Thread
  /\ Successors \in [Addr -> SUBSET Addr]
  /\ {Helper, HelperEnd} \cap Addr = {} /\ Helper # HelperEnd
  /\ Scenario \subseteq SUBSET Happening

VARIABLES happens,  \* one of Scenario, from the beginning to the end
          thread,   \* the state of each thread
          text,     \* what is at an instruction address
          running,  \* the process was resumed and has not stopped since
          due,      \* the stop reply that the server is about to send
          channel   \* packets sent to the client and not yet read

server == <<thread, text, running, due, channel>>

Reason == {"none", "trap", "signal", "bad access"}

\* past: the program counter is behind the trap instruction at pc.
\* inside: it was set into the middle of an instruction.
\* hit: why the thread has stopped, not yet reported; stop: as it was reported.
\* steps: instructions that SingleStep has executed since it began.
ThreadState == [pc : Addr \cup {Helper, HelperEnd}, past : BOOLEAN, inside : BOOLEAN,
                mode : {"held", "runs", "steps"}, hit : Reason, stop : Reason, steps : 0..2]

\* A stop reply has the reason of the thread it names first, and so has the
\* answer to qThreadStopInfo; "threads" answers qfThreadInfo.
Stopped(reason) == [type |-> "stop", reason |-> reason]
Output == [type |-> "output", reason |-> "none"]
ExitPacket == [type |-> "exit", reason |-> "none"]
Threads == [type |-> "threads", reason |-> "none"]

Packet == {Stopped(r) : r \in Reason} \cup {Output, ExitPacket, Threads}

ServerTypeOK ==
  /\ happens \in Scenario
  /\ thread \in [Thread -> ThreadState]
  /\ text \in [Addr -> {"org", "trap"}]
  /\ running \in BOOLEAN
  /\ due \in Seq(Packet) /\ channel \in Seq(Packet)

Living == IF "last thread" \in happens THEN ThreadList
          ELSE SubSeq(ThreadList, 1, Len(ThreadList) - 1)
Lives(t) == \E i \in DOMAIN Living : Living[i] = t

ServerInit ==
  /\ happens \in Scenario
  /\ \E a \in Addr : thread = [t \in Thread |->
       [pc |-> IF Lives(t) THEN a ELSE CHOOSE b \in Addr : TRUE, past |-> FALSE, inside |-> FALSE, mode |-> "held",
        hit |-> "none", stop |-> "none", steps |-> 0]]
  /\ text = [a \in Addr |-> "org"]
  /\ running = FALSE
  /\ due = <<>> /\ channel = <<>>

-----------------------------------------------------------------------------
(* Requests.                                                               *)

Unreported == {t \in Thread : thread[t].hit # "none"}

\* vCont: thread t goes on in mode[t]; th is the state of the threads by now.
\* Stops that wait to be reported are, unless other threads overtake them, looked
\* at before any thread runs.
Resume(th, mode) ==
  /\ running' = TRUE
  /\ thread' = [t \in Thread |->
       [th[t] EXCEPT !.stop = "none",
                     !.mode = IF Unreported # {} /\ "overtaking" \notin happens
                              THEN "held" ELSE mode[t]]]
  /\ UNCHANGED <<due, channel>>

\* Other requests are answered at once; the stop reply may still come before.
Answer(packet) ==
  /\ channel' = Append(channel, packet)
  /\ UNCHANGED <<thread, text, running, due>>

-----------------------------------------------------------------------------
(* What the process and the server do meanwhile.                           *)

Executes(t) == running /\ Lives(t) /\ thread[t].mode # "held" /\ thread[t].hit = "none" /\ ~thread[t].inside

Halt(r, why) == [r EXCEPT !.mode = "held", !.hit = why]

HitTrap(t) ==
  /\ Executes(t) /\ thread[t].pc \in Addr /\ text[thread[t].pc] = "trap"
  /\ thread' = [thread EXCEPT ![t] = [Halt(@, "trap") EXCEPT !.past = TRUE]]
  /\ UNCHANGED <<text, running, due, channel>>

Following(a) == CASE a \in Addr -> Successors[a] [] a = Helper -> {HelperEnd} [] a = HelperEnd -> {}

Execute(t) ==
  /\ Executes(t) /\ (thread[t].pc \in Addr => text[thread[t].pc] = "org")
  /\ \E a \in Following(thread[t].pc) :
       LET r == [thread[t] EXCEPT !.pc = a]
           n == IF r.steps = 2 THEN 2 ELSE r.steps + 1
       IN  thread' = [thread EXCEPT ![t] =
                        IF r.mode = "steps" THEN [Halt(r, "trap") EXCEPT !.steps = n] ELSE r]
  /\ UNCHANGED <<text, running, due, channel>>

\* There are no instructions behind the helper.
Interfere(t) ==
  /\ Executes(t)
  /\ \E why \in (happens \cap {"signal", "bad access"})
              \cup {w \in {"bad access"} : thread[t].pc = HelperEnd} :
       thread' = [thread EXCEPT ![t] = Halt(@, why)]
  /\ UNCHANGED <<text, running, due, channel>>

\* The server reports some of the stops it knows of, and holds all threads.
Stop ==
  /\ running
  /\ \E R \in SUBSET Unreported : \E h \in R :
       /\ thread' = [t \in Thread |->
            IF t \in R THEN [thread[t] EXCEPT !.mode = "held", !.stop = thread[t].hit, !.hit = "none"]
                       ELSE [thread[t] EXCEPT !.mode = "held"]]
       /\ \/ due' = <<Stopped(thread[h].hit)>>
          \/ "lost reply" \in happens /\ due' = <<>>
  /\ running' = FALSE
  /\ UNCHANGED <<text, channel>>

Exits ==
  /\ "exit" \in happens /\ running
  /\ running' = FALSE /\ due' = <<ExitPacket>>
  /\ thread' = [t \in Thread |-> [thread[t] EXCEPT !.mode = "held", !.hit = "none"]]
  /\ UNCHANGED <<text, channel>>

\* Bound: one packet of output is under way at a time.
Writes ==
  /\ "output" \in happens /\ running
  /\ \A i \in DOMAIN channel : channel[i] # Output
  /\ channel' = Append(channel, Output)
  /\ UNCHANGED <<thread, text, running, due>>

SendReply ==
  /\ due # <<>>
  /\ channel' = channel \o due /\ due' = <<>>
  /\ UNCHANGED <<thread, text, running>>

ServerNext ==
  \/ \E t \in Thread : HitTrap(t) \/ Execute(t) \/ Interfere(t)
  \/ Stop \/ Exits \/ Writes \/ SendReply

=============================================================================
