---------------------------- MODULE TracerLibrary ----------------------------
(***************************************************************************)
(* lib/tracer, the package the traced program calls: the first Start       *)
(* launches the server process, connects to it and lets it attach to the   *)
(* caller's own process; later ones only add their trace point.  Composed  *)
(* with Service: a thread of the program is a thread of the tracee and, in *)
(* Start, the server's client.                                             *)
(***************************************************************************)
EXTENDS Service

CONSTANTS StartPoint,   \* addresses behind the program's calls of Start
          Stop,         \* the entry of Stop
          NumRetries    \* attempts to connect

ASSUME LibraryAssumption ==
  /\ Caller = Thread
  /\ TracePoint = StartPoint \cup {Stop}
  /\ ChanBufferSize > 0 /\ NumRetries \in Nat \ {0}

VARIABLES
  serverCmd,  \* whether serverCmd is set
  client,     \* the RPC client: "nil", "open" or "closed"
  server,     \* the server process: "none", "starting", "listening", "serving"
  mutex,      \* serverMtx: what its holder does in Start, and the attempts to connect
  position    \* where each thread of the program is

library == <<serverCmd, client, mutex>>
lvars == <<svars, library, server, position>>

Free == [step |-> "free", thread |-> "nobody", tries |-> 0]
Holds(t, step) == mutex.thread = t /\ mutex.step = step
Step(step) == mutex' = [mutex EXCEPT !.step = step]

\* at: outside of a session, in Start, at the trace point behind it, in the session;
\* by: the RPC that made this Start successful; traced: a trap began the session.
Position(at, a) == [at |-> at, point |-> a, by |-> "nothing", traced |-> FALSE]
At(t, at) == position[t].at = at

LibraryTypeOK ==
  /\ ServiceTypeOK
  /\ serverCmd \in BOOLEAN
  /\ client \in {"nil", "open", "closed"}
  /\ server \in {"none", "starting", "listening", "serving"}
  /\ mutex.step \in {"free", "connect", "prepare", "attach", "add end", "add start", "terminate"}
  /\ mutex.tries \in 0..(NumRetries - 1)
  /\ position \in [Thread -> [at : {"outside", "start", "point", "session"}, point : StartPoint,
                              by : {"nothing", "Attach", "AddStartTracePoint"},
                              traced : BOOLEAN]]

LibraryInit ==
  /\ ServiceInit
  /\ serverCmd = FALSE /\ client = "nil" /\ server = "none" /\ mutex = Free
  /\ position \in [Thread -> {Position("outside", a) : a \in StartPoint}]

Attached == loop # "none" /\ phase # "ended"
Runs(t) == Attached => t \notin trapped \cup held

-----------------------------------------------------------------------------
(* Start.                                                                  *)

CallStart(t, a) ==
  /\ Runs(t) /\ At(t, "outside")
  /\ position' = [position EXCEPT ![t] = Position("start", a)]
  /\ UNCHANGED <<svars, library, server>>

Locks(t) == Runs(t) /\ At(t, "start") /\ mutex = Free
Lock(t, step) == mutex' = [step |-> step, thread |-> t, tries |-> 0]

StartServer(t) ==
  /\ Locks(t) /\ ~serverCmd
  /\ serverCmd' = TRUE /\ server' = "starting"
  /\ Lock(t, "connect")
  /\ UNCHANGED <<svars, client, position>>

\* There is no port or no program to start.
StartServerFails(t) ==
  /\ Locks(t) /\ ~serverCmd
  /\ serverCmd' \in BOOLEAN
  /\ Lock(t, "terminate")
  /\ UNCHANGED <<svars, client, server, position>>

\* Start returns to the trace point behind its call.
Returned(t, by) ==
  /\ position' = [position EXCEPT ![t].at = "point", ![t].by = by]
  /\ mutex' = Free

AddStart(t) ==
  /\ Locks(t) /\ serverCmd
  /\ IF server = "serving"
       THEN /\ Request(t, [method |-> "Add", kind |-> "start", point |-> position[t].point])
            /\ Lock(t, "add start")
            /\ UNCHANGED position
       ELSE Returned(t, "nothing") /\ UNCHANGED svars
  /\ UNCHANGED <<serverCmd, client, server>>

\* Defect: a failed attempt leaves the client of an earlier server.
Connect_KeepsClient(t) ==
  /\ Runs(t) /\ Holds(t, "connect")
  /\ IF server = "listening"
       THEN client' = "open" /\ server' = "serving" /\ Step("prepare")
       ELSE /\ UNCHANGED <<client, server>>
            /\ IF mutex.tries + 1 < NumRetries THEN mutex' = [mutex EXCEPT !.tries = @ + 1]
               ELSE mutex' = [mutex EXCEPT !.step = "terminate", !.tries = 0]
  /\ UNCHANGED <<svars, serverCmd, position>>

\* Defect: there is always another attempt.
Connect_Endlessly(t) ==
  /\ Runs(t) /\ Holds(t, "connect")
  /\ server = "listening"
  /\ client' = "open" /\ server' = "serving" /\ Step("prepare")
  /\ UNCHANGED <<svars, serverCmd, position>>

\* rpc.Dial returns no client when it fails.
Connect(t) ==
  /\ Runs(t) /\ Holds(t, "connect")
  /\ IF server = "listening"
       THEN client' = "open" /\ server' = "serving" /\ Step("prepare")
       ELSE /\ client' = "nil" /\ UNCHANGED server
            /\ IF mutex.tries + 1 < NumRetries THEN mutex' = [mutex EXCEPT !.tries = @ + 1]
               ELSE mutex' = [mutex EXCEPT !.step = "terminate", !.tries = 0]
  /\ UNCHANGED <<svars, serverCmd, position>>

\* The call fails at once when the connection is lost.
TryCall(t, request, step) ==
  IF server = "serving" THEN Request(t, request) /\ Step(step)
                        ELSE Step("terminate") /\ UNCHANGED svars

\* Defect: the address is that of another call, as with a wrong skip in Callers.
Prepare_OtherCall(t) ==
  /\ Runs(t) /\ Holds(t, "prepare")
  /\ \E a \in StartPoint \ {position[t].point} :
       TryCall(t, [method |-> "Attach", point |-> a], "attach")
  /\ UNCHANGED <<serverCmd, client, server, position>>

Prepare(t) ==
  /\ Runs(t) /\ Holds(t, "prepare")
  /\ TryCall(t, [method |-> "Attach", point |-> position[t].point], "attach")
  /\ UNCHANGED <<serverCmd, client, server, position>>

\* The versions differ, or the program's own path is unknown.
PrepareFails(t) ==
  /\ Runs(t) /\ Holds(t, "prepare")
  /\ Step("terminate")
  /\ UNCHANGED <<svars, serverCmd, client, server, position>>

Replied(t, step) == Runs(t) /\ Holds(t, step) /\ call[t] = Idle

\* Defect: the entry of Stop is not made a trace point.
AddEnd_Never(t) ==
  /\ Replied(t, "attach")
  /\ IF reply[t] = "nil" THEN Returned(t, "Attach") ELSE Step("terminate") /\ UNCHANGED position
  /\ UNCHANGED <<svars, serverCmd, client, server>>

AddEnd(t) ==
  /\ Replied(t, "attach")
  /\ IF reply[t] = "nil"
       THEN TryCall(t, [method |-> "Add", kind |-> "end", point |-> Stop], "add end")
       ELSE Step("terminate") /\ UNCHANGED svars
  /\ UNCHANGED <<serverCmd, client, server, position>>

AttachReturns(t) ==
  /\ Replied(t, "add end")
  /\ IF reply[t] = "nil" THEN Returned(t, "Attach") ELSE Step("terminate") /\ UNCHANGED position
  /\ UNCHANGED <<svars, serverCmd, client, server>>

AddReturns(t) ==
  /\ Replied(t, "add start")
  /\ Returned(t, IF reply[t] = "nil" THEN "AddStartTracePoint" ELSE "nothing")
  /\ UNCHANGED <<svars, serverCmd, client, server>>

\* The server process has ended, and with it what it knew; calls in progress fail.
ServerEnds ==
  /\ server' = "none"
  /\ phase' = "resuming" /\ trapped' = {} /\ held' = Thread /\ interruptCh' = FALSE
  /\ pending' = [k \in Kind |-> <<>>] /\ active' = [k \in Kind |-> {}]
  /\ mtx' = "free" /\ controller' = FALSE /\ loop' = "none"
  /\ call' = [c \in Caller |-> Idle] /\ reply' = [c \in Caller |-> "none"]

\* terminateServer.  Closing fails when the client is closed already; then the
\* server is not killed.  Start returns its error.
TerminateServer(t) ==
  /\ Runs(t) /\ Holds(t, "terminate")
  /\ IF client = "closed" THEN UNCHANGED <<svars, client, server>>
     ELSE client' = (IF client = "open" THEN "closed" ELSE "nil") /\ ServerEnds
  /\ serverCmd' = FALSE
  /\ Returned(t, "nothing")

-----------------------------------------------------------------------------
(* The rest of the program, and the server process.                        *)

\* t executes the instruction behind the call of Start.
PassStartPoint(t) ==
  /\ Runs(t) /\ At(t, "point")
  /\ LET traps == Attached /\ position[t].point \in active["start"]
     IN  /\ position' = [position EXCEPT ![t].at = "session", ![t].traced = traps]
         /\ IF traps THEN Trap(t) /\ UNCHANGED service ELSE UNCHANGED svars
  /\ UNCHANGED <<library, server>>

CallStop(t) ==
  /\ Runs(t) /\ At(t, "session")
  /\ LET traps == Attached /\ Stop \in active["end"]
     IN  /\ position' = [position EXCEPT ![t].at = "outside", ![t].traced = @ /\ ~traps]
         /\ IF traps THEN Trap(t) /\ UNCHANGED service ELSE UNCHANGED svars
  /\ UNCHANGED <<library, server>>

\* Between Start and Stop a thread runs into breakpoints at calls and returns.
TrapInSession(t) ==
  /\ Attached /\ active["start"] # {} /\ At(t, "session")
  /\ Trap(t)
  /\ UNCHANGED <<service, library, server, position>>

ServerListens ==
  /\ server = "starting"
  /\ server' = "listening"
  /\ UNCHANGED <<svars, library, position>>

\* The server may exit when it is not attached.
ServerExits ==
  /\ server # "none" /\ ~Attached
  /\ ServerEnds
  /\ UNCHANGED <<library, position>>

Serves(t) ==
  /\ AttachSucceeds(t) \/ AttachFails(t) \/ Add(t) \/ AddRefused(t)
  /\ UNCHANGED <<library, server, position>>

Controls == (LoopStarts \/ LoopSteps) /\ UNCHANGED <<library, server, position>>

Ends == LoopReturns /\ UNCHANGED <<library, server, position>>

Start(t) == StartServer(t) \/ StartServerFails(t) \/ AddStart(t)

Continues(t) ==
  \/ Connect(t) \/ Prepare(t) \/ PrepareFails(t) \/ AddEnd(t)
  \/ AttachReturns(t) \/ AddReturns(t) \/ TerminateServer(t)

LibraryNext ==
  \/ \E t \in Thread :
       \/ \E a \in StartPoint : CallStart(t, a)
       \/ Start(t) \/ Continues(t)
       \/ PassStartPoint(t) \/ CallStop(t) \/ TrapInSession(t)
       \/ Serves(t)
  \/ ServerListens \/ ServerExits \/ Controls \/ Ends

\* Threads in Start and the server's go routines get to run, serverMtx is fair.
LibrarySpec ==
  /\ LibraryInit /\ [][LibraryNext]_lvars
  /\ \A t \in Thread : SF_lvars(Start(t)) /\ WF_lvars(Continues(t)) /\ WF_lvars(Serves(t))
  /\ WF_lvars(Controls)

-----------------------------------------------------------------------------
(* Properties.                                                             *)

\* A Start that failed leaves no server process behind: without serverCmd nobody
\* would terminate it, and the next Start launches another (terminateServer).
NoServerLeft == ~serverCmd => server = "none"

\* A session that began behind a successful Start ends at Stop, although Stop is
\* made a trace point after attaching, when the program runs already (initialize).
StopEnds ==
  [][\A t \in Thread :
       Attached /\ At(t, "session") /\ position[t].by # "nothing" /\ position'[t].at = "outside"
         => ~position'[t].traced]_lvars

\* The Start that attached has enabled tracing when it returns: its thread does
\* not get past the trace point unnoticed (InitialStartTracePoint).
AttachEnables ==
  \A t \in Thread :
    Attached /\ At(t, "session") /\ position[t].by = "Attach" => position[t].traced

\* "Start enables tracing" (tracer.go:65), when it returns nil.
StartEnables ==
  \A t \in Thread :
    Attached /\ At(t, "session") /\ position[t].by # "nothing" => position[t].traced

\* Start returns, whatever fails on the way, and serverMtx is released.
StartReturns == \A t \in Thread : At(t, "start") ~> ~At(t, "start")

=============================================================================
