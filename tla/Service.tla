------------------------------- MODULE Service -------------------------------
(***************************************************************************)
(* service.Tracer, the RPC server around the controller: net/rpc runs each *)
(* call in a go routine of its own, the mutex protects the controller, the *)
(* main loop runs in another go routine and hands its result over to the   *)
(* go routine that Detach leaves behind, which holds the mutex until then. *)
(* The main loop itself is MainLoop; loop says whether it has a go routine.*)
(***************************************************************************)
EXTENDS MainLoop

CONSTANTS Caller        \* calls that can be in progress at the same time

VARIABLES
  mtx,         \* "free", or "detacher" while the go routine left by Detach waits
  controller,  \* whether t.controller is set
  loop,        \* the go routine of MainLoop: "none", "starting", "running"
  call,        \* call[c]: what caller c waits for
  reply        \* reply[c]: the last reply to c

service == <<mtx, controller, loop, call, reply>>
svars == <<vars, service>>

Idle == [method |-> "idle"]
Calls == {Idle, [method |-> "Detach"]} \cup [method : {"Attach"}, point : TracePoint]
           \cup [method : {"Add"}, kind : Kind, point : TracePoint]
Reply == {"none", "nil", "error", "already attached"}

ServiceTypeOK ==
  /\ TypeOK
  /\ mtx \in {"free", "detacher"}
  /\ controller \in BOOLEAN
  /\ loop \in {"none", "starting", "running"}
  /\ call \in [Caller -> Calls]
  /\ reply \in [Caller -> Reply]

\* Until the first Attach there is no main loop.
ServiceInit ==
  /\ InitWith([k \in Kind |-> <<>>])
  /\ mtx = "free" /\ controller = FALSE /\ loop = "none"
  /\ call = [c \in Caller |-> Idle]
  /\ reply = [c \in Caller |-> "none"]

-----------------------------------------------------------------------------
(* The RPC methods.  The mutex makes a method one step; all but Detach     *)
(* release it at their end.                                                *)

Request(c, r) ==
  /\ call[c] = Idle
  /\ call' = [call EXCEPT ![c] = r]
  /\ reply' = [reply EXCEPT ![c] = "none"]
  /\ UNCHANGED <<vars, mtx, controller, loop>>

\* Caller c gets the mutex for a call of method m.
Enters(c, m) == call[c].method = m /\ mtx = "free"

Replies(c, r) ==
  /\ call' = [call EXCEPT ![c] = Idle]
  /\ reply' = [reply EXCEPT ![c] = r]

AttachTwice(c) ==
  /\ Enters(c, "Attach") /\ controller
  /\ Replies(c, "already attached")
  /\ UNCHANGED <<vars, mtx, controller, loop>>

\* The new controller is kept although there is no tracee.
AttachFails(c) ==
  /\ Enters(c, "Attach") /\ ~controller
  /\ controller' = TRUE
  /\ Replies(c, "error")
  /\ UNCHANGED <<vars, mtx, loop>>

\* Defect: whether a tracee is attached already is not checked.
AttachSucceeds_Always(c) ==
  /\ Enters(c, "Attach")
  /\ controller' = TRUE
  /\ loop' = "starting"
  /\ phase' = "resuming" /\ trapped' = {} /\ held' = Thread /\ interruptCh' = FALSE
  /\ pending' = [k \in Kind |-> <<>>] /\ active' = [k \in Kind |-> {}]
  /\ Replies(c, "nil")
  /\ UNCHANGED mtx

\* Defect: the controller's interrupt channel outlives the attachment.
AttachSucceeds_KeepsInterrupt(c) ==
  /\ Enters(c, "Attach") /\ ~controller
  /\ controller' = TRUE
  /\ loop' = "starting"
  /\ phase' = "resuming" /\ trapped' = {} /\ held' = Thread
  /\ pending' = [k \in Kind |-> <<>>] /\ active' = [k \in Kind |-> {}]
  /\ Replies(c, "nil")
  /\ UNCHANGED <<mtx, interruptCh>>

\* A new controller with the initial start point; the tracee is stopped.
AttachSucceeds(c) ==
  /\ Enters(c, "Attach") /\ ~controller
  /\ controller' = TRUE
  /\ loop' = "starting"
  /\ phase' = "resuming" /\ trapped' = {} /\ held' = Thread /\ interruptCh' = FALSE
  /\ pending' = [k \in Kind |-> IF k = "start" /\ ChanBufferSize > 0
                                  THEN <<call[c].point>> ELSE <<>>]
  /\ active' = [k \in Kind |-> {}]
  /\ Replies(c, "nil")
  /\ UNCHANGED mtx

DetachNothing(c) ==
  /\ Enters(c, "Detach") /\ ~controller
  /\ Replies(c, "nil")
  /\ UNCHANGED <<vars, mtx, controller, loop>>

\* Defect: the controller is dropped without waiting for the main loop.
Detach_AtOnce(c) ==
  /\ Enters(c, "Detach") /\ controller
  /\ interruptCh' = TRUE
  /\ controller' = FALSE
  /\ Replies(c, "nil")
  /\ UNCHANGED <<phase, trapped, held, pending, active, mtx, loop>>

\* The interrupt is sent; the go routine that is left holds the mutex.
Detach(c) ==
  /\ Enters(c, "Detach") /\ controller
  /\ interruptCh' = TRUE
  /\ mtx' = "detacher"
  /\ Replies(c, "nil")
  /\ UNCHANGED <<phase, trapped, held, pending, active, controller, loop>>

\* AddStartTracePoint and AddEndTracePoint.
AddNothing(c) ==
  /\ Enters(c, "Add") /\ ~controller
  /\ Replies(c, "nil")
  /\ UNCHANGED <<vars, mtx, controller, loop>>

Add(c) ==
  /\ Enters(c, "Add") /\ controller
  /\ AddTracePoint(call[c].kind, call[c].point)
  /\ Replies(c, "nil")
  /\ UNCHANGED <<mtx, controller, loop>>

\* Defect: the request waits for the channel instead of being refused.
AddRefused_Never(c) == Enters(c, "Add") /\ FALSE

AddRefused(c) ==
  /\ Enters(c, "Add") /\ controller
  /\ Len(pending[call[c].kind]) >= ChanBufferSize
  /\ Replies(c, "error")
  /\ UNCHANGED <<vars, mtx, controller, loop>>

-----------------------------------------------------------------------------
(* The other go routines.                                                  *)

LoopStarts ==
  /\ loop = "starting"
  /\ loop' = "running"
  /\ UNCHANGED <<vars, mtx, controller, call, reply>>

LoopSteps ==
  /\ loop = "running"
  /\ Loop
  /\ UNCHANGED service

LoopReturns ==
  /\ loop = "running"
  /\ Return
  /\ UNCHANGED service

TraceeTraps ==
  /\ loop = "running"
  /\ \E t \in Thread : Trap(t)
  /\ UNCHANGED service

\* MainLoop has returned and the go routine left by Detach gets its result.
Detached ==
  /\ mtx = "detacher"
  /\ loop = "running" /\ phase = "ended"
  /\ loop' = "none"
  /\ controller' = FALSE
  /\ mtx' = "free"
  /\ UNCHANGED <<vars, call, reply>>

Methods(c) ==
  \/ AttachTwice(c) \/ AttachSucceeds(c)
  \/ DetachNothing(c) \/ Detach(c)
  \/ AddNothing(c) \/ Add(c) \/ AddRefused(c)

ReliableNext ==
  \/ \E c \in Caller, r \in Calls \ {Idle} : Request(c, r)
  \/ \E c \in Caller : Methods(c)
  \/ LoopStarts \/ LoopSteps \/ LoopReturns \/ TraceeTraps \/ Detached

ServiceNext == ReliableNext \/ \E c \in Caller : AttachFails(c)

ServiceSpec == ServiceInit /\ [][ServiceNext]_svars

\* Go routines that can run do run, the mutex is fair (sync.Mutex hands it over
\* to a starving waiter).
Scheduling ==
  /\ \A c \in Caller : SF_svars(Methods(c))
  /\ WF_svars(LoopStarts) /\ WF_svars(LoopSteps) /\ WF_svars(Detached)

\* Attaching succeeds and the tracee hits breakpoints again and again.
ReliableServiceSpec ==
  /\ ServiceInit /\ [][ReliableNext]_svars
  /\ Scheduling /\ WF_svars(TraceeTraps)

-----------------------------------------------------------------------------
(* Properties.                                                             *)

\* While a main loop has a go routine its controller is not dropped: the go
\* routine reads t.controller without the mutex when it starts (service.go:65).
LoopHasController == loop # "none" => controller

StartsFirst == loop' = "starting" => loop \in {"none", "starting"}

\* A step that takes the interrupt out of the channel and ends the main loop.
EndsByInterrupt == phase' = "ended" /\ interruptCh /\ ~interruptCh'

InterruptedForDetach == EndsByInterrupt => mtx = "detacher"

\* There is one main loop at a time, and a result that a main loop still has to
\* hand over is never lost to a new one: Attach starts none while there is one.
OneLoop == [][StartsFirst]_svars

\* One attachment does not reach into the next (service.go:65-89): besides OneLoop,
\* an interrupt ends a main loop only while the Detach that sent it waits for that
\* loop.  The interrupt of a Detach whose main loop returned by itself, because the
\* tracee exited, is never taken by the main loop of a later Attach.
AttachmentsSeparate == [][StartsFirst /\ InterruptedForDetach]_svars

\* Detach "lets the server detach from the attached process" (service.go:74): the
\* go routine it leaves behind ends and gives the mutex back.
DetachEnds == mtx = "detacher" ~> mtx = "free"

\* Every call is answered.
CallsAnswered == \A c \in Caller : call[c] # Idle ~> call[c] = Idle

=============================================================================
