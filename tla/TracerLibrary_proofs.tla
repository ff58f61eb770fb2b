------------------------ MODULE TracerLibrary_proofs ------------------------
(***************************************************************************)
(* lib/tracer, for any number of threads, places and attempts to connect.  *)
(***************************************************************************)
EXTENDS TracerLibrary, Service_proofs

\* The server that is about to be terminated can be: closing the client fails only
\* if it was closed before, and then there is no server.
Terminable ==
  /\ NoServerLeft
  /\ mutex.step \in {"prepare", "attach", "add end"} => client = "open"
  /\ mutex.step = "terminate" => client # "closed" \/ server = "none"
  /\ mutex = [step |-> mutex.step, thread |-> mutex.thread, tries |-> mutex.tries]

LEMMA StartKeepsTerminable ==
  ASSUME Terminable, NEW t \in Thread, Start(t)
  PROVE  Terminable'
<1> USE DEF Terminable, NoServerLeft
<1>1. CASE StartServer(t)
  BY <1>1 DEF StartServer, Lock
<1>2. CASE StartServerFails(t)
  BY <1>2 DEF StartServerFails, Lock, Locks
<1>3. CASE AddStart(t)
  <2>1. mutex' = [step |-> "add start", thread |-> t, tries |-> 0] \/ mutex' = Free
    BY <1>3 DEF AddStart, Lock, Returned
  <2>2. UNCHANGED <<serverCmd, client, server>>
    BY <1>3 DEF AddStart
  <2>3. CASE mutex' = Free
    BY <2>2, <2>3 DEF Free
  <2>4. CASE mutex' = [step |-> "add start", thread |-> t, tries |-> 0]
    BY <2>2, <2>4
  <2> QED BY <2>1, <2>3, <2>4
<1> QED BY <1>1, <1>2, <1>3 DEF Start

LEMMA ContinuingKeepsTerminable ==
  ASSUME Terminable, NEW t \in Thread, Continues(t)
  PROVE  Terminable'
<1> USE DEF Terminable, NoServerLeft, Holds
<1>1. CASE Connect(t)
  <2>1. CASE server = "listening"
    BY <1>1, <2>1 DEF Connect, Step
  <2>2. CASE server # "listening"
    BY <1>1, <2>2 DEF Connect
  <2> QED BY <2>1, <2>2
<1>2. CASE Prepare(t)
  BY <1>2 DEF Prepare, TryCall, Step
<1>3. CASE PrepareFails(t)
  BY <1>3 DEF PrepareFails, Step
<1>4. CASE AddEnd(t)
  BY <1>4 DEF AddEnd, Replied, TryCall, Step
<1>5. CASE AttachReturns(t)
  <2>1. UNCHANGED <<serverCmd, client, server>> /\ mutex.step = "add end"
    BY <1>5 DEF AttachReturns, Replied
  <2>2. mutex' = Free \/ mutex' = [mutex EXCEPT !.step = "terminate"]
    BY <1>5 DEF AttachReturns, Step, Returned
  <2> QED BY <2>1, <2>2 DEF Free
<1>6. CASE AddReturns(t)
  BY <1>6 DEF AddReturns, Replied, Returned, Free
<1>7. CASE TerminateServer(t)
  BY <1>7 DEF TerminateServer, ServerEnds, Returned, Free
<1> QED BY <1>1, <1>2, <1>3, <1>4, <1>5, <1>6, <1>7 DEF Continues

LEMMA StaysTerminable ==
  ASSUME Terminable, [LibraryNext]_lvars
  PROVE  Terminable'
<1> USE DEF Terminable, NoServerLeft
<1>1. ASSUME NEW t \in Thread, \E a \in StartPoint : CallStart(t, a)
      PROVE  UNCHANGED <<library, server>>
  BY <1>1 DEF CallStart
<1>2. ASSUME NEW t \in Thread, PassStartPoint(t) \/ CallStop(t) \/ TrapInSession(t) \/ Serves(t)
      PROVE  UNCHANGED <<library, server>>
  BY <1>2 DEF PassStartPoint, CallStop, TrapInSession, Serves
<1>3. CASE ServerListens  BY <1>3 DEF ServerListens, library
<1>4. CASE ServerExits  BY <1>4 DEF ServerExits, ServerEnds, library
<1>5. Controls \/ Ends \/ UNCHANGED lvars => UNCHANGED <<library, server>>
  BY DEF Controls, Ends, lvars, library
<1>6. ASSUME UNCHANGED <<library, server>>  PROVE Terminable'
  BY <1>6 DEF library
<1> QED
  BY <1>1, <1>2, <1>3, <1>4, <1>5, <1>6, StartKeepsTerminable, ContinuingKeepsTerminable
  DEF LibraryNext

\* However many threads call Start and whatever fails on the way, a server is running
\* only while serverCmd is set, so that some later Start can use or terminate it
\* (launchServer, terminateServer).
THEOREM NoServerLeftCorrect == LibrarySpec => []NoServerLeft
<1>1. LibraryInit => Terminable
  BY DEF LibraryInit, Terminable, NoServerLeft, Free
<1>2. Terminable => NoServerLeft
  BY DEF Terminable
<1> QED BY <1>1, <1>2, StaysTerminable, PTL DEF LibrarySpec

-----------------------------------------------------------------------------
(* Who holds serverMtx, and which call it waits for.                       *)

\* Start has serverMtx from its beginning to its end, and every step of it but
\* terminating has a server process.
MutexOK ==
  /\ mutex = [step |-> mutex.step, thread |-> mutex.thread, tries |-> mutex.tries]
  /\ mutex.step # "free" => mutex.thread \in Thread /\ At(mutex.thread, "start")
  /\ mutex.step \in {"connect", "prepare", "attach", "add end", "add start"} => serverCmd

\* A call in progress is that of the thread with serverMtx, and the one of its step.
Asks(c) ==
  call[c] # Idle =>
    \/ Holds(c, "attach") /\ call[c] = [method |-> "Attach", point |-> position[c].point]
    \/ Holds(c, "add end") /\ call[c] = [method |-> "Add", kind |-> "end", point |-> Stop]
    \/ Holds(c, "add start")
         /\ call[c] = [method |-> "Add", kind |-> "start", point |-> position[c].point]
OneCaller == \A c \in Thread : Asks(c)

\* After a Start that was successful no other one launches a server or terminates it.
Successful(t) == position[t].by # "nothing"
Settled == serverCmd /\ mutex.step \in {"free", "add start"}
SuccessSettles == \A t \in Thread : Successful(t) => Settled

Control == LibraryTypeOK /\ MutexOK /\ OneCaller /\ SuccessSettles

Positions == [at : {"outside", "start", "point", "session"}, point : StartPoint,
              by : {"nothing", "Attach", "AddStartTracePoint"}, traced : BOOLEAN]

OthersKept(t) ==
  \A u \in Thread : u # t =>
    position'[u] = position[u] /\ call'[u] = call[u]

\* A step of one thread that has serverMtx, or takes it, keeps the others' calls right.
LEMMA ControlByThread ==
  ASSUME Control, NEW t \in Thread, LibraryTypeOK', OthersKept(t),
         mutex' = [step |-> mutex'.step, thread |-> mutex'.thread, tries |-> mutex'.tries],
         mutex.step = "free" \/ mutex.thread = t \/ UNCHANGED <<mutex, serverCmd>>,
         mutex'.step = "free" \/ mutex'.thread = t \/ UNCHANGED <<mutex, serverCmd>>,
         mutex'.step # "free" /\ mutex'.thread = t => position'[t].at = "start",
         mutex'.step \in {"connect", "prepare", "attach", "add end", "add start"} => serverCmd',
         Asks(t)',
         Settled' \/ ((Settled => Settled') /\ (Successful(t)' => Successful(t)))
  PROVE  Control'
<1> USE DEF Control, OthersKept
<1>1. MutexOK'  BY DEF MutexOK, At
<1>2. ASSUME NEW u \in Thread, u # t  PROVE Asks(u)'
  <2>1. CASE mutex.step = "free" \/ mutex.thread = t
    <3>1. call[u] = Idle  BY <1>2, <2>1 DEF OneCaller, Asks, Holds
    <3>2. QED  BY <1>2, <3>1 DEF Asks
  <2>2. CASE UNCHANGED mutex
    BY <1>2, <2>2 DEF OneCaller, Asks, Holds
  <2>3. QED  BY <2>1, <2>2
<1>3. OneCaller'  BY <1>2 DEF OneCaller
<1>4. SuccessSettles'
  BY DEF SuccessSettles, Successful
<1>5. QED  BY <1>1, <1>3, <1>4

\* ... and the mutex and the call of the thread itself, when it asks and when it returns.
LEMMA StepOfMutex ==
  ASSUME MutexOK, NEW s, Step(s)
  PROVE  /\ mutex'.step = s /\ mutex'.thread = mutex.thread /\ mutex'.tries = mutex.tries
         /\ mutex' = [step |-> mutex'.step, thread |-> mutex'.thread, tries |-> mutex'.tries]
BY DEF MutexOK, Step

LEMMA LockOfMutex ==
  ASSUME NEW t \in Thread, NEW s, Lock(t, s)
  PROVE  /\ mutex'.step = s /\ mutex'.thread = t /\ mutex'.tries = 0
         /\ mutex' = [step |-> mutex'.step, thread |-> mutex'.thread, tries |-> mutex'.tries]
BY DEF Lock

LEMMA FreeMutex ==
  ASSUME mutex' = Free
  PROVE  /\ mutex'.step = "free" /\ mutex'.tries = 0
         /\ mutex' = [step |-> mutex'.step, thread |-> mutex'.thread, tries |-> mutex'.tries]
BY DEF Free

LEMMA TriesTyped == 0 \in 0..(NumRetries - 1)
BY LibraryAssumption

LEMMA PointsTyped ==
  ASSUME LibraryTypeOK, NEW t \in Thread
  PROVE  position[t] \in Positions /\ position[t].point \in TracePoint /\ Stop \in TracePoint
BY LibraryAssumption DEF LibraryTypeOK, Positions

LEMMA RequestEffect ==
  ASSUME LibraryTypeOK, NEW t \in Thread, NEW r \in Calls, Request(t, r)
  PROVE  /\ ServiceTypeOK' /\ call[t] = Idle /\ call'[t] = r /\ reply'[t] = "none"
         /\ \A u \in Thread : u # t => call'[u] = call[u] /\ reply'[u] = reply[u]
         /\ UNCHANGED <<vars, mtx, controller, loop>>
<1>1. t \in Caller  BY LibraryAssumption
<1>2. ServiceTypeOK'  BY <1>1, RequestTyped DEF LibraryTypeOK
<1>3. call \in [Thread -> Calls] /\ reply \in [Thread -> Reply]
  BY LibraryAssumption DEF LibraryTypeOK, ServiceTypeOK
<1>4. QED  BY <1>2, <1>3 DEF Request

LEMMA ReturnedEffect ==
  ASSUME LibraryTypeOK, NEW t \in Thread, NEW by \in {"nothing", "Attach", "AddStartTracePoint"},
         Returned(t, by)
  PROVE  /\ position' \in [Thread -> Positions] /\ mutex' = Free
         /\ position'[t].at = "point" /\ position'[t].by = by
         /\ position'[t].point = position[t].point /\ position'[t].traced = position[t].traced
         /\ \A u \in Thread : u # t => position'[u] = position[u]
<1>1. position \in [Thread -> Positions]  BY DEF LibraryTypeOK, Positions
<1>2. DEFINE new == [position[t] EXCEPT !.at = "point", !.by = by]
<1>3. position[t] \in Positions  BY <1>1
<1>4. /\ new \in Positions /\ new.at = "point" /\ new.by = by
      /\ new.point = position[t].point /\ new.traced = position[t].traced
  BY <1>3 DEF Positions
<1>5. position' = [position EXCEPT ![t] = new] /\ mutex' = Free
  BY <1>1 DEF Returned
<1> HIDE DEF new
<1>6. QED  BY <1>1, <1>4, <1>5

LEMMA ServiceUntouched ==
  ASSUME LibraryTypeOK, UNCHANGED svars
  PROVE  ServiceTypeOK' /\ UNCHANGED <<vars, service, mtx, controller, loop, call, reply>>
<1>1. ServiceTypeOK'  BY ServiceTypePreserved DEF LibraryTypeOK
<1>2. QED  BY <1>1 DEF svars, service

-----------------------------------------------------------------------------
(* The steps of Start.                                                     *)

LEMMA CallStartControl ==
  ASSUME Control, NEW t \in Thread, NEW a \in StartPoint, CallStart(t, a)
  PROVE  Control'
<1> USE DEF Control
<1>1. /\ At(t, "outside") /\ position' = [position EXCEPT ![t] = Position("start", a)]
      /\ UNCHANGED <<svars, serverCmd, client, mutex, server>>
  BY DEF CallStart, library
<1>2. ServiceTypeOK' /\ UNCHANGED <<call, reply>>  BY <1>1, ServiceUntouched
<1>3. position \in [Thread -> Positions] /\ Position("start", a) \in Positions
  BY DEF LibraryTypeOK, Positions, Position
<1>4. /\ position' \in [Thread -> Positions] /\ position'[t] = Position("start", a)
      /\ OthersKept(t)
  BY <1>1, <1>2, <1>3 DEF OthersKept
<1>5. LibraryTypeOK'  BY <1>1, <1>2, <1>4 DEF LibraryTypeOK, Positions
<1>6. call[t] = Idle
  BY <1>1 DEF OneCaller, Asks, Holds, MutexOK, At
<1>7. position'[t].at = "start" /\ position'[t].by = "nothing"  BY <1>4 DEF Position
<1>8. Asks(t)'  BY <1>2, <1>6 DEF Asks
<1>9. QED
  BY <1>1, <1>4, <1>5, <1>7, <1>8, ControlByThread DEF MutexOK, Successful, Settled

\* The thread that takes serverMtx makes no call yet, or that of its step.
LEMMA LockControl ==
  ASSUME Control, NEW t \in Thread, StartServer(t) \/ StartServerFails(t)
  PROVE  Control'
<1> USE DEF Control
<1>1. /\ At(t, "start") /\ mutex = Free /\ ~serverCmd
      /\ UNCHANGED <<svars, client, position>>
      /\ serverCmd' \in BOOLEAN
      /\ server' = server \/ server' = "starting"
  BY DEF StartServer, StartServerFails, Locks
<1>2. (Lock(t, "connect") /\ serverCmd' = TRUE) \/ Lock(t, "terminate")
  BY DEF StartServer, StartServerFails
<1>3. ServiceTypeOK' /\ UNCHANGED <<call, reply>>  BY <1>1, ServiceUntouched
<1>4. /\ mutex'.step \in {"connect", "terminate"} /\ mutex'.thread = t /\ mutex'.tries = 0
      /\ mutex' = [step |-> mutex'.step, thread |-> mutex'.thread, tries |-> mutex'.tries]
      /\ mutex'.step = "connect" => serverCmd'
  BY <1>2, LockOfMutex
<1>5. LibraryTypeOK'
  BY <1>1, <1>3, <1>4, TriesTyped DEF LibraryTypeOK
<1>6. mutex.step = "free"  BY <1>1, FreeMutex DEF Free
<1>7. call[t] = Idle  BY <1>6 DEF OneCaller, Asks, Holds
<1>8. Asks(t)' /\ OthersKept(t)  BY <1>1, <1>3, <1>7 DEF Asks, OthersKept
<1>9. ~Settled /\ (Successful(t)' => Successful(t))  BY <1>1 DEF Settled, Successful
<1>10. position'[t].at = "start"  BY <1>1 DEF At
<1>11. QED
  BY <1>4, <1>5, <1>6, <1>8, <1>9, <1>10, ControlByThread

LEMMA AddStartControl ==
  ASSUME Control, NEW t \in Thread, AddStart(t)
  PROVE  Control'
<1> USE DEF Control
<1>1. /\ At(t, "start") /\ mutex = Free /\ serverCmd
      /\ UNCHANGED <<serverCmd, client, server>>
  BY DEF AddStart, Locks
<1>2. mutex.step = "free"  BY <1>1, FreeMutex DEF Free
<1>3. call[t] = Idle  BY <1>2 DEF OneCaller, Asks, Holds
<1>4. CASE server = "serving"
  <2>1. DEFINE r == [method |-> "Add", kind |-> "start", point |-> position[t].point]
  <2>2. r \in Calls  BY PointsTyped DEF Calls, Kind
  <2>3. Request(t, r) /\ Lock(t, "add start") /\ UNCHANGED position  BY <1>4 DEF AddStart
  <2> HIDE DEF r
  <2>4. /\ ServiceTypeOK' /\ call'[t] = r
        /\ \A u \in Thread : u # t => call'[u] = call[u] /\ reply'[u] = reply[u]
    BY <2>2, <2>3, RequestEffect
  <2>5. /\ mutex'.step = "add start" /\ mutex'.thread = t /\ mutex'.tries = 0
        /\ mutex' = [step |-> mutex'.step, thread |-> mutex'.thread, tries |-> mutex'.tries]
    BY <2>3, LockOfMutex
  <2>6. LibraryTypeOK'  BY <1>1, <2>3, <2>4, <2>5, TriesTyped DEF LibraryTypeOK
  <2>7. Asks(t)'  BY <2>3, <2>4, <2>5 DEF Asks, Holds, r
  <2>8. OthersKept(t)  BY <2>3, <2>4 DEF OthersKept
  <2>9. position'[t].at = "start" /\ serverCmd' /\ Settled'  BY <1>1, <2>3, <2>5 DEF At, Settled
  <2>10. QED  BY <1>2, <2>5, <2>6, <2>7, <2>8, <2>9, ControlByThread
<1>5. CASE server # "serving"
  <2>1. Returned(t, "nothing") /\ UNCHANGED svars  BY <1>5 DEF AddStart
  <2>2. /\ position' \in [Thread -> Positions] /\ mutex' = Free
        /\ \A u \in Thread : u # t => position'[u] = position[u]
    BY <2>1, ReturnedEffect
  <2>3. ServiceTypeOK' /\ UNCHANGED <<call, reply>>  BY <2>1, ServiceUntouched
  <2>4. /\ mutex'.step = "free" /\ mutex'.tries = 0
        /\ mutex' = [step |-> mutex'.step, thread |-> mutex'.thread, tries |-> mutex'.tries]
    BY <2>2, FreeMutex
  <2>5. LibraryTypeOK'  BY <1>1, <2>2, <2>3, <2>4, TriesTyped DEF LibraryTypeOK, Positions
  <2>6. Asks(t)' /\ OthersKept(t) /\ Settled'
    BY <1>1, <1>3, <2>2, <2>3, <2>4 DEF Asks, OthersKept, Settled
  <2>7. QED  BY <1>1, <1>2, <2>4, <2>5, <2>6, ControlByThread
<1>6. QED  BY <1>4, <1>5

LEMMA ConnectControl ==
  ASSUME Control, NEW t \in Thread, Connect(t)
  PROVE  Control'
<1> USE DEF Control
<1>1. Holds(t, "connect") /\ UNCHANGED <<svars, serverCmd, position>>  BY DEF Connect
<1>2. ServiceTypeOK' /\ UNCHANGED <<call, reply>>  BY <1>1, ServiceUntouched
<1>3. /\ mutex'.step \in {"connect", "prepare", "terminate"} /\ mutex'.thread = t
      /\ mutex'.tries \in 0..(NumRetries - 1)
      /\ mutex' = [step |-> mutex'.step, thread |-> mutex'.thread, tries |-> mutex'.tries]
  <2>1. mutex.tries \in 0..(NumRetries - 1)  BY DEF LibraryTypeOK
  <2>2. mutex = [step |-> mutex.step, thread |-> mutex.thread, tries |-> mutex.tries]
    BY DEF MutexOK
  <2>3. CASE Step("prepare")  BY <1>1, <2>1, <2>3, StepOfMutex DEF Holds
  <2>4. CASE /\ mutex' = [mutex EXCEPT !.tries = @ + 1]
             /\ mutex.tries + 1 < NumRetries
    <3>1. mutex.tries + 1 \in 0..(NumRetries - 1)  BY <2>1, <2>4, LibraryAssumption
    <3>2. QED  BY <1>1, <2>2, <2>4, <3>1 DEF Holds
  <2>5. CASE mutex' = [mutex EXCEPT !.step = "terminate", !.tries = 0]
    BY <1>1, <2>2, <2>5, TriesTyped DEF Holds
  <2>6. QED  BY <2>3, <2>4, <2>5 DEF Connect
<1>4. client' \in {"nil", "open"} /\ server' \in {"serving", server}  BY DEF Connect
<1>5. LibraryTypeOK'  BY <1>1, <1>2, <1>3, <1>4 DEF LibraryTypeOK
<1>6. call[t] = Idle  BY <1>1 DEF OneCaller, Asks, Holds
<1>7. Asks(t)' /\ OthersKept(t)  BY <1>1, <1>2, <1>6 DEF Asks, OthersKept
<1>8. ~Settled /\ (Successful(t)' => Successful(t))  BY <1>1 DEF Settled, Successful, Holds
<1>9. position'[t].at = "start" /\ serverCmd' /\ mutex.thread = t
  BY <1>1 DEF At, MutexOK, Holds
<1>10. QED  BY <1>3, <1>5, <1>7, <1>8, <1>9, ControlByThread

\* A call of the server, or the end of Start when the connection is lost.
LEMMA TryCallControl ==
  ASSUME Control, NEW t \in Thread, NEW step \in {"attach", "add end"},
         NEW r \in Calls, TryCall(t, r, step),
         mutex.thread = t, mutex.step \in {"prepare", "attach"},
         step = "attach" => r = [method |-> "Attach", point |-> position[t].point],
         step = "add end" => r = [method |-> "Add", kind |-> "end", point |-> Stop],
         call[t] = Idle,
         UNCHANGED <<serverCmd, client, server, position>>
  PROVE  Control'
<1> USE DEF Control
<1>1. serverCmd' /\ position'[t].at = "start" /\ ~Settled /\ (Successful(t)' => Successful(t))
  BY DEF MutexOK, At, Settled, Successful
<1>2. ASSUME NEW s \in {"attach", "add end", "terminate"}, Step(s)
      PROVE  /\ mutex'.step = s /\ mutex'.thread = t /\ mutex'.tries \in 0..(NumRetries - 1)
             /\ mutex' = [step |-> mutex'.step, thread |-> mutex'.thread, tries |-> mutex'.tries]
  BY <1>2, StepOfMutex DEF LibraryTypeOK
<1>3. CASE Request(t, r) /\ Step(step)
  <2>1. /\ ServiceTypeOK' /\ call'[t] = r
        /\ \A u \in Thread : u # t => call'[u] = call[u] /\ reply'[u] = reply[u]
    BY <1>3, RequestEffect
  <2>2. /\ mutex'.step = step /\ mutex'.thread = t /\ mutex'.tries \in 0..(NumRetries - 1)
        /\ mutex' = [step |-> mutex'.step, thread |-> mutex'.thread, tries |-> mutex'.tries]
    BY <1>2, <1>3
  <2>3. LibraryTypeOK'  BY <2>1, <2>2 DEF LibraryTypeOK
  <2>4. Asks(t)'  BY <2>1, <2>2 DEF Asks, Holds
  <2>5. OthersKept(t)  BY <2>1 DEF OthersKept
  <2>6. QED  BY <1>1, <2>2, <2>3, <2>4, <2>5, ControlByThread
<1>4. CASE Step("terminate") /\ UNCHANGED svars
  <2>1. ServiceTypeOK' /\ UNCHANGED <<call, reply>>  BY <1>4, ServiceUntouched
  <2>2. /\ mutex'.step = "terminate" /\ mutex'.thread = t /\ mutex'.tries \in 0..(NumRetries - 1)
        /\ mutex' = [step |-> mutex'.step, thread |-> mutex'.thread, tries |-> mutex'.tries]
    BY <1>2, <1>4
  <2>3. LibraryTypeOK'  BY <2>1, <2>2 DEF LibraryTypeOK
  <2>4. Asks(t)' /\ OthersKept(t)  BY <2>1 DEF Asks, OthersKept
  <2>5. QED  BY <1>1, <2>2, <2>3, <2>4, ControlByThread
<1>5. QED  BY <1>3, <1>4 DEF TryCall

\* The step that ends Start with an error.
LEMMA GivesUpControl ==
  ASSUME Control, NEW t \in Thread, Step("terminate"),
         mutex.thread = t, mutex.step \in {"prepare", "attach", "add end"}, call[t] = Idle,
         UNCHANGED <<svars, serverCmd, client, server, position>>
  PROVE  Control'
<1> USE DEF Control
<1>1. ServiceTypeOK' /\ UNCHANGED <<call, reply>>  BY ServiceUntouched
<1>2. /\ mutex'.step = "terminate" /\ mutex'.thread = t /\ mutex'.tries \in 0..(NumRetries - 1)
      /\ mutex' = [step |-> mutex'.step, thread |-> mutex'.thread, tries |-> mutex'.tries]
  BY StepOfMutex DEF LibraryTypeOK
<1>3. LibraryTypeOK'  BY <1>1, <1>2 DEF LibraryTypeOK
<1>4. Asks(t)' /\ OthersKept(t)  BY <1>1 DEF Asks, OthersKept
<1>5. position'[t].at = "start" /\ ~Settled /\ (Successful(t)' => Successful(t))
  BY DEF MutexOK, At, Settled, Successful
<1>6. QED  BY <1>2, <1>3, <1>4, <1>5, ControlByThread

\* Start returns: with a server when it was successful.
LEMMA ReturnedControl ==
  ASSUME Control, NEW t \in Thread, mutex.thread = t, mutex.step # "free",
         NEW by \in {"nothing", "Attach", "AddStartTracePoint"}, Returned(t, by),
         ServiceTypeOK', call'[t] = Idle,
         \A u \in Thread : u # t => call'[u] = call[u],
         client' \in {"nil", "open", "closed"},
         server' \in {"none", server}, serverCmd' \in BOOLEAN,
         serverCmd' \/ (~Settled /\ by = "nothing")
  PROVE  Control'
<1> USE DEF Control
<1>1. /\ position' \in [Thread -> Positions] /\ mutex' = Free
      /\ position'[t].by = by
      /\ \A u \in Thread : u # t => position'[u] = position[u]
  BY ReturnedEffect
<1>2. /\ mutex'.step = "free" /\ mutex'.tries = 0
      /\ mutex' = [step |-> mutex'.step, thread |-> mutex'.thread, tries |-> mutex'.tries]
  BY <1>1, FreeMutex
<1>3. LibraryTypeOK'  BY <1>1, <1>2, TriesTyped DEF LibraryTypeOK, Positions
<1>4. Asks(t)' /\ OthersKept(t)  BY <1>1 DEF Asks, OthersKept
<1>5. Settled' \/ ((Settled => Settled') /\ (Successful(t)' => Successful(t)))
  BY <1>1, <1>2 DEF Settled, Successful
<1>6. QED  BY <1>2, <1>3, <1>4, <1>5, ControlByThread

\* What is left of the server when its process has ended: nothing.
LEMMA ServerEndsEffect ==
  ASSUME LibraryTypeOK, ServerEnds
  PROVE  /\ ServiceTypeOK' /\ \A u \in Thread : call'[u] = Idle
         /\ server' = "none" /\ loop' = "none" /\ controller' = FALSE /\ phase' = "resuming"
<1>1. <<>> \in Seq(TracePoint) /\ Len(<<>>) = 0  OBVIOUS
<1>2. pending' = [k \in Kind |-> <<>>]  BY DEF ServerEnds
<1>3. pending' \in [Kind -> Seq(TracePoint)] /\ \A k \in Kind : Len(pending'[k]) <= ChanBufferSize
  BY <1>1, <1>2, MainLoopAssumption
<1>4. TypeOK'  BY <1>3 DEF ServerEnds, TypeOK
<1>5. ServiceTypeOK'  BY <1>4 DEF ServerEnds, ServiceTypeOK, Calls, Reply
<1>6. QED  BY <1>5, LibraryAssumption DEF ServerEnds

LEMMA TerminateControl ==
  ASSUME Control, NEW t \in Thread, TerminateServer(t)
  PROVE  Control'
<1> USE DEF Control
<1>1. Holds(t, "terminate") /\ serverCmd' = FALSE /\ Returned(t, "nothing")
  BY DEF TerminateServer
<1>2. mutex.thread = t /\ mutex.step # "free" /\ ~Settled  BY <1>1 DEF Holds, Settled
<1>3. \A u \in Thread : call[u] = Idle  BY <1>1 DEF OneCaller, Asks, Holds
<1>4. /\ ServiceTypeOK' /\ \A u \in Thread : call'[u] = Idle
      /\ server' \in {"none", server} /\ client' \in {"nil", "open", "closed"}
  <2>1. CASE client = "closed"
    <3>1. UNCHANGED <<svars, client, server>>  BY <2>1 DEF TerminateServer
    <3>2. QED  BY <1>3, <3>1, ServiceUntouched DEF LibraryTypeOK
  <2>2. CASE client # "closed"
    <3>1. ServerEnds /\ client' \in {"closed", "nil"}  BY <2>2 DEF TerminateServer
    <3>2. QED  BY <3>1, ServerEndsEffect
  <2>3. QED  BY <2>1, <2>2
<1>5. \A u \in Thread : u # t => call'[u] = call[u]  BY <1>3, <1>4
<1>6. QED  BY <1>1, <1>2, <1>4, <1>5, ReturnedControl

LEMMA ContinuesControl ==
  ASSUME Control, NEW t \in Thread, Continues(t)
  PROVE  Control'
<1> USE DEF Control
<1>1. CASE Connect(t)  BY <1>1, ConnectControl
<1>2. CASE Prepare(t)
  <2>1. DEFINE r == [method |-> "Attach", point |-> position[t].point]
  <2>2. Holds(t, "prepare") /\ TryCall(t, r, "attach")
        /\ UNCHANGED <<serverCmd, client, server, position>>
    BY <1>2 DEF Prepare
  <2>3. r \in Calls  BY PointsTyped DEF Calls
  <2>4. call[t] = Idle  BY <2>2 DEF OneCaller, Asks, Holds
  <2>5. r = [method |-> "Attach", point |-> position[t].point]  OBVIOUS
  <2> HIDE DEF r
  <2>6. QED  BY <2>2, <2>3, <2>4, <2>5, TryCallControl DEF Holds
<1>3. CASE PrepareFails(t)
  <2>1. Holds(t, "prepare") /\ Step("terminate")
        /\ UNCHANGED <<svars, serverCmd, client, server, position>>
    BY <1>3 DEF PrepareFails
  <2>2. call[t] = Idle  BY <2>1 DEF OneCaller, Asks, Holds
  <2>3. QED  BY <2>1, <2>2, GivesUpControl DEF Holds
<1>4. CASE AddEnd(t)
  <2>1. /\ mutex.thread = t /\ mutex.step = "attach" /\ call[t] = Idle
        /\ UNCHANGED <<serverCmd, client, server, position>>
    BY <1>4 DEF AddEnd, Replied, Holds
  <2>2. CASE reply[t] = "nil"
    <3>1. DEFINE r == [method |-> "Add", kind |-> "end", point |-> Stop]
    <3>2. TryCall(t, r, "add end")  BY <1>4, <2>2 DEF AddEnd
    <3>3. r \in Calls  BY PointsTyped DEF Calls, Kind
    <3>4. r = [method |-> "Add", kind |-> "end", point |-> Stop]  OBVIOUS
    <3> HIDE DEF r
    <3>5. QED  BY <2>1, <3>2, <3>3, <3>4, TryCallControl
  <2>3. CASE reply[t] # "nil"
    <3>1. Step("terminate") /\ UNCHANGED svars  BY <1>4, <2>3 DEF AddEnd
    <3>2. QED  BY <2>1, <3>1, GivesUpControl
  <2>4. QED  BY <2>2, <2>3
<1>5. CASE AttachReturns(t)
  <2>1. /\ mutex.thread = t /\ mutex.step = "add end" /\ call[t] = Idle
        /\ UNCHANGED <<svars, serverCmd, client, server>>
    BY <1>5 DEF AttachReturns, Replied, Holds
  <2>2. serverCmd'  BY <2>1 DEF MutexOK
  <2>3. ServiceTypeOK' /\ UNCHANGED <<call, reply>>  BY <2>1, ServiceUntouched
  <2>4. CASE Returned(t, "Attach")
    BY <2>1, <2>2, <2>3, <2>4, ReturnedControl DEF LibraryTypeOK
  <2>5. CASE Step("terminate") /\ UNCHANGED position
    BY <2>1, <2>5, GivesUpControl
  <2>6. QED  BY <1>5, <2>4, <2>5 DEF AttachReturns
<1>6. CASE AddReturns(t)
  <2>1. /\ mutex.thread = t /\ mutex.step = "add start" /\ call[t] = Idle
        /\ UNCHANGED <<svars, serverCmd, client, server>>
    BY <1>6 DEF AddReturns, Replied, Holds
  <2>2. serverCmd'  BY <2>1 DEF MutexOK
  <2>3. ServiceTypeOK' /\ UNCHANGED <<call, reply>>  BY <2>1, ServiceUntouched
  <2>4. PICK by \in {"AddStartTracePoint", "nothing"} : Returned(t, by)
    BY <1>6 DEF AddReturns
  <2>5. QED  BY <2>1, <2>2, <2>3, <2>4, ReturnedControl DEF LibraryTypeOK
<1>7. CASE TerminateServer(t)  BY <1>7, TerminateControl
<1>8. QED  BY <1>1, <1>2, <1>3, <1>4, <1>5, <1>6, <1>7 DEF Continues

-----------------------------------------------------------------------------
(* The other steps.                                                        *)

\* A thread that gets past the trace point or to Stop is not in Start.
LEMMA MovesControl ==
  ASSUME Control, NEW t \in Thread, NEW p \in Positions,
         ~At(t, "start"), position' = [position EXCEPT ![t] = p],
         p.by = position[t].by, ServiceTypeOK', UNCHANGED <<call, library, server>>
  PROVE  Control'
<1> USE DEF Control
<1>1. position \in [Thread -> Positions]  BY DEF LibraryTypeOK, Positions
<1>2. position' \in [Thread -> Positions] /\ position'[t] = p /\ OthersKept(t)
  BY <1>1 DEF OthersKept
<1>3. UNCHANGED <<serverCmd, client, mutex>>  BY DEF library
<1>4. LibraryTypeOK'  BY <1>2, <1>3 DEF LibraryTypeOK, Positions
<1>5. call[t] = Idle  BY DEF OneCaller, Asks, Holds, MutexOK
<1>6. Asks(t)'  BY <1>5 DEF Asks
<1>7. Successful(t)' => Successful(t)  BY <1>2 DEF Successful
<1>8. (Settled => Settled')  BY <1>3 DEF Settled
<1>9. ~(mutex'.step # "free" /\ mutex'.thread = t)  BY <1>3 DEF MutexOK
<1>10. QED
  BY <1>2, <1>3, <1>4, <1>6, <1>7, <1>8, <1>9, ControlByThread DEF MutexOK

\* ... and what the program traps into is the tracee's.
LEMMA TrapTyped ==
  ASSUME LibraryTypeOK, NEW t \in Thread, Trap(t), UNCHANGED service
  PROVE  ServiceTypeOK' /\ UNCHANGED <<mtx, controller, loop, call, reply>>
<1>1. TypeOK'  BY TypePreserved DEF LibraryTypeOK, ServiceTypeOK, Next
<1>2. QED  BY <1>1 DEF service, LibraryTypeOK, ServiceTypeOK

LEMMA ProgramControl ==
  ASSUME Control, NEW t \in Thread, PassStartPoint(t) \/ CallStop(t) \/ TrapInSession(t)
  PROVE  Control'
<1> USE DEF Control
<1>1. position \in [Thread -> Positions]  BY DEF LibraryTypeOK, Positions
<1>2. CASE PassStartPoint(t) \/ CallStop(t)
  <2>1. /\ ~At(t, "start") /\ UNCHANGED <<library, server>>
        /\ (Trap(t) /\ UNCHANGED service) \/ UNCHANGED svars
    BY <1>2 DEF PassStartPoint, CallStop, At
  <2>2. ServiceTypeOK' /\ UNCHANGED call  BY <2>1, TrapTyped, ServiceUntouched
  <2>3. PICK at \in {"session", "outside"}, traced \in BOOLEAN :
          position' = [position EXCEPT ![t] = [@ EXCEPT !.at = at, !.traced = traced]]
    BY <1>1, <1>2 DEF PassStartPoint, CallStop, Positions
  <2>4. DEFINE p == [position[t] EXCEPT !.at = at, !.traced = traced]
  <2>5. p \in Positions /\ p.by = position[t].by  BY <1>1 DEF Positions
  <2>6. position' = [position EXCEPT ![t] = p]  BY <2>3
  <2> HIDE DEF p
  <2>7. QED  BY <2>1, <2>2, <2>5, <2>6, MovesControl
<1>3. CASE TrapInSession(t)
  <2>1. /\ ~At(t, "start") /\ UNCHANGED <<library, server, position>>
        /\ Trap(t) /\ UNCHANGED service
    BY <1>3 DEF TrapInSession, At
  <2>2. ServiceTypeOK' /\ UNCHANGED call  BY <2>1, TrapTyped
  <2>3. position' = [position EXCEPT ![t] = position[t]]  BY <1>1, <2>1
  <2>4. QED  BY <1>1, <2>1, <2>2, <2>3, MovesControl
<1>4. QED  BY <1>2, <1>3

\* The server answers the call of the thread with serverMtx.
LEMMA ServesControl ==
  ASSUME Control, NEW t \in Thread, Serves(t)
  PROVE  Control' /\ call'[t] = Idle /\ OthersKept(t)
<1> USE DEF Control
<1>1. /\ AttachSucceeds(t) \/ AttachFails(t) \/ Add(t) \/ AddRefused(t)
      /\ UNCHANGED <<serverCmd, client, mutex, server, position>> /\ t \in Caller
  BY LibraryAssumption DEF Serves, library
<1>2. ServiceNext  BY <1>1 DEF ServiceNext, ReliableNext, Methods
<1>3. ServiceTypeOK'  BY <1>2, ServiceTypePreserved DEF LibraryTypeOK
<1>4. call' = [call EXCEPT ![t] = Idle]
  BY <1>1 DEF AttachSucceeds, AttachFails, Add, AddRefused, Replies
<1>5. call \in [Thread -> Calls]  BY LibraryAssumption DEF LibraryTypeOK, ServiceTypeOK
<1>6. call'[t] = Idle /\ OthersKept(t)  BY <1>1, <1>4, <1>5 DEF OthersKept
<1>7. LibraryTypeOK'  BY <1>1, <1>3 DEF LibraryTypeOK
<1>8. Asks(t)'  BY <1>6 DEF Asks
<1>9. QED  BY <1>1, <1>6, <1>7, <1>8, ControlByThread DEF MutexOK, Settled, Successful, At

\* Nothing that the server's process does alone concerns the program.
LEMMA ServerControl ==
  ASSUME Control, UNCHANGED <<library, position>>, server' \in {"none", "listening", server},
         ServiceTypeOK', \A t \in Thread : call'[t] = Idle \/ call'[t] = call[t]
  PROVE  Control'
<1> USE DEF Control
<1>1. UNCHANGED <<serverCmd, client, mutex>>  BY DEF library
<1>2. LibraryTypeOK'  BY <1>1 DEF LibraryTypeOK
<1>3. MutexOK'  BY <1>1 DEF MutexOK, At
<1>4. OneCaller'  BY <1>1 DEF OneCaller, Asks, Holds
<1>5. SuccessSettles'  BY <1>1 DEF SuccessSettles, Successful, Settled
<1>6. QED  BY <1>2, <1>3, <1>4, <1>5

LEMMA ControlPreserved ==
  ASSUME Control, [LibraryNext]_lvars
  PROVE  Control'
<1>1. ASSUME NEW t \in Thread, \E a \in StartPoint : CallStart(t, a)  PROVE Control'
  BY <1>1, CallStartControl
<1>2. ASSUME NEW t \in Thread, Start(t)  PROVE Control'
  BY <1>2, LockControl, AddStartControl DEF Start
<1>3. ASSUME NEW t \in Thread, PassStartPoint(t) \/ CallStop(t) \/ TrapInSession(t)
      PROVE  Control'
  BY <1>3, ProgramControl
<1>4. LibraryTypeOK  BY DEF Control
<1>5. CASE ServerListens
  <2>1. ServiceTypeOK' /\ UNCHANGED call  BY <1>4, <1>5, ServiceUntouched DEF ServerListens
  <2>2. QED  BY <1>5, <2>1, ServerControl DEF ServerListens
<1>6. CASE ServerExits
  <2>1. ServiceTypeOK' /\ server' = "none" /\ \A t \in Thread : call'[t] = Idle
    BY <1>4, <1>6, ServerEndsEffect DEF ServerExits
  <2>2. QED  BY <1>6, <2>1, ServerControl DEF ServerExits
<1>7. CASE Controls \/ Ends
  <2>1. ServiceNext  BY <1>7 DEF Controls, Ends, ServiceNext, ReliableNext
  <2>2. ServiceTypeOK'  BY <1>4, <2>1, ServiceTypePreserved DEF LibraryTypeOK
  <2>3. UNCHANGED call
    BY <1>7 DEF Controls, Ends, LoopStarts, LoopSteps, LoopReturns, service
  <2>4. QED  BY <1>7, <2>2, <2>3, ServerControl DEF Controls, Ends
<1>8. CASE UNCHANGED lvars
  <2>1. ServiceTypeOK' /\ UNCHANGED call  BY <1>4, <1>8, ServiceUntouched DEF lvars
  <2>2. QED  BY <1>8, <2>1, ServerControl DEF lvars
<1>9. QED
  BY <1>1, <1>2, <1>3, <1>5, <1>6, <1>7, <1>8, ContinuesControl, ServesControl DEF LibraryNext

LEMMA ControlInitially == LibraryInit => Control
<1> SUFFICES ASSUME LibraryInit  PROVE Control
  OBVIOUS
<1>1. ServiceTypeOK  BY ServiceInitTyped DEF LibraryInit
<1>2. \A a \in StartPoint : /\ Position("outside", a) \in Positions
                           /\ Position("outside", a).by = "nothing"
  BY DEF Position, Positions
<1>3. position \in [Thread -> Positions] /\ \A t \in Thread : position[t].by = "nothing"
  BY <1>2 DEF LibraryInit
<1>4. mutex = Free /\ mutex.step = "free" /\ mutex.tries = 0  BY DEF LibraryInit, Free
<1>5. LibraryTypeOK  BY <1>1, <1>3, <1>4, TriesTyped DEF LibraryInit, LibraryTypeOK, Positions
<1>6. MutexOK  BY <1>4 DEF MutexOK, Free
<1>7. \A t \in Thread : call[t] = Idle  BY LibraryAssumption DEF LibraryInit, ServiceInit
<1>8. QED  BY <1>3, <1>5, <1>6, <1>7 DEF Control, OneCaller, Asks, SuccessSettles, Successful

\* However many threads call Start, each step of it that asks the server has the
\* mutex, and the types are as declared (serverMtx, Start, initialize).
THEOREM LibraryTypeCorrect == LibrarySpec => []LibraryTypeOK
<1>1. Control => LibraryTypeOK  BY DEF Control
<1>2. QED  BY <1>1, ControlInitially, ControlPreserved, PTL DEF LibrarySpec

-----------------------------------------------------------------------------
(* What a successful Start promises.                                       *)

\* The server has answered t's call with success, and t has not yet gone on.
Granted(t, step) == Holds(t, step) /\ call[t] = Idle /\ reply[t] = "nil"

\* From the attaching on, until its thread has passed it, the first trace point is
\* effective when the thread runs.
StartPromised(t) ==
  Granted(t, "attach") \/ Holds(t, "add end") \/ (At(t, "point") /\ position[t].by = "Attach")
WillTrace(t) ==
  \/ position[t].point \in active["start"]
  \/ t \in held /\ position[t].point \in Requested("start")

\* From the answer to initialize's second call on the entry of Stop is requested.
EndPromised == Settled \/ \E t \in Thread : Granted(t, "add end")
EndRequested == Stop \in active["end"] \cup Requested("end")

\* The trap that begins a session stops its thread until the requests are effective.
InSession(t) == At(t, "session") /\ Successful(t)
WillEnd(t) ==
  \/ Stop \in active["end"]
  \/ Stop \in Requested("end") /\ t \in trapped \cup held

Promises ==
  Attached =>
    /\ \A t \in Thread : StartPromised(t) => WillTrace(t)
    /\ EndPromised => EndRequested
    /\ \A t \in Thread : InSession(t) /\ position[t].traced => WillEnd(t)
    /\ \A t \in Thread : InSession(t) /\ position[t].by = "Attach" => position[t].traced

LibraryInv == Control /\ NothingHeldWhileWaiting /\ LoopHasController /\ Promises

\* A step of the main loop loses no request, and lets a stopped thread run only when
\* the requests are effective.
LEMMA LoopKeepsRequests ==
  ASSUME TypeOK, NothingHeldWhileWaiting, [Next]_vars
  PROVE  /\ \A k \in Kind : /\ active[k] \subseteq active'[k]
                            /\ Requested(k) \subseteq active'[k] \cup Requested(k)'
         /\ \A t \in Thread : t \in trapped \cup held =>
              t \in (trapped \cup held)' \/ \A k \in Kind : Requested(k) \subseteq active'[k]
         /\ \A t \in Thread : t \in held =>
              t \in held' \/ \A k \in Kind : Requested(k) \subseteq active'[k]
         /\ phase = "ended" => phase' = "ended"
<1> USE DEF TypeOK
<1>1. AppliedBeforeResuming  BY StepApplies
<1>2. \A k \in Kind : /\ active[k] \subseteq active'[k]
                      /\ Requested(k) \subseteq active'[k] \cup Requested(k)'
  <2>1. CASE UNCHANGED <<pending, active>>  BY <2>1 DEF Requested
  <2>2. CASE ContinueAndWait  BY <2>2 DEF ContinueAndWait
  <2>3. CASE \E k \in Kind, a \in TracePoint : AddTracePoint(k, a)
    <3>1. PICK k \in Kind, a \in TracePoint : AddTracePoint(k, a)  BY <2>3
    <3>2. pending' = [pending EXCEPT ![k] = Append(pending[k], a)] /\ UNCHANGED active
      BY <3>1 DEF AddTracePoint
    <3>3. ASSUME NEW j \in Kind  PROVE Requested(j) \subseteq Requested(j)'
      <4>1. CASE j = k
        <5>1. pending[k] \in Seq(TracePoint) /\ pending'[j] = Append(pending[k], a)
          BY <3>2, <4>1
        <5>2. \A i \in DOMAIN pending[k] : i \in DOMAIN pending'[j] /\ pending'[j][i] = pending[k][i]
          BY <5>1
        <5>3. QED  BY <4>1, <5>2 DEF Requested
      <4>2. CASE j # k  BY <3>2, <4>2 DEF Requested
      <4>3. QED  BY <4>1, <4>2
    <3>4. QED  BY <3>2, <3>3
  <2>4. QED
    BY <2>1, <2>2, <2>3 DEF Next, Loop, HandleTrap, Interrupted, Return, Trap, Interrupt, vars
<1>3. \A t \in Thread : t \in held =>
         t \in held' \/ \A k \in Kind : Requested(k) \subseteq active'[k]
  BY <1>1 DEF AppliedBeforeResuming
<1>4. \A t \in Thread : t \in trapped => t \in (trapped \cup held)'
  BY DEF Next, Loop, HandleTrap, ContinueAndWait, Interrupted, Return, Trap, AddTracePoint, Interrupt, vars
<1>5. phase = "ended" => phase' = "ended"
  BY DEF Next, Loop, HandleTrap, ContinueAndWait, Interrupted, Return, Trap, AddTracePoint, Interrupt, vars
<1>6. QED  BY <1>2, <1>3, <1>4, <1>5

\* ... so what was promised and is effective in time stays so.
LEMMA LoopKeepsPromises ==
  ASSUME TypeOK, NothingHeldWhileWaiting, [Next]_vars, loop' # "none" => loop # "none"
  PROVE  /\ Attached' => Attached
         /\ NothingHeldWhileWaiting'
         /\ EndRequested => EndRequested'
         /\ \A t \in Thread : WillEnd(t) => WillEnd(t)'
         /\ \A t \in Thread : WillTrace(t) /\ position'[t].point = position[t].point
                              => WillTrace(t)'
<1>1. "start" \in Kind /\ "end" \in Kind  BY DEF Kind
<1>2. NothingHeldWhileWaiting'  BY HeldPreserved
<1>3. Attached' => Attached  BY LoopKeepsRequests DEF Attached
<1>4. /\ active["end"] \subseteq active'["end"]
      /\ Requested("end") \subseteq active'["end"] \cup Requested("end")'
      /\ active["start"] \subseteq active'["start"]
      /\ Requested("start") \subseteq active'["start"] \cup Requested("start")'
  BY <1>1, LoopKeepsRequests
<1>5. ASSUME NEW t \in Thread
      PROVE  /\ t \in trapped \cup held => t \in (trapped \cup held)' \/ Requested("end") \subseteq active'["end"]
             /\ t \in held => t \in held' \/ Requested("start") \subseteq active'["start"]
  BY <1>1, LoopKeepsRequests
<1>6. EndRequested => EndRequested'  BY <1>4 DEF EndRequested
<1>7. \A t \in Thread : WillEnd(t) => WillEnd(t)'  BY <1>4, <1>5 DEF WillEnd
<1>8. \A t \in Thread : WillTrace(t) /\ position'[t].point = position[t].point => WillTrace(t)'
  BY <1>4, <1>5 DEF WillTrace
<1>9. QED  BY <1>2, <1>3, <1>6, <1>7, <1>8

\* A step that makes no promise, and begins no session, keeps them.
LEMMA PromisesCarried ==
  ASSUME LibraryInv, [Next]_vars, UNCHANGED <<loop, controller>>,
         \A t \in Thread : StartPromised(t)' =>
           StartPromised(t) /\ position'[t].point = position[t].point,
         EndPromised' => EndPromised,
         \A t \in Thread : At(t, "session")' =>
           /\ At(t, "session") /\ position'[t].by = position[t].by
           /\ position'[t].traced = position[t].traced
  PROVE  Promises' /\ NothingHeldWhileWaiting' /\ LoopHasController'
<1>1. TypeOK /\ NothingHeldWhileWaiting
  BY DEF LibraryInv, Control, LibraryTypeOK, ServiceTypeOK
<1>2. LoopHasController'  BY DEF LibraryInv, LoopHasController
<1>3. \A t \in Thread : InSession(t)' =>
         InSession(t) /\ position'[t].by = position[t].by /\ position'[t].traced = position[t].traced
  BY DEF InSession, Successful
<1>4. QED  BY <1>1, <1>2, <1>3, LoopKeepsPromises DEF LibraryInv, Promises

\* When the server's process ends, nothing is attached any more.
LEMMA ServerEndsPromises ==
  ASSUME LibraryTypeOK, ServerEnds
  PROVE  Promises' /\ NothingHeldWhileWaiting' /\ LoopHasController'
<1>1. loop' = "none" /\ phase' = "resuming"  BY ServerEndsEffect
<1>2. QED  BY <1>1 DEF Promises, Attached, NothingHeldWhileWaiting, LoopHasController

LEMMA IdleNoCall ==
  /\ \A a : [method |-> "Attach", point |-> a] # Idle
  /\ \A k, a : [method |-> "Add", kind |-> k, point |-> a] # Idle
<1>1. \A a : [method |-> "Attach", point |-> a].method = "Attach"  OBVIOUS
<1>2. \A k, a : [method |-> "Add", kind |-> k, point |-> a].method = "Add"  OBVIOUS
<1>3. Idle.method = "idle"  BY DEF Idle
<1>4. QED  BY <1>1, <1>2, <1>3

\* In Start.
LEMMA StartPromises ==
  ASSUME LibraryInv, NEW t \in Thread, (\E a \in StartPoint : CallStart(t, a)) \/ Start(t)
  PROVE  Promises' /\ NothingHeldWhileWaiting' /\ LoopHasController'
<1> USE DEF LibraryInv, Control
<1>1. CASE \E a \in StartPoint : CallStart(t, a)
  <2>1. PICK a \in StartPoint : CallStart(t, a)  BY <1>1
  <2>2. /\ At(t, "outside") /\ position' = [position EXCEPT ![t] = Position("start", a)]
        /\ UNCHANGED <<svars, serverCmd, mutex>>
    BY <2>1 DEF CallStart, library
  <2>3. UNCHANGED <<vars, controller, loop, call, reply>>  BY <2>2, ServiceUntouched
  <2>4. position'[t].at = "start" /\ \A u \in Thread : u # t => position'[u] = position[u]
    BY <2>2 DEF LibraryTypeOK, Position
  <2>5. ~Holds(t, "attach") /\ ~Holds(t, "add end")  BY <2>2 DEF MutexOK, Holds, At
  <2>6. \A u \in Thread : StartPromised(u)' =>
          StartPromised(u) /\ position'[u].point = position[u].point
    BY <2>2, <2>3, <2>4, <2>5 DEF StartPromised, Granted, Holds, At
  <2>7. EndPromised' => EndPromised  BY <2>2, <2>3 DEF EndPromised, Settled, Granted, Holds
  <2>8. QED  BY <2>3, <2>4, <2>6, <2>7, PromisesCarried DEF At
<1>2. CASE StartServer(t) \/ StartServerFails(t)
  <2>1. UNCHANGED <<svars, position>> /\ (Lock(t, "connect") \/ Lock(t, "terminate"))
    BY <1>2 DEF StartServer, StartServerFails
  <2>2. UNCHANGED <<vars, controller, loop, call, reply>>  BY <2>1, ServiceUntouched
  <2>3. mutex'.step \in {"connect", "terminate"}  BY <2>1, LockOfMutex
  <2>4. ~EndPromised'  BY <2>3 DEF EndPromised, Settled, Granted, Holds
  <2>5. \A u \in Thread : StartPromised(u)' => StartPromised(u)
    BY <2>1, <2>3 DEF StartPromised, Granted, Holds, At
  <2>6. QED  BY <2>1, <2>2, <2>4, <2>5, PromisesCarried DEF At
<1>3. CASE AddStart(t)
  <2>1. serverCmd /\ mutex.step = "free" /\ UNCHANGED serverCmd
    BY <1>3 DEF AddStart, Locks, Free
  <2>2. EndPromised  BY <2>1 DEF EndPromised, Settled
  <2>3. CASE server = "serving"
    <3>1. DEFINE r == [method |-> "Add", kind |-> "start", point |-> position[t].point]
    <3>2. r \in Calls  BY PointsTyped DEF Calls, Kind
    <3>3. Request(t, r) /\ Lock(t, "add start") /\ UNCHANGED position  BY <1>3, <2>3 DEF AddStart
    <3> HIDE DEF r
    <3>4. UNCHANGED <<vars, controller, loop>>  BY <3>2, <3>3, RequestEffect
    <3>5. mutex'.step = "add start"  BY <3>3, LockOfMutex
    <3>6. \A u \in Thread : StartPromised(u)' => StartPromised(u)
      BY <3>3, <3>5 DEF StartPromised, Granted, Holds, At
    <3>7. QED  BY <2>2, <3>3, <3>4, <3>6, PromisesCarried DEF At
  <2>4. CASE server # "serving"
    <3>1. Returned(t, "nothing") /\ UNCHANGED svars  BY <1>3, <2>4 DEF AddStart
    <3>2. UNCHANGED <<vars, controller, loop, call, reply>>  BY <3>1, ServiceUntouched
    <3>3. /\ position'[t].at = "point" /\ position'[t].by = "nothing" /\ mutex' = Free
          /\ \A u \in Thread : u # t => position'[u] = position[u]
      BY <3>1, ReturnedEffect
    <3>4. \A u \in Thread : StartPromised(u)' =>
            StartPromised(u) /\ position'[u].point = position[u].point
      BY <3>3, FreeMutex DEF StartPromised, Granted, Holds, At
    <3>5. QED  BY <2>2, <3>2, <3>3, <3>4, PromisesCarried DEF At
  <2>5. QED  BY <2>3, <2>4
<1>4. QED  BY <1>1, <1>2, <1>3 DEF Start

\* A step of initialize to a call, or to its end, keeps what the earlier call has promised.
LEMMA TryCallPromises ==
  ASSUME LibraryInv, NEW t \in Thread, NEW step \in {"attach", "add end"},
         NEW r \in Calls \ {Idle}, TryCall(t, r, step),
         mutex.thread = t, step = "add end" => Granted(t, "attach"), UNCHANGED position
  PROVE  Promises' /\ NothingHeldWhileWaiting' /\ LoopHasController'
<1> USE DEF LibraryInv, Control
<1>1. CASE Request(t, r) /\ Step(step)
  <2>1. UNCHANGED <<vars, controller, loop>> /\ call'[t] = r  BY <1>1, RequestEffect
  <2>2. mutex'.step = step /\ mutex'.thread = t  BY <1>1, StepOfMutex
  <2>3. ~EndPromised'  BY <2>1, <2>2 DEF EndPromised, Settled, Granted, Holds
  <2>4. \A u \in Thread : StartPromised(u)' => StartPromised(u)
    BY <2>1, <2>2 DEF StartPromised, Granted, Holds, At
  <2>5. QED  BY <2>1, <2>3, <2>4, PromisesCarried DEF At
<1>2. CASE Step("terminate") /\ UNCHANGED svars
  <2>1. UNCHANGED <<vars, controller, loop>>  BY <1>2, ServiceUntouched
  <2>2. mutex'.step = "terminate"  BY <1>2, StepOfMutex
  <2>3. ~EndPromised'  BY <2>2 DEF EndPromised, Settled, Granted, Holds
  <2>4. \A u \in Thread : StartPromised(u)' => StartPromised(u)
    BY <2>2 DEF StartPromised, Granted, Holds, At
  <2>5. QED  BY <2>1, <2>3, <2>4, PromisesCarried DEF At
<1>3. QED  BY <1>1, <1>2 DEF TryCall

LEMMA GivesUpPromises ==
  ASSUME LibraryInv, mutex'.step \in {"connect", "prepare", "terminate"},
         UNCHANGED <<svars, position>>
  PROVE  Promises' /\ NothingHeldWhileWaiting' /\ LoopHasController'
<1>1. UNCHANGED <<vars, controller, loop>>  BY ServiceUntouched DEF LibraryInv, Control
<1>2. ~EndPromised'  BY DEF EndPromised, Settled, Granted, Holds
<1>3. \A u \in Thread : StartPromised(u)' => StartPromised(u)
  BY DEF StartPromised, Granted, Holds, At
<1>4. QED  BY <1>1, <1>2, <1>3, PromisesCarried DEF At

\* Start returns successfully only when both calls of initialize were.
LEMMA ReturnedPromises ==
  ASSUME LibraryInv, NEW t \in Thread,
         NEW by \in {"nothing", "Attach", "AddStartTracePoint"}, Returned(t, by),
         by = "Attach" => Granted(t, "add end"),
         EndPromised \/ ~serverCmd', UNCHANGED svars
  PROVE  Promises' /\ NothingHeldWhileWaiting' /\ LoopHasController'
<1> USE DEF LibraryInv, Control
<1>1. UNCHANGED <<vars, controller, loop, call, reply>>  BY ServiceUntouched
<1>2. /\ position'[t].at = "point" /\ position'[t].by = by /\ mutex' = Free
      /\ position'[t].point = position[t].point
      /\ \A u \in Thread : u # t => position'[u] = position[u]
  BY ReturnedEffect
<1>3. mutex'.step = "free"  BY <1>2, FreeMutex
<1>4. \A u \in Thread : StartPromised(u)' =>
        StartPromised(u) /\ position'[u].point = position[u].point
  BY <1>2, <1>3 DEF StartPromised, Granted, Holds, At
<1>5. EndPromised' => EndPromised  BY <1>3 DEF EndPromised, Settled, Granted, Holds
<1>6. QED  BY <1>1, <1>2, <1>4, <1>5, PromisesCarried DEF At

LEMMA ContinuesPromises ==
  ASSUME LibraryInv, NEW t \in Thread, Continues(t)
  PROVE  Promises' /\ NothingHeldWhileWaiting' /\ LoopHasController'
<1> USE DEF LibraryInv, Control
<1>1. CASE Connect(t)
  <2>1. UNCHANGED <<svars, position>> /\ mutex.step = "connect"  BY <1>1 DEF Connect, Holds
  <2>2. mutex'.step \in {"connect", "prepare", "terminate"}
    BY <1>1, <2>1 DEF Connect, Step, MutexOK
  <2>3. QED  BY <2>1, <2>2, GivesUpPromises
<1>2. CASE Prepare(t)
  <2>1. DEFINE r == [method |-> "Attach", point |-> position[t].point]
  <2>2. Holds(t, "prepare") /\ TryCall(t, r, "attach") /\ UNCHANGED position  BY <1>2 DEF Prepare
  <2>3. r \in Calls \ {Idle}  BY PointsTyped, IdleNoCall DEF Calls
  <2> HIDE DEF r
  <2>4. QED  BY <2>2, <2>3, TryCallPromises DEF Holds
<1>3. CASE PrepareFails(t)
  BY <1>3, StepOfMutex, GivesUpPromises DEF PrepareFails
<1>4. CASE AddEnd(t)
  <2>1. Holds(t, "attach") /\ call[t] = Idle /\ UNCHANGED position
    BY <1>4 DEF AddEnd, Replied
  <2>2. CASE reply[t] = "nil"
    <3>1. DEFINE r == [method |-> "Add", kind |-> "end", point |-> Stop]
    <3>2. TryCall(t, r, "add end")  BY <1>4, <2>2 DEF AddEnd
    <3>3. r \in Calls \ {Idle}  BY PointsTyped, IdleNoCall DEF Calls, Kind
    <3> HIDE DEF r
    <3>4. QED  BY <2>1, <2>2, <3>2, <3>3, TryCallPromises DEF Holds, Granted
  <2>3. CASE reply[t] # "nil"
    BY <1>4, <2>1, <2>3, StepOfMutex, GivesUpPromises DEF AddEnd
  <2>4. QED  BY <2>2, <2>3
<1>5. CASE AttachReturns(t)
  <2>1. Holds(t, "add end") /\ call[t] = Idle /\ UNCHANGED svars
    BY <1>5 DEF AttachReturns, Replied
  <2>2. CASE reply[t] = "nil"
    <3>1. Granted(t, "add end") /\ EndPromised  BY <2>1, <2>2 DEF Granted, EndPromised
    <3>2. QED  BY <1>5, <2>1, <2>2, <3>1, ReturnedPromises DEF AttachReturns
  <2>3. CASE reply[t] # "nil"
    BY <1>5, <2>1, <2>3, StepOfMutex, GivesUpPromises DEF AttachReturns
  <2>4. QED  BY <2>2, <2>3
<1>6. CASE AddReturns(t)
  <2>1. Holds(t, "add start") /\ UNCHANGED svars  BY <1>6 DEF AddReturns, Replied
  <2>2. EndPromised  BY <2>1 DEF Holds, MutexOK, EndPromised, Settled
  <2>3. PICK by \in {"AddStartTracePoint", "nothing"} : Returned(t, by)
    BY <1>6 DEF AddReturns
  <2>4. QED  BY <2>1, <2>2, <2>3, ReturnedPromises
<1>7. CASE TerminateServer(t)
  <2>1. CASE client = "closed"
    BY <1>7, <2>1, ReturnedPromises DEF TerminateServer
  <2>2. CASE client # "closed"
    BY <1>7, <2>2, ServerEndsPromises DEF TerminateServer
  <2>3. QED  BY <2>1, <2>2
<1>8. QED  BY <1>1, <1>2, <1>3, <1>4, <1>5, <1>6, <1>7 DEF Continues

LEMMA NotInStart ==
  ASSUME LibraryInv, NEW t \in Thread, ~At(t, "start")
  PROVE  ~Holds(t, "attach") /\ ~Holds(t, "add end") /\ ~Holds(t, "add start")
BY DEF LibraryInv, Control, MutexOK, Holds

\* The thread of an attaching Start is stopped until its trace point is effective, so
\* it traps there; and the trap holds it until the end point is effective, too.
LEMMA PassStartPointPromises ==
  ASSUME LibraryInv, NEW t \in Thread, PassStartPoint(t)
  PROVE  Promises' /\ NothingHeldWhileWaiting' /\ LoopHasController'
<1> USE DEF LibraryInv, Control
<1>1. DEFINE traps == Attached /\ position[t].point \in active["start"]
<1>2. /\ Runs(t) /\ At(t, "point") /\ UNCHANGED mutex /\ UNCHANGED serverCmd
      /\ position' = [position EXCEPT ![t].at = "session", ![t].traced = traps]
      /\ IF traps THEN Trap(t) /\ UNCHANGED service ELSE UNCHANGED svars
  BY DEF PassStartPoint, library
<1> HIDE DEF traps
<1>3. /\ position'[t].at = "session" /\ position'[t].traced = traps
      /\ position'[t].by = position[t].by
      /\ \A u \in Thread : u # t => position'[u] = position[u]
  BY <1>2 DEF LibraryTypeOK
<1>4. UNCHANGED <<controller, loop, call, reply>> /\ (Trap(t) \/ UNCHANGED vars)
  BY <1>2 DEF service, svars
<1>5. [Next]_vars /\ TypeOK /\ NothingHeldWhileWaiting
  BY <1>4 DEF Next, LibraryTypeOK, ServiceTypeOK
<1>6. /\ Attached' => Attached
      /\ NothingHeldWhileWaiting'
      /\ EndRequested => EndRequested'
      /\ \A u \in Thread : WillEnd(u) => WillEnd(u)'
      /\ \A u \in Thread : WillTrace(u) /\ position'[u].point = position[u].point
                           => WillTrace(u)'
  BY <1>4, <1>5, LoopKeepsPromises
<1>7. SUFFICES ASSUME Attached'  PROVE Promises'
  BY <1>4, <1>6 DEF LoopHasController, Promises
<1>8. Attached  BY <1>6, <1>7
<1>9. \A u \in Thread : StartPromised(u)' => u # t /\ StartPromised(u)
  BY <1>2, <1>3, <1>4, NotInStart DEF StartPromised, Granted, Holds, At
<1>10. \A u \in Thread : StartPromised(u)' => WillTrace(u)'
  BY <1>3, <1>6, <1>8, <1>9 DEF Promises
<1>11. EndPromised' => EndRequested'
  BY <1>2, <1>4, <1>6, <1>8 DEF Promises, EndPromised, Settled, Granted, Holds
<1>12. \A u \in Thread : u # t =>
         /\ InSession(u)' /\ position'[u].traced => WillEnd(u)'
         /\ InSession(u)' /\ position'[u].by = "Attach" => position'[u].traced
  BY <1>3, <1>6, <1>8 DEF Promises, InSession, At, Successful
<1>13. InSession(t)' /\ position'[t].traced => WillEnd(t)'
  <2>1. SUFFICES ASSUME InSession(t)', traps  PROVE WillEnd(t)'
    BY <1>3
  <2>2. Successful(t)  BY <1>3, <2>1 DEF InSession, Successful
  <2>3. EndRequested'
    BY <1>6, <1>8, <2>2 DEF SuccessSettles, EndPromised, Promises
  <2>4. t \in trapped'  BY <1>2, <2>1 DEF Trap
  <2>5. QED  BY <2>3, <2>4 DEF EndRequested, WillEnd
<1>14. position'[t].by = "Attach" => position'[t].traced
  <2>1. SUFFICES ASSUME position[t].by = "Attach"  PROVE traps
    BY <1>3
  <2>2. WillTrace(t)  BY <1>2, <1>8, <2>1 DEF StartPromised, Promises
  <2>3. t \notin held  BY <1>2, <1>8 DEF Runs
  <2>4. QED  BY <1>8, <2>2, <2>3 DEF WillTrace, traps
<1>15. QED  BY <1>10, <1>11, <1>12, <1>13, <1>14 DEF Promises

LEMMA SessionPromises ==
  ASSUME LibraryInv, NEW t \in Thread, CallStop(t) \/ TrapInSession(t)
  PROVE  Promises' /\ NothingHeldWhileWaiting' /\ LoopHasController'
<1> USE DEF LibraryInv, Control
<1>1. /\ UNCHANGED <<mutex, serverCmd>> /\ ~At(t, "start")
      /\ (Trap(t) /\ UNCHANGED service) \/ UNCHANGED svars
  BY DEF CallStop, TrapInSession, library, At
<1>2. [Next]_vars /\ UNCHANGED <<controller, loop, call, reply>>
  BY <1>1 DEF Next, service, svars
<1>3. /\ \A u \in Thread : u # t => position'[u] = position[u]
      /\ position'[t] = position[t] \/ position'[t].at = "outside"
  BY DEF CallStop, TrapInSession, LibraryTypeOK
<1>4. \A u \in Thread : StartPromised(u)' =>
        StartPromised(u) /\ position'[u].point = position[u].point
  BY <1>1, <1>2, <1>3, NotInStart DEF StartPromised, Granted, Holds, At
<1>5. EndPromised' => EndPromised
  BY <1>1, <1>2 DEF EndPromised, Settled, Granted, Holds
<1>6. \A u \in Thread : At(u, "session")' =>
           /\ At(u, "session") /\ position'[u].by = position[u].by
           /\ position'[u].traced = position[u].traced
  BY <1>3 DEF At
<1>7. QED  BY <1>2, <1>4, <1>5, <1>6, PromisesCarried

\* The method of a call says at which step its caller is.
LEMMA AskedBy ==
  ASSUME OneCaller, NEW t \in Thread
  PROVE  /\ call[t].method = "Attach" =>
              Holds(t, "attach") /\ call[t].point = position[t].point
         /\ call[t].method = "Add" =>
              /\ ~Holds(t, "attach")
              /\ Holds(t, "add end") => call[t].kind = "end" /\ call[t].point = Stop
<1>1. CASE call[t] = Idle  BY <1>1 DEF Idle
<1>2. CASE /\ Holds(t, "attach")
           /\ call[t] = [method |-> "Attach", point |-> position[t].point]
  <2>1. call[t].method = "Attach" /\ call[t].point = position[t].point  BY <1>2
  <2>2. QED  BY <1>2, <2>1
<1>3. CASE /\ Holds(t, "add end")
           /\ call[t] = [method |-> "Add", kind |-> "end", point |-> Stop]
  <2>1. call[t] = [method |-> "Add", kind |-> "end", point |-> Stop]
    BY <1>3
  <2>2. call[t].method = "Add" /\ call[t].kind = "end" /\ call[t].point = Stop  BY <2>1
  <2>3. QED  BY <1>3, <2>2 DEF Holds
<1>4. CASE /\ Holds(t, "add start")
           /\ call[t] = [method |-> "Add", kind |-> "start", point |-> position[t].point]
  <2>1. call[t] = [method |-> "Add", kind |-> "start", point |-> position[t].point]
    BY <1>4
  <2>2. call[t].method = "Add"  BY <2>1
  <2>3. QED  BY <1>4, <2>2 DEF Holds
<1>5. QED  BY <1>1, <1>2, <1>3, <1>4 DEF OneCaller, Asks

\* The server's answers: what a call asks for has been requested when it is granted.
LEMMA ServesPromises ==
  ASSUME LibraryInv, NEW t \in Thread, Serves(t)
  PROVE  Promises' /\ NothingHeldWhileWaiting' /\ LoopHasController'
<1> USE DEF LibraryInv, Control
<1>1. /\ AttachSucceeds(t) \/ AttachFails(t) \/ Add(t) \/ AddRefused(t)
      /\ UNCHANGED <<serverCmd, mutex, position>>
  BY DEF Serves, library
<1>2. call'[t] = Idle  BY ServesControl
<1>3. call \in [Thread -> Calls] /\ reply \in [Thread -> Reply]
  BY LibraryAssumption DEF LibraryTypeOK, ServiceTypeOK
<1>4. Idle.method = "idle"  BY DEF Idle
<1>5. \A u \in Thread : u # t => ~Holds(u, "attach") /\ ~Holds(u, "add end")
  BY <1>1, <1>4 DEF OneCaller, Asks, Holds, AttachSucceeds, AttachFails, Add, AddRefused, Enters
<1>6. \A u \in Thread : At(u, "session")' =>
           /\ At(u, "session") /\ position'[u].by = position[u].by
           /\ position'[u].traced = position[u].traced
  BY <1>1 DEF At
<1>7. CASE AttachSucceeds(t)
  <2>1. call[t].method = "Attach"  BY <1>7 DEF AttachSucceeds, Enters
  <2>2. Holds(t, "attach") /\ call[t].point = position[t].point
    BY <2>1, AskedBy
  <2>3. ~EndPromised'  BY <1>1, <2>2 DEF EndPromised, Settled, Granted, Holds
  <2>4. ~Settled  BY <2>2 DEF Settled, Holds
  <2>5. \A u \in Thread : ~Successful(u)'
    BY <1>1, <2>4 DEF SuccessSettles, Successful
  <2>6. \A u \in Thread : StartPromised(u)' => u = t
    BY <1>1, <1>5, <2>5 DEF StartPromised, Granted, Holds, Successful
  <2>7. WillTrace(t)'
    <3>1. held' = Thread /\ pending'["start"] = <<position[t].point>>
      BY <1>7, <2>2, LibraryAssumption DEF AttachSucceeds, Kind
    <3>2. 1 \in DOMAIN pending'["start"] /\ pending'["start"][1] = position[t].point
      BY <3>1
    <3>3. QED  BY <1>1, <3>1, <3>2 DEF WillTrace, Requested
  <2>8. Promises'  BY <2>3, <2>5, <2>6, <2>7 DEF Promises, InSession
  <2>9. QED  BY <1>7, <2>8 DEF AttachSucceeds, NothingHeldWhileWaiting, LoopHasController
<1>8. CASE AttachFails(t)
  <2>1. loop' = "none" /\ controller' /\ UNCHANGED vars
    BY <1>8 DEF AttachFails, LoopHasController
  <2>2. QED
    BY <2>1 DEF Promises, Attached, LoopHasController, NothingHeldWhileWaiting, vars
<1>9. CASE Add(t)
  <2>1. call[t].method = "Add" /\ AddTracePoint(call[t].kind, call[t].point)
        /\ UNCHANGED <<controller, loop>>
    BY <1>9 DEF Add, Enters
  <2>2. call[t].kind \in Kind /\ call[t].point \in TracePoint
    BY <1>3, <2>1, CallsByMethod
  <2>3. [Next]_vars  BY <2>1, <2>2 DEF Next
  <2>4. ~Holds(t, "attach")  BY <2>1, AskedBy
  <2>5. \A u \in Thread : StartPromised(u)' => StartPromised(u)
    BY <1>1, <1>5, <2>4 DEF StartPromised, Granted, Holds, At
  <2>6. TypeOK  BY DEF LibraryTypeOK, ServiceTypeOK
  <2>7. CASE Holds(t, "add end")
    <3>1. call[t].kind = "end" /\ call[t].point = Stop
      BY <2>1, <2>7, AskedBy
    <3>2. pending'["end"] = Append(pending["end"], Stop) /\ pending["end"] \in Seq(TracePoint)
      BY <2>1, <2>6, <3>1 DEF AddTracePoint, TypeOK, Kind
    <3>3. Stop \in Requested("end")'
      <4>1. Len(pending["end"]) + 1 \in DOMAIN pending'["end"]
            /\ pending'["end"][Len(pending["end"]) + 1] = Stop
        BY <3>2
      <4>2. QED  BY <4>1 DEF Requested
    <3>4. EndRequested'  BY <3>3 DEF EndRequested
    <3>5. \A u \in Thread : InSession(u)' => InSession(u)  BY <1>1 DEF InSession, At, Successful
    <3>6. QED
      BY <1>1, <2>1, <2>3, <2>5, <2>6, <3>4, <3>5, LoopKeepsPromises DEF Promises, LoopHasController
  <2>8. CASE ~Holds(t, "add end")
    <3>1. EndPromised' => EndPromised
      BY <1>1, <1>5, <2>8 DEF EndPromised, Settled, Granted, Holds
    <3>2. QED  BY <1>1, <1>6, <2>1, <2>3, <2>5, <3>1, PromisesCarried
  <2>9. QED  BY <2>7, <2>8
<1>10. CASE AddRefused(t)
  <2>1. call[t].method = "Add" /\ reply'[t] = "error" /\ UNCHANGED <<vars, controller, loop>>
    BY <1>3, <1>10 DEF AddRefused, Enters, Replies
  <2>2. ~Holds(t, "attach")  BY <2>1, AskedBy
  <2>3. \A u \in Thread : StartPromised(u)' => StartPromised(u)
    BY <1>1, <1>5, <2>2 DEF StartPromised, Granted, Holds, At
  <2>4. EndPromised' => EndPromised
    BY <1>1, <1>5, <2>1 DEF EndPromised, Settled, Granted, Holds
  <2>5. QED  BY <1>1, <1>6, <2>1, <2>3, <2>4, PromisesCarried
<1>11. QED  BY <1>1, <1>7, <1>8, <1>9, <1>10

LEMMA LibraryInvPreserved ==
  ASSUME LibraryInv, [LibraryNext]_lvars
  PROVE  LibraryInv'
<1> USE DEF LibraryInv
<1>1. Control'  BY ControlPreserved
<1>2. Control /\ LibraryTypeOK  BY DEF Control
<1>3. ASSUME UNCHANGED <<mutex, serverCmd, position, call, reply, controller>>, [Next]_vars,
             loop' # "none" => loop # "none", loop # "none" => controller
      PROVE  Promises' /\ NothingHeldWhileWaiting' /\ LoopHasController'
  <2>1. TypeOK  BY <1>2 DEF LibraryTypeOK, ServiceTypeOK
  <2>2. \A t \in Thread : /\ StartPromised(t)' => StartPromised(t)
                          /\ InSession(t)' => InSession(t)
    BY <1>3 DEF StartPromised, Granted, Holds, At, InSession, Successful
  <2>3. EndPromised' => EndPromised  BY <1>3 DEF EndPromised, Settled, Granted, Holds
  <2>4. QED  BY <1>3, <2>1, <2>2, <2>3, LoopKeepsPromises DEF Promises, LoopHasController
<1>4. CASE ServerListens \/ UNCHANGED lvars
  <2>1. UNCHANGED <<svars, library, position>>  BY <1>4 DEF ServerListens, lvars
  <2>2. UNCHANGED <<vars, loop, call, reply, controller>>  BY <1>2, <2>1, ServiceUntouched
  <2>3. QED  BY <1>1, <1>3, <2>1, <2>2 DEF library, LoopHasController
<1>5. CASE ServerExits  BY <1>1, <1>2, <1>5, ServerEndsPromises DEF ServerExits
<1>6. CASE Controls \/ Ends
  <2>1. UNCHANGED <<library, position>> /\ (LoopStarts \/ LoopSteps \/ LoopReturns)
    BY <1>6 DEF Controls, Ends
  <2>2. /\ UNCHANGED <<controller, call, reply>> /\ [Next]_vars
        /\ loop' # "none" => loop # "none"
    BY <2>1 DEF LoopStarts, LoopSteps, LoopReturns, service, Next
  <2>3. QED  BY <1>1, <1>3, <2>1, <2>2 DEF library, LoopHasController
<1>7. QED
  BY <1>1, <1>4, <1>5, <1>6, StartPromises, ContinuesPromises, PassStartPointPromises,
     SessionPromises, ServesPromises
     DEF LibraryNext

-----------------------------------------------------------------------------

LEMMA LibraryInvInitially == LibraryInit => LibraryInv
<1> SUFFICES ASSUME LibraryInit  PROVE LibraryInv
  OBVIOUS
<1>1. Control  BY ControlInitially
<1>2. loop = "none" /\ phase = "resuming"  BY DEF LibraryInit, ServiceInit, InitWith
<1>3. QED
  BY <1>1, <1>2 DEF LibraryInv, NothingHeldWhileWaiting, LoopHasController, Promises, Attached

\* For any number of threads and places: the thread whose Start has attached cannot run
\* past its trace point unnoticed, because its trace point is requested with the
\* attaching itself and the thread is stopped until requests are effective
\* (InitialStartTracePoint, initialize).
THEOREM AttachEnablesCorrect == LibrarySpec => []AttachEnables
<1>1. LibraryInv => AttachEnables
  BY DEF LibraryInv, Promises, AttachEnables, InSession, Successful
<1>2. QED  BY <1>1, LibraryInvInitially, LibraryInvPreserved, PTL DEF LibrarySpec

\* Only CallStop leaves a session.
LEMMA StopIsRequested ==
  ASSUME LibraryInv, [LibraryNext]_lvars, NEW t \in Thread,
         Attached, At(t, "session"), Successful(t), position'[t].at = "outside"
  PROVE  ~position'[t].traced
<1> USE DEF LibraryInv, Control
<1>1. position[t].at = "session"  BY DEF At
<1>2. ASSUME NEW u \in Thread, NEW by \in {"nothing", "Attach", "AddStartTracePoint"},
             Returned(u, by)
      PROVE  FALSE
  <2>1. position'[u].at = "point" /\ (t # u => position'[t] = position[t])
    BY <1>2, ReturnedEffect
  <2>2. QED  BY <1>1, <2>1
<1>3. ASSUME NEW u \in Thread, CallStop(u)  PROVE ~position'[t].traced
  <2>1. u = t  BY <1>1, <1>3 DEF CallStop, LibraryTypeOK
  <2>2. DEFINE traps == Attached /\ Stop \in active["end"]
  <2>3. position' = [position EXCEPT ![t].at = "outside", ![t].traced = @ /\ ~traps]
    BY <1>3, <2>1 DEF CallStop
  <2> HIDE DEF traps
  <2>4. position'[t].traced = (position[t].traced /\ ~traps)  BY <2>3 DEF LibraryTypeOK
  <2>5. t \notin trapped \cup held  BY <1>3, <2>1 DEF CallStop, Runs
  <2>6. position[t].traced => traps
    BY <2>5 DEF Promises, InSession, WillEnd, traps
  <2>7. QED  BY <2>4, <2>6
<1>4. ASSUME NEW u \in Thread, (\E a \in StartPoint : CallStart(u, a)) \/ PassStartPoint(u)
      PROVE  FALSE
  <2>1. At(u, "outside") \/ At(u, "point")  BY <1>4 DEF CallStart, PassStartPoint
  <2>2. u # t  BY <1>1, <2>1 DEF At
  <2>3. position'[t] = position[t]
    BY <1>4, <2>2 DEF CallStart, PassStartPoint, LibraryTypeOK
  <2>4. QED  BY <1>1, <2>3
<1>5. ASSUME NEW u \in Thread, Start(u) \/ Continues(u)  PROVE FALSE
  <2>1. UNCHANGED position \/ \E by \in {"nothing", "Attach", "AddStartTracePoint"} : Returned(u, by)
    BY <1>5 DEF Start, StartServer, StartServerFails, AddStart, Continues, Connect, Prepare,
                PrepareFails, AddEnd, AttachReturns, AddReturns, TerminateServer
  <2>2. QED  BY <1>1, <1>2, <2>1
<1>6. UNCHANGED position => FALSE  BY <1>1
<1>7. QED
  BY <1>3, <1>4, <1>5, <1>6
     DEF LibraryNext, TrapInSession, Serves, ServerListens, ServerExits, Controls, Ends, lvars

\* For any number of threads: a session that a trap began behind a successful Start ends
\* at Stop while the tracee is attached. The entry of Stop is requested last, when the
\* program runs already, but in time (initialize, setPendingTracePoints).
THEOREM StopEndsCorrect == LibrarySpec => StopEnds
<1> DEFINE Ended == \A t \in Thread :
             Attached /\ At(t, "session") /\ position[t].by # "nothing" /\ position'[t].at = "outside"
               => ~position'[t].traced
<1>1. LibraryInv /\ [LibraryNext]_lvars => [Ended]_lvars
  BY StopIsRequested DEF Successful
<1>2. QED
  BY <1>1, LibraryInvInitially, LibraryInvPreserved, PTL DEF LibrarySpec, StopEnds

=============================================================================
