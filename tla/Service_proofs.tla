--------------------------- MODULE Service_proofs ---------------------------
(***************************************************************************)
(* The RPC server, for any number of concurrent calls.                     *)
(***************************************************************************)
EXTENDS Service, MainLoop_proofs

-----------------------------------------------------------------------------
(* Type correctness.                                                       *)

\* What a caller waits for, by the method.
LEMMA CallsByMethod ==
  ASSUME NEW r \in Calls
  PROVE  /\ r.method = "Attach" => r.point \in TracePoint
         /\ r.method = "Add" => r.kind \in Kind /\ r.point \in TracePoint
         /\ r.method = "idle" => r = Idle
BY DEF Calls, Idle

LEMMA RepliesTyped ==
  ASSUME ServiceTypeOK, NEW c \in Caller, NEW r \in Reply, Replies(c, r)
  PROVE  call' \in [Caller -> Calls] /\ reply' \in [Caller -> Reply]
<1>1. Idle \in Calls  BY DEF Calls
<1>2. QED  BY <1>1 DEF Replies, ServiceTypeOK

LEMMA RequestTyped ==
  ASSUME ServiceTypeOK, NEW c \in Caller, NEW r \in Calls, Request(c, r)
  PROVE  ServiceTypeOK'
<1>1. TypeOK'  BY DEF Request, ServiceTypeOK, TypeOK, vars
<1>2. QED  BY <1>1 DEF Request, ServiceTypeOK, Reply

LEMMA AttachTyped ==
  ASSUME ServiceTypeOK, NEW c \in Caller, AttachSucceeds(c) \/ AttachFails(c)
  PROVE  ServiceTypeOK'
<1>1. call' \in [Caller -> Calls] /\ reply' \in [Caller -> Reply]
  BY RepliesTyped DEF AttachSucceeds, AttachFails, Reply
<1>2. CASE AttachSucceeds(c)
  <2>1. call[c].method = "Attach" /\ call[c] \in Calls
    BY <1>2 DEF AttachSucceeds, Enters, ServiceTypeOK
  <2>2. DEFINE a == call[c].point
  <2>3. a \in TracePoint  BY <2>1, CallsByMethod
  <2>4. /\ <<>> \in Seq(TracePoint) /\ Len(<<>>) = 0
        /\ <<a>> \in Seq(TracePoint) /\ Len(<<a>>) = 1
    BY <2>3
  <2>5. pending' = [k \in Kind |-> IF k = "start" /\ ChanBufferSize > 0 THEN <<a>> ELSE <<>>]
    BY <1>2 DEF AttachSucceeds
  <2> HIDE DEF a
  <2>6. /\ pending' \in [Kind -> Seq(TracePoint)]
        /\ \A k \in Kind : Len(pending'[k]) <= ChanBufferSize
    BY <2>4, <2>5, MainLoopAssumption
  <2>7. TypeOK'  BY <1>2, <2>6 DEF AttachSucceeds, TypeOK
  <2>8. QED  BY <1>1, <1>2, <2>7 DEF AttachSucceeds, ServiceTypeOK
<1>3. CASE AttachFails(c)
  <2>1. TypeOK'  BY <1>3 DEF AttachFails, ServiceTypeOK, TypeOK, vars
  <2>2. QED  BY <1>1, <1>3, <2>1 DEF AttachFails, ServiceTypeOK
<1>4. QED  BY <1>2, <1>3

LEMMA AddTyped ==
  ASSUME ServiceTypeOK, NEW c \in Caller, Add(c) \/ AddRefused(c)
  PROVE  ServiceTypeOK'
<1>1. call' \in [Caller -> Calls] /\ reply' \in [Caller -> Reply]
  BY RepliesTyped DEF Add, AddRefused, Reply
<1>2. CASE Add(c)
  <2>1. call[c].method = "Add" /\ call[c] \in Calls
    BY <1>2 DEF Add, Enters, ServiceTypeOK
  <2>2. call[c].kind \in Kind /\ call[c].point \in TracePoint  BY <2>1, CallsByMethod
  <2>3. Next  BY <1>2, <2>2 DEF Add, Next
  <2>4. TypeOK'  BY <2>3, TypePreserved DEF ServiceTypeOK
  <2>5. QED  BY <1>1, <1>2, <2>4 DEF Add, ServiceTypeOK
<1>3. CASE AddRefused(c)
  <2>1. TypeOK'  BY <1>3 DEF AddRefused, ServiceTypeOK, TypeOK, vars
  <2>2. QED  BY <1>1, <1>3, <2>1 DEF AddRefused, ServiceTypeOK
<1>4. QED  BY <1>2, <1>3

LEMMA OtherMethodsTyped ==
  ASSUME ServiceTypeOK, NEW c \in Caller,
         AttachTwice(c) \/ DetachNothing(c) \/ Detach(c) \/ AddNothing(c)
  PROVE  ServiceTypeOK'
<1>1. call' \in [Caller -> Calls] /\ reply' \in [Caller -> Reply]
  BY RepliesTyped DEF AttachTwice, DetachNothing, Detach, AddNothing, Reply
<1>2. CASE Detach(c)
  <2>1. TypeOK'  BY <1>2 DEF Detach, ServiceTypeOK, TypeOK
  <2>2. QED  BY <1>1, <1>2, <2>1 DEF Detach, ServiceTypeOK
<1>3. CASE AttachTwice(c) \/ DetachNothing(c) \/ AddNothing(c)
  <2>1. UNCHANGED <<vars, mtx, controller, loop>>
    BY <1>3 DEF AttachTwice, DetachNothing, AddNothing
  <2>2. TypeOK'  BY <2>1 DEF ServiceTypeOK, TypeOK, vars
  <2>3. QED  BY <1>1, <2>1, <2>2 DEF ServiceTypeOK
<1>4. QED  BY <1>2, <1>3

LEMMA LoopTyped ==
  ASSUME ServiceTypeOK, LoopSteps \/ LoopReturns \/ TraceeTraps
  PROVE  ServiceTypeOK'
<1>1. Next  BY DEF LoopSteps, LoopReturns, TraceeTraps, Next
<1>2. TypeOK'  BY <1>1, TypePreserved DEF ServiceTypeOK
<1>3. QED  BY <1>2 DEF LoopSteps, LoopReturns, TraceeTraps, service, ServiceTypeOK

LEMMA ServiceTypePreserved == ServiceTypeOK /\ [ServiceNext]_svars => ServiceTypeOK'
<1> SUFFICES ASSUME ServiceTypeOK, [ServiceNext]_svars  PROVE ServiceTypeOK'
  OBVIOUS
<1>1. CASE \E c \in Caller, r \in Calls \ {Idle} : Request(c, r)  BY <1>1, RequestTyped
<1>2. CASE \E c \in Caller : Methods(c) \/ AttachFails(c)
  BY <1>2, AttachTyped, AddTyped, OtherMethodsTyped DEF Methods
<1>3. CASE LoopStarts \/ Detached
  <2>1. TypeOK'  BY <1>3 DEF LoopStarts, Detached, ServiceTypeOK, TypeOK, vars
  <2>2. QED  BY <1>3, <2>1 DEF LoopStarts, Detached, ServiceTypeOK
<1>4. CASE LoopSteps \/ LoopReturns \/ TraceeTraps  BY <1>4, LoopTyped
<1>5. CASE UNCHANGED svars
  <2>1. TypeOK'  BY <1>5 DEF svars, ServiceTypeOK, TypeOK, vars
  <2>2. QED  BY <1>5, <2>1 DEF svars, service, ServiceTypeOK
<1>6. QED  BY <1>1, <1>2, <1>3, <1>4, <1>5 DEF ServiceNext, ReliableNext

LEMMA ServiceInitTyped == ServiceInit => ServiceTypeOK
<1> SUFFICES ASSUME ServiceInit  PROVE ServiceTypeOK
  OBVIOUS
<1>1. <<>> \in Seq(TracePoint) /\ Len(<<>>) = 0  OBVIOUS
<1>2. pending = [k \in Kind |-> <<>>] /\ active = [k \in Kind |-> {}]
  BY DEF ServiceInit, InitWith
<1>3. pending \in [Kind -> Seq(TracePoint)] /\ \A k \in Kind : Len(pending[k]) <= ChanBufferSize
  BY <1>1, <1>2, MainLoopAssumption
<1>4. TypeOK  BY <1>2, <1>3 DEF ServiceInit, InitWith, TypeOK
<1>5. QED  BY <1>4 DEF ServiceInit, ServiceTypeOK, Calls, Reply

\* However many calls are in progress, what a caller waits for and what it is told
\* are of the kinds the RPC methods know, and the main loop's channels never
\* exceed their capacity (service.go, AddStartTracePoint, AddEndTracePoint).
THEOREM ServiceTypeCorrect == ServiceSpec => []ServiceTypeOK
BY ServiceInitTyped, ServiceTypePreserved, PTL DEF ServiceSpec

-----------------------------------------------------------------------------

\* One method at a time: only Detached drops the controller, and the go routine of
\* the main loop goes with it; only an attach that found no controller starts one.
LEMMA LoopHasControllerPreserved ==
  LoopHasController /\ [ServiceNext]_svars => LoopHasController'
<1> SUFFICES ASSUME LoopHasController, [ServiceNext]_svars  PROVE LoopHasController'
  OBVIOUS
<1> USE DEF LoopHasController
<1>1. CASE \E c \in Caller, r \in Calls \ {Idle} : Request(c, r)  BY <1>1 DEF Request
<1>2. ASSUME NEW c \in Caller, Methods(c)  PROVE LoopHasController'
  <2>1. CASE AttachTwice(c)  BY <2>1 DEF AttachTwice
  <2>2. CASE AttachSucceeds(c)  BY <2>2 DEF AttachSucceeds
  <2>3. CASE DetachNothing(c)  BY <2>3 DEF DetachNothing
  <2>4. CASE Detach(c)  BY <2>4 DEF Detach
  <2>5. CASE AddNothing(c)  BY <2>5 DEF AddNothing
  <2>6. CASE Add(c)  BY <2>6 DEF Add
  <2>7. CASE AddRefused(c)  BY <2>7 DEF AddRefused
  <2>8. QED  BY <1>2, <2>1, <2>2, <2>3, <2>4, <2>5, <2>6, <2>7 DEF Methods
<1>3. CASE \E c \in Caller : AttachFails(c)  BY <1>3 DEF AttachFails
<1>4. CASE LoopStarts  BY <1>4 DEF LoopStarts
<1>5. CASE LoopSteps \/ LoopReturns \/ TraceeTraps
  BY <1>5 DEF LoopSteps, LoopReturns, TraceeTraps, service
<1>6. CASE Detached  BY <1>6 DEF Detached
<1>7. CASE UNCHANGED svars  BY <1>7 DEF svars, service
<1>8. QED  BY <1>1, <1>2, <1>3, <1>4, <1>5, <1>6, <1>7 DEF ServiceNext, ReliableNext

\* A main loop's go routine, which reads t.controller without the mutex
\* (service.go:64-66), always finds it set, whatever calls are in progress.
THEOREM LoopHasControllerCorrect == ServiceSpec => []LoopHasController
<1>1. ServiceInit => LoopHasController  BY DEF ServiceInit, LoopHasController
<1>2. QED  BY <1>1, LoopHasControllerPreserved, PTL DEF ServiceSpec

\* No two main loops exist at a time: an Attach that starts one finds none, from
\* its check of t.controller and LoopHasController.
THEOREM OneLoopCorrect == ServiceSpec => OneLoop
<1>1. ASSUME LoopHasController, [ServiceNext]_svars
      PROVE  [StartsFirst]_svars
  <2> USE <1>1 DEF StartsFirst
  <2>1. CASE \E c \in Caller, r \in Calls \ {Idle} : Request(c, r)  BY <2>1 DEF Request
  <2>2. CASE \E c \in Caller : Methods(c)
    <3>1. PICK c \in Caller : Methods(c)  BY <2>2
    <3>2. CASE AttachSucceeds(c)
      <4>1. loop = "none"  BY <3>2 DEF AttachSucceeds, LoopHasController
      <4>2. QED  BY <4>1
    <3>3. CASE UNCHANGED loop  BY <3>3
    <3>4. QED
      BY <3>1, <3>2, <3>3 DEF Methods, AttachTwice, DetachNothing, Detach, AddNothing, Add, AddRefused
  <2>3. CASE \E c \in Caller : AttachFails(c)  BY <2>3 DEF AttachFails
  <2>4. CASE LoopStarts  BY <2>4 DEF LoopStarts
  <2>5. CASE LoopSteps \/ LoopReturns \/ TraceeTraps
    BY <2>5 DEF LoopSteps, LoopReturns, TraceeTraps, service
  <2>6. CASE Detached  BY <2>6 DEF Detached
  <2>7. CASE UNCHANGED svars  BY <2>7
  <2>8. QED  BY <2>1, <2>2, <2>3, <2>4, <2>5, <2>6, <2>7 DEF ServiceNext, ReliableNext
<1>2. QED  BY <1>1, LoopHasControllerCorrect, PTL DEF ServiceSpec, OneLoop

-----------------------------------------------------------------------------
(* Interrupts.                                                             *)

\* The strengthening: an interrupt in the channel of a main loop is that of the
\* Detach which waits for this loop.
InterruptAwaited == interruptCh /\ loop # "none" => mtx = "detacher"

LEMMA InterruptAwaitedPreserved ==
  LoopHasController /\ InterruptAwaited /\ [ServiceNext]_svars => InterruptAwaited'
<1> SUFFICES ASSUME LoopHasController, InterruptAwaited, [ServiceNext]_svars
             PROVE  InterruptAwaited'
  OBVIOUS
<1> USE DEF InterruptAwaited
<1>1. CASE \E c \in Caller, r \in Calls \ {Idle} : Request(c, r)  BY <1>1 DEF Request, vars
<1>2. ASSUME NEW c \in Caller, Methods(c)  PROVE InterruptAwaited'
  <2>1. CASE AttachTwice(c) \/ DetachNothing(c) \/ AddNothing(c) \/ AddRefused(c)
    BY <2>1 DEF AttachTwice, DetachNothing, AddNothing, AddRefused, vars
  <2>2. CASE AttachSucceeds(c)  BY <2>2 DEF AttachSucceeds
  <2>3. CASE Detach(c)  BY <2>3 DEF Detach
  <2>4. CASE Add(c)  BY <2>4 DEF Add, AddTracePoint
  <2>5. QED  BY <1>2, <2>1, <2>2, <2>3, <2>4 DEF Methods
<1>3. CASE \E c \in Caller : AttachFails(c)
  \* It starts no main loop, and there is none: it found no controller.
  <2>1. loop = "none" /\ UNCHANGED loop  BY <1>3 DEF AttachFails, LoopHasController
  <2>2. QED  BY <2>1
<1>4. CASE LoopStarts  BY <1>4 DEF LoopStarts, vars
<1>5. CASE LoopSteps \/ LoopReturns \/ TraceeTraps
  <2>1. UNCHANGED <<mtx, loop>> /\ (interruptCh' => interruptCh)
    BY <1>5 DEF LoopSteps, LoopReturns, TraceeTraps, service, Loop, HandleTrap, ContinueAndWait,
                Interrupted, Return, Trap
  <2>2. QED  BY <2>1
<1>6. CASE Detached  BY <1>6 DEF Detached
<1>7. CASE UNCHANGED svars  BY <1>7 DEF svars, service, vars
<1>8. QED  BY <1>1, <1>2, <1>3, <1>4, <1>5, <1>6, <1>7 DEF ServiceNext, ReliableNext

\* Only a main loop takes interrupts.
LEMMA InterruptTaken ==
  ASSUME InterruptAwaited, [ServiceNext]_svars, EndsByInterrupt
  PROVE  mtx = "detacher"
<1> USE DEF EndsByInterrupt
<1>1. CASE LoopSteps  BY <1>1 DEF LoopSteps, InterruptAwaited
<1>2. CASE \E c \in Caller : Methods(c)
  BY <1>2 DEF Methods, AttachTwice, AttachSucceeds, DetachNothing, Detach, AddNothing, Add,
              AddTracePoint, AddRefused, vars
<1>3. CASE ~LoopSteps /\ ~(\E c \in Caller : Methods(c))
  <2>1. UNCHANGED interruptCh
    BY <1>3 DEF ServiceNext, ReliableNext, Request, LoopStarts, LoopReturns, TraceeTraps, Return, Trap,
                Detached, AttachFails, svars, vars
  <2>2. QED  BY <2>1
<1>4. QED  BY <1>1, <1>2, <1>3

\* One attachment does not reach into the next: no main loop is lost to a new one, and
\* none is ended by an interrupt but that of the Detach which waits for it, whatever
\* calls are in progress and whether attaching fails (service.go:65-89).
THEOREM AttachmentsSeparateCorrect == ServiceSpec => AttachmentsSeparate
<1>1. ServiceInit => InterruptAwaited  BY DEF ServiceInit, InterruptAwaited
<1>2. ServiceSpec => []InterruptAwaited
  BY <1>1, InterruptAwaitedPreserved, LoopHasControllerCorrect, PTL DEF ServiceSpec
<1>3. InterruptAwaited /\ [ServiceNext]_svars => [InterruptedForDetach]_svars
  BY InterruptTaken DEF InterruptedForDetach
<1>4. [StartsFirst]_svars /\ [InterruptedForDetach]_svars
        => [StartsFirst /\ InterruptedForDetach]_svars
  OBVIOUS
<1>5. QED
  BY <1>2, <1>3, <1>4, OneLoopCorrect, PTL DEF ServiceSpec, OneLoop, AttachmentsSeparate

=============================================================================
