--------------------------- MODULE MainLoop_proofs ---------------------------
(***************************************************************************)
(* The main loop, for any threads, trace points and channel capacity.      *)
(***************************************************************************)
EXTENDS MainLoop, TLAPS

-----------------------------------------------------------------------------
(* Type correctness.                                                       *)

\* An accepted request fits into its channel, and taking the requests empties it.
LEMMA AppendFits ==
  ASSUME NEW k \in Kind, NEW a \in TracePoint, TypeOK, Len(pending[k]) < ChanBufferSize
  PROVE  /\ [pending EXCEPT ![k] = Append(@, a)] \in [Kind -> Seq(TracePoint)]
         /\ \A j \in Kind : Len([pending EXCEPT ![k] = Append(@, a)][j]) <= ChanBufferSize
<1>1. pending \in [Kind -> Seq(TracePoint)]  BY DEF TypeOK
<1>2. Append(pending[k], a) \in Seq(TracePoint) /\ Len(Append(pending[k], a)) = Len(pending[k]) + 1
  BY <1>1
<1>3. Len(pending[k]) \in Nat  BY <1>1
<1>4. Len(pending[k]) + 1 <= ChanBufferSize  BY <1>3, MainLoopAssumption
<1>5. \A j \in Kind : Len(pending[j]) <= ChanBufferSize  BY DEF TypeOK
<1>6. QED  BY <1>1, <1>2, <1>4, <1>5

\* One action at a time.
LEMMA TypePreserved == TypeOK /\ [Next]_vars => TypeOK'
<1> SUFFICES ASSUME TypeOK, [Next]_vars  PROVE TypeOK'
  OBVIOUS
<1> USE DEF TypeOK
<1>1. CASE \E t \in Thread : HandleTrap(t)  BY <1>1 DEF HandleTrap
<1>2. CASE ContinueAndWait
  <2>1. \A k \in Kind : Requested(k) \subseteq TracePoint  BY DEF Requested
  <2>2. active' \in [Kind -> SUBSET TracePoint]  BY <1>2, <2>1 DEF ContinueAndWait
  <2>3. <<>> \in Seq(TracePoint) /\ Len(<<>>) = 0  OBVIOUS
  <2>4. /\ pending' \in [Kind -> Seq(TracePoint)]
        /\ \A k \in Kind : Len(pending'[k]) <= ChanBufferSize
    BY <1>2, <2>3, MainLoopAssumption DEF ContinueAndWait
  <2>5. QED  BY <1>2, <2>2, <2>4 DEF ContinueAndWait
<1>3. CASE Interrupted  BY <1>3 DEF Interrupted
<1>4. CASE Return  BY <1>4 DEF Return
<1>5. CASE \E t \in Thread : Trap(t)  BY <1>5 DEF Trap
<1>6. CASE \E k \in Kind, a \in TracePoint : AddTracePoint(k, a)
  <2>1. PICK k \in Kind, a \in TracePoint : AddTracePoint(k, a)  BY <1>6
  <2>2. QED  BY <2>1, AppendFits DEF AddTracePoint
<1>7. CASE Interrupt  BY <1>7 DEF Interrupt
<1>8. CASE UNCHANGED vars  BY <1>8 DEF vars
<1>9. QED  BY <1>1, <1>2, <1>3, <1>4, <1>5, <1>6, <1>7, <1>8 DEF Next, Loop

\* The request channels never hold more than their capacity, and what is in them
\* and becomes effective are trace points (AddStartTracePoint, AddEndTracePoint,
\* setPendingTracePoints).
THEOREM TypeCorrect == Spec => []TypeOK
<1>1. Init => TypeOK
  BY MainLoopAssumption DEF Init, InitWith, TypeOK
<1>2. QED  BY <1>1, TypePreserved, PTL DEF Spec

-----------------------------------------------------------------------------

\* The strengthening: while the loop waits for an event no thread is held, so the
\* handler, which then holds its own thread, lets no other go; only ContinueAndWait
\* does.
NothingHeldWhileWaiting == phase = "waiting" => held = {}

LEMMA HeldPreserved == NothingHeldWhileWaiting /\ [Next]_vars => NothingHeldWhileWaiting'
<1> SUFFICES ASSUME NothingHeldWhileWaiting, [Next]_vars  PROVE NothingHeldWhileWaiting'
  OBVIOUS
<1> USE DEF NothingHeldWhileWaiting
<1>1. CASE \E t \in Thread : HandleTrap(t)  BY <1>1 DEF HandleTrap
<1>2. CASE ContinueAndWait  BY <1>2 DEF ContinueAndWait
<1>3. CASE Interrupted  BY <1>3 DEF Interrupted
<1>4. CASE Return  BY <1>4 DEF Return
<1>5. CASE \E t \in Thread : Trap(t)  BY <1>5 DEF Trap
<1>6. CASE \E k \in Kind, a \in TracePoint : AddTracePoint(k, a)  BY <1>6 DEF AddTracePoint
<1>7. CASE Interrupt  BY <1>7 DEF Interrupt
<1>8. CASE UNCHANGED vars  BY <1>8 DEF vars
<1>9. QED  BY <1>1, <1>2, <1>3, <1>4, <1>5, <1>6, <1>7, <1>8 DEF Next, Loop

LEMMA StepApplies ==
  ASSUME TypeOK, NothingHeldWhileWaiting, [Next]_vars
  PROVE  AppliedBeforeResuming
<1> USE DEF AppliedBeforeResuming
<1>1. CASE \E t \in Thread : HandleTrap(t)  BY <1>1 DEF HandleTrap, NothingHeldWhileWaiting
<1>2. CASE ContinueAndWait  BY <1>2 DEF ContinueAndWait
<1>3. CASE UNCHANGED held  BY <1>3
<1>4. QED
  BY <1>1, <1>2, <1>3
     DEF Next, Loop, Interrupted, Return, Trap, AddTracePoint, Interrupt, vars

\* The requests that have arrived when a stopped thread resumes are effective
\* then: "It handles requests via channels before resuming" (controller.go:177).
THEOREM RequestsBeforeResuming == Spec => ResumesWithRequests
<1>1. Init => NothingHeldWhileWaiting
  BY DEF Init, InitWith, NothingHeldWhileWaiting
<1>2. Spec => []NothingHeldWhileWaiting
  BY <1>1, HeldPreserved, PTL DEF Spec
<1>3. TypeOK /\ NothingHeldWhileWaiting /\ [Next]_vars => [AppliedBeforeResuming]_vars
  BY StepApplies
<1>4. QED  BY <1>2, <1>3, TypeCorrect, PTL DEF Spec, ResumesWithRequests

=============================================================================
