------------------------------ MODULE MainLoop ------------------------------
(***************************************************************************)
(* The skeleton of tracer.Controller.MainLoop: which thread is stopped,    *)
(* when the requests of other threads become effective and when the loop   *)
(* ends.  What a handler does to the bookkeeping and what the threads do   *)
(* between two traps is left open.  Controller implements this module;     *)
(* Service runs it behind the RPC server.                                  *)
(***************************************************************************)
EXTENDS Naturals, Sequences

CONSTANTS Thread,
          TracePoint,
          ChanBufferSize,   \* capacity of the request channels
          InitialRequests   \* what may be requested before the loop starts

Kind == {"start", "end"}   \* start and end trace points have a channel each

ASSUME MainLoopAssumption ==
  /\ ChanBufferSize \in Nat
  /\ InitialRequests \subseteq [Kind -> Seq(TracePoint)]
  /\ \A r \in InitialRequests, k \in Kind : Len(r[k]) <= ChanBufferSize

VARIABLES phase,       \* "resuming": in continueAndWait, before the tracee resumes
                       \* "waiting": for an event; "ended": MainLoop has returned
          trapped,     \* threads that hit a trap not yet handled
          held,        \* stopped threads that the next resuming lets run
          interruptCh, \* an interrupt was requested
          pending,     \* pending[k]: trace points requested but not yet set
          active       \* active[k]: trace points that are set

vars == <<phase, trapped, held, interruptCh, pending, active>>

TypeOK ==
  /\ phase \in {"resuming", "waiting", "ended"}
  /\ trapped \subseteq Thread /\ held \subseteq Thread
  /\ interruptCh \in BOOLEAN
  /\ pending \in [Kind -> Seq(TracePoint)]
  /\ \A k \in Kind : Len(pending[k]) <= ChanBufferSize
  /\ active \in [Kind -> SUBSET TracePoint]

Requested(k) == {pending[k][i] : i \in DOMAIN pending[k]}

InitWith(initial) ==
  /\ phase = "resuming"
  /\ trapped = {} /\ held = Thread
  /\ interruptCh = FALSE
  /\ pending = initial
  /\ active = [k \in Kind |-> {}]

Init == \E r \in InitialRequests : InitWith(r)

-----------------------------------------------------------------------------

Trap(t) ==
  /\ phase # "ended" /\ t \notin trapped \cup held
  /\ trapped' = trapped \cup {t}
  /\ UNCHANGED <<phase, held, interruptCh, pending, active>>

HandleTrap(t) ==
  /\ phase = "waiting" /\ t \in trapped
  /\ phase' = "resuming"
  /\ trapped' = trapped \ {t}
  /\ held' = {t}
  /\ UNCHANGED <<interruptCh, pending, active>>

\* Defects: one select for all the channels, which may overlook the interrupt; end
\* points are taken but not set.
ContinueAndWait_IgnoresInterrupt ==
  /\ phase = "resuming"
  /\ phase' = "waiting" /\ held' = {}
  /\ active' = [k \in Kind |-> active[k] \cup Requested(k)]
  /\ pending' = [k \in Kind |-> <<>>]
  /\ UNCHANGED <<trapped, interruptCh>>
ContinueAndWait_DropsEnds ==
  /\ phase = "resuming" /\ ~interruptCh
  /\ phase' = "waiting" /\ held' = {}
  /\ active' = [active EXCEPT !["start"] = @ \cup Requested("start")]
  /\ pending' = [k \in Kind |-> <<>>]
  /\ UNCHANGED <<trapped, interruptCh>>

ContinueAndWait ==
  /\ phase = "resuming" /\ ~interruptCh
  /\ phase' = "waiting"
  /\ held' = {}
  /\ active' = [k \in Kind |-> active[k] \cup Requested(k)]
  /\ pending' = [k \in Kind |-> <<>>]
  /\ UNCHANGED <<trapped, interruptCh>>

Interrupted ==
  /\ phase = "resuming" /\ interruptCh
  /\ phase' = "ended"
  /\ interruptCh' = FALSE
  /\ UNCHANGED <<trapped, held, pending, active>>

\* The tracee has exited, or something has failed.
Return ==
  /\ phase # "ended"
  /\ phase' = "ended"
  /\ UNCHANGED <<trapped, held, interruptCh, pending, active>>

AddTracePoint(k, a) ==
  /\ Len(pending[k]) < ChanBufferSize
  /\ pending' = [pending EXCEPT ![k] = Append(@, a)]
  /\ UNCHANGED <<phase, trapped, held, interruptCh, active>>

Interrupt ==
  /\ ~interruptCh
  /\ interruptCh' = TRUE
  /\ UNCHANGED <<phase, trapped, held, pending, active>>

Loop == (\E t \in Thread : HandleTrap(t)) \/ ContinueAndWait \/ Interrupted

Next ==
  \/ Loop
  \/ Return
  \/ \E t \in Thread : Trap(t)
  \/ \E k \in Kind, a \in TracePoint : AddTracePoint(k, a)
  \/ Interrupt

Spec == Init /\ [][Next]_vars

-----------------------------------------------------------------------------
(* Properties.                                                             *)

\* A stopped thread does not run again before the requests that had arrived are
\* effective: they would be too late for it ("It handles requests via channels
\* before resuming", controller.go:177).
AppliedBeforeResuming ==
  \A t \in held : t \notin held' => \A k \in Kind : Requested(k) \subseteq active'[k]
ResumesWithRequests == [][AppliedBeforeResuming]_vars

=============================================================================
