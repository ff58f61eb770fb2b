---------------------------- MODULE DarwinClient ----------------------------
(***************************************************************************)
(* debugapi.Client on Darwin.  A call of ContinueAndWait or StepAndWait    *)
(* resumes the process, waits for a stop reply and asks for the stop info  *)
(* of each thread; when no reply comes in time it asks for the threads and *)
(* their stop info itself.  Requests and their answers are steps of their  *)
(* own while the process may run; register and memory requests are one     *)
(* step with their answer.                                                 *)
(***************************************************************************)
EXTENDS Debugserver

VARIABLES
  link,          \* the connection to the debugserver
  call,          \* where ContinueAndWait or StepAndWait is
  event,         \* what the last one has returned
  pendingSignal, \* the next resume passes a signal on
  owed           \* a stop reply has named a signal that no resume has passed on yet

client == <<link, call, event, pendingSignal, owed>>

\* step: the thread that is stepped; todo: threads still to be asked for; asked: an
\* answer is to come; header: the reason in the stop reply; found: trapped threads.
Call == [at : {"idle", "waiting", "listing", "checking", "selecting"},
         step : Thread \cup {NoThread}, header : Reason,
         todo : Seq(Thread), asked : BOOLEAN, found : Seq(Thread)]

Idle == [at |-> "idle", step |-> NoThread, header |-> "none",
         todo |-> <<>>, asked |-> FALSE, found |-> <<>>]

Event == [type : {"none", "trapped", "unspecified", "exited", "error"}, threads : Seq(Thread)]
NoEvent == [type |-> "none", threads |-> <<>>]
Trapped(T) == [type |-> "trapped", threads |-> T]
Unspecified(T) == [type |-> "unspecified", threads |-> T]
Exited == [type |-> "exited", threads |-> <<>>]
Failed == [type |-> "error", threads |-> <<>>]

ClientTypeOK ==
  /\ link \in [at : {"connecting", "asking", "up", "closed"}, request : 0..5, kill : BOOLEAN]
  /\ call \in Call /\ event \in Event
  /\ pendingSignal \in BOOLEAN /\ owed \in BOOLEAN

\* kill: the process was launched, and is killed on detaching.
ClientInit ==
  /\ \E kill \in BOOLEAN : link = [at |-> "connecting", request |-> 0, kill |-> kill]
  /\ call = Idle /\ event = NoEvent
  /\ pendingSignal = FALSE /\ owed = FALSE

-----------------------------------------------------------------------------
(* Launching or attaching.                                                 *)

\* The debugserver connects, or exits before.
Connect ==
  /\ link.at = "connecting"
  /\ \/ link' = [link EXCEPT !.at = "asking"] /\ UNCHANGED event
     \/ link' = [link EXCEPT !.at = "closed"] /\ event' = Failed
  /\ UNCHANGED <<server, call, pendingSignal, owed>>

\* The requests of initialize, in their order; qRegisterInfo stands for one per register.
Requests == <<"QStartNoAckMode", "qSupported", "QThreadSuffixSupported", "qRegisterInfo",
              "QListThreadsInStopReply", "_M">>
Unchecked == {"qSupported"}

Initialize ==
  /\ link.at = "asking" /\ event # Failed
  /\ \/ /\ link' = IF link.request = 5 THEN [link EXCEPT !.at = "up"]
                                       ELSE [link EXCEPT !.request = @ + 1]
        /\ UNCHANGED event
     \/ /\ "refusal" \in happens /\ Requests[link.request + 1] \notin Unchecked
        /\ event' = Failed
        /\ UNCHANGED link
  /\ UNCHANGED <<server, call, pendingSignal, owed>>

-----------------------------------------------------------------------------
(* Requests for registers and memory.                                      *)

\* The next packet must be the answer.  Once the connection is initialised the
\* debugserver refuses no request for registers or memory: the client would return
\* the error, but for ReadTLS, which swallows that of putting the registers back.
CanAsk == link.at = "up" /\ channel = <<>>

-----------------------------------------------------------------------------
(* Continuing and stepping.                                                *)

Return(e) == event' = e /\ call' = Idle

\* continueAndWait: all threads go on, with the signal if there is one.
Continue(th, signal) ==
  /\ Resume(th, [t \in Thread |-> "runs"])
  /\ owed' = (owed /\ ~signal)

ContinueAndWait ==
  /\ call = Idle /\ link.at = "up"
  /\ Continue(thread, pendingSignal)
  /\ call' = [Idle EXCEPT !.at = "waiting"]
  /\ event' = NoEvent
  /\ UNCHANGED <<text, link, pendingSignal>>

\* th: the state of the threads once t has its program counter.
StepAndWait(th, t) ==
  /\ Resume(th, [u \in Thread |-> IF u = t THEN "steps" ELSE "held"])
  /\ owed' = (owed /\ ~pendingSignal)
  /\ call' = [Idle EXCEPT !.at = "waiting", !.step = t]
  /\ event' = NoEvent
  /\ UNCHANGED <<link, pendingSignal>>

\* Packets of one read are split again; only the first is looked at after output
\* packets are out of the way.
Replies(packets) == {i \in DOMAIN packets : packets[i] # Output}
FirstReply(packets) ==
  packets[CHOOSE i \in Replies(packets) : \A j \in Replies(packets) : i <= j]

HandleReplies(packets) ==
  LET p == FirstReply(packets) IN
  IF Replies(packets) = {} THEN /\ call' = [Idle EXCEPT !.at = "waiting", !.step = call.step]
                         /\ UNCHANGED <<link, event, owed>>
  ELSE CASE p.type = "exit" -> /\ Return(Exited)
                               /\ link' = [link EXCEPT !.at = "closed"]
                               /\ UNCHANGED owed
         [] p.type = "stop" /\ p.reason # "bad access" ->
              /\ call' = [Idle EXCEPT !.at = "selecting", !.step = call.step,
                                      !.header = p.reason, !.todo = Living]
              /\ owed' = (p.reason = "signal")
              /\ UNCHANGED <<link, event>>
         [] OTHER -> Return(Failed) /\ UNCHANGED <<link, owed>>

\* One read returns what has arrived: one packet or several.
Packets == {SubSeq(channel, 1, n) : n \in 1..Len(channel)}

Read(packets) ==
  /\ channel' = SubSeq(channel, Len(packets) + 1, Len(channel))
  /\ UNCHANGED <<thread, text, running, due>>

Receive ==
  /\ call.at = "waiting"
  /\ \E packets \in Packets : Read(packets) /\ HandleReplies(packets)
  /\ UNCHANGED pendingSignal

\* As if the client only waited again when the deadline passes.
Timeout_WaitsOn ==
  /\ call.at = "waiting" /\ channel = <<>> /\ due = <<>>
  /\ UNCHANGED <<server, client>>

\* The read deadline of ten seconds passes: debugserver has lost a reply or there
\* was nothing to report.
Timeout ==
  /\ call.at = "waiting" /\ channel = <<>> /\ due = <<>>
  /\ ~running \/ "long run" \in happens
  /\ Answer(Threads)
  /\ call' = [call EXCEPT !.at = "listing"]
  /\ UNCHANGED <<link, event, pendingSignal, owed>>

\* qfThreadInfo's answer; with another packet in the same read it makes no sense.
ReceiveThreads ==
  /\ call.at = "listing"
  /\ \E packets \in Packets :
       /\ Read(packets)
       /\ IF packets = <<Threads>>
            THEN call' = [call EXCEPT !.at = "checking", !.todo = Living] /\ UNCHANGED event
            ELSE Return(Failed)
  /\ UNCHANGED <<link, pendingSignal, owed>>

\* qThreadStopInfo of the next thread.
Ask ==
  /\ call.at \in {"checking", "selecting"} /\ call.todo # <<>> /\ ~call.asked
  /\ Answer(Stopped(thread[Head(call.todo)].stop))
  /\ call' = [call EXCEPT !.asked = TRUE]
  /\ UNCHANGED <<link, event, pendingSignal, owed>>

Answered == [call EXCEPT !.todo = Tail(@), !.asked = FALSE]

\* checkStopReply takes the first stop info with a reason for the stop reply.
CheckStopReply ==
  /\ call.at = "checking" /\ call.asked
  /\ \E packets \in Packets :
       /\ Read(packets)
       /\ IF Head(packets) = Stopped("none")
            THEN call' = Answered /\ UNCHANGED <<link, event, owed>>
            ELSE HandleReplies(packets)
  /\ UNCHANGED pendingSignal

NoneStopped ==
  /\ call.at = "checking" /\ call.todo = <<>>
  /\ call' = [call EXCEPT !.at = "waiting"]
  /\ UNCHANGED <<server, link, event, pendingSignal, owed>>

\* As if one trapped thread were enough.
SelectTrappedThread_First ==
  /\ call.at = "selecting" /\ call.asked
  /\ \E packets \in Packets :
       /\ Read(packets)
       /\ call' = IF Head(packets) = Stopped("trap")
                    THEN [call EXCEPT !.todo = <<>>, !.asked = FALSE, !.found = <<Head(call.todo)>>]
                    ELSE Answered
  /\ UNCHANGED <<link, event, pendingSignal, owed>>

\* The debugserver refuses this request for no thread that it has listed.
SelectTrappedThread ==
  /\ call.at = "selecting" /\ call.asked
  /\ \E packets \in Packets :
       /\ Read(packets)
       /\ call' = IF Head(packets) = Stopped("trap")
                    THEN [Answered EXCEPT !.found = Append(@, Head(call.todo))] ELSE Answered
  /\ UNCHANGED <<link, event, pendingSignal, owed>>

Selected == call.at = "selecting" /\ call.todo = <<>>

\* Whatever the call was, it goes on as ContinueAndWait with the signal.
NoneTrapped ==
  /\ Selected /\ call.found = <<>>
  /\ Continue(thread, call.header = "signal")
  /\ call' = [Idle EXCEPT !.at = "waiting", !.step = call.step]
  /\ UNCHANGED <<text, link, event, pendingSignal>>

\* As if the signal of an earlier stop were kept.
SomeTrapped_KeepsSignal ==
  /\ Selected /\ call.found # <<>>
  /\ pendingSignal' = (pendingSignal \/ call.header = "signal")
  /\ Return(IF call.step = NoThread \/ call.found = <<call.step>>
              THEN Trapped(call.found) ELSE Unspecified(call.found))
  /\ UNCHANGED <<server, link, owed>>

\* As if a step were never taken for one of the thread that was asked for.
SomeTrapped_NeverSpecified ==
  /\ Selected /\ call.found # <<>>
  /\ pendingSignal' = (call.header = "signal")
  /\ Return(IF call.step = NoThread THEN Trapped(call.found) ELSE Unspecified(call.found))
  /\ UNCHANGED <<server, link, owed>>

SomeTrapped ==
  /\ Selected /\ call.found # <<>>
  /\ pendingSignal' = (call.header = "signal")
  /\ Return(IF call.step = NoThread \/ call.found = <<call.step>>
              THEN Trapped(call.found) ELSE Unspecified(call.found))
  /\ UNCHANGED <<server, link, owed>>

\* The client's own steps while a call waits.
Waits ==
  \/ Receive \/ Timeout \/ ReceiveThreads \/ Ask \/ CheckStopReply \/ NoneStopped
  \/ SelectTrappedThread \/ NoneTrapped \/ SomeTrapped

-----------------------------------------------------------------------------

\* k ends the process, D lets all threads go on; stops that were not reported are
\* forgotten.  The connection is closed in any case.
DetachProcess ==
  /\ link' = [link EXCEPT !.at = "closed"]
  /\ thread' = IF link.at # "up" \/ link.kill THEN thread
               ELSE [t \in Thread |-> [thread[t] EXCEPT !.mode = "runs", !.hit = "none"]]
  /\ UNCHANGED <<running, due, channel, call, event, pendingSignal, owed>>

=============================================================================
