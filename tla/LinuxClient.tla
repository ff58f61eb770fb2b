----------------------------- MODULE LinuxClient -----------------------------
(***************************************************************************)
(* debugapi.Client on Linux.  The proxy runs one request at a time in one  *)
(* thread, so a call is a sequence of steps between which only the tracee  *)
(* moves: the call is up to its next wait4 one step, and each wait4 that   *)
(* returns is another.  waiting says which wait4 the call is in.           *)
(***************************************************************************)
EXTENDS Ptrace, SequencesExt

VARIABLES
  tracingThreadIDs,
  trappedThreadIDs,
  killOnDetach,
  members,   \* threads that AttachProcess has still to attach to
  waiting,   \* the wait4 the client is in
  event      \* what the last ContinueAndWait or StepAndWait has returned

client == <<tracingThreadIDs, trappedThreadIDs, killOnDetach, members, waiting, event>>

NotWaiting == [for |-> "nothing", thread |-> NoThread, child |-> NoThread]
AnyThread == [NotWaiting EXCEPT !.for = "any"]
One(t) == [NotWaiting EXCEPT !.for = "one", !.thread = t]
Child(t, c) == [for |-> "child", thread |-> t, child |-> c]

NoEvent == [type |-> "none", thread |-> NoThread]
Trapped(t) == [type |-> "trapped", thread |-> t]
Exited == [type |-> "exited", thread |-> NoThread]
Failed == [type |-> "error", thread |-> NoThread]

ClientTypeOK ==
  /\ tracingThreadIDs \subseteq Thread
  /\ trappedThreadIDs \in Seq(Thread)
  /\ killOnDetach \in BOOLEAN
  /\ members \subseteq Thread
  /\ waiting \in [for : {"nothing", "any", "one", "child"},
                  thread : Thread \cup {NoThread}, child : Thread \cup {NoThread}]
  /\ event \in [type : {"none", "trapped", "exited", "error"}, thread : Thread \cup {NoThread}]

ClientInit ==
  /\ tracingThreadIDs = {} /\ trappedThreadIDs = <<>>
  /\ killOnDetach = FALSE /\ members = {}
  /\ waiting = NotWaiting /\ event = NoEvent

Ids(seq) == {seq[i] : i \in DOMAIN seq}

Return(e) == event' = e /\ waiting' = NotWaiting

-----------------------------------------------------------------------------
(* Launching and attaching.                                                *)

\* The new process has stopped after execve.
LaunchProcess ==
  /\ thread[Leader].life = "unborn"
  /\ thread' = [thread EXCEPT ![Leader].life = "stopped", ![Leader].traced = TRUE]
  /\ tracingThreadIDs' = {Leader} /\ trappedThreadIDs' = <<Leader>>
  /\ killOnDetach' = TRUE
  /\ UNCHANGED <<text, killed, members, waiting, event>>

ListMembers ==
  /\ tracingThreadIDs = {} /\ members = {}
  /\ members' = {t \in Thread : Alive(t)}
  /\ UNCHANGED <<kernel, tracingThreadIDs, trappedThreadIDs, killOnDetach, waiting, event>>

\* All members are attached to before the client waits for their stops.
AttachToMember(t) ==
  /\ t \in members /\ Alive(t)
  /\ thread' = [thread EXCEPT ![t].life = "stopped", ![t].traced = TRUE]
  /\ members' = members \ {t}
  /\ IF members' = {}
       THEN /\ tracingThreadIDs' = {u \in Thread : thread'[u].traced}
            /\ trappedThreadIDs' = SetToSeq(tracingThreadIDs')
       ELSE UNCHANGED <<tracingThreadIDs, trappedThreadIDs>>
  /\ UNCHANGED <<text, killed, killOnDetach, waiting, event>>

\* The error is returned; the threads attached to so far stay stopped.  The other
\* errors, of waitAndInitialize at a first stop by another signal, have the same effect;
\* a member that has exited stands for them.
AttachFails ==
  /\ \E t \in members : ~Alive(t)
  /\ members' = {}
  /\ Return(Failed)
  /\ UNCHANGED <<kernel, tracingThreadIDs, trappedThreadIDs, killOnDetach>>

-----------------------------------------------------------------------------
(* Continuing and stepping.                                                *)

\* continueAndWait: all that is on the list is continued, up to the first one
\* that is not stopped.
ContinueFrom(th, trapped) ==
  LET bad == {i \in DOMAIN trapped : th[trapped[i]].life # "stopped"}
  IN  IF bad = {}
        THEN /\ thread' = Continued(th, Ids(trapped))
             /\ trappedThreadIDs' = <<>>
             /\ waiting' = AnyThread
             /\ UNCHANGED event
        ELSE /\ thread' = Continued(th, {trapped[i] : i \in {j \in DOMAIN trapped :
                                                          \A k \in bad : j < k}})
             /\ trappedThreadIDs' = trapped
             /\ Return(Failed)

ContinueAndWait ==
  /\ waiting = NotWaiting
  /\ ContinueFrom(thread, trappedThreadIDs)
  /\ UNCHANGED <<text, killed, tracingThreadIDs, killOnDetach, members>>

\* As if the thread stayed on the list.
StepAndWait_KeepsThread(th, t) ==
  /\ thread' = [th EXCEPT ![t].life = "stepping", ![t].status = "none"]
  /\ waiting' = One(t)
  /\ UNCHANGED <<tracingThreadIDs, trappedThreadIDs, killOnDetach, members, event>>

\* As if it waited for any thread.
StepAndWait_WaitsForAny(th, t) ==
  /\ thread' = [th EXCEPT ![t].life = "stepping", ![t].status = "none"]
  /\ trappedThreadIDs' = RemoveFirst(trappedThreadIDs, t)
  /\ waiting' = AnyThread
  /\ UNCHANGED <<tracingThreadIDs, killOnDetach, members, event>>

\* th: the state of the threads once t has its program counter.
StepAndWait(th, t) ==
  /\ thread' = [th EXCEPT ![t].life = "stepping", ![t].status = "none"]
  /\ trappedThreadIDs' = RemoveFirst(trappedThreadIDs, t)
  /\ waiting' = One(t)
  /\ UNCHANGED <<tracingThreadIDs, killOnDetach, members, event>>

\* wait4 returns the status of t.
Wait4(t) ==
  /\ Reported(t)
  /\ \/ waiting = AnyThread /\ thread[t].traced
     \/ waiting = One(t)

\* As if only other stops were listed.
WaitTrapped_Unlisted(t) ==
  /\ Wait4(t) /\ thread[t].status = "trap"
  /\ thread' = Waited(thread, t)
  /\ Return(Trapped(t))
  /\ UNCHANGED <<text, killed, tracingThreadIDs, trappedThreadIDs, killOnDetach, members>>

\* Stopped by a trap instruction or after a single step.
WaitTrapped(t) ==
  /\ Wait4(t) /\ thread[t].status = "trap"
  /\ thread' = Waited(thread, t)
  /\ trappedThreadIDs' = Append(trappedThreadIDs, t)
  /\ Return(Trapped(t))
  /\ UNCHANGED <<text, killed, tracingThreadIDs, killOnDetach, members>>

\* Whatever the call was, it goes on as ContinueAndWait with the signal.
WaitSignalled(t) ==
  /\ Wait4(t) /\ thread[t].status \in {"signal", "stop"}
  /\ ContinueFrom(Waited(thread, t), Append(trappedThreadIDs, t))
  /\ UNCHANGED <<text, killed, tracingThreadIDs, killOnDetach, members>>

WaitExited(t) ==
  /\ Wait4(t) /\ thread[t].status = "exit"
  /\ thread' = Waited(thread, t)
  /\ Return(Exited)
  /\ UNCHANGED <<text, killed, tracingThreadIDs, trappedThreadIDs, killOnDetach, members>>

\* As if the new thread's id were not kept.
WaitCloned_Forgets(t) ==
  /\ Wait4(t) /\ thread[t].status = "clone"
  /\ thread' = Waited(thread, t)
  /\ trappedThreadIDs' = Append(trappedThreadIDs, t)
  /\ waiting' = Child(t, thread[t].child)
  /\ UNCHANGED <<text, killed, tracingThreadIDs, killOnDetach, members, event>>

WaitCloned(t) ==
  /\ Wait4(t) /\ thread[t].status = "clone"
  /\ thread' = Waited(thread, t)
  /\ trappedThreadIDs' = Append(trappedThreadIDs, t)
  /\ tracingThreadIDs' = tracingThreadIDs \cup {thread[t].child}
  /\ waiting' = Child(t, thread[t].child)
  /\ UNCHANGED <<text, killed, killOnDetach, members, event>>

\* continueClone: whatever the status of the child is, the child is continued and
\* then the parent.
WaitChild ==
  LET c == waiting.child
  IN
  /\ waiting.for = "child" /\ thread[c].status # "none"
  /\ IF Stopped(c)
       THEN /\ ContinueFrom(Continued(Waited(thread, c), {c}), trappedThreadIDs)
            /\ UNCHANGED <<text, killed, tracingThreadIDs, killOnDetach, members>>
       ELSE /\ thread' = Waited(thread, c)
            /\ Return(Failed)
            /\ UNCHANGED <<text, killed, tracingThreadIDs, trappedThreadIDs, killOnDetach, members>>

Wait ==
  \/ \E t \in Thread : WaitTrapped(t) \/ WaitSignalled(t) \/ WaitExited(t) \/ WaitCloned(t)
  \/ WaitChild

-----------------------------------------------------------------------------
(* Memory and detaching.                                                   *)

\* The memory is written through the first thread of the list.
CanWriteMemory(trapped) == trapped # <<>> /\ Stopped(trapped[1])

\* Only a stopped thread can be detached; the others are skipped.
DetachedThreads ==
  [t \in Thread |-> IF t \in tracingThreadIDs /\ Stopped(t)
                      THEN [thread[t] EXCEPT !.life = "running", !.traced = FALSE, !.status = "none"]
                      ELSE thread[t]]

KilledThreads ==
  [t \in Thread |-> IF Alive(t) THEN [thread[t] EXCEPT !.life = "dead", !.status = "none"]
                    ELSE thread[t]]

DetachProcess ==
  /\ thread' = IF killOnDetach THEN KilledThreads ELSE DetachedThreads
  /\ UNCHANGED <<client, killed>>

=============================================================================
