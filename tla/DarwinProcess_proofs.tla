------------------------ MODULE DarwinProcess_proofs ------------------------
(***************************************************************************)
(* Process over the Darwin client, for any number of threads, any program  *)
(* and any breakpoints.                                                    *)
(***************************************************************************)
EXTENDS DarwinProcess, SequenceTheorems, WellFoundedInduction, TLAPS

Elements(s) == {s[i] : i \in DOMAIN s}
Distinct(s) == \A i, j \in DOMAIN s : s[i] = s[j] => i = j

-----------------------------------------------------------------------------
(* Sequences.                                                              *)

LEMMA FirstOf ==
  ASSUME NEW S, NEW s \in Seq(S), s # <<>>
  PROVE  /\ Head(s) = s[1] /\ s[1] \in S /\ Len(s) \in Nat /\ Len(s) >= 1
         /\ Tail(s) \in Seq(S) /\ Len(Tail(s)) = Len(s) - 1
         /\ \A i \in 1..(Len(s) - 1) : Tail(s)[i] = s[i + 1]
BY HeadTailProperties, EmptySeq, LenProperties

LEMMA Prepend ==
  ASSUME NEW S, NEW s \in Seq(S), NEW e \in S
  PROVE  /\ <<e>> \o s \in Seq(S) /\ Len(<<e>> \o s) = Len(s) + 1
         /\ (<<e>> \o s)[1] = e
         /\ \A i \in 2..(Len(s) + 1) : (<<e>> \o s)[i] = s[i - 1]
<1>1. <<e>> \in Seq(S) /\ Len(<<e>>) = 1 /\ <<e>>[1] = e
  OBVIOUS
<1>2. Len(s) \in Nat
  OBVIOUS
<1> QED BY <1>1, <1>2, ConcatProperties

LEMMA ReplaceFirst ==
  ASSUME NEW S, NEW s \in Seq(S), s # <<>>, NEW e \in S
  PROVE  /\ <<e>> \o Tail(s) \in Seq(S) /\ Len(<<e>> \o Tail(s)) = Len(s)
         /\ (<<e>> \o Tail(s))[1] = e
         /\ \A i \in 2..Len(s) : (<<e>> \o Tail(s))[i] = s[i]
<1>1. /\ Tail(s) \in Seq(S) /\ Len(Tail(s)) = Len(s) - 1 /\ Len(s) \in Nat /\ Len(s) >= 1
      /\ \A i \in 1..(Len(s) - 1) : Tail(s)[i] = s[i + 1]
  BY FirstOf
<1> DEFINE r == Tail(s)
<1> HIDE DEF r
<1>2. /\ <<e>> \o r \in Seq(S) /\ Len(<<e>> \o r) = Len(r) + 1
      /\ (<<e>> \o r)[1] = e
      /\ \A i \in 2..(Len(r) + 1) : (<<e>> \o r)[i] = r[i - 1]
  BY <1>1, Prepend DEF r
<1> QED BY <1>1, <1>2 DEF r

LEMMA OneElement ==
  ASSUME NEW S, NEW e \in S
  PROVE  <<e>> \in Seq(S) /\ Len(<<e>>) = 1 /\ <<e>>[1] = e /\ <<e>> # <<>> /\ Head(<<e>>) = e
OBVIOUS

LEMMA ElementsOf ==
  ASSUME NEW S, NEW s \in Seq(S)
  PROVE  /\ DOMAIN s = 1..Len(s) /\ Len(s) \in Nat
         /\ \A i \in DOMAIN s : s[i] \in S
         /\ s = <<>> <=> Len(s) = 0
BY LenProperties, EmptySeq

LEMMA LeastOf ==
  ASSUME NEW S \in SUBSET Nat, S # {}
  PROVE  \E m \in S : \A j \in S : m <= j
<1> DEFINE Less == OpToRel(<, Nat)
<1>1. \E m \in S : \A j \in S : ~(<<j, m>> \in Less)
  <2>1. IsWellFoundedOn(Less, Nat)
    BY NatLessThanWellFounded
  <2> HIDE DEF Less
  <2> QED BY <2>1, WFMin
<1>2. \A j, m \in Nat : j < m => <<j, m>> \in Less
  BY DEF OpToRel
<1> HIDE DEF Less
<1>3. \A j, m \in Nat : ~(j < m) => m <= j
  OBVIOUS
<1> QED BY <1>1, <1>2, <1>3

-----------------------------------------------------------------------------
(* Types.                                                                  *)

States == [Thread -> ThreadState]

LEMMA LivingIs ==
  Living \in Seq(Thread) /\ Distinct(Living) /\ \A t \in Elements(Living) : Lives(t)
<1>1. ThreadList \in Seq(Thread) /\ Len(ThreadList) \in Nat /\ DOMAIN ThreadList = 1..Len(ThreadList)
  BY DebugserverAssumption
<1>2. Distinct(ThreadList)
  BY DebugserverAssumption DEF Distinct
<1> DEFINE n == Len(ThreadList) - 1
           s == SubSeq(ThreadList, 1, n)
<1>3. \A i \in 1..n : ThreadList[i] \in Thread
  BY <1>1
<1>4. s \in Seq(Thread) /\ Len(s) = (IF 1 <= n THEN n ELSE 0) /\ \A i \in 1..n : s[i] = ThreadList[i]
  BY <1>1, <1>3, SubSeqProperties
<1>5. Distinct(s)
  BY <1>1, <1>2, <1>4 DEF Distinct
<1> HIDE DEF s
<1>6. Living \in {ThreadList, s}
  BY DEF Living, s
<1>7. Living \in Seq(Thread) /\ Distinct(Living)
  BY <1>1, <1>2, <1>4, <1>5, <1>6
<1> QED BY <1>7 DEF Elements, Lives

LEMMA PutAtIs ==
  ASSUME thread \in States, NEW t \in Thread, NEW place \in Place
  PROVE  /\ PutAt(t, place) \in States
         /\ \A u \in Thread : u # t => PutAt(t, place)[u] = thread[u]
         /\ PutAt(t, place)[t] = [thread[t] EXCEPT !.pc = place.pc, !.past = place.past, !.inside = place.inside]
<1> DEFINE r == [thread[t] EXCEPT !.pc = place.pc, !.past = place.past, !.inside = place.inside]
<1>1. r \in ThreadState
  BY DEF States, ThreadState, Place
<1>2. PutAt(t, place) = [thread EXCEPT ![t] = r]
  <2> SUFFICES ASSUME NEW u \in Thread PROVE PutAt(t, place)[u] = [thread EXCEPT ![t] = r][u]
    BY DEF PutAt, States
  <2> QED BY DEF PutAt, States
<1> HIDE DEF r
<1>3. /\ [thread EXCEPT ![t] = r] \in States
      /\ \A u \in Thread : u # t => [thread EXCEPT ![t] = r][u] = thread[u]
      /\ [thread EXCEPT ![t] = r][t] = r
  BY <1>1 DEF States
<1> QED BY <1>2, <1>3 DEF r

LEMMA ResumeIs ==
  ASSUME NEW th \in States, NEW mode \in [Thread -> {"held", "runs", "steps"}], Resume(th, mode)
  PROVE  /\ thread' \in States
         /\ \A t \in Thread :
              /\ thread'[t].stop = "none" /\ thread'[t].hit = th[t].hit /\ thread'[t].steps = th[t].steps
              /\ thread'[t].pc = th[t].pc /\ thread'[t].past = th[t].past /\ thread'[t].inside = th[t].inside
              /\ thread'[t].mode = IF Unreported # {} /\ "overtaking" \notin happens THEN "held" ELSE mode[t]
<1> DEFINE held == Unreported # {} /\ "overtaking" \notin happens
<1>1. thread' = [t \in Thread |-> [th[t] EXCEPT !.stop = "none", !.mode = IF held THEN "held" ELSE mode[t]]]
  BY DEF Resume
<1> HIDE DEF held
<1>2. ASSUME NEW t \in Thread
      PROVE  /\ thread'[t] \in ThreadState
             /\ thread'[t].stop = "none" /\ thread'[t].hit = th[t].hit /\ thread'[t].steps = th[t].steps
             /\ thread'[t].pc = th[t].pc /\ thread'[t].past = th[t].past /\ thread'[t].inside = th[t].inside
             /\ thread'[t].mode = IF held THEN "held" ELSE mode[t]
  <2>1. thread'[t] = [th[t] EXCEPT !.stop = "none", !.mode = IF held THEN "held" ELSE mode[t]]
    BY <1>1
  <2>2. th[t] \in ThreadState /\ mode[t] \in {"held", "runs", "steps"}
    BY DEF States
  <2> QED BY <2>1, <2>2 DEF ThreadState, Reason
<1>3. thread' \in States
  BY <1>1, <1>2 DEF States
<1> QED BY <1>2, <1>3 DEF held

LEMMA PacketsAre ==
  /\ \A r \in Reason : Stopped(r) \in Packet
  /\ Output \in Packet /\ ExitPacket \in Packet /\ Threads \in Packet
  /\ \A p \in Packet : p.reason \in Reason
  /\ \A p \in Packet : p.type = "stop" <=> p = Stopped(p.reason)
  /\ \A p \in Packet : p.type = "exit" <=> p = ExitPacket
<1>1. /\ \A r \in Reason : Stopped(r) \in Packet
      /\ Output \in Packet /\ ExitPacket \in Packet /\ Threads \in Packet
  BY DEF Packet
<1>2. ASSUME NEW p \in Packet
      PROVE  /\ p.reason \in Reason
             /\ p.type = "stop" <=> p = Stopped(p.reason)
             /\ p.type = "exit" <=> p = ExitPacket
  <2>1. CASE \E r \in Reason : p = Stopped(r)
    BY <2>1 DEF Stopped, ExitPacket
  <2>2. CASE p \in {Output, ExitPacket, Threads}
    <3>1. Stopped(p.reason).type = "stop"
      BY DEF Stopped
    <3>2. ExitPacket.type = "exit" /\ Output.type = "output" /\ Threads.type = "threads"
      BY DEF ExitPacket, Output, Threads
    <3>3. p.reason = "none"
      BY <2>2 DEF ExitPacket, Output, Threads
    <3> QED BY <2>2, <3>1, <3>2, <3>3 DEF Reason
  <2> QED BY <2>1, <2>2 DEF Packet
<1> QED BY <1>1, <1>2

\* What the server and the process do to a thread.
LEMMA HaltIs ==
  ASSUME NEW r \in ThreadState, NEW why \in Reason
  PROVE  Halt(r, why) = [r EXCEPT !.mode = "held", !.hit = why] /\ Halt(r, why) \in ThreadState
BY DEF Halt, ThreadState

LEMMA ServerKeepsTypes ==
  ASSUME ServerTypeOK, ServerNext, happens' = happens
  PROVE  ServerTypeOK'
<1> USE DEF ServerTypeOK
<1>1. ASSUME NEW t \in Thread, HitTrap(t) PROVE ServerTypeOK'
  <2>1. /\ thread' = [thread EXCEPT ![t] = [Halt(thread[t], "trap") EXCEPT !.past = TRUE]]
        /\ UNCHANGED <<text, running, due, channel>>
    BY <1>1 DEF HitTrap
  <2>2. Halt(thread[t], "trap") \in ThreadState
    BY HaltIs DEF Reason
  <2>3. [Halt(thread[t], "trap") EXCEPT !.past = TRUE] \in ThreadState
    BY <2>2 DEF ThreadState
  <2> QED BY <2>1, <2>3
<1>2. ASSUME NEW t \in Thread, Execute(t) PROVE ServerTypeOK'
  <2>1. UNCHANGED <<text, running, due, channel>>
    BY <1>2 DEF Execute
  <2>2. PICK a \in Following(thread[t].pc) :
          LET r == [thread[t] EXCEPT !.pc = a]
              n == IF r.steps = 2 THEN 2 ELSE r.steps + 1
          IN  thread' = [thread EXCEPT ![t] =
                           IF r.mode = "steps" THEN [Halt(r, "trap") EXCEPT !.steps = n] ELSE r]
    BY <1>2 DEF Execute
  <2>3. a \in Addr \cup {Helper, HelperEnd}
    BY DebugserverAssumption DEF Following, ThreadState
  <2> DEFINE r == [thread[t] EXCEPT !.pc = a]
             n == IF r.steps = 2 THEN 2 ELSE r.steps + 1
  <2>4. r \in ThreadState /\ n \in 0..2
    BY <2>3 DEF ThreadState
  <2>5. thread' = [thread EXCEPT ![t] = IF r.mode = "steps" THEN [Halt(r, "trap") EXCEPT !.steps = n] ELSE r]
    BY <2>2
  <2> HIDE DEF r, n
  <2>6. [Halt(r, "trap") EXCEPT !.steps = n] \in ThreadState
    BY <2>4, HaltIs DEF ThreadState, Reason
  <2> QED BY <2>1, <2>4, <2>5, <2>6
<1>3. ASSUME NEW t \in Thread, Interfere(t) PROVE ServerTypeOK'
  <2>1. PICK why \in {"signal", "bad access"} : thread' = [thread EXCEPT ![t] = Halt(thread[t], why)]
    BY <1>3 DEF Interfere
  <2>2. Halt(thread[t], why) \in ThreadState
    BY HaltIs DEF Reason
  <2> QED BY <1>3, <2>1, <2>2 DEF Interfere
<1>4. CASE Stop
  <2>1. PICK R \in SUBSET Unreported : \E h \in R :
          /\ thread' = [t \in Thread |->
               IF t \in R THEN [thread[t] EXCEPT !.mode = "held", !.stop = thread[t].hit, !.hit = "none"]
                          ELSE [thread[t] EXCEPT !.mode = "held"]]
          /\ due' \in {<<Stopped(thread[h].hit)>>, <<>>}
    BY <1>4 DEF Stop
  <2>2. PICK h \in R :
          /\ thread' = [t \in Thread |->
               IF t \in R THEN [thread[t] EXCEPT !.mode = "held", !.stop = thread[t].hit, !.hit = "none"]
                          ELSE [thread[t] EXCEPT !.mode = "held"]]
          /\ due' \in {<<Stopped(thread[h].hit)>>, <<>>}
    BY <2>1
  <2>3. \A t \in Thread :
          /\ [thread[t] EXCEPT !.mode = "held", !.stop = thread[t].hit, !.hit = "none"] \in ThreadState
          /\ [thread[t] EXCEPT !.mode = "held"] \in ThreadState
    BY DEF ThreadState, Reason
  <2>4. thread' \in [Thread -> ThreadState]
    BY <2>2, <2>3
  <2>5. Stopped(thread[h].hit) \in Packet
    BY PacketsAre DEF Unreported, ThreadState
  <2> DEFINE p == Stopped(thread[h].hit)
  <2>7. due' \in {<<p>>, <<>>}
    BY <2>2
  <2> HIDE DEF p
  <2>8. <<p>> \in Seq(Packet) /\ <<>> \in Seq(Packet)
    BY <2>5 DEF p
  <2>6. due' \in Seq(Packet)
    BY <2>7, <2>8
  <2> QED BY <1>4, <2>4, <2>6 DEF Stop
<1>5. CASE Exits
  <2>1. \A t \in Thread : [thread[t] EXCEPT !.mode = "held", !.hit = "none"] \in ThreadState
    BY DEF ThreadState, Reason
  <2>2. <<ExitPacket>> \in Seq(Packet)
    BY PacketsAre
  <2> QED BY <1>5, <2>1, <2>2 DEF Exits
<1>6. CASE Writes
  <2>1. Append(channel, Output) \in Seq(Packet)
    BY PacketsAre, AppendProperties
  <2> QED BY <1>6, <2>1 DEF Writes
<1>7. CASE SendReply
  <2>1. channel \o due \in Seq(Packet) /\ <<>> \in Seq(Packet)
    BY ConcatProperties, EmptySeq
  <2> QED BY <1>7, <2>1 DEF SendReply
<1> QED BY <1>1, <1>2, <1>3, <1>4, <1>5, <1>6, <1>7 DEF ServerNext

-----------------------------------------------------------------------------
(* Reading replies.                                                        *)

LEMMA ReadIs ==
  ASSUME ServerTypeOK, NEW packets \in Packets, Read(packets)
  PROVE  /\ packets \in Seq(Packet) /\ Len(packets) \in 1..Len(channel)
         /\ \A i \in 1..Len(packets) : packets[i] = channel[i]
         /\ packets # <<>> /\ Head(packets) = channel[1] /\ channel # <<>>
         /\ channel' \in Seq(Packet) /\ Len(channel') = Len(channel) - Len(packets)
         /\ \A i \in 1..Len(channel') : channel'[i] = channel[Len(packets) + i]
         /\ UNCHANGED <<thread, text, running, due>>
<1>1. channel \in Seq(Packet) /\ Len(channel) \in Nat /\ \A i \in 1..Len(channel) : channel[i] \in Packet
  BY ElementsOf DEF ServerTypeOK
<1>2. PICK n \in 1..Len(channel) : packets = SubSeq(channel, 1, n)
  BY DEF Packets
<1>3. packets \in Seq(Packet) /\ Len(packets) = n /\ \A i \in 1..n : packets[i] = channel[i]
  BY <1>1, <1>2, SubSeqProperties
<1>4. channel' = SubSeq(channel, n + 1, Len(channel)) /\ UNCHANGED <<thread, text, running, due>>
  BY <1>3 DEF Read
<1>5. /\ channel' \in Seq(Packet) /\ Len(channel') = Len(channel) - n
      /\ \A i \in 1..(Len(channel) - n) : channel'[i] = channel[n + i]
  <2>1. \A i \in (n + 1)..Len(channel) : channel[i] \in Packet
    BY <1>1
  <2> QED BY <1>1, <1>4, <2>1, SubSeqProperties
<1>6. packets # <<>> /\ Head(packets) = packets[1] /\ channel # <<>>
  BY <1>1, <1>3, EmptySeq, FirstOf
<1> QED BY <1>1, <1>3, <1>4, <1>5, <1>6

First(packets, k) ==
  /\ k \in DOMAIN packets /\ packets[k] # Output
  /\ \A j \in DOMAIN packets : j < k => packets[j] = Output

LEMMA FirstReplyIs ==
  ASSUME NEW packets \in Seq(Packet), Replies(packets) # {}
  PROVE  \E k \in DOMAIN packets : First(packets, k) /\ FirstReply(packets) = packets[k]
<1>1. Replies(packets) \in SUBSET Nat /\ DOMAIN packets \in SUBSET Nat
  BY ElementsOf DEF Replies
<1>2. \E m \in Replies(packets) : \A j \in Replies(packets) : m <= j
  BY <1>1, LeastOf
<1> DEFINE k == CHOOSE i \in Replies(packets) : \A j \in Replies(packets) : i <= j
<1>3. k \in Replies(packets) /\ \A j \in Replies(packets) : k <= j
  BY <1>2
<1>4. FirstReply(packets) = packets[k]
  BY DEF FirstReply
<1> HIDE DEF k
<1>5. k \in DOMAIN packets /\ packets[k] # Output
  BY <1>3 DEF Replies
<1>6. ASSUME NEW j \in DOMAIN packets, j < k PROVE packets[j] = Output
  <2>1. j \in Nat /\ k \in Nat
    BY <1>1, <1>5
  <2>2. j \notin Replies(packets)
    BY <1>3, <1>6, <2>1
  <2> QED BY <2>2 DEF Replies
<1> QED BY <1>4, <1>5, <1>6 DEF First

WaitsStill(packets) ==
  /\ \A i \in DOMAIN packets : packets[i] = Output
  /\ call' = [Idle EXCEPT !.at = "waiting", !.step = call.step]
  /\ UNCHANGED <<link, event, owed>>
HasExited(packets) ==
  /\ \E k \in DOMAIN packets : First(packets, k) /\ packets[k] = ExitPacket
  /\ call' = Idle /\ event' = Exited /\ link' = [link EXCEPT !.at = "closed"]
  /\ UNCHANGED owed
Selects(packets, r) ==
  /\ \E k \in DOMAIN packets : First(packets, k) /\ packets[k] = Stopped(r)
  /\ call' = [Idle EXCEPT !.at = "selecting", !.step = call.step, !.header = r, !.todo = Living]
  /\ owed' = (r = "signal")
  /\ UNCHANGED <<link, event>>
HasFailed(packets) ==
  /\ \E k \in DOMAIN packets : First(packets, k) /\ packets[k] \in {Stopped("bad access"), Threads}
  /\ call' = Idle /\ event' = Failed
  /\ UNCHANGED <<link, owed>>

\* processOutputPacket and handleStopReply.
LEMMA HandleRepliesIs ==
  ASSUME NEW packets \in Seq(Packet), HandleReplies(packets)
  PROVE  \/ WaitsStill(packets) \/ HasExited(packets) \/ HasFailed(packets)
         \/ \E r \in Reason \ {"bad access"} : Selects(packets, r)
<1>1. CASE Replies(packets) = {}
  BY <1>1 DEF HandleReplies, WaitsStill, Replies
<1>2. CASE Replies(packets) # {}
  <2>1. PICK k \in DOMAIN packets : First(packets, k) /\ FirstReply(packets) = packets[k]
    BY <1>2, FirstReplyIs
  <2> DEFINE p == packets[k]
  <2>2. p \in Packet /\ p # Output
    BY <2>1, ElementsOf DEF First
  <2>3. CASE p.type = "exit"
    <3>1. p = ExitPacket
      BY <2>2, <2>3, PacketsAre
    <3> QED BY <1>2, <2>1, <2>3, <3>1 DEF HandleReplies, Return, HasExited
  <2>4. CASE p.type = "stop" /\ p.reason # "bad access"
    <3>1. p = Stopped(p.reason) /\ p.reason \in Reason \ {"bad access"}
      BY <2>2, <2>4, PacketsAre
    <3>2. Selects(packets, p.reason)
      BY <1>2, <2>1, <2>4, <3>1 DEF HandleReplies, Selects
    <3> QED BY <3>1, <3>2
  <2>5. CASE p.type # "exit" /\ ~(p.type = "stop" /\ p.reason # "bad access")
    <3>1. p \in {Stopped("bad access"), Threads}
      <4>1. CASE p.type = "stop"
        BY <2>2, <2>5, <4>1, PacketsAre
      <4>2. CASE p.type # "stop"
        <5>1. \A r : Stopped(r).type = "stop"
          BY DEF Stopped
        <5>2. p \in {Output, ExitPacket, Threads}
          BY <2>2, <4>2, <5>1 DEF Packet
        <5>3. ExitPacket.type = "exit"
          BY DEF ExitPacket
        <5> QED BY <2>2, <2>5, <5>2, <5>3
      <4> QED BY <4>1, <4>2
    <3> QED BY <1>2, <2>1, <2>5, <3>1 DEF HandleReplies, Return, HasFailed
  <2> QED BY <2>3, <2>4, <2>5
<1> QED BY <1>1, <1>2

-----------------------------------------------------------------------------
(* What a waiting call comes to.                                           *)

GoesOn ==
  /\ call'.at # "idle" /\ call'.step = call.step
  /\ call'.at \in {"waiting", "listing"} => ~call'.asked
  /\ call'.asked => call'.todo # <<>>
  /\ UNCHANGED <<link, event>>
Exiting == call' = Idle /\ event' = Exited /\ link' = [link EXCEPT !.at = "closed"]
Failing == call' = Idle /\ event' = Failed /\ UNCHANGED link
Finding ==
  /\ call.found # <<>> /\ call' = Idle
  /\ event' = IF call.step = NoThread \/ call.found = <<call.step>>
                THEN Trapped(call.found) ELSE Unspecified(call.found)
  /\ UNCHANGED link
Outcome == GoesOn \/ Exiting \/ Failing \/ Finding

Asks ==
  /\ call.at \in {"waiting", "listing"} => ~call.asked
  /\ call.asked => call.todo # <<>>

LEMMA EventsAre ==
  /\ NoEvent \in Event /\ Exited \in Event /\ Failed \in Event
  /\ \A T \in Seq(Thread) : Trapped(T) \in Event /\ Unspecified(T) \in Event
  /\ Idle \in Call
BY DEF NoEvent, Exited, Failed, Trapped, Unspecified, Event, Idle, Call, Reason

LEMMA RepliesOutcome ==
  ASSUME ClientTypeOK, NEW packets \in Seq(Packet), HandleReplies(packets)
  PROVE  /\ GoesOn \/ Exiting \/ Failing
         /\ call' \in Call /\ event' \in Event /\ owed' \in BOOLEAN
         /\ link' \in [at : {"connecting", "asking", "up", "closed"}, request : 0..5, kill : BOOLEAN]
<1> USE DEF ClientTypeOK
<1>1. CASE WaitsStill(packets)
  <2>1. call' = [Idle EXCEPT !.at = "waiting", !.step = call.step] /\ UNCHANGED <<link, event, owed>>
    BY <1>1 DEF WaitsStill
  <2> QED BY <2>1, EventsAre DEF GoesOn, Call, Idle
<1>2. CASE HasExited(packets)
  BY <1>2, EventsAre DEF HasExited, Exiting
<1>3. CASE HasFailed(packets)
  BY <1>3, EventsAre DEF HasFailed, Failing
<1>4. ASSUME NEW r \in Reason \ {"bad access"}, Selects(packets, r)
      PROVE  GoesOn /\ call' \in Call /\ UNCHANGED <<link, event>> /\ owed' \in BOOLEAN
  <2>1. /\ call' = [Idle EXCEPT !.at = "selecting", !.step = call.step, !.header = r, !.todo = Living]
        /\ UNCHANGED <<link, event>> /\ owed' = (r = "signal")
    BY <1>4 DEF Selects
  <2> QED BY <2>1, EventsAre, LivingIs DEF GoesOn, Call, Idle
<1> QED BY <1>1, <1>2, <1>3, <1>4, HandleRepliesIs

LEMMA WaitsOutcome ==
  ASSUME ServerTypeOK, ClientTypeOK, Asks, Waits, happens' = happens
  PROVE  call.at # "idle" /\ Outcome /\ ServerTypeOK' /\ ClientTypeOK'
<1> USE DEF Outcome
<1> DEFINE Links == [at : {"connecting", "asking", "up", "closed"}, request : 0..5, kill : BOOLEAN]
<1>0. /\ call \in Call /\ event \in Event /\ owed \in BOOLEAN /\ pendingSignal \in BOOLEAN
      /\ link \in Links
      /\ call.found \in Seq(Thread) /\ call.todo \in Seq(Thread) /\ call.header \in Reason
  BY DEF ClientTypeOK, Call
<1>1. ASSUME UNCHANGED <<thread, text, running, due>>, channel' \in Seq(Packet)
      PROVE  ServerTypeOK'
  BY <1>1 DEF ServerTypeOK
<1>2. ASSUME call' \in Call, event' \in Event, link' \in Links, pendingSignal' \in BOOLEAN, owed' \in BOOLEAN
      PROVE  ClientTypeOK'
  BY <1>2 DEF ClientTypeOK
<1>3. ASSUME NEW p \in Packet PROVE Append(channel, p) \in Seq(Packet)
  BY AppendProperties DEF ServerTypeOK
<1> HIDE DEF Links
<1>4. CASE Receive
  <2>1. PICK packets \in Packets : Read(packets) /\ HandleReplies(packets)
    BY <1>4 DEF Receive
  <2>2. call.at = "waiting" /\ pendingSignal' = pendingSignal
    BY <1>4 DEF Receive
  <2>3. ServerTypeOK' /\ packets \in Seq(Packet)
    BY <1>1, <2>1, ReadIs
  <2> QED BY <1>0, <1>2, <2>1, <2>2, <2>3, RepliesOutcome DEF Links
<1>5. CASE Timeout
  <2>1. /\ call.at = "waiting" /\ call' = [call EXCEPT !.at = "listing"]
        /\ UNCHANGED <<link, event, pendingSignal, owed>>
        /\ channel' = Append(channel, Threads) /\ UNCHANGED <<thread, text, running, due>>
    BY <1>5 DEF Timeout, Answer
  <2>2. call' \in Call /\ GoesOn
    BY <1>0, <2>1 DEF Call, GoesOn, Asks
  <2> QED BY <1>0, <1>1, <1>2, <1>3, <2>1, <2>2, PacketsAre
<1>6. CASE ReceiveThreads
  <2>1. PICK packets \in Packets :
          /\ Read(packets)
          /\ IF packets = <<Threads>>
               THEN call' = [call EXCEPT !.at = "checking", !.todo = Living] /\ UNCHANGED event
               ELSE Return(Failed)
    BY <1>6 DEF ReceiveThreads
  <2>2. call.at = "listing" /\ UNCHANGED <<link, pendingSignal, owed>>
    BY <1>6 DEF ReceiveThreads
  <2>3. ServerTypeOK'
    BY <1>1, <2>1, ReadIs
  <2>4. CASE packets = <<Threads>>
    <3>1. call' \in Call /\ GoesOn
      BY <1>0, <2>1, <2>2, <2>4, LivingIs DEF Call, GoesOn, Asks
    <3> QED BY <1>0, <1>2, <2>1, <2>2, <2>3, <2>4, <3>1
  <2>5. CASE packets # <<Threads>>
    BY <1>0, <1>2, <2>1, <2>2, <2>3, <2>5, EventsAre DEF Return, Failing
  <2> QED BY <2>4, <2>5
<1>7. CASE Ask
  <2>1. /\ call.at \in {"checking", "selecting"} /\ call.todo # <<>>
        /\ call' = [call EXCEPT !.asked = TRUE]
        /\ UNCHANGED <<link, event, pendingSignal, owed>>
        /\ channel' = Append(channel, Stopped(thread[Head(call.todo)].stop))
        /\ UNCHANGED <<thread, text, running, due>>
    BY <1>7 DEF Ask, Answer
  <2>2. call' \in Call /\ GoesOn
    BY <1>0, <2>1 DEF Call, GoesOn
  <2>3. Head(call.todo) \in Thread
    BY <1>0, <2>1, FirstOf
  <2>4. thread[Head(call.todo)].stop \in Reason
    BY <2>3 DEF ServerTypeOK, ThreadState
  <2> QED BY <1>0, <1>1, <1>2, <1>3, <2>1, <2>2, <2>4, PacketsAre
<1>8. ASSUME call.at \in {"checking", "selecting"}, call.asked
      PROVE  /\ Answered \in Call /\ Answered.found = call.found /\ Answered.header = call.header
             /\ Answered.at = call.at /\ Answered.step = call.step /\ ~Answered.asked
  <2>1. call.todo # <<>>
    BY <1>8 DEF Asks
  <2>2. Tail(call.todo) \in Seq(Thread)
    BY <1>0, <2>1, FirstOf
  <2> QED BY <1>0, <2>2 DEF Answered, Call
<1>9. CASE CheckStopReply
  <2>1. PICK packets \in Packets :
          /\ Read(packets)
          /\ IF Head(packets) = Stopped("none")
               THEN call' = Answered /\ UNCHANGED <<link, event, owed>>
               ELSE HandleReplies(packets)
    BY <1>9 DEF CheckStopReply
  <2>2. call.at = "checking" /\ call.asked /\ pendingSignal' = pendingSignal
    BY <1>9 DEF CheckStopReply
  <2>3. ServerTypeOK' /\ packets \in Seq(Packet)
    BY <1>1, <2>1, ReadIs
  <2>4. CASE Head(packets) = Stopped("none")
    <3>1. call' \in Call /\ GoesOn
      BY <1>8, <2>1, <2>2, <2>4 DEF GoesOn
    <3> QED BY <1>0, <1>2, <2>1, <2>2, <2>3, <2>4, <3>1
  <2>5. CASE Head(packets) # Stopped("none")
    BY <1>0, <1>2, <2>1, <2>2, <2>3, <2>5, RepliesOutcome DEF Links
  <2> QED BY <2>4, <2>5
<1>10. CASE NoneStopped
  <2>1. /\ call.at = "checking" /\ call.todo = <<>> /\ call' = [call EXCEPT !.at = "waiting"]
        /\ UNCHANGED <<thread, text, running, due, channel, link, event, pendingSignal, owed>>
    BY <1>10 DEF NoneStopped, server
  <2>2. call' \in Call /\ GoesOn
    BY <1>0, <2>1 DEF Call, GoesOn, Asks
  <2>3. ServerTypeOK'
    BY <2>1 DEF ServerTypeOK
  <2> QED BY <1>0, <1>2, <2>1, <2>2, <2>3
<1>11. CASE SelectTrappedThread
  <2>1. PICK packets \in Packets :
          /\ Read(packets)
          /\ call' = IF Head(packets) = Stopped("trap")
                       THEN [Answered EXCEPT !.found = Append(call.found, Head(call.todo))] ELSE Answered
    BY <1>8, <1>11 DEF SelectTrappedThread
  <2>2. call.at = "selecting" /\ call.asked /\ UNCHANGED <<link, event, pendingSignal, owed>>
    BY <1>11 DEF SelectTrappedThread
  <2>3. ServerTypeOK'
    BY <1>1, <2>1, ReadIs
  <2>4. Head(call.todo) \in Thread
    BY <1>0, <2>2, FirstOf DEF Asks
  <2>5. Append(call.found, Head(call.todo)) \in Seq(Thread)
    BY <1>0, <2>4, AppendProperties
  <2>6. call' \in Call /\ GoesOn
    BY <1>8, <2>1, <2>2, <2>5 DEF Call, GoesOn
  <2> QED BY <1>0, <1>2, <2>2, <2>3, <2>6
<1>12. CASE NoneTrapped
  <2>1. /\ call.at = "selecting" /\ Continue(thread, call.header = "signal")
        /\ call' = [Idle EXCEPT !.at = "waiting", !.step = call.step]
        /\ UNCHANGED <<text, link, event, pendingSignal>>
    BY <1>12 DEF NoneTrapped, Selected
  <2>2. Resume(thread, [t \in Thread |-> "runs"]) /\ owed' = (owed /\ ~(call.header = "signal"))
    BY <2>1 DEF Continue
  <2>3. call' \in Call /\ GoesOn
    <3>1. call' = [Idle EXCEPT !.at = "waiting", !.step = call.step] /\ UNCHANGED <<link, event>>
      BY <2>1
    <3> QED BY <1>0, <3>1, EventsAre DEF Call, GoesOn, Idle
  <2>4. thread' \in States
    BY <2>2, ResumeIs DEF ServerTypeOK, States
  <2>5. ServerTypeOK'
    BY <2>1, <2>2, <2>4 DEF ServerTypeOK, Resume, States
  <2> QED BY <1>0, <1>2, <2>1, <2>2, <2>3, <2>5
<1>13. CASE SomeTrapped
  <2>1. /\ call.at = "selecting" /\ call.found # <<>> /\ pendingSignal' = (call.header = "signal")
        /\ call' = Idle
        /\ event' = IF call.step = NoThread \/ call.found = <<call.step>>
                      THEN Trapped(call.found) ELSE Unspecified(call.found)
        /\ UNCHANGED <<thread, text, running, due, channel, link, owed>>
    BY <1>13 DEF SomeTrapped, Selected, Return, server
  <2>2. event' \in Event
    BY <1>0, <2>1, EventsAre
  <2>3. ServerTypeOK'
    BY <2>1 DEF ServerTypeOK
  <2> QED BY <1>0, <1>2, <2>1, <2>2, <2>3, EventsAre DEF Finding
<1> QED BY <1>4, <1>5, <1>6, <1>7, <1>9, <1>10, <1>11, <1>12, <1>13 DEF Waits

-----------------------------------------------------------------------------
(* Handlers, frames and calls: who waits for what.                         *)

HandlerAt == {"info", "handler", "system", "stepped"}
InHandler == handling.at \in HandlerAt
Stepping == frames # <<>> /\ Frm.at = "stepping"
Open == link.at # "closed"

\* singleStepUnspecifiedThreads has called the frames inside.
FramesNest ==
  /\ \A i \in DOMAIN frames : frames[i].op = "tls" => i = Len(frames)
  /\ \A i \in DOMAIN frames : i > 1 => frames[i].at = "others" /\ frames[i].others # <<>>

\* SingleStep and CurrentGoRoutineInfo run inside a handler, one inside another.
HandlersCall ==
  /\ frames # <<>> => InHandler
  /\ InHandler => handling.todo # <<>>
  /\ link.at \in {"connecting", "asking"} => handling.at \in {"attaching", "failed"}
  /\ handling.at \in {"attaching", "failed", "resuming", "ending", "detached"} => call.at = "idle"
  /\ handling.at = "attaching" /\ link.at = "up" => event # Failed
  /\ FramesNest

\* A call of the client is the main loop's, or that of the innermost frame.
CallsStep ==
  /\ call.at = "idle" => call = Idle
  /\ call.at # "idle" => link.at = "up" /\ event = NoEvent
  /\ call.at # "idle" => \/ handling.at = "waiting" /\ frames = <<>> /\ call.step = NoThread
                         \/ Stepping /\ call.step = Frm.thread
  /\ Asks
  /\ call.at = "idle" /\ (Stepping \/ handling.at = "waiting") => event.type # "none"
  /\ Open => event.type # "exited"
  /\ event.type = "error" => event = Failed
  /\ event.type = "exited" => event = Exited
  /\ link.at = "closed" /\ Stepping => event = Exited
  /\ event.type \in {"trapped", "unspecified"} => event.threads # <<>>
  /\ call.at = "idle" /\ Stepping /\ event.type = "trapped" => event.threads = <<Frm.thread>>

ControlInv == TypeOK /\ HandlersCall /\ CallsStep

FramesOK == frames \in Seq(Frame) /\ FramesNest

Drops ==
  /\ Len(frames) > 1 /\ Len(frames') = Len(frames) - 1
  /\ frames'[1].others = Tail(frames[2].others)
  /\ frames'[1] = [frames[2] EXCEPT !.others = Tail(frames[2].others)]
  /\ \A i \in 2..Len(frames') : frames'[i] = frames[i + 1]
  /\ UNCHANGED handling

Ends(ok) ==
  /\ frames' = <<>>
  /\ GoTo(IF frames[Len(frames)].op = "tls" THEN (IF ok THEN "handler" ELSE "system")
                                          ELSE (IF ok THEN "stepped" ELSE "ending"))

LEMMA FrameFields ==
  ASSUME NEW f \in Frame
  PROVE  /\ f.op \in {"tls", "step"} /\ f.at \in {"begin", "stepping", "others"} /\ f.thread \in Thread
         /\ f.place \in Place /\ f.others \in Seq(Thread)
         /\ \A s \in Seq(Thread) : [f EXCEPT !.others = s] \in Frame
BY DEF Frame

LEMMA ReturnFromIs ==
  ASSUME FramesOK, frames # <<>>, NEW ok \in BOOLEAN, ReturnFrom(ok)
  PROVE  /\ FramesOK'
         /\ \/ ok /\ Drops
            \/ Ends(ok) /\ (ok => Len(frames) = 1)
<1>1. /\ frames \in Seq(Frame) /\ Len(frames) \in Nat /\ Len(frames) >= 1
      /\ DOMAIN frames = 1..Len(frames) /\ \A i \in 1..Len(frames) : frames[i] \in Frame
  BY ElementsOf, FirstOf DEF FramesOK
<1> DEFINE outer == Tail(frames)
<1>2. /\ outer \in Seq(Frame) /\ Len(outer) = Len(frames) - 1
      /\ \A i \in 1..(Len(frames) - 1) : outer[i] = frames[i + 1]
  BY FirstOf DEF FramesOK
<1>3. outer # <<>> <=> Len(frames) > 1
  <2> HIDE DEF outer
  <2>1. outer = <<>> <=> Len(outer) = 0
    BY <1>2, ElementsOf
  <2> QED BY <1>1, <1>2, <2>1
<1>4. CASE ok /\ outer # <<>>
  <2> DEFINE f == [frames[2] EXCEPT !.others = Tail(frames[2].others)]
  <2>1. frames[2] \in Frame /\ frames[2].others # <<>>
    BY <1>1, <1>3, <1>4 DEF FramesOK, FramesNest
  <2>2. Tail(frames[2].others) \in Seq(Thread)
    BY <2>1, FrameFields, FirstOf
  <2>3. f \in Frame /\ f.op = frames[2].op /\ f.others = Tail(frames[2].others)
    BY <2>1, <2>2, FrameFields DEF Frame
  <2>9. outer[1] = frames[2]
    BY <1>1, <1>2, <1>3, <1>4
  <2>4. frames' = <<f>> \o Tail(outer) /\ UNCHANGED handling
    <3>1. /\ frames' = <<[outer[1] EXCEPT !.others = Tail(outer[1].others)]>> \o Tail(outer)
          /\ UNCHANGED handling
      BY <1>4 DEF ReturnFrom
    <3> QED BY <2>9, <3>1
  <2> HIDE DEF f, outer
  <2>5. /\ <<f>> \o Tail(outer) \in Seq(Frame) /\ Len(<<f>> \o Tail(outer)) = Len(outer)
        /\ (<<f>> \o Tail(outer))[1] = f
        /\ \A i \in 2..Len(outer) : (<<f>> \o Tail(outer))[i] = outer[i]
    BY <1>2, <1>4, <2>3, ReplaceFirst
  <2>6. /\ frames' \in Seq(Frame) /\ Len(frames') = Len(frames) - 1 /\ frames'[1] = f
        /\ \A i \in 2..(Len(frames) - 1) : frames'[i] = frames[i + 1]
    <3>1. frames' = <<f>> \o Tail(outer)
      BY <2>4
    <3>2. Len(outer) = Len(frames) - 1 /\ Len(frames) > 1
      BY <1>2, <1>3, <1>4
    <3>3. frames' \in Seq(Frame) /\ Len(frames') = Len(outer) /\ frames'[1] = f
      BY <2>5, <3>1
    <3>4. \A i \in 2..Len(outer) : frames'[i] = outer[i]
      BY <2>5, <3>1
    <3>5. \A i \in 2..(Len(frames) - 1) : outer[i] = frames[i + 1]
      BY <1>2
    <3> QED BY <3>2, <3>3, <3>4, <3>5
  <2>7. FramesNest'
    <3>1. DOMAIN frames' = 1..(Len(frames) - 1)
      BY <2>6, ElementsOf
    <3>2. \A i \in 1..(Len(frames) - 1) : frames'[i].op = frames[i + 1].op
      BY <2>3, <2>6
    <3>3. ASSUME NEW i \in 1..(Len(frames) - 1)
          PROVE  /\ frames'[i].op = "tls" => i = Len(frames) - 1
                 /\ i > 1 => frames'[i].at = "others" /\ frames'[i].others # <<>>
      <4> DEFINE j == i + 1
      <4>1. j \in DOMAIN frames /\ j > 1 /\ frames'[i].op = frames[j].op
        BY <1>1, <3>2
      <4>2. i > 1 => frames'[i] = frames[j]
        BY <1>1, <2>6
      <4>3. i = j - 1
        BY <1>1
      <4> HIDE DEF j
      <4> QED BY <4>1, <4>2, <4>3 DEF FramesOK, FramesNest
    <3> QED BY <2>6, <3>1, <3>3 DEF FramesNest
  <2>8. Drops
    BY <1>3, <1>4, <2>3, <2>4, <2>6 DEF Drops, f
  <2> QED BY <1>4, <2>6, <2>7, <2>8 DEF FramesOK
<1>5. CASE ~(ok /\ outer # <<>>)
  <2>1. Ends(ok)
    BY <1>5 DEF ReturnFrom, Ends
  <2>2. FramesOK'
    BY <2>1, EmptySeq DEF Ends, FramesOK, FramesNest
  <2> QED BY <1>1, <1>3, <1>5, <2>1, <2>2
<1> QED BY <1>4, <1>5

Replaces(f) ==
  /\ Len(frames') = Len(frames) /\ frames'[1] = f /\ frames' # <<>>
  /\ \A i \in 2..Len(frames) : frames'[i] = frames[i]

LEMMA BecomesIs ==
  ASSUME FramesOK, frames # <<>>, NEW f \in Frame, f.op = Frm.op, Becomes(f)
  PROVE  FramesOK' /\ Replaces(f) /\ Frm' = f
<1>1. /\ frames \in Seq(Frame) /\ Len(frames) \in Nat /\ Len(frames) >= 1 /\ Frm = frames[1]
      /\ DOMAIN frames = 1..Len(frames)
  BY ElementsOf, FirstOf DEF FramesOK, Frm
<1>2. /\ frames' \in Seq(Frame) /\ Len(frames') = Len(frames) /\ frames'[1] = f
      /\ \A i \in 2..Len(frames) : frames'[i] = frames[i]
  <2>1. frames' = <<f>> \o Tail(frames)
    BY DEF Becomes
  <2> QED BY <1>1, <2>1, ReplaceFirst
<1>3. frames' # <<>> /\ DOMAIN frames' = 1..Len(frames)
  BY <1>1, <1>2, ElementsOf
<1>4. \A i \in 1..Len(frames) : frames'[i].op = frames[i].op
  BY <1>1, <1>2
<1>5. FramesNest'
  BY <1>1, <1>2, <1>3, <1>4 DEF FramesNest, FramesOK
<1> QED BY <1>2, <1>3, <1>5, FirstOf DEF FramesOK, Replaces, Frm

LEMMA StartsIs ==
  ASSUME NEW f \in Frame, frames' = <<f>>
  PROVE  FramesOK' /\ Len(frames') = 1 /\ frames' # <<>> /\ Frm' = f /\ frames'[1] = f
<1>1. frames' \in Seq(Frame) /\ Len(frames') = 1 /\ frames'[1] = f /\ frames' # <<>> /\ Head(frames') = f
  BY OneElement
<1>2. DOMAIN frames' = 1..1
  BY <1>1, ElementsOf
<1> QED BY <1>1, <1>2 DEF FramesOK, FramesNest, Frm

Pushes(f) ==
  /\ Len(frames') = Len(frames) + 1 /\ frames'[1] = f /\ frames' # <<>>
  /\ \A i \in 2..Len(frames') : frames'[i] = frames[i - 1]

LEMMA PushIs ==
  ASSUME FramesOK, frames # <<>>, Frm.at = "others", Frm.others # <<>>,
         NEW f \in Frame, f.op = "step", frames' = <<f>> \o frames
  PROVE  FramesOK' /\ Pushes(f) /\ Frm' = f
<1>1. /\ frames \in Seq(Frame) /\ Len(frames) \in Nat /\ Len(frames) >= 1 /\ Frm = frames[1]
      /\ DOMAIN frames = 1..Len(frames)
  BY ElementsOf, FirstOf DEF FramesOK, Frm
<1>2. /\ frames' \in Seq(Frame) /\ Len(frames') = Len(frames) + 1 /\ frames'[1] = f
      /\ \A i \in 2..(Len(frames) + 1) : frames'[i] = frames[i - 1]
  BY <1>1, Prepend
<1>3. frames' # <<>> /\ DOMAIN frames' = 1..(Len(frames) + 1)
  BY <1>1, <1>2, ElementsOf
<1>4. FramesNest'
  <2> SUFFICES ASSUME NEW i \in 1..(Len(frames) + 1)
               PROVE  /\ frames'[i].op = "tls" => i = Len(frames) + 1
                      /\ i > 1 => frames'[i].at = "others" /\ frames'[i].others # <<>>
    BY <1>1, <1>2, <1>3 DEF FramesNest
  <2>1. CASE i = 1
    BY <1>2, <2>1
  <2>2. CASE i > 1
    <3> DEFINE j == i - 1
    <3>1. j \in DOMAIN frames /\ frames'[i] = frames[j] /\ (j = Len(frames) <=> i = Len(frames) + 1)
      BY <1>1, <1>2, <2>2
    <3> HIDE DEF j
    <3>2. j = 1 \/ j > 1
      BY <1>1, <3>1
    <3> QED BY <1>1, <3>1, <3>2 DEF FramesOK, FramesNest
  <2> QED BY <2>1, <2>2
<1> QED BY <1>2, <1>3, <1>4, FirstOf DEF FramesOK, Pushes, Frm

-----------------------------------------------------------------------------
(* The control is kept.                                                    *)

LEMMA FramesTyped ==
  TypeOK /\ HandlersCall => FramesOK
BY DEF TypeOK, HandlersCall, FramesOK

LEMMA ContinueTypes ==
  ASSUME ServerTypeOK, happens' = happens, text' = text,
         NEW signal \in BOOLEAN, owed \in BOOLEAN, Continue(thread, signal)
  PROVE  ServerTypeOK' /\ owed' \in BOOLEAN
<1>1. Resume(thread, [t \in Thread |-> "runs"]) /\ owed' = (owed /\ ~signal)
  BY DEF Continue
<1>2. thread' \in States
  BY <1>1, ResumeIs DEF ServerTypeOK, States
<1> QED BY <1>1, <1>2 DEF ServerTypeOK, Resume, States

LEMMA DetachTypes ==
  ASSUME ServerTypeOK, ClientTypeOK, happens' = happens, text' \in [Addr -> {"org", "trap"}], DetachProcess
  PROVE  ServerTypeOK' /\ ClientTypeOK' /\ link' = [link EXCEPT !.at = "closed"] /\ UNCHANGED <<call, event>>
<1>1. /\ link' = [link EXCEPT !.at = "closed"]
      /\ thread' = IF link.at # "up" \/ link.kill THEN thread
                   ELSE [t \in Thread |-> [thread[t] EXCEPT !.mode = "runs", !.hit = "none"]]
      /\ UNCHANGED <<running, due, channel, call, event, pendingSignal, owed>>
  BY DEF DetachProcess
<1>2. \A t \in Thread : [thread[t] EXCEPT !.mode = "runs", !.hit = "none"] \in ThreadState
  BY DEF ServerTypeOK, ThreadState, Reason
<1>3. thread' \in [Thread -> ThreadState]
  BY <1>1, <1>2 DEF ServerTypeOK
<1> QED BY <1>1, <1>3 DEF ServerTypeOK, ClientTypeOK

LEMMA GoToIs ==
  ASSUME TypeOK,
         NEW at \in {"failed", "resuming", "waiting", "handler", "system", "stepped", "ending", "detached"}, GoTo(at)
  PROVE  handling' \in Handling /\ handling'.at = at /\ handling'.todo = handling.todo
BY DEF GoTo, TypeOK, Handling

LEMMA MainLoopControl ==
  ASSUME ControlInv, happens' = happens,
         \/ Attach \/ AttachFails \/ NewProcess \/ NewProcessFails
         \/ Resumes \/ Interrupted \/ Returns \/ Detach
  PROVE  ControlInv'
<1> USE DEF ControlInv
<1>1. FramesOK
  BY FramesTyped
<1>2. UNCHANGED frames /\ handling.at \in {"attaching", "resuming", "waiting", "ending"}
  BY DEF Attach, AttachFails, NewProcess, NewProcessFails, Resumes, Interrupted, Returns, Detach
<1>3. frames = <<>>
  BY <1>2 DEF HandlersCall, InHandler, HandlerAt
<1>4. FramesNest' /\ frames' = <<>> /\ frames' \in Seq(Frame)
  BY <1>1, <1>2, <1>3 DEF FramesOK, FramesNest
<1>5. ~Stepping /\ ~Stepping'
  BY <1>3, <1>4 DEF Stepping
<1>6. CASE Attach
  <2>1. /\ handling.at = "attaching" /\ link.at # "up" /\ event # Failed
        /\ UNCHANGED <<thread, text, running, due, channel, call, pendingSignal, owed, breakpoints, handling>>
        /\ link.at \in {"connecting", "asking"} /\ link'.at \in {"asking", "closed", "up"}
        /\ link'.at = "up" => event' = event
        /\ event' = event \/ event' = Failed
    <3>1. CASE Connect
      BY <1>6, <3>1 DEF Attach, Connect, server, TypeOK, ClientTypeOK
    <3>2. CASE Initialize
      BY <1>6, <3>2 DEF Attach, Initialize, server, TypeOK, ClientTypeOK
    <3> QED BY <1>6, <3>1, <3>2 DEF Attach
  <2>2. link' \in [at : {"connecting", "asking", "up", "closed"}, request : 0..5, kill : BOOLEAN]
    <3>1. CASE Connect
      BY <3>1 DEF Connect, TypeOK, ClientTypeOK
    <3>2. CASE Initialize
      BY <3>2 DEF Initialize, TypeOK, ClientTypeOK
    <3> QED BY <1>6, <3>1, <3>2 DEF Attach
  <2>3. TypeOK'
    BY <1>4, <2>1, <2>2, EventsAre DEF TypeOK, ServerTypeOK, ClientTypeOK
  <2>4. call.at = "idle"
    BY <2>1 DEF HandlersCall
  <2>5. HandlersCall'
    BY <1>4, <2>1, <2>4 DEF HandlersCall, InHandler, HandlerAt
  <2>6. Failed.type = "error"
    BY DEF Failed
  <2>7. CallsStep'
    BY <1>5, <2>1, <2>4, <2>6 DEF CallsStep, Asks, Open
  <2> QED BY <2>3, <2>5, <2>7
<1>7. CASE AttachFails \/ NewProcess \/ Interrupted
  <2>1. /\ handling.at \in {"attaching", "resuming"}
        /\ UNCHANGED <<thread, text, running, due, channel, link, call, event, pendingSignal, owed, breakpoints>>
        /\ \E at \in {"failed", "resuming", "ending"} :
             /\ GoTo(at)
             /\ at \in {"resuming", "ending"} => handling.at = "resuming" \/ link.at = "up"
    BY <1>7 DEF AttachFails, NewProcess, Interrupted, server, client
  <2>2. PICK at \in {"failed", "resuming", "ending"} :
             /\ GoTo(at)
             /\ at \in {"resuming", "ending"} => handling.at = "resuming" \/ link.at = "up"
    BY <2>1
  <2>3. handling' \in Handling /\ handling'.at = at /\ handling'.todo = handling.todo
    BY <2>2, GoToIs
  <2>4. TypeOK'
    BY <1>4, <2>1, <2>3 DEF TypeOK, ServerTypeOK, ClientTypeOK
  <2>5. HandlersCall'
    BY <1>4, <2>1, <2>2, <2>3 DEF HandlersCall, InHandler, HandlerAt
  <2>6. CallsStep'
    BY <1>5, <2>1, <2>3 DEF CallsStep, HandlersCall, Asks, Open
  <2> QED BY <2>4, <2>5, <2>6
<1>8. CASE NewProcessFails \/ Detach
  <2>1. DetachProcess /\ GoTo("detached") /\ handling.at \in {"attaching", "ending"}
    BY <1>8 DEF NewProcessFails, Detach
  <2>2. text' \in [Addr -> {"org", "trap"}] /\ breakpoints' \subseteq BreakAddr
    BY <1>8 DEF NewProcessFails, Detach, TypeOK, ServerTypeOK
  <2>3. ServerTypeOK' /\ ClientTypeOK' /\ link' = [link EXCEPT !.at = "closed"] /\ UNCHANGED <<call, event>>
    BY <2>1, <2>2, DetachTypes DEF TypeOK
  <2>4. link'.at = "closed"
    BY <2>3 DEF TypeOK, ClientTypeOK
  <2>5. handling' \in Handling /\ handling'.at = "detached" /\ handling'.todo = handling.todo
    BY <2>1, GoToIs
  <2>6. call.at = "idle"
    BY <2>1 DEF HandlersCall
  <2>7. HandlersCall'
    BY <1>4, <2>3, <2>4, <2>5, <2>6 DEF HandlersCall, InHandler, HandlerAt
  <2>8. CallsStep'
    BY <1>5, <2>3, <2>4, <2>5, <2>6 DEF CallsStep, Asks, Open
  <2> QED BY <1>4, <2>2, <2>3, <2>5, <2>7, <2>8 DEF TypeOK
<1>9. CASE Resumes
  <2>1. UNCHANGED breakpoints /\ handling.at = "resuming"
    BY <1>9 DEF Resumes
  <2>2. CASE ContinueAndWait /\ GoTo("waiting")
    <3>1. /\ call = Idle /\ link.at = "up" /\ Continue(thread, pendingSignal)
          /\ call' = [Idle EXCEPT !.at = "waiting"] /\ event' = NoEvent
          /\ UNCHANGED <<text, link, pendingSignal>>
      BY <2>2 DEF ContinueAndWait
    <3>2. call' = [Idle EXCEPT !.at = "waiting"]
      BY <3>1
    <3>3. call' \in Call /\ call'.at = "waiting" /\ call'.step = NoThread /\ ~call'.asked
      BY <3>2, EventsAre DEF Call, Idle
    <3>4. ServerTypeOK' /\ owed' \in BOOLEAN
      BY <3>1, ContinueTypes DEF TypeOK, ClientTypeOK
    <3>5. handling' \in Handling /\ handling'.at = "waiting" /\ handling'.todo = handling.todo
      BY <2>2, GoToIs
    <3>6. TypeOK'
      BY <1>4, <2>1, <3>1, <3>3, <3>4, <3>5, EventsAre DEF TypeOK, ClientTypeOK
    <3>7. HandlersCall'
      BY <1>4, <3>1, <3>5 DEF HandlersCall, InHandler, HandlerAt
    <3>8. NoEvent.type = "none"
      BY DEF NoEvent
    <3>9. CallsStep'
      BY <1>4, <1>5, <3>1, <3>3, <3>5, <3>8 DEF CallsStep, Asks, Open
    <3> QED BY <3>6, <3>7, <3>9
  <2>3. CASE link.at = "closed" /\ GoTo("ending") /\ UNCHANGED <<server, client>>
    <3>1. /\ UNCHANGED <<thread, text, running, due, channel, link, call, event, pendingSignal, owed>>
      BY <2>3 DEF server, client
    <3>2. handling' \in Handling /\ handling'.at = "ending" /\ handling'.todo = handling.todo
      BY <2>3, GoToIs
    <3>3. TypeOK'
      BY <1>4, <2>1, <3>1, <3>2 DEF TypeOK, ServerTypeOK, ClientTypeOK
    <3>4. HandlersCall'
      BY <1>4, <2>1, <3>1, <3>2 DEF HandlersCall, InHandler, HandlerAt
    <3>5. CallsStep'
      BY <1>5, <2>1, <3>1, <3>2 DEF CallsStep, HandlersCall, Asks, Open
    <3> QED BY <3>3, <3>4, <3>5
  <2> QED BY <1>9, <2>2, <2>3 DEF Resumes
<1>10. CASE Returns
  <2>1. /\ handling.at = "waiting" /\ call = Idle
        /\ UNCHANGED <<thread, text, running, due, channel, link, call, event, pendingSignal, owed, breakpoints>>
        /\ handling' = IF event.type = "trapped" THEN [at |-> "info", todo |-> event.threads]
                                                 ELSE [handling EXCEPT !.at = "ending"]
    BY <1>10 DEF Returns, server, client
  <2>2. Idle.at = "idle"
    BY DEF Idle
  <2>3. /\ handling' \in Handling /\ handling'.at \in {"info", "ending"}
        /\ handling'.at = "info" => handling'.todo # <<>>
    <3>1. event \in Event
      BY DEF TypeOK, ClientTypeOK
    <3>2. event.threads \in Seq(Thread)
      BY <3>1 DEF Event
    <3> QED BY <2>1, <3>2 DEF TypeOK, CallsStep, Handling
  <2>4. TypeOK'
    BY <1>4, <2>1, <2>3 DEF TypeOK, ServerTypeOK, ClientTypeOK
  <2>5. HandlersCall'
    BY <1>4, <2>1, <2>2, <2>3 DEF HandlersCall, InHandler, HandlerAt
  <2>6. CallsStep'
    BY <1>5, <2>1, <2>2, <2>3 DEF CallsStep, Asks, Open
  <2> QED BY <2>4, <2>5, <2>6
<1> QED BY <1>6, <1>7, <1>8, <1>9, <1>10

LEMMA FrameOfIs ==
  ASSUME NEW op \in {"tls", "step"}, NEW t \in Thread, NEW place \in Place
  PROVE  /\ FrameOf(op, t, place) \in Frame
         /\ FrameOf(op, t, place).op = op /\ FrameOf(op, t, place).at = "begin"
         /\ FrameOf(op, t, place).thread = t /\ FrameOf(op, t, place).place = place
         /\ FrameOf(op, t, place).others = <<>>
BY DEF FrameOf, Frame

LEMMA PlacesAre ==
  ASSUME thread \in States
  PROVE  /\ \A a \in Addr \cup {Helper, HelperEnd} : At(a) \in Place /\ At(a).pc = a /\ ~At(a).inside
         /\ \A t \in Thread : PlaceOf(t) \in Place /\ PlaceOf(t).pc = thread[t].pc
<1>1. \A t \in Thread : thread[t] \in ThreadState
  BY DEF States
<1> QED BY <1>1 DEF At, PlaceOf, Place, ThreadState

LEMMA StepOverTrapIs ==
  ASSUME thread \in States, NEW t \in Thread
  PROVE  /\ StepOverTrap(t) \in Frame
         /\ StepOverTrap(t).op = "step" /\ StepOverTrap(t).at = "begin" /\ StepOverTrap(t).thread = t
         /\ StepOverTrap(t).others = <<>> /\ StepOverTrap(t).place.pc = thread[t].pc
         /\ StepOverTrap(t).place.inside = ~thread[t].past
<1> DEFINE place == [At(thread[t].pc) EXCEPT !.inside = ~thread[t].past]
<1>1. thread[t] \in ThreadState
  BY DEF States
<1>2. place \in Place /\ place.pc = thread[t].pc /\ place.inside = ~thread[t].past
  BY <1>1 DEF At, Place, ThreadState
<1>3. StepOverTrap(t) = FrameOf("step", t, place)
  BY DEF StepOverTrap
<1> HIDE DEF place
<1> QED BY <1>2, <1>3, FrameOfIs

LEMMA NoStepsIs ==
  ASSUME thread \in States, NEW t \in Thread, NoSteps(t)
  PROVE  /\ thread' \in States
         /\ thread'[t] = [thread[t] EXCEPT !.steps = 0]
         /\ \A u \in Thread : u # t => thread'[u] = thread[u]
<1> DEFINE r == [thread[t] EXCEPT !.steps = 0]
<1>1. r \in ThreadState
  BY DEF States, ThreadState
<1>2. thread' = [thread EXCEPT ![t] = r]
  BY DEF NoSteps, States
<1> HIDE DEF r
<1> QED BY <1>1, <1>2 DEF States, r

LEMMA StepAndWaitIs ==
  ASSUME ServerTypeOK, ClientTypeOK, happens' = happens, text' \in [Addr -> {"org", "trap"}],
         NEW th \in States, NEW t \in Thread, StepAndWait(th, t)
  PROVE  /\ ServerTypeOK' /\ ClientTypeOK'
         /\ call' = [Idle EXCEPT !.at = "waiting", !.step = t]
         /\ call'.at = "waiting" /\ call'.step = t /\ ~call'.asked
         /\ event' = NoEvent /\ UNCHANGED <<link, pendingSignal, due, channel>>
         /\ owed' = (owed /\ ~pendingSignal)
         /\ running' = TRUE
<1> DEFINE mode == [u \in Thread |-> IF u = t THEN "steps" ELSE "held"]
<1>1. /\ Resume(th, mode) /\ owed' = (owed /\ ~pendingSignal)
      /\ call' = [Idle EXCEPT !.at = "waiting", !.step = t]
      /\ event' = NoEvent /\ UNCHANGED <<link, pendingSignal>>
  BY DEF StepAndWait
<1>2. mode \in [Thread -> {"held", "runs", "steps"}]
  OBVIOUS
<1> HIDE DEF mode
<1>3. thread' \in States
  BY <1>1, <1>2, ResumeIs
<1>4. call' = [Idle EXCEPT !.at = "waiting", !.step = t]
  BY <1>1
<1>5. call' \in Call /\ call'.at = "waiting" /\ call'.step = t /\ ~call'.asked
  BY <1>4, EventsAre DEF Call, Idle
<1>6. running' = TRUE /\ UNCHANGED <<due, channel>>
  BY <1>1 DEF Resume
<1>7. ServerTypeOK'
  BY <1>3, <1>6 DEF ServerTypeOK, States
<1>8. ClientTypeOK'
  BY <1>1, <1>5, EventsAre DEF ClientTypeOK
<1> QED BY <1>1, <1>5, <1>6, <1>7, <1>8

LEMMA ReturnFromControl ==
  ASSUME ControlInv, frames # <<>>, call.at = "idle", NEW ok \in BOOLEAN, ReturnFrom(ok),
         ServerTypeOK', UNCHANGED <<link, call, event, pendingSignal, owed, breakpoints>>
  PROVE  ControlInv'
<1> USE DEF ControlInv
<1>1. FramesOK' /\ (Drops \/ Ends(ok))
  BY FramesTyped, ReturnFromIs
<1>2. handling' \in Handling /\ handling'.at \in HandlerAt \cup {"ending"} /\ handling'.todo = handling.todo
  <2>1. InHandler /\ handling \in Handling
    BY DEF HandlersCall, TypeOK
  <2>2. CASE Drops
    BY <2>1, <2>2 DEF Drops, InHandler
  <2>3. CASE Ends(ok)
    <3>1. PICK at \in {"handler", "system", "stepped", "ending"} : GoTo(at)
      BY <2>3 DEF Ends
    <3> QED BY <3>1, GoToIs DEF HandlerAt
  <2> QED BY <1>1, <2>2, <2>3
<1>3. frames' # <<>> => handling'.at = handling.at /\ frames'[1].at = "others"
  <2>1. CASE Drops
    <3>1. frames \in Seq(Frame) /\ 2 \in DOMAIN frames
      BY <2>1, ElementsOf DEF Drops, TypeOK
    <3>2. frames[2].at = "others" /\ frames[2] \in Frame
      BY <3>1, ElementsOf DEF HandlersCall, FramesNest
    <3> QED BY <2>1, <3>2 DEF Drops, Frame
  <2>2. CASE Ends(ok)
    BY <2>2 DEF Ends
  <2> QED BY <1>1, <2>1, <2>2
<1>4. ~Stepping'
  BY <1>1, <1>3, FirstOf DEF Stepping, Frm, FramesOK
<1>5. TypeOK'
  BY <1>1, <1>2 DEF TypeOK, ClientTypeOK, FramesOK
<1>6. HandlersCall'
  BY <1>1, <1>2, <1>3 DEF HandlersCall, InHandler, HandlerAt, FramesOK
<1>7. CallsStep'
  BY <1>2, <1>4 DEF CallsStep, Asks, Open, HandlerAt
<1> QED BY <1>5, <1>6, <1>7

LEMMA BecomesControl ==
  ASSUME ControlInv, frames # <<>>, call.at = "idle", FramesOK', frames' # <<>>, Frm'.at # "stepping",
         ServerTypeOK', UNCHANGED <<link, call, event, pendingSignal, owed, breakpoints, handling>>
  PROVE  ControlInv'
<1> USE DEF ControlInv
<1>1. ~Stepping' /\ InHandler
  BY DEF Stepping, HandlersCall
<1>2. TypeOK'
  BY DEF TypeOK, ClientTypeOK, FramesOK
<1>3. HandlersCall'
  BY <1>1 DEF HandlersCall, InHandler, HandlerAt, FramesOK
<1>4. CallsStep'
  BY <1>1 DEF CallsStep, Asks, Open, HandlerAt, InHandler
<1> QED BY <1>2, <1>3, <1>4

LEMMA StartsControl ==
  ASSUME ControlInv, frames = <<>>, InHandler, FramesOK', frames' # <<>>, Frm'.at # "stepping",
         ServerTypeOK', UNCHANGED <<link, call, event, pendingSignal, owed, breakpoints, handling>>
  PROVE  ControlInv'
<1> USE DEF ControlInv
<1>1. ~Stepping' /\ ~Stepping
  BY DEF Stepping
<1>2. call.at = "idle"
  BY <1>1 DEF CallsStep, InHandler, HandlerAt
<1>3. TypeOK'
  BY DEF TypeOK, ClientTypeOK, FramesOK
<1>4. HandlersCall'
  BY DEF HandlersCall, InHandler, HandlerAt, FramesOK
<1>5. CallsStep'
  BY <1>1, <1>2 DEF CallsStep, Asks, Open, HandlerAt, InHandler
<1> QED BY <1>3, <1>4, <1>5

LEMMA StepsControl ==
  ASSUME ControlInv, frames # <<>>, FramesOK', frames' # <<>>, Frm'.at = "stepping",
         call'.at = "waiting", call'.step = Frm'.thread, ~call'.asked, event' = NoEvent,
         link.at = "up", link' = link, ServerTypeOK', ClientTypeOK', UNCHANGED <<breakpoints, handling>>
  PROVE  ControlInv'
<1> USE DEF ControlInv
<1>1. Stepping' /\ InHandler
  BY DEF Stepping, HandlersCall
<1>2. TypeOK'
  BY DEF TypeOK, FramesOK
<1>3. HandlersCall'
  BY <1>1 DEF HandlersCall, InHandler, HandlerAt, FramesOK
<1>4. NoEvent.type = "none"
  BY DEF NoEvent
<1>5. CallsStep'
  BY <1>1, <1>4 DEF CallsStep, Asks, Open
<1> QED BY <1>2, <1>3, <1>5

LEMMA NotWaiting ==
  ASSUME ControlInv, InHandler, ~Stepping
  PROVE  call = Idle /\ call.at = "idle"
BY DEF ControlInv, CallsStep, InHandler, HandlerAt

LEMMA TrappingIs ==
  ASSUME ControlInv, InHandler
  PROVE  Trapping \in Thread /\ Trapping = handling.todo[1] /\ handling.todo \in Seq(Thread) /\ handling.todo # <<>>
<1>1. handling.todo \in Seq(Thread) /\ handling.todo # <<>>
  BY DEF ControlInv, TypeOK, Handling, HandlersCall
<1> QED BY <1>1, FirstOf DEF Trapping

LEMMA FrmIs ==
  ASSUME ControlInv, frames # <<>>
  PROVE  /\ Frm \in Frame /\ Frm = frames[1] /\ 1 \in DOMAIN frames /\ Frm.thread \in Thread
         /\ Frm.place \in Place /\ Frm.others \in Seq(Thread) /\ Frm.op \in {"tls", "step"}
         /\ InHandler /\ FramesOK /\ Len(frames) \in Nat /\ Len(frames) >= 1
         /\ DOMAIN frames = 1..Len(frames)
<1>1. frames \in Seq(Frame)
  BY DEF ControlInv, TypeOK
<1> QED BY <1>1, FirstOf, ElementsOf, FrameFields, FramesTyped DEF Frm, ControlInv, HandlersCall

LEMMA HandlersControl ==
  ASSUME ControlInv, happens' = happens,
         CurrentGoRoutineInfo \/ HandleTrap \/ HandleCalledFunction \/ HandlerReturns
  PROVE  ControlInv'
<1>1. frames = <<>> /\ InHandler
  BY DEF CurrentGoRoutineInfo, HandleTrap, HandleCalledFunction, HandlerReturns, Handles, InHandler, HandlerAt
<1>2. Trapping \in Thread /\ thread \in States
  BY <1>1, TrappingIs DEF ControlInv, TypeOK, ServerTypeOK, States
<1>3. CASE CurrentGoRoutineInfo
  <2>1. /\ frames' = <<FrameOf("tls", Trapping, PlaceOf(Trapping))>>
        /\ UNCHANGED <<thread, text, running, due, channel, link, call, event, pendingSignal, owed, breakpoints, handling>>
    BY <1>3 DEF CurrentGoRoutineInfo, server, client
  <2> DEFINE f == FrameOf("tls", Trapping, PlaceOf(Trapping))
  <2>2. f \in Frame /\ f.at = "begin"
    BY <1>2, PlacesAre, FrameOfIs
  <2> HIDE DEF f
  <2>3. FramesOK' /\ frames' # <<>> /\ Frm'.at = "begin"
    BY <2>1, <2>2, StartsIs DEF f
  <2>4. ServerTypeOK'
    BY <2>1 DEF ControlInv, TypeOK, ServerTypeOK
  <2> QED BY <1>1, <2>1, <2>3, <2>4, StartsControl
<1>4. ASSUME NEW f \in Frame, f.at = "begin", frames' = <<f>>, NoSteps(Trapping),
             UNCHANGED <<text, running, due, channel, link, call, event, pendingSignal, owed, breakpoints, handling>>
      PROVE  ControlInv'
  <2>1. FramesOK' /\ frames' # <<>> /\ Frm'.at = "begin"
    BY <1>4, StartsIs
  <2>2. ServerTypeOK'
    BY <1>2, <1>4, NoStepsIs DEF ControlInv, TypeOK, ServerTypeOK, States
  <2> QED BY <1>1, <1>4, <2>1, <2>2, StartsControl
<1>5. CASE HandleTrap
  BY <1>2, <1>4, <1>5, StepOverTrapIs DEF HandleTrap, client
<1>6. CASE HandleCalledFunction
  <2>1. thread[Trapping].pc \in Addr
    BY <1>6 DEF HandleCalledFunction
  <2>2. FrameOf("step", Trapping, At(thread[Trapping].pc)) \in Frame
        /\ FrameOf("step", Trapping, At(thread[Trapping].pc)).at = "begin"
    BY <1>2, <2>1, PlacesAre, FrameOfIs
  <2> QED BY <1>4, <1>6, <2>2 DEF HandleCalledFunction, client
<1>7. CASE HandlerReturns
  <2>1. /\ UNCHANGED <<thread, text, running, due, channel, link, call, event, pendingSignal, owed, breakpoints, frames>>
        /\ handling' = [at |-> IF Tail(handling.todo) = <<>> THEN "resuming" ELSE "info",
                        todo |-> Tail(handling.todo)]
    BY <1>7 DEF HandlerReturns, server, client
  <2>2. Tail(handling.todo) \in Seq(Thread)
    BY <1>1, TrappingIs, FirstOf
  <2>3. handling' \in Handling /\ handling'.at \in {"resuming", "info"}
        /\ (handling'.at = "info" => handling'.todo # <<>>)
    BY <2>1, <2>2 DEF Handling
  <2>4. call.at = "idle"
    BY <1>1, NotWaiting DEF Stepping
  <2>5. TypeOK'
    BY <2>1, <2>3 DEF ControlInv, TypeOK, ServerTypeOK, ClientTypeOK
  <2>6. HandlersCall'
    BY <1>1, <2>1, <2>3, <2>4 DEF ControlInv, HandlersCall, InHandler, HandlerAt, FramesNest
  <2>7. CallsStep'
    BY <1>1, <2>1, <2>3, <2>4 DEF ControlInv, CallsStep, Asks, Open, Stepping
  <2> QED BY <2>5, <2>6, <2>7 DEF ControlInv
<1> QED BY <1>3, <1>5, <1>6, <1>7

LEMMA BreakpointsControl ==
  ASSUME ControlInv, happens' = happens, NEW a \in Addr, SetBreakpoint(a) \/ ClearBreakpoint(a)
  PROVE  ControlInv'
<1>1. /\ frames = <<>> /\ frames' = <<>> /\ handling.at \in {"handler", "resuming"} /\ a \in BreakAddr
      /\ UNCHANGED <<thread, running, due, channel, link, call, event, pendingSignal, owed>>
      /\ handling' = handling \/ GoTo("ending")
  BY DEF SetBreakpoint, ClearBreakpoint, SetsBreakpoints, Handles, client, ControlInv, TypeOK
<1>2. text' \in [Addr -> {"org", "trap"}] /\ breakpoints' \subseteq BreakAddr
  BY <1>1 DEF SetBreakpoint, ClearBreakpoint, ControlInv, TypeOK, ServerTypeOK
<1>3. handling' \in Handling /\ handling'.at \in {handling.at, "ending"} /\ handling'.todo = handling.todo
  BY <1>1, GoToIs DEF ControlInv, TypeOK
<1>4. call.at = "idle"
  BY <1>1, NotWaiting DEF Stepping, InHandler, HandlerAt, ControlInv, HandlersCall
<1>5. TypeOK'
  BY <1>1, <1>2, <1>3 DEF ControlInv, TypeOK, ServerTypeOK, ClientTypeOK
<1>6. HandlersCall'
  BY <1>1, <1>3, <1>4 DEF ControlInv, HandlersCall, InHandler, HandlerAt, FramesNest
<1>7. CallsStep'
  BY <1>1, <1>3, <1>4 DEF ControlInv, CallsStep, Asks, Open, Stepping
<1> QED BY <1>5, <1>6, <1>7 DEF ControlInv

LEMMA FramesControl ==
  ASSUME ControlInv, happens' = happens,
         ReadTLS \/ ReadTLSReturns \/ SingleStep \/ SingleStepReturns \/ StepUnspecifiedThread \/ StepAgain
  PROVE  ControlInv'
<1>1. frames # <<>>
  BY DEF ReadTLS, ReadTLSReturns, SingleStep, SingleStepReturns, StepUnspecifiedThread, StepAgain, In
<1>2. /\ Frm \in Frame /\ Frm.thread \in Thread /\ Frm.place \in Place /\ FramesOK /\ InHandler
      /\ Frm.others \in Seq(Thread)
  BY <1>1, FrmIs
<1>3. thread \in States /\ text \in [Addr -> {"org", "trap"}] /\ ServerTypeOK /\ ClientTypeOK
  BY DEF ControlInv, TypeOK, ServerTypeOK, States
<1>4. ASSUME UNCHANGED <<thread, text, running, due, channel>>  PROVE ServerTypeOK'
  BY <1>3, <1>4 DEF ServerTypeOK
<1>5. ASSUME thread' \in States, text' \in [Addr -> {"org", "trap"}], UNCHANGED <<running, due, channel>>
      PROVE  ServerTypeOK'
  BY <1>3, <1>5 DEF ServerTypeOK, States
<1>6. ASSUME NEW f \in Frame, f.op = Frm.op, f.at = "stepping", f.thread = Frm.thread, Becomes(f),
             NEW th \in States, StepAndWait(th, Frm.thread), link.at = "up",
             text' \in [Addr -> {"org", "trap"}], UNCHANGED <<breakpoints, handling>>
      PROVE  ControlInv'
  <2>1. FramesOK' /\ frames' # <<>> /\ Frm' = f
    BY <1>1, <1>2, <1>6, BecomesIs DEF Replaces
  <2>2. /\ ServerTypeOK' /\ ClientTypeOK' /\ call'.at = "waiting" /\ call'.step = Frm.thread /\ ~call'.asked
        /\ event' = NoEvent /\ link' = link
    BY <1>2, <1>3, <1>6, StepAndWaitIs
  <2> QED BY <1>1, <1>6, <2>1, <2>2, StepsControl
<1>7. CASE ReadTLS
  <2>1. In("tls", "begin") /\ UNCHANGED breakpoints
    BY <1>7 DEF ReadTLS
  <2>2. CASE CanAsk
    <3> DEFINE f == [Frm EXCEPT !.at = "stepping", !.place = PlaceOf(Frm.thread)]
    <3>1. /\ Becomes(f) /\ StepAndWait(PutAt(Frm.thread, At(Helper)), Frm.thread) /\ UNCHANGED <<text, handling>>
      BY <1>7, <2>2 DEF ReadTLS
    <3>2. f \in Frame /\ f.op = Frm.op /\ f.at = "stepping" /\ f.thread = Frm.thread
      BY <1>2, <1>3, PlacesAre DEF Frame
    <3>3. PutAt(Frm.thread, At(Helper)) \in States
      BY <1>2, <1>3, PlacesAre, PutAtIs
    <3> HIDE DEF f
    <3> QED BY <1>3, <1>6, <2>1, <2>2, <3>1, <3>2, <3>3 DEF CanAsk
  <2>3. CASE ~CanAsk
    <3>1. ReturnFrom(FALSE)
          /\ UNCHANGED <<thread, text, running, due, channel, link, call, event, pendingSignal, owed>>
      BY <1>7, <2>3 DEF ReadTLS, server, client
    <3>2. call.at = "idle"
      BY <1>1, <1>2, <2>1, NotWaiting DEF Stepping, In
    <3> QED BY <1>1, <1>4, <2>1, <3>1, <3>2, ReturnFromControl
  <2> QED BY <2>2, <2>3
<1>8. CASE SingleStep
  <2>1. In("step", "begin") /\ UNCHANGED breakpoints
    BY <1>8 DEF SingleStep
  <2>2. CASE CanAsk
    <3> DEFINE f == [Frm EXCEPT !.at = "stepping"]
    <3>1. /\ Becomes(f) /\ StepAndWait(PutAt(Frm.thread, Frm.place), Frm.thread) /\ UNCHANGED handling
          /\ text' = IF AtBreakpoint THEN [text EXCEPT ![Frm.place.pc] = "org"] ELSE text
      BY <1>8, <2>2 DEF SingleStep
    <3>2. f \in Frame /\ f.op = Frm.op /\ f.at = "stepping" /\ f.thread = Frm.thread
      BY <1>2 DEF Frame
    <3>3. PutAt(Frm.thread, Frm.place) \in States
      BY <1>2, <1>3, PutAtIs
    <3>4. text' \in [Addr -> {"org", "trap"}]
      BY <1>3, <3>1
    <3> HIDE DEF f
    <3> QED BY <1>3, <1>6, <2>1, <2>2, <3>1, <3>2, <3>3, <3>4 DEF CanAsk
  <2>3. CASE ~CanAsk
    <3>1. ReturnFrom(FALSE)
          /\ UNCHANGED <<thread, text, running, due, channel, link, call, event, pendingSignal, owed>>
      BY <1>8, <2>3 DEF SingleStep, server, client
    <3>2. call.at = "idle"
      BY <1>1, <1>2, <2>1, NotWaiting DEF Stepping, In
    <3> QED BY <1>1, <1>4, <2>1, <3>1, <3>2, ReturnFromControl
  <2> QED BY <2>2, <2>3
<1>9. ASSUME call = Idle, StepOthers, ServerTypeOK', event.type = "unspecified",
             UNCHANGED <<link, call, event, pendingSignal, owed, breakpoints, handling>>
      PROVE  ControlInv'
  <2> DEFINE f == [Frm EXCEPT !.at = "others", !.others = event.threads]
  <2>1. event.threads \in Seq(Thread)
    BY <1>3 DEF ClientTypeOK, Event
  <2>2. f \in Frame /\ f.op = Frm.op /\ f.at = "others" /\ Becomes(f)
    BY <1>2, <1>9, <2>1 DEF Frame, StepOthers
  <2> HIDE DEF f
  <2>3. FramesOK' /\ frames' # <<>> /\ Frm' = f
    BY <1>1, <1>2, <2>2, BecomesIs DEF Replaces
  <2>4. Idle.at = "idle"
    BY DEF Idle
  <2> QED BY <1>1, <1>9, <2>2, <2>3, <2>4, BecomesControl
<1>10. CASE ReadTLSReturns
  <2>1. /\ call = Idle
        /\ UNCHANGED <<text, running, due, channel, link, call, event, pendingSignal, owed, breakpoints>>
        /\ thread' = IF CanAsk THEN PutAt(Frm.thread, Frm.place) ELSE thread
    BY <1>10 DEF ReadTLSReturns, client
  <2>2. ServerTypeOK'
    BY <1>2, <1>3, <1>5, <2>1, PutAtIs
  <2>3. CASE event.type = "unspecified"
    BY <1>9, <1>10, <2>1, <2>2, <2>3 DEF ReadTLSReturns
  <2>4. CASE event.type # "unspecified"
    <3>1. ReturnFrom(event.type = "trapped" /\ CanAsk)
      BY <1>10, <2>4 DEF ReadTLSReturns
    <3>2. (event.type = "trapped" /\ CanAsk) \in BOOLEAN
      OBVIOUS
    <3>3. call.at = "idle"
      BY <2>1 DEF Idle
    <3> QED BY <1>1, <2>1, <2>2, <3>1, <3>2, <3>3, ReturnFromControl
  <2> QED BY <2>3, <2>4
<1>11. CASE SingleStepReturns
  <2>1. /\ call = Idle
        /\ UNCHANGED <<thread, running, due, channel, link, call, event, pendingSignal, owed, breakpoints>>
    BY <1>11 DEF SingleStepReturns, client
  <2>2. text' \in [Addr -> {"org", "trap"}]
    BY <1>3, <1>11 DEF SingleStepReturns
  <2>3. ServerTypeOK'
    BY <1>3, <1>5, <2>1, <2>2
  <2>4. CASE event.type = "unspecified"
    BY <1>9, <1>11, <2>1, <2>3, <2>4 DEF SingleStepReturns
  <2>5. CASE event.type # "unspecified"
    <3>1. PICK ok \in BOOLEAN : ReturnFrom(ok)
      BY <1>11, <2>5 DEF SingleStepReturns
    <3>2. call.at = "idle"
      BY <2>1 DEF Idle
    <3> QED BY <1>1, <2>1, <2>3, <3>1, <3>2, ReturnFromControl
  <2> QED BY <2>4, <2>5
<1>12. CASE StepUnspecifiedThread
  <2>1. /\ Frm.at = "others" /\ Frm.others # <<>>
        /\ UNCHANGED <<text, running, due, channel, link, call, event, pendingSignal, owed, breakpoints>>
    BY <1>12 DEF StepUnspecifiedThread, client
  <2>2. call.at = "idle"
    BY <1>1, <1>2, <2>1, NotWaiting DEF Stepping
  <2> DEFINE u == Head(Frm.others)
  <2>3. u \in Thread /\ Tail(Frm.others) \in Seq(Thread)
    BY <1>2, <2>1, FirstOf
  <2>4. CASE u = Frm.thread
    <3> DEFINE f == [Frm EXCEPT !.others = Tail(Frm.others)]
    <3>1. Becomes(f) /\ UNCHANGED <<thread, handling>>
      BY <1>12, <2>4 DEF StepUnspecifiedThread
    <3>2. f \in Frame /\ f.op = Frm.op /\ f.at = "others"
      BY <1>2, <2>1, <2>3 DEF Frame
    <3> HIDE DEF f
    <3>3. FramesOK' /\ frames' # <<>> /\ Frm' = f
      BY <1>1, <1>2, <3>1, <3>2, BecomesIs DEF Replaces
    <3> QED BY <1>1, <1>4, <2>1, <2>2, <3>1, <3>2, <3>3, BecomesControl
  <2>5. CASE u # Frm.thread /\ CanAsk
    <3> DEFINE f == StepOverTrap(u)
    <3>1. frames' = <<f>> \o frames /\ NoSteps(u) /\ UNCHANGED handling
      BY <1>12, <2>5 DEF StepUnspecifiedThread
    <3>2. f \in Frame /\ f.op = "step" /\ f.at = "begin"
      BY <1>3, <2>3, StepOverTrapIs
    <3> HIDE DEF f, u
    <3>3. FramesOK' /\ frames' # <<>> /\ Frm' = f
      BY <1>1, <1>2, <2>1, <3>1, <3>2, PushIs DEF Pushes
    <3>4. ServerTypeOK'
      BY <1>3, <1>5, <2>1, <2>3, <3>1, NoStepsIs
    <3> QED BY <1>1, <2>1, <2>2, <3>1, <3>2, <3>3, <3>4, BecomesControl
  <2>6. CASE u # Frm.thread /\ ~CanAsk
    <3>1. ReturnFrom(FALSE) /\ UNCHANGED thread
      BY <1>12, <2>6 DEF StepUnspecifiedThread
    <3> QED BY <1>1, <1>4, <2>1, <2>2, <3>1, ReturnFromControl
  <2> QED BY <2>4, <2>5, <2>6
<1>13. CASE StepAgain
  <2>1. /\ Frm.at = "others" /\ Becomes([Frm EXCEPT !.at = "begin"])
        /\ UNCHANGED <<thread, text, running, due, channel, link, call, event, pendingSignal, owed, breakpoints, handling>>
    BY <1>13 DEF StepAgain, server, client
  <2> DEFINE f == [Frm EXCEPT !.at = "begin"]
  <2>2. f \in Frame /\ f.op = Frm.op /\ f.at = "begin" /\ Becomes(f)
    BY <1>2, <2>1 DEF Frame
  <2> HIDE DEF f
  <2>3. FramesOK' /\ frames' # <<>> /\ Frm' = f
    BY <1>1, <1>2, <2>2, BecomesIs DEF Replaces
  <2>4. call.at = "idle"
    BY <1>1, <1>2, <2>1, NotWaiting DEF Stepping
  <2> QED BY <1>1, <1>4, <2>1, <2>2, <2>3, <2>4, BecomesControl
<1> QED BY <1>7, <1>8, <1>10, <1>11, <1>12, <1>13

LEMMA WaitsControl ==
  ASSUME ControlInv, happens' = happens, ClientWaits
  PROVE  ControlInv'
<1>1. Waits /\ UNCHANGED <<breakpoints, handling, frames>>
  BY DEF ClientWaits
<1>2. call.at # "idle" /\ Outcome /\ ServerTypeOK' /\ ClientTypeOK'
  BY <1>1, WaitsOutcome DEF ControlInv, TypeOK, CallsStep
<1>3. TypeOK'
  BY <1>1, <1>2 DEF ControlInv, TypeOK
<1>4. HandlersCall'
  <2>1. handling.at \notin {"attaching", "failed", "resuming", "ending", "detached"} /\ link.at = "up"
    BY <1>2 DEF ControlInv, HandlersCall, CallsStep
  <2>2. link'.at \in {"up", "closed"}
    BY <1>2, <2>1 DEF Outcome, GoesOn, Exiting, Failing, Finding, ControlInv, TypeOK, ClientTypeOK
  <2> QED BY <1>1, <2>1, <2>2 DEF ControlInv, HandlersCall, InHandler, FramesNest
<1>5. Stepping' = Stepping /\ Frm' = Frm
  BY <1>1 DEF Stepping, Frm
<1>6. /\ \/ call.step = NoThread /\ handling.at = "waiting" /\ frames = <<>> /\ ~Stepping
         \/ Stepping /\ call.step = Frm.thread
      /\ link.at = "up" /\ event = NoEvent
  BY <1>2 DEF ControlInv, CallsStep, Stepping
<1>7. Idle.at = "idle" /\ ~Idle.asked
  BY DEF Idle
<1>8. NoEvent.type = "none" /\ Failed.type = "error" /\ Exited.type = "exited"
  BY DEF NoEvent, Failed, Exited
<1>9. CASE GoesOn
  BY <1>1, <1>2, <1>5, <1>6, <1>8, <1>9, <1>3, <1>4 DEF ControlInv, GoesOn, CallsStep, Asks, Open
<1>10. CASE Exiting
  <2>1. link'.at = "closed"
    BY <1>10 DEF Exiting, ControlInv, TypeOK, ClientTypeOK
  <2>2. call' = Idle /\ event' = Exited
    BY <1>10 DEF Exiting
  <2> QED BY <1>1, <1>5, <1>7, <1>8, <2>1, <2>2, <1>3, <1>4 DEF ControlInv, CallsStep, Asks, Open
<1>11. CASE Failing
  <2>1. call' = Idle /\ event' = Failed /\ link' = link
    BY <1>11 DEF Failing
  <2> QED BY <1>1, <1>5, <1>6, <1>7, <1>8, <2>1, <1>3, <1>4 DEF ControlInv, CallsStep, Asks, Open
<1>12. CASE Finding
  <2>1. /\ call.found # <<>> /\ call' = Idle /\ link' = link
        /\ event' = IF call.step = NoThread \/ call.found = <<call.step>>
                      THEN Trapped(call.found) ELSE Unspecified(call.found)
    BY <1>12 DEF Finding
  <2>2. /\ event'.type \in {"trapped", "unspecified"} /\ event'.threads # <<>>
        /\ event'.type = "trapped" => call.step = NoThread \/ event'.threads = <<call.step>>
    BY <2>1 DEF Trapped, Unspecified
  <2>3. Stepping => call.step = Frm.thread /\ call.step # NoThread
    BY <1>6, FrmIs, DebugserverAssumption DEF Stepping
  <2> QED BY <1>1, <1>5, <1>6, <1>7, <2>1, <2>2, <2>3, <1>3, <1>4 DEF ControlInv, CallsStep, Asks, Open
<1> QED BY <1>2, <1>3, <1>4, <1>9, <1>10, <1>11, <1>12 DEF ControlInv, Outcome

LEMMA ServerControl ==
  ASSUME ControlInv, happens' = happens, ServerMoves
  PROVE  ControlInv'
<1>1. UNCHANGED <<link, call, event, pendingSignal, owed, breakpoints, handling, frames>> /\ ServerNext
  BY DEF ServerMoves, client
<1>2. ServerTypeOK'
  BY <1>1, ServerKeepsTypes DEF ControlInv, TypeOK
<1>3. TypeOK'
  BY <1>1, <1>2 DEF ControlInv, TypeOK, ClientTypeOK
<1>4. HandlersCall' /\ CallsStep'
  BY <1>1 DEF ControlInv, HandlersCall, CallsStep, InHandler, FramesNest, Stepping, Frm, Asks, Open
<1> QED BY <1>3, <1>4 DEF ControlInv

LEMMA ControlBegins ==
  ProcessInit => ControlInv
<1> SUFFICES ASSUME ProcessInit PROVE ControlInv
  OBVIOUS
<1> USE DEF ProcessInit
<1>1. PICK a \in Addr : thread = [t \in Thread |->
        [pc |-> IF Lives(t) THEN a ELSE CHOOSE b \in Addr : TRUE, past |-> FALSE, inside |-> FALSE, mode |-> "held",
         hit |-> "none", stop |-> "none", steps |-> 0]]
  BY DEF ServerInit
<1>2. (CHOOSE b \in Addr : TRUE) \in Addr
  BY <1>1
<1>3. thread \in [Thread -> ThreadState]
  BY <1>1, <1>2 DEF ThreadState, Reason
<1>4. ServerTypeOK
  BY <1>3, EmptySeq DEF ServerInit, ServerTypeOK
<1>5. PICK kill \in BOOLEAN : link = [at |-> "connecting", request |-> 0, kill |-> kill]
  BY DEF ClientInit
<1>6. ClientTypeOK
  <2>1. link \in [at : {"connecting", "asking", "up", "closed"}, request : 0..5, kill : BOOLEAN]
    BY <1>5
  <2>2. call = Idle /\ event = NoEvent /\ pendingSignal = FALSE /\ owed = FALSE
    BY DEF ClientInit
  <2> QED BY <2>1, <2>2, EventsAre DEF ClientTypeOK
<1>7. TypeOK
  BY <1>4, <1>6, EmptySeq DEF TypeOK, Handling
<1>8. HandlersCall
  BY <1>5 DEF HandlersCall, InHandler, HandlerAt, FramesNest, ClientInit, Idle
<1>9. CallsStep
  BY <1>5 DEF CallsStep, ClientInit, Idle, NoEvent, Asks, Stepping, Open
<1> QED BY <1>7, <1>8, <1>9 DEF ControlInv

LEMMA NothingHappens ==
  ASSUME ControlInv, UNCHANGED processVars
  PROVE  ControlInv'
BY DEF processVars, server, client, ControlInv, TypeOK, ServerTypeOK, ClientTypeOK, HandlersCall, CallsStep, InHandler,
       FramesNest, Stepping, Frm, Asks, Open

LEMMA ControlStays ==
  ASSUME ControlInv, [ProcessNext]_processVars
  PROVE  ControlInv'
<1>1. CASE UNCHANGED processVars
  BY <1>1, NothingHappens
<1>2. CASE ProcessNext
  BY <1>2, MainLoopControl, BreakpointsControl, HandlersControl, FramesControl, WaitsControl, ServerControl
  DEF ProcessNext, ProcessStep, Handlers
<1> QED BY <1>1, <1>2

\* Threads, replies, calls and frames have their types, a call of the client is the
\* main loop's or that of the innermost SingleStep, and an event belongs to the call
\* that has ended, whatever fails and in whatever order (Continue and step of Client,
\* SingleStep, CurrentGoRoutineInfo).
THEOREM DarwinTypeCorrect == ProcessSpec => []TypeOK
<1>1. ControlInv => TypeOK
  BY DEF ControlInv
<1> QED BY <1>1, ControlBegins, ControlStays, PTL DEF ProcessSpec

-----------------------------------------------------------------------------
(* The signal that is passed on.                                           *)

\* owed says what is to be passed on: between selecting threads and returning it
\* is known from the stop reply, and from then on kept in pendingSignal.
SignalInv ==
  /\ call.at = "selecting" => (owed <=> call.header = "signal")
  /\ call.at = "idle" /\ event # Failed /\ Open => (pendingSignal <=> owed)

LEMMA OthersSignal ==
  ASSUME ControlInv, happens' = happens, ProcessStep, ~ClientWaits
  PROVE  \/ call'.at = "waiting"
         \/ /\ UNCHANGED <<call, pendingSignal, owed>>
            /\ event' = event \/ event' = Failed
            /\ Open' => Open
<1>1. \A th, t : StepAndWait(th, t) => call'.at = "waiting"
  BY DEF StepAndWait, Idle
<1>2. ContinueAndWait => call'.at = "waiting"
  BY DEF ContinueAndWait, Idle
<1>3. DetachProcess => UNCHANGED <<call, pendingSignal, owed, event>> /\ ~Open'
  BY DEF DetachProcess, Open, ControlInv, TypeOK, ClientTypeOK
<1>4. CASE Attach
  <2>1. link.at \in {"connecting", "asking"}
    BY <1>4 DEF Attach, Connect, Initialize
  <2> QED BY <1>4, <2>1 DEF Attach, Connect, Initialize, Open
<1>5. CASE \/ AttachFails \/ NewProcess \/ Interrupted \/ Returns \/ CurrentGoRoutineInfo \/ HandleTrap
           \/ HandleCalledFunction \/ HandlerReturns \/ StepAgain
           \/ StepUnspecifiedThread \/ SingleStepReturns \/ ReadTLSReturns \/ ServerMoves
  BY <1>5 DEF AttachFails, NewProcess, Interrupted, Returns, CurrentGoRoutineInfo, HandleTrap,
     HandleCalledFunction, HandlerReturns, StepAgain, StepUnspecifiedThread, SingleStepReturns,
     ReadTLSReturns, ServerMoves, client, Open
<1>6. CASE \E a \in Addr : SetBreakpoint(a) \/ ClearBreakpoint(a)
  BY <1>6 DEF SetBreakpoint, ClearBreakpoint, client, Open
<1>7. CASE NewProcessFails \/ Detach
  BY <1>3, <1>7 DEF NewProcessFails, Detach
<1>8. CASE Resumes
  BY <1>2, <1>8 DEF Resumes, client, Open
<1>9. CASE ReadTLS
  BY <1>1, <1>9 DEF ReadTLS, client, Open
<1>10. CASE SingleStep
  BY <1>1, <1>10 DEF SingleStep, client, Open
<1> QED BY <1>4, <1>5, <1>6, <1>7, <1>8, <1>9, <1>10 DEF ProcessStep, Handlers

LEMMA SignalStays ==
  ASSUME ControlInv, SignalInv, [ProcessNext]_processVars
  PROVE  SignalInv'
<1>1. CASE UNCHANGED processVars
  BY <1>1 DEF processVars, server, client, SignalInv, Open
<1>2. CASE ProcessNext /\ ~ClientWaits
  BY <1>2, OthersSignal DEF ProcessNext, SignalInv
<1>3. CASE ProcessNext /\ ClientWaits
  <2>1. Waits /\ happens' = happens
    BY <1>3 DEF ProcessNext, ClientWaits
  <2>2. ServerTypeOK /\ ClientTypeOK /\ Asks
    BY DEF ControlInv, TypeOK, CallsStep
  <2>3. Idle.at = "idle"
    BY DEF Idle
  <2>4. ASSUME NEW packets \in Packets, Read(packets), HandleReplies(packets) PROVE SignalInv'
    <3>1. packets \in Seq(Packet)
      BY <2>2, <2>4, ReadIs
    <3>2. CASE WaitsStill(packets)
      BY <3>2 DEF WaitsStill, SignalInv, Idle
    <3>3. CASE HasExited(packets)
      <4>1. call' = Idle /\ ~Open'
        BY <2>2, <3>3 DEF HasExited, Open, ClientTypeOK
      <4> QED BY <2>3, <4>1 DEF SignalInv
    <3>4. CASE HasFailed(packets)
      BY <2>3, <3>4 DEF HasFailed, SignalInv
    <3>5. ASSUME NEW r \in Reason, Selects(packets, r) PROVE SignalInv'
      <4>1. call' = [Idle EXCEPT !.at = "selecting", !.step = call.step, !.header = r, !.todo = Living]
        BY <3>5 DEF Selects
      <4>2. owed' = (r = "signal")
        BY <3>5 DEF Selects
      <4>3. call'.at = "selecting" /\ call'.header = r
        BY <4>1 DEF Idle
      <4> QED BY <4>2, <4>3 DEF SignalInv
    <3> QED BY <2>4, <3>1, <3>2, <3>3, <3>4, <3>5, HandleRepliesIs
  <2>5. CASE Receive
    BY <2>4, <2>5 DEF Receive
  <2>6. ASSUME UNCHANGED owed, call'.at = call.at, call.at # "idle", call'.header = call.header  PROVE SignalInv'
    BY <2>6 DEF SignalInv
  <2>7. ASSUME call'.at \in {"waiting", "listing", "checking"}  PROVE SignalInv'
    BY <2>7 DEF SignalInv
  <2>8. call \in Call
    BY <2>2 DEF ClientTypeOK
  <2>9. CASE Timeout
    BY <2>7, <2>8, <2>9 DEF Timeout, Call
  <2>10. CASE ReceiveThreads
    BY <2>3, <2>7, <2>8, <2>10 DEF ReceiveThreads, Call, Return, SignalInv
  <2>11. CASE Ask
    <3>1. /\ call' = [call EXCEPT !.asked = TRUE] /\ call.at \in {"checking", "selecting"} /\ owed' = owed
      BY <2>11 DEF Ask
    <3> QED BY <2>6, <2>8, <3>1 DEF Call
  <2>12. CASE CheckStopReply
    <3>1. PICK packets \in Packets :
            /\ Read(packets)
            /\ IF Head(packets) = Stopped("none")
                 THEN call' = Answered /\ UNCHANGED <<link, event, owed>>
                 ELSE HandleReplies(packets)
      BY <2>12 DEF CheckStopReply
    <3>2. Answered.at = call.at /\ call.at = "checking"
      BY <2>8, <2>12 DEF Answered, Call, CheckStopReply
    <3> QED BY <2>4, <2>7, <3>1, <3>2
  <2>13. CASE NoneStopped
    BY <2>7, <2>8, <2>13 DEF NoneStopped, Call
  <2>14. CASE SelectTrappedThread
    <3>1. PICK s : call' = (IF s = TRUE THEN [Answered EXCEPT !.found = Append(@, Head(call.todo))] ELSE Answered)
      BY <2>14 DEF SelectTrappedThread
    <3>2. Answered.at = call.at /\ Answered.header = call.header
      BY <2>8 DEF Answered, Call
    <3>3. [Answered EXCEPT !.found = Append(Answered.found, Head(call.todo))].at = call.at
          /\ [Answered EXCEPT !.found = Append(Answered.found, Head(call.todo))].header = call.header
      BY <2>8 DEF Answered, Call
    <3>4. owed' = owed /\ call.at = "selecting"
      BY <2>14 DEF SelectTrappedThread
    <3> QED BY <2>6, <3>1, <3>2, <3>3, <3>4
  <2>15. CASE NoneTrapped
    <3>1. call' = [Idle EXCEPT !.at = "waiting", !.step = call.step]
      BY <2>15 DEF NoneTrapped
    <3>2. call'.at = "waiting"
      BY <3>1 DEF Idle
    <3> QED BY <2>7, <3>2
  <2>16. CASE SomeTrapped
    <3>1. call' = Idle /\ pendingSignal' = (call.header = "signal") /\ owed' = owed /\ call.at = "selecting"
      BY <2>16 DEF SomeTrapped, Return, Selected
    <3> QED BY <2>3, <3>1 DEF SignalInv
  <2> QED BY <2>1, <2>5, <2>9, <2>10, <2>11, <2>12, <2>13, <2>14, <2>15, <2>16 DEF Waits
<1> QED BY <1>2, <1>1, <1>3

\* A signal that a stop reply has named goes back with the next resume and only
\* with that one, whatever is stepped in between and whichever reply is lost
\* (pendingSignal in continueAndWait and handleStopReply).
THEOREM SignalCorrect == ProcessSpec => []SignalGoesBack
<1>1. ProcessInit => SignalInv
  BY DEF ProcessInit, ClientInit, SignalInv, Idle
<1>2. SignalInv => SignalGoesBack
  BY DEF SignalInv, SignalGoesBack, Tracing, Open, Idle
<1> QED BY <1>1, <1>2, ControlBegins, ControlStays, SignalStays, PTL DEF ProcessSpec

-----------------------------------------------------------------------------
(* Nothing is under way unless a call waits for it.                        *)

Outputs(s) == \A i \in DOMAIN s : s[i] = Output

\* What a resume may be answered with.
LastReply == {Stopped(r) : r \in Reason \ {"none"}} \cup {ExitPacket}
EndsInReply(s) == \A i \in DOMAIN s : s[i] = Output \/ (i = Len(s) /\ s[i] \in LastReply)

Silent == ~running /\ due = <<>>

\* The channel while a call waits: the reply that its resume is answered with, or the
\* answer that it has asked for.
OneReply ==
  /\ running => due = <<>>
  /\ running \/ due # <<>> => Outputs(channel)
  /\ due = <<>> \/ \E p \in LastReply : due = <<p>>
  /\ EndsInReply(channel)

Quiet ==
  /\ call.at = "idle" /\ Open => Silent /\ channel = <<>>
  /\ call.at = "waiting" => OneReply
  /\ call.at = "listing" => Silent /\ channel = <<Threads>>
  /\ call.at \in {"checking", "selecting"} =>
       /\ Silent
       /\ channel = IF call.asked THEN <<Stopped(thread[call.todo[1]].stop)>> ELSE <<>>

OnlyLiving == \A t \in Thread : ~Lives(t) => thread[t].hit = "none" /\ thread[t].stop = "none"

TrapStopped == {t \in Thread : thread[t].stop = "trap"}

\* Threads are found one by one.
Found ==
  /\ call.at = "selecting" =>
       /\ \A i \in DOMAIN call.found : thread[call.found[i]].stop = "trap"
       /\ \A t \in TrapStopped : t \in Elements(call.found) \cup Elements(call.todo)
  /\ call.at = "idle" /\ Open /\ event.type \in {"trapped", "unspecified"} =>
       Elements(event.threads) = TrapStopped

QuietInv == Prompt => Quiet /\ OnlyLiving /\ Found

\* What all other steps do: they leave what is under way alone, or resume.
Rests ==
  /\ UNCHANGED <<running, due, channel, call>>
  /\ event' = event \/ event' = Failed
  /\ Open' => Open
  /\ \A t \in Thread : /\ thread'[t].stop = thread[t].stop
                       /\ thread'[t].hit \in {thread[t].hit, "none"}
                       /\ Open' => thread'[t].hit = thread[t].hit
Resuming ==
  /\ call.at = "idle" /\ link.at = "up" /\ call'.at = "waiting"
  /\ running' = TRUE /\ UNCHANGED <<due, channel>>
  /\ \A t \in Thread : thread'[t].stop = "none" /\ thread'[t].hit = thread[t].hit

LEMMA OthersRest ==
  ASSUME ControlInv, happens' = happens, ProcessStep, ~ClientWaits, ~ServerMoves
  PROVE  Rests \/ Resuming
<1>1. thread \in States /\ text \in [Addr -> {"org", "trap"}] /\ ServerTypeOK /\ ClientTypeOK
  BY DEF ControlInv, TypeOK, ServerTypeOK, States
<1>2. ASSUME UNCHANGED <<running, due, channel, link, call, event>>,
             \A t \in Thread : thread'[t].stop = thread[t].stop /\ thread'[t].hit = thread[t].hit
      PROVE  Rests
  BY <1>2 DEF Rests, Open
<1>3. ASSUME NEW th \in States, NEW mode \in [Thread -> {"held", "runs", "steps"}], Resume(th, mode),
             \A t \in Thread : th[t].hit = thread[t].hit, call.at = "idle", link.at = "up", call'.at = "waiting"
      PROVE  Resuming
  <2>1. running' = TRUE /\ UNCHANGED <<due, channel>>
    BY <1>3 DEF Resume
  <2>2. \A t \in Thread : thread'[t].stop = "none" /\ thread'[t].hit = th[t].hit
    BY <1>3, ResumeIs
  <2> QED BY <1>3, <2>1, <2>2 DEF Resuming
<1>4. ASSUME NEW t \in Thread, NEW place \in Place
      PROVE  /\ PutAt(t, place) \in States
             /\ \A u \in Thread : /\ PutAt(t, place)[u].hit = thread[u].hit
                                  /\ PutAt(t, place)[u].stop = thread[u].stop
  <2>1. /\ PutAt(t, place) \in States
        /\ \A u \in Thread : u # t => PutAt(t, place)[u] = thread[u]
        /\ PutAt(t, place)[t] = [thread[t] EXCEPT !.pc = place.pc, !.past = place.past, !.inside = place.inside]
    BY <1>1, PutAtIs
  <2>2. thread[t] \in ThreadState
    BY <1>1 DEF States
  <2>3. PutAt(t, place)[t].hit = thread[t].hit /\ PutAt(t, place)[t].stop = thread[t].stop
    BY <2>1, <2>2 DEF ThreadState
  <2> QED BY <2>1, <2>3
<1>5. ASSUME NEW t \in Thread, NoSteps(t)
      PROVE  \A u \in Thread : thread'[u].stop = thread[u].stop /\ thread'[u].hit = thread[u].hit
  <2>1. /\ thread'[t] = [thread[t] EXCEPT !.steps = 0]
        /\ \A u \in Thread : u # t => thread'[u] = thread[u]
    BY <1>1, <1>5, NoStepsIs
  <2>2. thread[t] \in ThreadState
    BY <1>1 DEF States
  <2> QED BY <2>1, <2>2 DEF ThreadState
<1>6. ASSUME NEW t \in Thread, NEW place \in Place, StepAndWait(PutAt(t, place), t), CanAsk,
             call.at = "idle"
      PROVE  Resuming
  <2> DEFINE mode == [u \in Thread |-> IF u = t THEN "steps" ELSE "held"]
  <2>1. Resume(PutAt(t, place), mode) /\ call'.at = "waiting" /\ link.at = "up"
    BY <1>6 DEF StepAndWait, Idle, CanAsk
  <2>2. mode \in [Thread -> {"held", "runs", "steps"}]
    OBVIOUS
  <2> HIDE DEF mode
  <2> QED BY <1>3, <1>4, <1>6, <2>1, <2>2
<1>7. DetachProcess => Rests
  <2> SUFFICES ASSUME DetachProcess PROVE Rests
    OBVIOUS
  <2>1. /\ link' = [link EXCEPT !.at = "closed"]
        /\ thread' = IF link.at # "up" \/ link.kill THEN thread
                     ELSE [t \in Thread |-> [thread[t] EXCEPT !.mode = "runs", !.hit = "none"]]
        /\ UNCHANGED <<running, due, channel, call, event, pendingSignal, owed>>
    BY DEF DetachProcess
  <2>2. ~Open'
    BY <1>1, <2>1 DEF Open, ClientTypeOK
  <2>3. ASSUME NEW t \in Thread
        PROVE  thread'[t].stop = thread[t].stop /\ thread'[t].hit \in {thread[t].hit, "none"}
    <3>1. thread[t] \in ThreadState
      BY <1>1 DEF States
    <3>2. thread'[t] = thread[t] \/ thread'[t] = [thread[t] EXCEPT !.mode = "runs", !.hit = "none"]
      BY <2>1
    <3> QED BY <3>1, <3>2 DEF ThreadState
  <2> QED BY <2>1, <2>2, <2>3 DEF Rests
<1>8. CASE Attach
  <2>1. link.at \in {"connecting", "asking"} /\ UNCHANGED <<thread, running, due, channel, call>>
        /\ (event' = event \/ event' = Failed)
    BY <1>8 DEF Attach, Connect, Initialize, server
  <2> QED BY <2>1 DEF Rests, Open
<1>9. CASE \/ AttachFails \/ NewProcess \/ Interrupted \/ Returns \/ CurrentGoRoutineInfo
           \/ HandlerReturns \/ StepAgain \/ SingleStepReturns
  <2>1. UNCHANGED <<thread, running, due, channel, link, call, event>>
    BY <1>9 DEF AttachFails, NewProcess, Interrupted, Returns, CurrentGoRoutineInfo,
       HandlerReturns, StepAgain, SingleStepReturns, server, client
  <2> QED BY <1>2, <2>1
<1>10. CASE \E a \in Addr : SetBreakpoint(a) \/ ClearBreakpoint(a)
  <2>1. UNCHANGED <<thread, running, due, channel, link, call, event>>
    BY <1>10 DEF SetBreakpoint, ClearBreakpoint, client
  <2> QED BY <1>2, <2>1
<1>11. CASE NewProcessFails \/ Detach
  BY <1>7, <1>11 DEF NewProcessFails, Detach
<1>12. CASE HandleTrap \/ HandleCalledFunction
  <2>1. InHandler
    BY <1>12 DEF HandleTrap, HandleCalledFunction, Handles, InHandler, HandlerAt
  <2>2. NoSteps(Trapping) /\ UNCHANGED <<running, due, channel, link, call, event>>
    BY <1>12 DEF HandleTrap, HandleCalledFunction, client
  <2> QED BY <1>2, <1>5, <2>1, <2>2, TrappingIs
<1>13. CASE Resumes
  <2>1. CASE UNCHANGED <<server, client>>
    <3>1. UNCHANGED <<thread, running, due, channel, link, call, event>>
      BY <2>1 DEF server, client
    <3> QED BY <1>2, <3>1
  <2>2. CASE ContinueAndWait
    <3> DEFINE mode == [t \in Thread |-> "runs"]
    <3>1. Resume(thread, mode) /\ call.at = "idle" /\ link.at = "up" /\ call'.at = "waiting"
      BY <2>2 DEF ContinueAndWait, Continue, Idle
    <3>2. mode \in [Thread -> {"held", "runs", "steps"}]
      OBVIOUS
    <3> HIDE DEF mode
    <3> QED BY <1>1, <1>3, <3>1, <3>2
  <2> QED BY <1>13, <2>1, <2>2 DEF Resumes
<1>14. CASE ReadTLS \/ SingleStep
  <2>1. /\ frames # <<>> /\ Frm.at = "begin"
        /\ CanAsk => \/ StepAndWait(PutAt(Frm.thread, At(Helper)), Frm.thread)
                     \/ StepAndWait(PutAt(Frm.thread, Frm.place), Frm.thread)
        /\ ~CanAsk => UNCHANGED <<server, client>>
    BY <1>14 DEF ReadTLS, SingleStep, In
  <2>2. Frm.thread \in Thread /\ Frm.place \in Place /\ At(Helper) \in Place /\ call.at = "idle"
    BY <1>1, <2>1, FrmIs, PlacesAre, NotWaiting DEF Stepping
  <2>3. CASE CanAsk
    BY <1>6, <2>1, <2>2, <2>3
  <2>4. CASE ~CanAsk
    <3>1. UNCHANGED <<thread, running, due, channel, link, call, event>>
      BY <2>1, <2>4 DEF server, client
    <3> QED BY <1>2, <3>1
  <2> QED BY <2>3, <2>4
<1>15. CASE ReadTLSReturns
  <2>1. /\ UNCHANGED <<running, due, channel, link, call, event>>
        /\ thread' = IF CanAsk THEN PutAt(Frm.thread, Frm.place) ELSE thread
        /\ frames # <<>>
    BY <1>15 DEF ReadTLSReturns, client, In
  <2> QED BY <1>2, <1>4, <2>1, FrmIs
<1>16. CASE StepUnspecifiedThread
  <2>1. /\ UNCHANGED <<running, due, channel, link, call, event>> /\ frames # <<>> /\ Frm.others # <<>>
        /\ thread' = thread \/ NoSteps(Head(Frm.others))
    BY <1>16 DEF StepUnspecifiedThread, client
  <2>2. Head(Frm.others) \in Thread
    BY <2>1, FrmIs, FirstOf
  <2> QED BY <1>2, <1>5, <2>1, <2>2
<1> QED BY <1>8, <1>9, <1>10, <1>11, <1>12, <1>13, <1>14, <1>15, <1>16 DEF ProcessStep, Handlers

LEMMA OthersQuiet ==
  ASSUME ControlInv, ControlInv', Prompt, Quiet, OnlyLiving, Found, happens' = happens, Rests \/ Resuming
  PROVE  Quiet' /\ OnlyLiving' /\ Found'
<1>1. OnlyLiving'
  BY DEF OnlyLiving, Lives, Living, Rests, Resuming
<1>2. CASE Rests
  <2>1. call' = call /\ UNCHANGED <<running, due, channel>>
    BY <1>2 DEF Rests
  <2>2. \A t \in Thread : thread'[t].stop = thread[t].stop
    BY <1>2 DEF Rests
  <2>3. call.asked => call.todo[1] \in Thread
    <3>1. call.todo \in Seq(Thread)
      BY DEF ControlInv, TypeOK, ClientTypeOK, Call
    <3> QED BY <3>1, FirstOf DEF ControlInv, CallsStep, Asks
  <2>4. Quiet'
    BY <1>2, <2>1, <2>2, <2>3 DEF Quiet, Rests, OneReply, Silent, Outputs, EndsInReply
  <2>5. call.at = "selecting" => \A i \in DOMAIN call.found : call.found[i] \in Thread
    BY ElementsOf DEF ControlInv, TypeOK, ClientTypeOK, Call
  <2>6. TrapStopped' = TrapStopped
    BY <2>2 DEF TrapStopped
  <2>7. Failed.type = "error"
    BY DEF Failed
  <2>8. Found'
    BY <1>2, <2>1, <2>2, <2>5, <2>6, <2>7 DEF Found, Rests, Elements
  <2> QED BY <1>1, <2>4, <2>8
<1>3. CASE Resuming
  <2>1. call'.at = "waiting" /\ call.at = "idle" /\ Open /\ running' /\ UNCHANGED <<due, channel>>
    BY <1>3 DEF Resuming, Open
  <2>2. due = <<>> /\ channel = <<>>
    BY <2>1 DEF Quiet, Silent
  <2>3. channel' = <<>> /\ due' = <<>> /\ DOMAIN <<>> = {}
    BY <2>1, <2>2
  <2>4. OneReply'
    BY <2>3 DEF OneReply, Outputs, EndsInReply
  <2> QED BY <1>1, <2>1, <2>4 DEF Quiet, Found
<1> QED BY <1>2, <1>3

LEMMA ServerQuiet ==
  ASSUME ControlInv, ControlInv', Prompt, Quiet, OnlyLiving, Found, happens' = happens, ServerMoves
  PROVE  Quiet' /\ OnlyLiving' /\ Found'
<1>1. /\ UNCHANGED <<link, call, event>> /\ ServerNext
      /\ Open' = Open
  BY DEF ServerMoves, client, Open
<1>2. thread \in States /\ due \in Seq(Packet) /\ channel \in Seq(Packet)
  BY DEF ControlInv, TypeOK, ServerTypeOK, States
<1>3. OnlyLiving'
  <2>1. ASSUME NEW t \in Thread, HitTrap(t) \/ Execute(t) \/ Interfere(t) PROVE OnlyLiving'
    <3>1. Lives(t)
      BY <2>1 DEF HitTrap, Execute, Interfere, Executes
    <3>2. \E r : thread' = [thread EXCEPT ![t] = r]
      BY <2>1 DEF HitTrap, Execute, Interfere
    <3>3. \A u \in Thread : u # t => thread'[u] = thread[u]
      BY <1>2, <3>2 DEF States
    <3> QED BY <3>1, <3>3 DEF OnlyLiving, Lives, Living
  <2>2. CASE Stop
    <3>1. PICK R \in SUBSET Unreported : thread' = [t \in Thread |->
            IF t \in R THEN [thread[t] EXCEPT !.mode = "held", !.stop = thread[t].hit, !.hit = "none"]
                       ELSE [thread[t] EXCEPT !.mode = "held"]]
      BY <2>2 DEF Stop
    <3>2. ASSUME NEW t \in Thread, ~Lives(t) PROVE thread'[t].hit = "none" /\ thread'[t].stop = "none"
      <4>1. thread[t] \in ThreadState /\ thread[t].hit = "none" /\ thread[t].stop = "none"
        BY <1>2, <3>2 DEF OnlyLiving, States
      <4>2. t \notin R
        BY <3>1, <4>1 DEF Unreported
      <4>3. thread'[t] = [thread[t] EXCEPT !.mode = "held"]
        BY <3>1, <4>2
      <4> QED BY <4>1, <4>3 DEF ThreadState
    <3> QED BY <3>2 DEF OnlyLiving, Lives, Living
  <2>3. CASE Exits
    <3>1. \A t \in Thread : thread'[t] = [thread[t] EXCEPT !.mode = "held", !.hit = "none"]
      BY <2>3 DEF Exits
    <3>2. \A t \in Thread : thread[t] \in ThreadState
      BY <1>2 DEF States
    <3> QED BY <3>1, <3>2 DEF OnlyLiving, Lives, Living, ThreadState
  <2>4. CASE Writes \/ SendReply
    <3>1. thread' = thread
      BY <2>4 DEF Writes, SendReply
    <3> QED BY <3>1 DEF OnlyLiving, Lives, Living
  <2> QED BY <1>1, <2>1, <2>2, <2>3, <2>4 DEF ServerNext
<1>4. running \/ due # <<>>
  BY <1>1 DEF ServerNext, HitTrap, Execute, Interfere, Executes, Stop, Exits, Writes, SendReply
<1>5. call.at = "waiting" \/ (call.at = "idle" /\ ~Open)
  <2>1. call.at \in {"idle", "waiting", "listing", "checking", "selecting"}
    BY DEF ControlInv, TypeOK, ClientTypeOK, Call
  <2> QED BY <1>4, <2>1 DEF Quiet, Silent
<1>6. Found'
  BY <1>1, <1>5 DEF Found
<1>7. CASE call.at = "idle" /\ ~Open
  BY <1>1, <1>3, <1>6, <1>7 DEF Quiet
<1>8. CASE call.at = "waiting"
  <2>1. /\ running => due = <<>>
        /\ Outputs(channel)
        /\ due = <<>> \/ \E p \in LastReply : due = <<p>>
    BY <1>4, <1>8 DEF Quiet, OneReply
  <2>2. ASSUME Outputs(channel') PROVE EndsInReply(channel')
    BY <2>2 DEF Outputs, EndsInReply
  <2>3. ASSUME NEW t \in Thread, HitTrap(t) \/ Execute(t) \/ Interfere(t) PROVE OneReply'
    <3>1. UNCHANGED <<running, due, channel>>
      BY <2>3 DEF HitTrap, Execute, Interfere
    <3> QED BY <2>1, <2>2, <3>1 DEF OneReply
  <2>4. ASSUME Stop PROVE OneReply'
    <3>1. ~running' /\ channel' = channel
      BY <2>4 DEF Stop
    <3>2. PICK h \in Unreported : due' \in {<<Stopped(thread[h].hit)>>, <<>>}
      BY <2>4 DEF Stop
    <3>3. thread[h].hit \in Reason \ {"none"}
      BY <1>2, <3>2 DEF Unreported, States, ThreadState
    <3>4. Stopped(thread[h].hit) \in LastReply
      BY <3>3 DEF LastReply
    <3>5. due' = <<>> \/ \E p \in LastReply : due' = <<p>>
      BY <3>2, <3>4
    <3> QED BY <2>1, <2>2, <3>1, <3>5 DEF OneReply
  <2>5. ASSUME Exits PROVE OneReply'
    <3>1. ~running' /\ channel' = channel /\ due' = <<ExitPacket>>
      BY <2>5 DEF Exits
    <3>2. ExitPacket \in LastReply
      BY DEF LastReply
    <3> QED BY <2>1, <2>2, <3>1, <3>2 DEF OneReply
  <2>6. ASSUME Writes PROVE OneReply'
    <3>1. running' = running /\ due' = due /\ channel' = Append(channel, Output)
      BY <2>6 DEF Writes
    <3>2. Outputs(channel')
      <4>1. /\ Len(channel') = Len(channel) + 1 /\ channel' \in Seq(Packet)
            /\ \A i \in 1..Len(channel) : channel'[i] = channel[i]
            /\ channel'[Len(channel) + 1] = Output
        BY <1>2, <3>1, PacketsAre, AppendProperties
      <4>2. DOMAIN channel' = 1..(Len(channel) + 1) /\ DOMAIN channel = 1..Len(channel) /\ Len(channel) \in Nat
        BY <1>2, <4>1, ElementsOf
      <4> QED BY <2>1, <4>1, <4>2 DEF Outputs
    <3> QED BY <2>1, <2>2, <3>1, <3>2 DEF OneReply
  <2>7. ASSUME SendReply PROVE OneReply'
    <3>1. due # <<>> /\ channel' = channel \o due /\ due' = <<>> /\ running' = running
      BY <2>7 DEF SendReply
    <3>2. PICK p \in LastReply : due = <<p>>
      BY <2>1, <3>1
    <3>3. Len(due) = 1 /\ due[1] = p
      BY <3>2
    <3>4. /\ Len(channel') = Len(channel) + 1 /\ channel' \in Seq(Packet)
          /\ \A i \in 1..(Len(channel) + 1) : channel'[i] = IF i <= Len(channel) THEN channel[i] ELSE due[i - Len(channel)]
      <4>1. /\ Len(channel') = Len(channel) + Len(due) /\ channel' \in Seq(Packet)
            /\ \A i \in 1..(Len(channel) + Len(due)) :
                 channel'[i] = IF i <= Len(channel) THEN channel[i] ELSE due[i - Len(channel)]
        BY <1>2, <3>1, ConcatProperties
      <4> QED BY <3>3, <4>1
    <3>5. DOMAIN channel' = 1..(Len(channel) + 1) /\ DOMAIN channel = 1..Len(channel) /\ Len(channel) \in Nat
      BY <1>2, <3>4, ElementsOf
    <3>6. EndsInReply(channel')
      BY <2>1, <3>2, <3>3, <3>4, <3>5 DEF EndsInReply, Outputs
    <3> QED BY <2>1, <3>1, <3>6 DEF OneReply
  <2>8. OneReply'
    BY <1>1, <2>3, <2>4, <2>5, <2>6, <2>7 DEF ServerNext
  <2> QED BY <1>1, <1>3, <1>6, <1>8, <2>8 DEF Quiet
<1> QED BY <1>5, <1>7, <1>8

\* A read that is not output only takes all that there is.
LEMMA RepliesQuiet ==
  ASSUME ControlInv, OnlyLiving, OneReply, NEW packets \in Packets, Read(packets), HandleReplies(packets)
  PROVE  Quiet' /\ Found'
<1>1. /\ channel \in Seq(Packet) /\ Len(channel) \in Nat /\ DOMAIN channel = 1..Len(channel)
      /\ ClientTypeOK /\ ServerTypeOK /\ call \in Call
  BY ElementsOf DEF ControlInv, TypeOK, ServerTypeOK, ClientTypeOK
<1>2. /\ packets \in Seq(Packet) /\ Len(packets) \in 1..Len(channel)
      /\ \A i \in 1..Len(packets) : packets[i] = channel[i]
      /\ channel' \in Seq(Packet) /\ Len(channel') = Len(channel) - Len(packets)
      /\ \A i \in 1..Len(channel') : channel'[i] = channel[Len(packets) + i]
      /\ UNCHANGED <<thread, text, running, due>>
  BY <1>1, ReadIs
<1>3. DOMAIN channel' = 1..Len(channel') /\ DOMAIN packets = 1..Len(packets)
  BY <1>2, ElementsOf
<1>4. ASSUME NEW k \in DOMAIN packets, packets[k] # Output PROVE Silent' /\ channel' = <<>>
  <2>1. k \in 1..Len(channel) /\ channel[k] # Output
    BY <1>2, <1>3, <1>4
  <2>2. k = Len(channel)
    BY <1>1, <2>1 DEF OneReply, EndsInReply
  <2>3. Len(channel') = 0
    <3>1. Len(packets) \in 1..Len(channel) /\ Len(channel') = Len(channel) - Len(packets)
      BY <1>2
    <3>2. k \in 1..Len(packets)
      BY <1>3
    <3> QED BY <1>1, <2>2, <3>1, <3>2
  <2>4. ~running /\ due = <<>>
    BY <1>1, <2>1 DEF OneReply, Outputs
  <2> QED BY <1>2, <2>3, <2>4, ElementsOf DEF Silent
<1>5. CASE WaitsStill(packets)
  <2>1. call' = [Idle EXCEPT !.at = "waiting", !.step = call.step]
    BY <1>5 DEF WaitsStill
  <2>2. call'.at = "waiting"
    BY <2>1 DEF Idle
  <2>3. ASSUME NEW i \in DOMAIN channel'
        PROVE  /\ Len(packets) + i \in DOMAIN channel /\ channel'[i] = channel[Len(packets) + i]
               /\ Len(packets) + i = Len(channel) => i = Len(channel')
    BY <1>1, <1>2, <1>3, <2>3
  <2>4. Outputs(channel) => Outputs(channel')
    BY <2>3 DEF Outputs
  <2>5. EndsInReply(channel')
    BY <2>3 DEF OneReply, EndsInReply
  <2>6. OneReply'
    BY <1>2, <2>4, <2>5 DEF OneReply
  <2> QED BY <2>2, <2>6 DEF Quiet, Found
<1>6. CASE HasExited(packets)
  <2>1. ~Open' /\ call'.at = "idle"
    BY <1>1, <1>6 DEF HasExited, Open, ClientTypeOK, Idle
  <2> QED BY <2>1 DEF Quiet, Found
<1>7. CASE HasFailed(packets)
  <2>1. PICK k \in DOMAIN packets : First(packets, k)
    BY <1>7 DEF HasFailed
  <2>2. Silent' /\ channel' = <<>>
    BY <1>4, <2>1 DEF First
  <2>3. call'.at = "idle" /\ event'.type = "error"
    BY <1>7 DEF HasFailed, Idle, Failed
  <2> QED BY <2>2, <2>3 DEF Quiet, Found
<1>8. ASSUME NEW r \in Reason, Selects(packets, r) PROVE Quiet' /\ Found'
  <2>1. PICK k \in DOMAIN packets : First(packets, k)
    BY <1>8 DEF Selects
  <2>2. Silent' /\ channel' = <<>>
    BY <1>4, <2>1 DEF First
  <2>3. call' = [Idle EXCEPT !.at = "selecting", !.step = call.step, !.header = r, !.todo = Living]
    BY <1>8 DEF Selects
  <2>4. call'.at = "selecting" /\ call'.found = <<>> /\ call'.todo = Living /\ ~call'.asked
    BY <2>3 DEF Idle
  <2>5. ASSUME NEW t \in TrapStopped' PROVE t \in Elements(Living)
    <3>1. t \in Thread /\ thread[t].stop = "trap"
      BY <1>2, <2>5 DEF TrapStopped
    <3> QED BY <3>1 DEF OnlyLiving, Lives, Elements
  <2>6. DOMAIN <<>> = {}
    OBVIOUS
  <2>7. Found'
    BY <2>4, <2>5, <2>6 DEF Found
  <2> QED BY <2>2, <2>4, <2>7 DEF Quiet
<1> QED BY <1>2, <1>5, <1>6, <1>7, <1>8, HandleRepliesIs

LEMMA WaitsQuiet ==
  ASSUME ControlInv, Prompt, Quiet, OnlyLiving, Found, happens' = happens, Waits
  PROVE  Quiet' /\ OnlyLiving' /\ Found'
<1>1. /\ channel \in Seq(Packet) /\ thread \in States /\ ClientTypeOK /\ ServerTypeOK /\ call \in Call /\ Asks
      /\ call.todo \in Seq(Thread) /\ call.found \in Seq(Thread)
  BY DEF ControlInv, TypeOK, ServerTypeOK, ClientTypeOK, States, CallsStep, Call
<1>2. ASSUME thread' = thread PROVE OnlyLiving'
  BY <1>2 DEF OnlyLiving, Lives, Living
<1>3. ASSUME NEW th \in States, th = thread, NEW mode \in [Thread -> {"held", "runs", "steps"}], Resume(th, mode)
      PROVE  OnlyLiving' /\ running' = TRUE /\ UNCHANGED <<due, channel>>
  <2>1. \A t \in Thread : thread'[t].stop = "none" /\ thread'[t].hit = thread[t].hit
    BY <1>3, ResumeIs
  <2> QED BY <1>3, <2>1 DEF OnlyLiving, Lives, Living, Resume
\* What is asked for is the first of the threads to be asked for.
<1>4. ASSUME call.at \in {"checking", "selecting"}, call.asked
      PROVE  /\ Silent /\ channel = <<Stopped(thread[Head(call.todo)].stop)>>
             /\ Head(call.todo) \in Thread /\ thread[Head(call.todo)].stop \in Reason
             /\ \A t \in Elements(call.todo) : t = Head(call.todo) \/ t \in Elements(Tail(call.todo))
  <2>1. call.todo # <<>>
    BY <1>1, <1>4 DEF Asks
  <2>2. /\ Head(call.todo) = call.todo[1] /\ Head(call.todo) \in Thread /\ Len(call.todo) \in Nat
        /\ Tail(call.todo) \in Seq(Thread) /\ Len(Tail(call.todo)) = Len(call.todo) - 1
        /\ \A i \in 1..(Len(call.todo) - 1) : Tail(call.todo)[i] = call.todo[i + 1]
    BY <1>1, <2>1, FirstOf
  <2>3. DOMAIN call.todo = 1..Len(call.todo) /\ DOMAIN Tail(call.todo) = 1..(Len(call.todo) - 1)
    BY <1>1, <2>2, ElementsOf
  <2>4. ASSUME NEW i \in DOMAIN call.todo, i # 1 PROVE call.todo[i] \in Elements(Tail(call.todo))
    <3> DEFINE j == i - 1
    <3>1. j \in DOMAIN Tail(call.todo) /\ Tail(call.todo)[j] = call.todo[i]
      BY <2>2, <2>3, <2>4
    <3> HIDE DEF j
    <3> QED BY <3>1 DEF Elements
  <2>5. Silent /\ channel = <<Stopped(thread[call.todo[1]].stop)>>
    BY <1>4 DEF Quiet
  <2>6. thread[Head(call.todo)].stop \in Reason
    BY <1>1, <2>2 DEF States, ThreadState
  <2> QED BY <2>2, <2>4, <2>5, <2>6 DEF Elements
<1>5. ASSUME NEW p, channel = <<p>>, NEW packets \in Packets, Read(packets)
      PROVE  /\ channel' = <<>> /\ Head(packets) = p /\ packets = <<p>>
             /\ UNCHANGED <<thread, text, running, due>>
  <2>1. /\ packets \in Seq(Packet) /\ Len(packets) \in 1..Len(channel)
        /\ \A i \in 1..Len(packets) : packets[i] = channel[i]
        /\ packets # <<>> /\ Head(packets) = channel[1]
        /\ channel' \in Seq(Packet) /\ Len(channel') = Len(channel) - Len(packets)
        /\ UNCHANGED <<thread, text, running, due>>
    BY <1>1, <1>5, ReadIs
  <2>2. Len(channel) = 1 /\ channel[1] = p
    BY <1>5
  <2>3. Len(packets) = 1 /\ Len(channel') = 0
    BY <2>1, <2>2
  <2>4. channel' = <<>>
    BY <2>1, <2>3, ElementsOf
  <2>5. Len(packets) = Len(channel) /\ \A i \in 1..Len(packets) : packets[i] = channel[i]
    BY <2>1, <2>2, <2>3
  <2>6. packets = channel
    BY <1>1, <2>1, <2>5, SeqEqual
  <2> QED BY <1>5, <2>1, <2>2, <2>4, <2>6
<1>6. CASE Receive
  <2>1. PICK packets \in Packets : Read(packets) /\ HandleReplies(packets)
    BY <1>6 DEF Receive
  <2>2. OneReply
    BY <1>6 DEF Receive, Quiet
  <2>3. thread' = thread
    BY <1>1, <2>1, ReadIs
  <2> QED BY <1>2, <2>1, <2>2, <2>3, RepliesQuiet
<1>7. CASE Timeout
  <2>1. /\ ~running /\ due = <<>> /\ channel = <<>> /\ call' = [call EXCEPT !.at = "listing"]
        /\ channel' = Append(channel, Threads) /\ UNCHANGED <<thread, text, running, due>>
    BY <1>7 DEF Timeout, Answer, Prompt
  <2>2. call'.at = "listing"
    BY <1>1, <2>1 DEF Call
  <2>3. channel' = <<Threads>>
    BY <2>1
  <2> QED BY <1>2, <2>1, <2>2, <2>3 DEF Quiet, Found, Silent
<1>8. CASE ReceiveThreads
  <2>1. PICK packets \in Packets :
          /\ Read(packets)
          /\ IF packets = <<Threads>>
               THEN call' = [call EXCEPT !.at = "checking", !.todo = Living] /\ UNCHANGED event
               ELSE Return(Failed)
    BY <1>8 DEF ReceiveThreads
  <2>2. call.at = "listing" /\ ~call.asked
    BY <1>1, <1>8 DEF ReceiveThreads, Asks
  <2>3. Silent /\ channel = <<Threads>>
    BY <2>2 DEF Quiet
  <2>4. channel' = <<>> /\ packets = <<Threads>> /\ UNCHANGED <<thread, text, running, due>>
    BY <1>5, <2>1, <2>3
  <2>5. call' = [call EXCEPT !.at = "checking", !.todo = Living]
    BY <2>1, <2>4
  <2>6. call'.at = "checking" /\ ~call'.asked
    BY <1>1, <2>2, <2>5 DEF Call
  <2> QED BY <1>2, <2>3, <2>4, <2>6 DEF Quiet, Found, Silent
<1>9. CASE Ask
  <2>1. /\ call.at \in {"checking", "selecting"} /\ call.todo # <<>> /\ ~call.asked
        /\ call' = [call EXCEPT !.asked = TRUE] /\ UNCHANGED <<link, event>>
        /\ channel' = Append(channel, Stopped(thread[Head(call.todo)].stop))
        /\ UNCHANGED <<thread, text, running, due>>
    BY <1>9 DEF Ask, Answer
  <2>2. Silent /\ channel = <<>>
    BY <2>1 DEF Quiet
  <2>3. call'.at = call.at /\ call'.asked /\ call'.todo = call.todo /\ call'.found = call.found
    BY <1>1, <2>1 DEF Call
  <2>4. Head(call.todo) = call.todo[1]
    BY <1>1, <2>1, FirstOf
  <2>5. channel' = <<Stopped(thread'[call'.todo[1]].stop)>>
    BY <2>1, <2>2, <2>3, <2>4
  <2>6. Quiet'
    BY <2>1, <2>2, <2>3, <2>5 DEF Quiet, Silent
  <2>7. Found'
    BY <2>1, <2>3 DEF Found, TrapStopped
  <2> QED BY <1>2, <2>1, <2>6, <2>7
<1>10. ASSUME call.asked
       PROVE  /\ Answered.at = call.at /\ ~Answered.asked /\ Answered.todo = Tail(call.todo)
              /\ Answered.found = call.found
              /\ Answered \in Call
  <2>1. Tail(call.todo) \in Seq(Thread)
    BY <1>1, <1>10, FirstOf DEF Asks
  <2> QED BY <1>1, <2>1 DEF Answered, Call
<1>11. CASE CheckStopReply
  <2>1. PICK packets \in Packets :
          /\ Read(packets)
          /\ IF Head(packets) = Stopped("none")
               THEN call' = Answered /\ UNCHANGED <<link, event, owed>>
               ELSE HandleReplies(packets)
    BY <1>11 DEF CheckStopReply
  <2>2. call.at = "checking" /\ call.asked
    BY <1>11 DEF CheckStopReply
  <2> DEFINE r == thread[Head(call.todo)].stop
  <2>3. Silent /\ channel = <<Stopped(r)>> /\ r \in Reason
    BY <1>4, <2>2
  <2> HIDE DEF r
  <2>4. channel' = <<>> /\ Head(packets) = Stopped(r) /\ UNCHANGED <<thread, text, running, due>>
    BY <1>5, <2>1, <2>3
  <2>5. CASE Head(packets) = Stopped("none")
    <3>1. call' = Answered
      BY <2>1, <2>5
    <3> QED BY <1>2, <1>10, <2>2, <2>3, <2>4, <3>1 DEF Quiet, Found, Silent
  <2>6. CASE Head(packets) # Stopped("none")
    <3>1. Stopped(r) \in LastReply
      BY <2>3, <2>4, <2>6 DEF LastReply
    <3>2. DOMAIN channel = {1} /\ Len(channel) = 1 /\ channel[1] = Stopped(r)
      BY <2>3
    <3>3. EndsInReply(channel)
      BY <3>1, <3>2 DEF EndsInReply
    <3>4. OneReply
      BY <2>3, <3>3 DEF OneReply, Silent
    <3> QED BY <1>2, <2>1, <2>4, <2>6, <3>4, RepliesQuiet
  <2> QED BY <2>5, <2>6
<1>12. ASSUME call.at \in {"checking", "selecting"}, call.todo = <<>> PROVE Silent /\ channel = <<>>
  BY <1>1, <1>12 DEF Quiet, Asks
<1>13. CASE NoneStopped
  <2>1. /\ call.at = "checking" /\ call.todo = <<>> /\ call' = [call EXCEPT !.at = "waiting"]
        /\ UNCHANGED <<thread, text, running, due, channel>>
    BY <1>13 DEF NoneStopped, server
  <2>2. Silent /\ channel = <<>> /\ DOMAIN <<>> = {}
    BY <1>12, <2>1
  <2>3. call'.at = "waiting"
    BY <1>1, <2>1 DEF Call
  <2>4. OneReply'
    BY <2>1, <2>2 DEF OneReply, Silent, Outputs, EndsInReply
  <2> QED BY <1>2, <2>1, <2>3, <2>4 DEF Quiet, Found
<1>14. CASE SelectTrappedThread
  <2>1. PICK packets \in Packets :
          /\ Read(packets)
          /\ call' = IF Head(packets) = Stopped("trap")
                       THEN [Answered EXCEPT !.found = Append(Answered.found, Head(call.todo))] ELSE Answered
    BY <1>14 DEF SelectTrappedThread
  <2>2. call.at = "selecting" /\ call.asked
    BY <1>14 DEF SelectTrappedThread
  <2> DEFINE h == Head(call.todo)
             r == thread[h].stop
  <2>3. /\ Silent /\ channel = <<Stopped(r)>> /\ h \in Thread
        /\ \A t \in Elements(call.todo) : t = h \/ t \in Elements(Tail(call.todo))
    BY <1>4, <2>2
  <2>4. channel' = <<>> /\ Head(packets) = Stopped(r) /\ UNCHANGED <<thread, text, running, due>>
    BY <1>5, <2>1, <2>3
  <2>5. Stopped(r) = Stopped("trap") <=> r = "trap"
    BY DEF Stopped
  <2> HIDE DEF h
  <2>6. /\ \A i \in DOMAIN call.found : thread[call.found[i]].stop = "trap"
        /\ \A t \in TrapStopped : t \in Elements(call.found) \cup Elements(call.todo)
    BY <2>2 DEF Found
  <2>7. CASE r = "trap"
    <3>1. call' = [Answered EXCEPT !.found = Append(call.found, h)]
      BY <1>10, <2>1, <2>2, <2>4, <2>5, <2>7 DEF h
    <3>2. /\ call'.at = "selecting" /\ ~call'.asked /\ call'.todo = Tail(call.todo)
          /\ call'.found = Append(call.found, h)
      BY <1>10, <2>2, <3>1 DEF Call
    <3>3. /\ Len(call'.found) = Len(call.found) + 1 /\ call'.found \in Seq(Thread)
          /\ \A i \in 1..Len(call.found) : call'.found[i] = call.found[i]
          /\ call'.found[Len(call.found) + 1] = h
      BY <1>1, <2>3, <3>2, AppendProperties
    <3>4. /\ DOMAIN call'.found = 1..(Len(call.found) + 1) /\ DOMAIN call.found = 1..Len(call.found)
          /\ Len(call.found) \in Nat
      BY <1>1, <3>3, ElementsOf
    <3>5. \A i \in DOMAIN call'.found : thread'[call'.found[i]].stop = "trap"
      BY <2>4, <2>6, <2>7, <3>3, <3>4
    <3>6. \A t \in Elements(call.found) \cup {h} : t \in Elements(call'.found)
      <4>1. h \in Elements(call'.found)
        BY <3>3, <3>4 DEF Elements
      <4>2. ASSUME NEW i \in DOMAIN call.found PROVE call.found[i] \in Elements(call'.found)
        BY <3>3, <3>4, <4>2 DEF Elements
      <4> QED BY <4>1, <4>2 DEF Elements
    <3>7. TrapStopped' = TrapStopped
      BY <2>4 DEF TrapStopped
    <3>8. \A t \in TrapStopped : t \in Elements(call'.found) \cup Elements(call'.todo)
      BY <2>3, <2>6, <3>2, <3>6
    <3>9. Found'
      BY <3>2, <3>5, <3>7, <3>8 DEF Found
    <3> QED BY <1>2, <2>3, <2>4, <3>2, <3>9 DEF Quiet, Silent
  <2>8. CASE r # "trap"
    <3>1. call' = Answered
      BY <2>1, <2>4, <2>5, <2>8
    <3>2. /\ call'.at = "selecting" /\ ~call'.asked /\ call'.todo = Tail(call.todo) /\ call'.found = call.found
      BY <1>10, <2>2, <3>1
    <3>3. TrapStopped' = TrapStopped /\ h \notin TrapStopped
      BY <2>4, <2>8 DEF TrapStopped
    <3>4. \A t \in TrapStopped : t \in Elements(call'.found) \cup Elements(call'.todo)
      BY <2>3, <2>6, <3>2, <3>3
    <3>5. Found'
      BY <2>4, <2>6, <3>2, <3>3, <3>4 DEF Found
    <3> QED BY <1>2, <2>3, <2>4, <3>2, <3>5 DEF Quiet, Silent
  <2> QED BY <2>7, <2>8
<1>15. CASE NoneTrapped
  <2> DEFINE mode == [t \in Thread |-> "runs"]
  <2>1. call.at = "selecting" /\ call.todo = <<>> /\ Resume(thread, mode)
    BY <1>15 DEF NoneTrapped, Selected, Continue
  <2>2. mode \in [Thread -> {"held", "runs", "steps"}]
    OBVIOUS
  <2> HIDE DEF mode
  <2>3. OnlyLiving' /\ UNCHANGED <<due, channel>>
    BY <1>1, <1>3, <2>1, <2>2
  <2>4. Silent /\ channel = <<>> /\ DOMAIN <<>> = {}
    BY <1>12, <2>1
  <2>5. OneReply'
    BY <2>3, <2>4 DEF OneReply, Silent, Outputs, EndsInReply
  <2>6. call' = [Idle EXCEPT !.at = "waiting", !.step = call.step]
    BY <1>15 DEF NoneTrapped
  <2>7. call'.at = "waiting"
    BY <2>6 DEF Idle
  <2> QED BY <2>3, <2>5, <2>7 DEF Quiet, Found
<1>16. CASE SomeTrapped
  <2>1. /\ call.at = "selecting" /\ call.todo = <<>> /\ call.found # <<>> /\ call' = Idle
        /\ event' \in {Trapped(call.found), Unspecified(call.found)}
        /\ UNCHANGED <<thread, text, running, due, channel, link>>
    BY <1>16 DEF SomeTrapped, Selected, Return, server
  <2>2. Silent /\ channel = <<>>
    BY <1>12, <2>1
  <2>3. call'.at = "idle" /\ event'.threads = call.found
    BY <2>1 DEF Idle, Trapped, Unspecified
  <2>4. Elements(call.todo) = {}
    BY <2>1 DEF Elements
  <2>5. Elements(call.found) = TrapStopped
    <3>1. \A i \in DOMAIN call.found : call.found[i] \in Thread /\ thread[call.found[i]].stop = "trap"
      BY <1>1, <2>1, ElementsOf DEF Found
    <3>2. \A t \in TrapStopped : t \in Elements(call.found)
      BY <2>1, <2>4 DEF Found
    <3> QED BY <3>1, <3>2 DEF Elements, TrapStopped
  <2>6. TrapStopped' = TrapStopped
    BY <2>1 DEF TrapStopped
  <2>7. Found'
    BY <2>3, <2>5, <2>6 DEF Found
  <2> QED BY <1>2, <2>1, <2>2, <2>3, <2>7 DEF Quiet, Silent
<1> QED BY <1>6, <1>7, <1>8, <1>9, <1>11, <1>13, <1>14, <1>15, <1>16 DEF Waits

LEMMA QuietStays ==
  ASSUME ControlInv, QuietInv, [ProcessNext]_processVars
  PROVE  QuietInv'
<1>1. ControlInv'
  BY ControlStays
<1>2. SUFFICES ASSUME Prompt' PROVE Quiet' /\ OnlyLiving' /\ Found'
  BY DEF QuietInv
<1>3. happens' = happens /\ Prompt
  BY <1>2 DEF processVars, ProcessNext, Prompt
<1>4. Quiet /\ OnlyLiving /\ Found
  BY <1>3 DEF QuietInv
<1>5. CASE UNCHANGED processVars
  <2>1. Rests
    BY <1>5 DEF Rests, processVars, server, client, Open
  <2> QED BY <1>1, <1>3, <1>4, <2>1, OthersQuiet
<1>6. CASE ProcessNext
  BY <1>1, <1>3, <1>4, <1>6, OthersRest, OthersQuiet, ServerQuiet, WaitsQuiet DEF ProcessNext, ClientWaits
<1> QED BY <1>5, <1>6

LEMMA QuietBegins ==
  ProcessInit => QuietInv
<1> SUFFICES ASSUME ProcessInit PROVE Quiet /\ OnlyLiving /\ Found
  BY DEF QuietInv
<1>1. \A t \in Thread : thread[t].hit = "none" /\ thread[t].stop = "none"
  BY DEF ProcessInit, ServerInit
<1>2. call.at = "idle" /\ event.type = "none" /\ due = <<>> /\ channel = <<>> /\ running = FALSE
  BY DEF ProcessInit, ServerInit, ClientInit, Idle, NoEvent
<1> QED BY <1>1, <1>2 DEF Quiet, OnlyLiving, Found, Silent

\* As long as no timeout passes before something has stopped, an event names all the
\* threads that have stopped at a trap or after a step, and no others, also when
\* the stop reply was lost (selectTrappedThreads, checkStopReply).
THEOREM NamesTrappedCorrect == ProcessSpec => []EventNamesTrapped
<1>1. QuietInv => EventNamesTrapped
  BY DEF QuietInv, Found, EventNamesTrapped, NamesTrapped, Tracing, Open, Elements, TrapStopped, Idle
<1> QED BY <1>1, QuietBegins, QuietStays, ControlBegins, ControlStays, PTL DEF ProcessSpec

-----------------------------------------------------------------------------
(* What the steps do to threads and frames.                                *)

\* Only the fields of position are different.
Moved(t, place) ==
  /\ thread'[t].pc = place.pc /\ thread'[t].past = place.past /\ thread'[t].inside = place.inside
Still(t) ==
  /\ thread'[t].pc = thread[t].pc /\ thread'[t].past = thread[t].past /\ thread'[t].inside = thread[t].inside

LEMMA StepDoes ==
  ASSUME thread \in States, NEW t \in Thread, NEW place \in Place, StepAndWait(PutAt(t, place), t)
  PROVE  /\ thread' \in States /\ running' = TRUE
         /\ Moved(t, place)
         /\ thread'[t].mode = IF Unreported # {} /\ "overtaking" \notin happens THEN "held" ELSE "steps"
         /\ \A u \in Thread : u # t => Still(u) /\ thread'[u].mode = "held"
         /\ \A u \in Thread : /\ thread'[u].stop = "none" /\ thread'[u].hit = thread[u].hit
                              /\ thread'[u].steps = thread[u].steps
<1> DEFINE mode == [u \in Thread |-> IF u = t THEN "steps" ELSE "held"]
           th == PutAt(t, place)
<1>1. Resume(th, mode)
  BY DEF StepAndWait
<1>2. mode \in [Thread -> {"held", "runs", "steps"}]
  OBVIOUS
<1>3. \A u \in Thread : mode[u] = IF u = t THEN "steps" ELSE "held"
  OBVIOUS
<1>4. /\ th \in States
      /\ \A u \in Thread : u # t => th[u] = thread[u]
      /\ th[t] = [thread[t] EXCEPT !.pc = place.pc, !.past = place.past, !.inside = place.inside]
  BY PutAtIs
<1> HIDE DEF mode, th
<1>5. /\ thread' \in States
      /\ \A u \in Thread :
           /\ thread'[u].stop = "none" /\ thread'[u].hit = th[u].hit /\ thread'[u].steps = th[u].steps
           /\ thread'[u].pc = th[u].pc /\ thread'[u].past = th[u].past /\ thread'[u].inside = th[u].inside
           /\ thread'[u].mode = IF Unreported # {} /\ "overtaking" \notin happens THEN "held" ELSE mode[u]
  BY <1>1, <1>2, <1>4, ResumeIs
<1>6. thread[t] \in ThreadState
  BY DEF States
<1>7. /\ th[t].pc = place.pc /\ th[t].past = place.past /\ th[t].inside = place.inside
      /\ th[t].hit = thread[t].hit /\ th[t].steps = thread[t].steps
  BY <1>4, <1>6 DEF ThreadState
<1>8. running' = TRUE
  BY <1>1 DEF Resume
<1>9. \A u \in Thread : th[u].hit = thread[u].hit /\ th[u].steps = thread[u].steps
  BY <1>4, <1>7
<1>10. ASSUME NEW u \in Thread, u # t PROVE Still(u) /\ thread'[u].mode = "held"
  <2>1. th[u] = thread[u] /\ mode[u] = "held"
    BY <1>3, <1>4, <1>10
  <2> QED BY <1>5, <2>1 DEF Still
<1>11. Moved(t, place) /\ mode[t] = "steps"
  BY <1>3, <1>5, <1>7 DEF Moved
<1> QED BY <1>5, <1>8, <1>9, <1>10, <1>11

LEMMA ContinueDoes ==
  ASSUME thread \in States, NEW signal, Continue(thread, signal)
  PROVE  /\ thread' \in States /\ running' = TRUE
         /\ \A u \in Thread :
              /\ Still(u) /\ thread'[u].stop = "none" /\ thread'[u].hit = thread[u].hit
              /\ thread'[u].steps = thread[u].steps
              /\ thread'[u].mode = IF Unreported # {} /\ "overtaking" \notin happens THEN "held" ELSE "runs"
<1> DEFINE mode == [t \in Thread |-> "runs"]
<1>1. Resume(thread, mode)
  BY DEF Continue
<1>2. mode \in [Thread -> {"held", "runs", "steps"}] /\ \A u \in Thread : mode[u] = "runs"
  OBVIOUS
<1> HIDE DEF mode
<1>3. running' = TRUE
  BY <1>1 DEF Resume
<1> QED BY <1>1, <1>2, <1>3, ResumeIs DEF Still

LEMMA NoStepsDoes ==
  ASSUME thread \in States, NEW t \in Thread, NoSteps(t)
  PROVE  /\ thread' \in States /\ thread'[t].steps = 0
         /\ \A u \in Thread : Still(u) /\ thread'[u].mode = thread[u].mode /\ thread'[u].hit = thread[u].hit
                              /\ thread'[u].stop = thread[u].stop
         /\ \A u \in Thread : u # t => thread'[u] = thread[u]
<1>1. /\ thread' \in States
      /\ thread'[t] = [thread[t] EXCEPT !.steps = 0]
      /\ \A u \in Thread : u # t => thread'[u] = thread[u]
  BY NoStepsIs
<1>2. thread[t] \in ThreadState
  BY DEF States
<1>3. /\ thread'[t].steps = 0 /\ Still(t) /\ thread'[t].mode = thread[t].mode
      /\ thread'[t].hit = thread[t].hit /\ thread'[t].stop = thread[t].stop
  BY <1>1, <1>2 DEF Still, ThreadState
<1> QED BY <1>1, <1>3 DEF Still

LEMMA PutBackDoes ==
  ASSUME thread \in States, NEW t \in Thread, NEW place \in Place, thread' = PutAt(t, place)
  PROVE  /\ thread' \in States /\ Moved(t, place)
         /\ \A u \in Thread : u # t => thread'[u] = thread[u]
         /\ \A u \in Thread : /\ thread'[u].mode = thread[u].mode /\ thread'[u].hit = thread[u].hit
                              /\ thread'[u].stop = thread[u].stop /\ thread'[u].steps = thread[u].steps
<1>1. /\ thread' \in States
      /\ \A u \in Thread : u # t => thread'[u] = thread[u]
      /\ thread'[t] = [thread[t] EXCEPT !.pc = place.pc, !.past = place.past, !.inside = place.inside]
  <2>1. /\ PutAt(t, place) \in States
        /\ \A u \in Thread : u # t => PutAt(t, place)[u] = thread[u]
        /\ PutAt(t, place)[t] = [thread[t] EXCEPT !.pc = place.pc, !.past = place.past, !.inside = place.inside]
    BY PutAtIs
  <2> QED BY <2>1
<1>2. thread[t] \in ThreadState
  BY DEF States
<1>3. /\ Moved(t, place) /\ thread'[t].mode = thread[t].mode /\ thread'[t].steps = thread[t].steps
      /\ thread'[t].hit = thread[t].hit /\ thread'[t].stop = thread[t].stop
  BY <1>1, <1>2 DEF Moved, ThreadState
<1> QED BY <1>1, <1>3

\* What the process does with one thread while it runs.
OneMoves(t) ==
  /\ Executes(t)
  /\ \A u \in Thread : u # t => thread'[u] = thread[u]
  /\ thread'[t].stop = thread[t].stop /\ thread' \in States
  /\ UNCHANGED <<text, running, due, channel>>

LEMMA HitTrapDoes ==
  ASSUME thread \in States, NEW t \in Thread, HitTrap(t)
  PROVE  /\ OneMoves(t) /\ thread[t].pc \in Addr /\ text[thread[t].pc] = "trap"
         /\ thread'[t].pc = thread[t].pc /\ thread'[t].past /\ thread'[t].inside = thread[t].inside
         /\ thread'[t].mode = "held" /\ thread'[t].hit = "trap" /\ thread'[t].steps = thread[t].steps
<1> DEFINE r == [Halt(thread[t], "trap") EXCEPT !.past = TRUE]
<1>1. thread' = [thread EXCEPT ![t] = r]
  BY DEF HitTrap, States
<1>2. thread[t] \in ThreadState
  BY DEF States
<1>3. Halt(thread[t], "trap") \in ThreadState /\ Halt(thread[t], "trap") = [thread[t] EXCEPT !.mode = "held", !.hit = "trap"]
  BY <1>2, HaltIs DEF Reason
<1>4. /\ r \in ThreadState /\ r.pc = thread[t].pc /\ r.past /\ r.inside = thread[t].inside
      /\ r.mode = "held" /\ r.hit = "trap" /\ r.steps = thread[t].steps /\ r.stop = thread[t].stop
  BY <1>2, <1>3 DEF ThreadState
<1> HIDE DEF r
<1>5. thread' \in States /\ thread'[t] = r /\ \A u \in Thread : u # t => thread'[u] = thread[u]
  BY <1>1, <1>4 DEF States
<1> QED BY <1>4, <1>5 DEF HitTrap, OneMoves

LEMMA ExecuteDoes ==
  ASSUME thread \in States, NEW t \in Thread, Execute(t)
  PROVE  /\ OneMoves(t) /\ (thread[t].pc \in Addr => text[thread[t].pc] = "org")
         /\ thread'[t].pc \in Following(thread[t].pc)
         /\ thread'[t].inside = thread[t].inside /\ thread'[t].past = thread[t].past
         /\ IF thread[t].mode = "steps"
              THEN /\ thread'[t].mode = "held" /\ thread'[t].hit = "trap"
                   /\ thread'[t].steps = IF thread[t].steps = 2 THEN 2 ELSE thread[t].steps + 1
              ELSE /\ thread'[t].mode = thread[t].mode /\ thread'[t].hit = "none"
                   /\ thread'[t].steps = thread[t].steps
<1>1. PICK a \in Following(thread[t].pc) :
        LET r == [thread[t] EXCEPT !.pc = a]
            n == IF r.steps = 2 THEN 2 ELSE r.steps + 1
        IN  thread' = [thread EXCEPT ![t] =
                         IF r.mode = "steps" THEN [Halt(r, "trap") EXCEPT !.steps = n] ELSE r]
  BY DEF Execute
<1> DEFINE r == [thread[t] EXCEPT !.pc = a]
           n == IF r.steps = 2 THEN 2 ELSE r.steps + 1
           q == IF r.mode = "steps" THEN [Halt(r, "trap") EXCEPT !.steps = n] ELSE r
<1>2. thread[t] \in ThreadState
  BY DEF States
<1>3. a \in Addr \cup {Helper, HelperEnd}
  BY <1>2, DebugserverAssumption DEF Following, ThreadState
<1>4. /\ r \in ThreadState /\ r.pc = a /\ r.mode = thread[t].mode /\ r.steps = thread[t].steps
      /\ r.inside = thread[t].inside /\ r.past = thread[t].past /\ r.stop = thread[t].stop
      /\ r.hit = thread[t].hit /\ n \in 0..2
  BY <1>2, <1>3 DEF ThreadState
<1>5. thread' = [thread EXCEPT ![t] = q]
  BY <1>1
<1>6. n = IF thread[t].steps = 2 THEN 2 ELSE thread[t].steps + 1
  BY <1>4
<1> HIDE DEF r, n
<1>7. Halt(r, "trap") = [r EXCEPT !.mode = "held", !.hit = "trap"]
  BY <1>4, HaltIs DEF Reason
<1>8. CASE thread[t].mode = "steps"
  <2>1. q = [Halt(r, "trap") EXCEPT !.steps = n]
    BY <1>4, <1>8
  <2>2. /\ q \in ThreadState /\ q.pc = a /\ q.mode = "held" /\ q.hit = "trap" /\ q.steps = n
        /\ q.inside = thread[t].inside /\ q.past = thread[t].past /\ q.stop = thread[t].stop
    BY <1>4, <1>7, <2>1 DEF ThreadState, Reason
  <2> HIDE DEF q
  <2>3. thread' \in States /\ thread'[t] = q /\ \A u \in Thread : u # t => thread'[u] = thread[u]
    BY <1>5, <2>2 DEF States
  <2> QED BY <1>6, <1>8, <2>2, <2>3 DEF Execute, OneMoves
<1>9. CASE thread[t].mode # "steps"
  <2>1. q = r
    BY <1>4, <1>9
  <2> HIDE DEF q
  <2>2. thread' \in States /\ thread'[t] = r /\ \A u \in Thread : u # t => thread'[u] = thread[u]
    BY <1>4, <1>5, <2>1 DEF States
  <2>3. thread[t].hit = "none"
    BY DEF Execute, Executes
  <2> QED BY <1>4, <1>9, <2>2, <2>3 DEF Execute, OneMoves
<1> QED BY <1>8, <1>9

LEMMA InterfereDoes ==
  ASSUME thread \in States, NEW t \in Thread, Interfere(t)
  PROVE  /\ OneMoves(t) /\ Still(t) /\ thread'[t].mode = "held" /\ thread'[t].steps = thread[t].steps
         /\ thread'[t].hit \in {"signal", "bad access"}
         /\ thread'[t].hit \in happens \/ thread[t].pc = HelperEnd
<1>1. PICK why \in {"signal", "bad access"} :
        /\ thread' = [thread EXCEPT ![t] = Halt(thread[t], why)]
        /\ why \in happens \/ thread[t].pc = HelperEnd
  BY DEF Interfere, States
<1> DEFINE r == Halt(thread[t], why)
<1>2. thread[t] \in ThreadState
  BY DEF States
<1>3. r \in ThreadState /\ r = [thread[t] EXCEPT !.mode = "held", !.hit = why]
  BY <1>2, HaltIs DEF Reason
<1> HIDE DEF r
<1>4. /\ r.pc = thread[t].pc /\ r.past = thread[t].past /\ r.inside = thread[t].inside
      /\ r.mode = "held" /\ r.hit = why /\ r.steps = thread[t].steps /\ r.stop = thread[t].stop
  BY <1>2, <1>3 DEF ThreadState
<1>5. thread' \in States /\ thread'[t] = r /\ \A u \in Thread : u # t => thread'[u] = thread[u]
  BY <1>1, <1>3 DEF States, r
<1> QED BY <1>1, <1>4, <1>5 DEF Interfere, OneMoves, Still

\* What is done to all threads at once.
LEMMA StopDoes ==
  ASSUME thread \in States, Stop
  PROVE  /\ running /\ ~running' /\ UNCHANGED <<text, channel>> /\ thread' \in States
         /\ \E R \in SUBSET Unreported : \E h \in R :
              /\ due' = <<Stopped(thread[h].hit)>> \/ ("lost reply" \in happens /\ due' = <<>>)
              /\ \A t \in Thread :
                   /\ Still(t) /\ thread'[t].mode = "held" /\ thread'[t].steps = thread[t].steps
                   /\ t \in R => thread'[t].stop = thread[t].hit /\ thread'[t].hit = "none"
                   /\ t \notin R => thread'[t].stop = thread[t].stop /\ thread'[t].hit = thread[t].hit
<1>1. PICK R \in SUBSET Unreported : \E h \in R :
        /\ thread' = [t \in Thread |->
             IF t \in R THEN [thread[t] EXCEPT !.mode = "held", !.stop = thread[t].hit, !.hit = "none"]
                        ELSE [thread[t] EXCEPT !.mode = "held"]]
        /\ due' = <<Stopped(thread[h].hit)>> \/ ("lost reply" \in happens /\ due' = <<>>)
  BY DEF Stop
<1>2. thread' = [t \in Thread |->
        IF t \in R THEN [thread[t] EXCEPT !.mode = "held", !.stop = thread[t].hit, !.hit = "none"]
                   ELSE [thread[t] EXCEPT !.mode = "held"]]
  BY <1>1
<1>3. \E h \in R : due' = <<Stopped(thread[h].hit)>> \/ ("lost reply" \in happens /\ due' = <<>>)
  BY <1>1
<1>4. ASSUME NEW t \in Thread
      PROVE  /\ thread'[t] \in ThreadState
             /\ Still(t) /\ thread'[t].mode = "held" /\ thread'[t].steps = thread[t].steps
             /\ t \in R => thread'[t].stop = thread[t].hit /\ thread'[t].hit = "none"
             /\ t \notin R => thread'[t].stop = thread[t].stop /\ thread'[t].hit = thread[t].hit
  <2>1. thread[t] \in ThreadState
    BY DEF States
  <2>2. CASE t \in R
    <3>1. thread'[t] = [thread[t] EXCEPT !.mode = "held", !.stop = thread[t].hit, !.hit = "none"]
      BY <1>2, <2>2
    <3> QED BY <2>1, <2>2, <3>1 DEF ThreadState, Still, Reason
  <2>3. CASE t \notin R
    <3>1. thread'[t] = [thread[t] EXCEPT !.mode = "held"]
      BY <1>2, <2>3
    <3> QED BY <2>1, <2>3, <3>1 DEF ThreadState, Still
  <2> QED BY <2>2, <2>3
<1>5. thread' \in States
  BY <1>2, <1>4 DEF States
<1> QED BY <1>3, <1>4, <1>5 DEF Stop

LEMMA ExitsDoes ==
  ASSUME thread \in States, Exits
  PROVE  /\ running /\ ~running' /\ UNCHANGED <<text, channel>> /\ due' = <<ExitPacket>> /\ thread' \in States
         /\ \A t \in Thread :
              /\ Still(t) /\ thread'[t].mode = "held" /\ thread'[t].steps = thread[t].steps
              /\ thread'[t].stop = thread[t].stop /\ thread'[t].hit = "none"
<1>1. thread' = [t \in Thread |-> [thread[t] EXCEPT !.mode = "held", !.hit = "none"]]
  BY DEF Exits
<1>2. ASSUME NEW t \in Thread
      PROVE  /\ thread'[t] \in ThreadState
             /\ Still(t) /\ thread'[t].mode = "held" /\ thread'[t].steps = thread[t].steps
             /\ thread'[t].stop = thread[t].stop /\ thread'[t].hit = "none"
  <2>1. thread[t] \in ThreadState
    BY DEF States
  <2>2. thread'[t] = [thread[t] EXCEPT !.mode = "held", !.hit = "none"]
    BY <1>1
  <2> QED BY <2>1, <2>2 DEF ThreadState, Still, Reason
<1>3. thread' \in States
  BY <1>1, <1>2 DEF States
<1> QED BY <1>2, <1>3 DEF Exits

\* Nothing is under way when a handler goes on.
LEMMA CanAskThen ==
  ASSUME ControlInv, Prompt, Quiet, Open, InHandler, call.at = "idle"
  PROVE  CanAsk /\ ~running /\ due = <<>>
<1>1. link.at = "up"
  BY DEF ControlInv, HandlersCall, InHandler, HandlerAt, Open, TypeOK, ClientTypeOK
<1> QED BY <1>1 DEF Quiet, Silent, CanAsk

-----------------------------------------------------------------------------
(* What the steps of the innermost frame do when the client may ask.       *)

Calm == ControlInv /\ Prompt /\ Quiet /\ Open /\ happens' = happens

LEMMA ReadTLSDoes ==
  ASSUME Calm, ReadTLS
  PROVE  /\ Len(frames) = 1 /\ frames # <<>> /\ Frm.op = "tls" /\ Frm.at = "begin" /\ call.at = "idle"
         /\ Replaces([Frm EXCEPT !.at = "stepping", !.place = PlaceOf(Frm.thread)])
         /\ Frm' = [Frm EXCEPT !.at = "stepping", !.place = PlaceOf(Frm.thread)]
         /\ PlaceOf(Frm.thread) \in Place /\ At(Helper) \in Place
         /\ StepAndWait(PutAt(Frm.thread, At(Helper)), Frm.thread)
         /\ UNCHANGED <<text, breakpoints, handling>>
<1>1. frames # <<>> /\ Frm.op = "tls" /\ Frm.at = "begin"
  BY DEF ReadTLS, In
<1>2. /\ Frm \in Frame /\ Frm = frames[1] /\ 1 \in DOMAIN frames /\ Frm.thread \in Thread /\ InHandler /\ FramesOK
  BY <1>1, FrmIs DEF Calm
<1>3. call.at = "idle" /\ CanAsk
  BY <1>1, <1>2, NotWaiting, CanAskThen DEF Calm, Stepping
<1>4. Len(frames) = 1
  BY <1>1, <1>2 DEF FramesOK, FramesNest
<1> DEFINE f == [Frm EXCEPT !.at = "stepping", !.place = PlaceOf(Frm.thread)]
<1>5. Becomes(f) /\ StepAndWait(PutAt(Frm.thread, At(Helper)), Frm.thread) /\ UNCHANGED <<text, breakpoints, handling>>
  BY <1>3 DEF ReadTLS
<1>6. PlaceOf(Frm.thread) \in Place /\ At(Helper) \in Place
  BY <1>2, PlacesAre DEF Calm, ControlInv, TypeOK, ServerTypeOK, States
<1>7. f \in Frame /\ f.op = Frm.op
  BY <1>2, <1>6 DEF Frame
<1> HIDE DEF f
<1>8. Replaces(f) /\ Frm' = f
  BY <1>1, <1>2, <1>5, <1>7, BecomesIs
<1> QED BY <1>1, <1>3, <1>4, <1>5, <1>6, <1>8 DEF f

LEMMA StepOthersIs ==
  ASSUME ControlInv, frames # <<>>, event.type = "unspecified", StepOthers
  PROVE  /\ Replaces([Frm EXCEPT !.at = "others", !.others = event.threads])
         /\ Frm' = [Frm EXCEPT !.at = "others", !.others = event.threads]
         /\ event.threads \in Seq(Thread)
<1> DEFINE f == [Frm EXCEPT !.at = "others", !.others = event.threads]
<1>1. event.threads \in Seq(Thread)
  BY DEF ControlInv, TypeOK, ClientTypeOK, Event
<1>2. f \in Frame /\ f.op = Frm.op /\ Becomes(f)
  BY <1>1, FrmIs DEF Frame, StepOthers
<1> HIDE DEF f
<1>3. Replaces(f) /\ Frm' = f
  BY <1>2, FrmIs, BecomesIs
<1> QED BY <1>1, <1>3 DEF f

LEMMA ReadTLSReturnsDoes ==
  ASSUME Calm, ReadTLSReturns
  PROVE  /\ Len(frames) = 1 /\ frames # <<>> /\ Frm.op = "tls" /\ Stepping /\ call.at = "idle"
         /\ thread' = PutAt(Frm.thread, Frm.place)
         /\ UNCHANGED <<text, running, due, channel, link, call, event, pendingSignal, owed, breakpoints>>
         /\ event.type \in {"trapped", "unspecified", "error"}
         /\ IF event.type = "unspecified"
              THEN /\ Replaces([Frm EXCEPT !.at = "others", !.others = event.threads])
                   /\ Frm' = [Frm EXCEPT !.at = "others", !.others = event.threads]
                   /\ event.threads \in Seq(Thread)
                   /\ UNCHANGED handling
              ELSE frames' = <<>> /\ Ends(event.type = "trapped")
<1>1. frames # <<>> /\ Frm.op = "tls" /\ Stepping /\ call = Idle /\ call.at = "idle"
  BY DEF ReadTLSReturns, In, Stepping, Idle
<1>2. /\ Frm \in Frame /\ Frm = frames[1] /\ 1 \in DOMAIN frames /\ InHandler /\ FramesOK
  BY <1>1, FrmIs DEF Calm
<1>3. CanAsk
  BY <1>1, <1>2, CanAskThen DEF Calm
<1>4. Len(frames) = 1
  BY <1>1, <1>2 DEF FramesOK, FramesNest
<1>5. /\ thread' = PutAt(Frm.thread, Frm.place)
      /\ UNCHANGED <<text, running, due, channel, link, call, event, pendingSignal, owed, breakpoints>>
  BY <1>3 DEF ReadTLSReturns, client
<1>6. event.type \in {"trapped", "unspecified", "error"}
  <2>1. event.type # "none" /\ event.type # "exited"
    BY <1>1 DEF Calm, ControlInv, CallsStep
  <2> QED BY <2>1 DEF Calm, ControlInv, TypeOK, ClientTypeOK, Event
<1>7. CASE event.type = "unspecified"
  <2>1. StepOthers /\ UNCHANGED handling
    BY <1>7 DEF ReadTLSReturns
  <2> QED BY <1>1, <1>4, <1>5, <1>6, <1>7, <2>1, StepOthersIs DEF Calm
<1>8. CASE event.type # "unspecified"
  <2> DEFINE ok == event.type = "trapped"
  <2>1. ReturnFrom(event.type = "trapped" /\ CanAsk)
    BY <1>8 DEF ReadTLSReturns
  <2>2. (event.type = "trapped" /\ CanAsk) = ok /\ ok \in BOOLEAN
    BY <1>3
  <2> HIDE DEF ok
  <2>3. ReturnFrom(ok)
    BY <2>1, <2>2
  <2>4. Drops \/ Ends(ok)
    BY <1>1, <1>2, <2>2, <2>3, ReturnFromIs
  <2>5. Ends(ok)
    BY <1>4, <2>4 DEF Drops
  <2> QED BY <1>1, <1>4, <1>5, <1>6, <1>8, <2>5 DEF Ends, ok
<1> QED BY <1>7, <1>8

LEMMA SingleStepDoes ==
  ASSUME Calm, SingleStep
  PROVE  /\ frames # <<>> /\ Frm.op = "step" /\ Frm.at = "begin" /\ call.at = "idle"
         /\ Replaces([Frm EXCEPT !.at = "stepping"]) /\ Frm' = [Frm EXCEPT !.at = "stepping"]
         /\ StepAndWait(PutAt(Frm.thread, Frm.place), Frm.thread)
         /\ text' = IF AtBreakpoint THEN [text EXCEPT ![Frm.place.pc] = "org"] ELSE text
         /\ UNCHANGED <<breakpoints, handling>>
<1>1. frames # <<>> /\ Frm.op = "step" /\ Frm.at = "begin"
  BY DEF SingleStep, In
<1>2. /\ Frm \in Frame /\ InHandler /\ FramesOK
  BY <1>1, FrmIs DEF Calm
<1>3. call.at = "idle" /\ CanAsk
  BY <1>1, <1>2, NotWaiting, CanAskThen DEF Calm, Stepping
<1> DEFINE f == [Frm EXCEPT !.at = "stepping"]
<1>4. /\ Becomes(f) /\ StepAndWait(PutAt(Frm.thread, Frm.place), Frm.thread) /\ UNCHANGED <<breakpoints, handling>>
      /\ text' = IF AtBreakpoint THEN [text EXCEPT ![Frm.place.pc] = "org"] ELSE text
  BY <1>3 DEF SingleStep
<1>5. f \in Frame /\ f.op = Frm.op
  BY <1>2 DEF Frame
<1> HIDE DEF f
<1>6. Replaces(f) /\ Frm' = f
  BY <1>1, <1>2, <1>4, <1>5, BecomesIs
<1> QED BY <1>1, <1>3, <1>4, <1>6 DEF f

LEMMA SingleStepReturnsDoes ==
  ASSUME Calm, SingleStepReturns
  PROVE  /\ frames # <<>> /\ Frm.op = "step" /\ Stepping /\ call.at = "idle"
         /\ UNCHANGED <<thread, running, due, channel, link, call, event, pendingSignal, owed, breakpoints>>
         /\ \/ /\ event.type = "unspecified"
               /\ Replaces([Frm EXCEPT !.at = "others", !.others = event.threads])
               /\ Frm' = [Frm EXCEPT !.at = "others", !.others = event.threads]
               /\ event.threads \in Seq(Thread)
               /\ UNCHANGED <<text, handling>>
            \/ /\ event.type = "trapped"
               /\ Drops \/ (Ends(TRUE) /\ Len(frames) = 1)
               /\ text' = IF AtBreakpoint THEN [text EXCEPT ![Frm.place.pc] = "trap"] ELSE text
            \/ /\ event.type = "error" /\ Ends(FALSE)
               /\ UNCHANGED text
<1>1. frames # <<>> /\ Frm.op = "step" /\ Stepping /\ call = Idle /\ call.at = "idle"
  BY DEF SingleStepReturns, In, Stepping, Idle
<1>2. Frm \in Frame /\ InHandler /\ FramesOK
  BY <1>1, FrmIs DEF Calm
<1>3. CanAsk
  BY <1>1, <1>2, CanAskThen DEF Calm
<1>4. UNCHANGED <<thread, running, due, channel, link, call, event, pendingSignal, owed, breakpoints>>
  BY DEF SingleStepReturns, client
<1>5. event.type \in {"trapped", "unspecified", "error"}
  <2>1. event.type # "none" /\ event.type # "exited"
    BY <1>1 DEF Calm, ControlInv, CallsStep
  <2> QED BY <2>1 DEF Calm, ControlInv, TypeOK, ClientTypeOK, Event
<1>6. CASE event.type = "unspecified"
  <2>1. StepOthers /\ UNCHANGED <<text, handling>>
    BY <1>6 DEF SingleStepReturns
  <2> QED BY <1>1, <1>4, <1>6, <2>1, StepOthersIs DEF Calm
<1>7. CASE event.type = "trapped"
  <2>1. /\ ReturnFrom(TRUE)
        /\ text' = IF AtBreakpoint THEN [text EXCEPT ![Frm.place.pc] = "trap"] ELSE text
    BY <1>3, <1>7 DEF SingleStepReturns
  <2>2. Drops \/ (Ends(TRUE) /\ Len(frames) = 1)
    BY <1>1, <1>2, <2>1, ReturnFromIs
  <2> QED BY <1>1, <1>4, <1>7, <2>1, <2>2
<1>8. CASE event.type = "error"
  <2>1. ReturnFrom(FALSE) /\ UNCHANGED text
    BY <1>8 DEF SingleStepReturns
  <2>2. Ends(FALSE)
    BY <1>1, <1>2, <2>1, ReturnFromIs
  <2> QED BY <1>1, <1>4, <1>8, <2>1, <2>2
<1> QED BY <1>5, <1>6, <1>7, <1>8

LEMMA StepUnspecifiedThreadDoes ==
  ASSUME Calm, StepUnspecifiedThread
  PROVE  /\ frames # <<>> /\ Frm.at = "others" /\ Frm.others # <<>> /\ Head(Frm.others) = Frm.others[1]
         /\ Frm.others[1] \in Thread /\ call.at = "idle"
         /\ UNCHANGED <<text, running, due, channel, link, call, event, pendingSignal, owed, breakpoints, handling>>
         /\ IF Frm.others[1] = Frm.thread
              THEN /\ Replaces([Frm EXCEPT !.others = Tail(Frm.others)])
                   /\ Frm' = [Frm EXCEPT !.others = Tail(Frm.others)]
                   /\ UNCHANGED thread
              ELSE /\ Pushes(StepOverTrap(Frm.others[1])) /\ Frm' = StepOverTrap(Frm.others[1])
                   /\ NoSteps(Frm.others[1])
<1>1. frames # <<>> /\ Frm.at = "others" /\ Frm.others # <<>>
  BY DEF StepUnspecifiedThread
<1>2. Frm \in Frame /\ InHandler /\ FramesOK /\ Frm.others \in Seq(Thread)
  BY <1>1, FrmIs DEF Calm
<1>3. call.at = "idle" /\ CanAsk
  BY <1>1, <1>2, NotWaiting, CanAskThen DEF Calm, Stepping
<1> DEFINE u == Frm.others[1]
<1>4. Head(Frm.others) = u /\ u \in Thread /\ Tail(Frm.others) \in Seq(Thread)
  BY <1>1, <1>2, FirstOf
<1>5. UNCHANGED <<text, running, due, channel, link, call, event, pendingSignal, owed, breakpoints>>
  BY DEF StepUnspecifiedThread, client
<1>6. CASE u = Frm.thread
  <2> DEFINE f == [Frm EXCEPT !.others = Tail(Frm.others)]
  <2>1. Becomes(f) /\ UNCHANGED <<thread, handling>>
    BY <1>4, <1>6 DEF StepUnspecifiedThread
  <2>2. f \in Frame /\ f.op = Frm.op
    BY <1>2, <1>4 DEF Frame
  <2> HIDE DEF f
  <2>3. Replaces(f) /\ Frm' = f
    BY <1>1, <1>2, <2>1, <2>2, BecomesIs
  <2> QED BY <1>1, <1>3, <1>4, <1>5, <1>6, <2>1, <2>3 DEF f
<1>7. CASE u # Frm.thread
  <2> DEFINE f == StepOverTrap(u)
  <2>1. frames' = <<f>> \o frames /\ NoSteps(u) /\ UNCHANGED handling
    BY <1>3, <1>4, <1>7 DEF StepUnspecifiedThread
  <2>2. f \in Frame /\ f.op = "step"
    BY <1>4, StepOverTrapIs DEF Calm, ControlInv, TypeOK, ServerTypeOK, States
  <2> HIDE DEF f
  <2>3. Pushes(f) /\ Frm' = f
    BY <1>1, <1>2, <2>1, <2>2, PushIs
  <2> QED BY <1>1, <1>3, <1>4, <1>5, <1>7, <2>1, <2>3 DEF f
<1> QED BY <1>6, <1>7

LEMMA StepAgainDoes ==
  ASSUME Calm, StepAgain
  PROVE  /\ frames # <<>> /\ Frm.at = "others" /\ Frm.others = <<>> /\ call.at = "idle"
         /\ Replaces([Frm EXCEPT !.at = "begin"]) /\ Frm' = [Frm EXCEPT !.at = "begin"]
         /\ UNCHANGED <<thread, text, running, due, channel, link, call, event, pendingSignal, owed,
                        breakpoints, handling>>
<1>1. /\ frames # <<>> /\ Frm.at = "others" /\ Frm.others = <<>> /\ Becomes([Frm EXCEPT !.at = "begin"])
      /\ UNCHANGED <<thread, text, running, due, channel, link, call, event, pendingSignal, owed,
                     breakpoints, handling>>
  BY DEF StepAgain, server, client
<1>2. Frm \in Frame /\ InHandler /\ FramesOK
  BY <1>1, FrmIs DEF Calm
<1>3. call.at = "idle"
  BY <1>1, <1>2, NotWaiting DEF Calm, Stepping
<1> DEFINE f == [Frm EXCEPT !.at = "begin"]
<1>4. f \in Frame /\ f.op = Frm.op /\ Becomes(f)
  BY <1>1, <1>2 DEF Frame
<1> HIDE DEF f
<1>5. Replaces(f) /\ Frm' = f
  BY <1>1, <1>2, <1>4, BecomesIs
<1> QED BY <1>1, <1>3, <1>5 DEF f

-----------------------------------------------------------------------------
(* The client's own instruction.                                           *)

\* Only the thread whose CurrentGoRoutineInfo is stepping it is in the helper.
InHelper(t) == Len(frames) = 1 /\ frames[1].op = "tls" /\ frames[1].at = "stepping" /\ frames[1].thread = t
PlacesOutside == \A i \in DOMAIN frames : frames[i].place.pc \in Addr
OthersOutside == \A t \in Thread : thread[t].pc \in Addr \/ InHelper(t)

HelperInv == Prompt /\ Open => PlacesOutside /\ OthersOutside

LEMMA StaysOpen ==
  ASSUME ControlInv, [ProcessNext]_processVars, Open'
  PROVE  Open
<1>1. CASE UNCHANGED processVars
  BY <1>1 DEF processVars, client, Open
<1>2. CASE ProcessNext /\ ClientWaits
  <2>1. call.at # "idle"
    BY <1>2, WaitsOutcome DEF ControlInv, TypeOK, CallsStep, ClientWaits, ProcessNext
  <2> QED BY <2>1 DEF ControlInv, CallsStep, Open
<1>3. CASE ProcessNext /\ ServerMoves
  BY <1>3 DEF ServerMoves, client, Open
<1>4. CASE ProcessNext /\ ~ClientWaits /\ ~ServerMoves
  BY <1>4, OthersRest DEF ProcessNext, Rests, Resuming, Open
<1> QED BY <1>1, <1>2, <1>3, <1>4

LEMMA PlacesStay ==
  ASSUME ControlInv, ControlInv', PlacesOutside,
         \/ frames' = frames \/ frames' = <<>> \/ Drops
         \/ \E f : f.place.pc \in Addr /\ (Replaces(f) \/ Pushes(f) \/ frames' = <<f>>)
  PROVE  PlacesOutside'
<1>1. /\ DOMAIN frames = 1..Len(frames) /\ Len(frames) \in Nat
      /\ DOMAIN frames' = 1..Len(frames') /\ Len(frames') \in Nat
      /\ \A i \in 1..Len(frames) : frames[i] \in Frame
      /\ frames' = <<>> => Len(frames') = 0
  BY ElementsOf DEF ControlInv, TypeOK
<1>2. CASE frames' = frames \/ frames' = <<>>
  BY <1>1, <1>2 DEF PlacesOutside
<1>3. CASE Drops
  <2> SUFFICES ASSUME NEW i \in 1..Len(frames') PROVE frames'[i].place.pc \in Addr
    BY <1>1 DEF PlacesOutside
  <2> DEFINE j == i + 1
  <2>1. j \in DOMAIN frames
    BY <1>1, <1>3 DEF Drops
  <2>2. i # 1 => frames'[i] = frames[j]
    BY <1>1, <1>3 DEF Drops
  <2>3. i = 1 => j = 2 /\ frames'[i] = [frames[j] EXCEPT !.others = Tail(frames[j].others)]
    BY <1>3 DEF Drops
  <2> HIDE DEF j
  <2>4. frames'[i].place = frames[j].place
    BY <1>1, <2>1, <2>2, <2>3 DEF Frame
  <2> QED BY <2>1, <2>4 DEF PlacesOutside
<1>4. ASSUME NEW f, f.place.pc \in Addr, Replaces(f) PROVE PlacesOutside'
  BY <1>1, <1>4 DEF PlacesOutside, Replaces
<1>5. ASSUME NEW f, f.place.pc \in Addr, Pushes(f) PROVE PlacesOutside'
  <2> SUFFICES ASSUME NEW i \in 1..Len(frames') PROVE frames'[i].place.pc \in Addr
    BY <1>1 DEF PlacesOutside
  <2>1. i # 1 => i - 1 \in DOMAIN frames /\ frames'[i] = frames[i - 1]
    BY <1>1, <1>5 DEF Pushes
  <2> QED BY <1>5, <2>1 DEF PlacesOutside, Pushes
<1>6. ASSUME NEW f, f.place.pc \in Addr, frames' = <<f>> PROVE PlacesOutside'
  BY <1>6 DEF PlacesOutside
<1> QED BY <1>2, <1>3, <1>4, <1>5, <1>6

LEMMA OutsideStays ==
  ASSUME Calm, ControlInv', PlacesOutside, OthersOutside, ProcessStep, Open'
  PROVE  PlacesOutside' /\ OthersOutside'
<1> USE DEF Calm
<1>1. /\ thread \in States /\ frames \in Seq(Frame) /\ \A t \in Thread : thread[t] \in ThreadState
      /\ frames' \in Seq(Frame) /\ handling \in Handling
  BY DEF ControlInv, TypeOK, ServerTypeOK, States
<1>2. /\ frames # <<>> => Frm = frames[1] /\ Frm \in Frame /\ 1 \in DOMAIN frames /\ Frm.place.pc \in Addr
                          /\ Frm.thread \in Thread /\ Frm.place \in Place
      /\ frames # <<>> /\ Frm.op = "tls" => Len(frames) = 1
  BY FrmIs DEF PlacesOutside, FramesOK, FramesNest
\* Nobody is in the helper otherwise.
<1>3. ASSUME ~(Stepping /\ Frm.op = "tls") PROVE \A t \in Thread : thread[t].pc \in Addr
  <2>1. ASSUME NEW t \in Thread, InHelper(t) PROVE FALSE
    <3>1. frames # <<>>
      BY <1>1, <2>1, ElementsOf DEF InHelper
    <3> QED BY <1>2, <1>3, <2>1, <3>1 DEF InHelper, Stepping
  <2> QED BY <2>1 DEF OthersOutside
<1>4. ASSUME \A t \in Thread : thread'[t].pc = thread[t].pc, frames' = frames
      PROVE  PlacesOutside' /\ OthersOutside'
  BY <1>4, PlacesStay DEF OthersOutside, InHelper
<1>5. ASSUME \A t \in Thread : thread'[t].pc \in Addr PROVE OthersOutside'
  BY <1>5 DEF OthersOutside
<1>6. CASE Attach \/ AttachFails \/ NewProcess \/ Interrupted \/ Returns \/ HandlerReturns
           \/ \E a \in Addr : SetBreakpoint(a) \/ ClearBreakpoint(a)
  <2>1. UNCHANGED <<thread, frames>>
    BY <1>6 DEF Attach, Connect, Initialize, AttachFails, NewProcess, Interrupted, Returns, HandlerReturns,
       SetBreakpoint, ClearBreakpoint, server
  <2> QED BY <1>4, <2>1
<1>7. CASE NewProcessFails \/ Detach
  BY <1>7 DEF NewProcessFails, Detach, DetachProcess, Open, ControlInv, TypeOK, ClientTypeOK
<1>8. CASE Resumes
  <2>1. frames' = frames /\ ((\E s : Continue(thread, s)) \/ thread' = thread)
    BY <1>8 DEF Resumes, ContinueAndWait, server
  <2> QED BY <1>1, <1>4, <2>1, ContinueDoes DEF Still
<1>9. CASE CurrentGoRoutineInfo \/ HandleTrap \/ HandleCalledFunction
  <2>1. frames = <<>> /\ InHandler
    BY <1>9 DEF CurrentGoRoutineInfo, HandleTrap, HandleCalledFunction, Handles, InHandler, HandlerAt
  <2>2. (\A t \in Thread : thread[t].pc \in Addr) /\ Trapping \in Thread
    BY <1>3, <2>1, TrappingIs DEF Stepping
  <2>3. CASE CurrentGoRoutineInfo
    <3> DEFINE f == FrameOf("tls", Trapping, PlaceOf(Trapping))
    <3>1. frames' = <<f>> /\ thread' = thread
      BY <2>3 DEF CurrentGoRoutineInfo, server
    <3>2. f.place.pc \in Addr
      BY <1>1, <2>2, PlacesAre, FrameOfIs
    <3> HIDE DEF f
    <3> QED BY <1>5, <2>2, <3>1, <3>2, PlacesStay
  <2>4. CASE HandleTrap
    <3> DEFINE f == StepOverTrap(Trapping)
    <3>1. frames' = <<f>> /\ NoSteps(Trapping)
      BY <2>4 DEF HandleTrap
    <3>2. f.place.pc \in Addr
      BY <1>1, <2>2, StepOverTrapIs
    <3> HIDE DEF f
    <3> QED BY <1>1, <1>5, <2>2, <3>1, <3>2, PlacesStay, NoStepsDoes DEF Still
  <2>5. CASE HandleCalledFunction
    <3> DEFINE f == FrameOf("step", Trapping, At(thread[Trapping].pc))
    <3>1. frames' = <<f>> /\ NoSteps(Trapping)
      BY <2>5 DEF HandleCalledFunction
    <3>2. f.place.pc \in Addr
      BY <1>1, <2>2, PlacesAre, FrameOfIs
    <3> HIDE DEF f
    <3> QED BY <1>1, <1>5, <2>2, <3>1, <3>2, PlacesStay, NoStepsDoes DEF Still
  <2> QED BY <1>9, <2>3, <2>4, <2>5
<1>10. CASE ReadTLS
  <2> DEFINE f == [Frm EXCEPT !.at = "stepping", !.place = PlaceOf(Frm.thread)]
  <2>1. /\ Len(frames) = 1 /\ frames # <<>> /\ Frm.op = "tls" /\ Frm.at = "begin" /\ Replaces(f)
        /\ At(Helper) \in Place /\ StepAndWait(PutAt(Frm.thread, At(Helper)), Frm.thread)
    BY <1>10, ReadTLSDoes
  <2>2. \A t \in Thread : thread[t].pc \in Addr
    BY <1>3, <2>1 DEF Stepping
  <2>3. PlaceOf(Frm.thread).pc \in Addr
    BY <1>1, <1>2, <2>1, <2>2, PlacesAre
  <2>4. f.place.pc \in Addr /\ f.op = "tls" /\ f.at = "stepping" /\ f.thread = Frm.thread
    BY <1>2, <2>1, <2>3 DEF Frame
  <2> HIDE DEF f
  <2>5. \A t \in Thread : t # Frm.thread => thread'[t].pc = thread[t].pc
    BY <1>1, <1>2, <2>1, StepDoes DEF Still
  <2>6. PICK h \in Thread : h = Frm.thread
    BY <1>2, <2>1 DEF Frame
  <2>7. Len(frames') = 1 /\ frames'[1] = f
    BY <2>1 DEF Replaces
  <2>8. InHelper(h)'
    BY <2>4, <2>6, <2>7 DEF InHelper
  <2>9. OthersOutside'
    BY <2>2, <2>5, <2>6, <2>8 DEF OthersOutside
  <2> QED BY <2>1, <2>4, <2>9, PlacesStay
<1>11. CASE ReadTLSReturns
  <2>1. /\ Len(frames) = 1 /\ frames # <<>> /\ Frm.op = "tls" /\ Stepping
        /\ thread' = PutAt(Frm.thread, Frm.place)
        /\ frames' = <<>> \/ Replaces([Frm EXCEPT !.at = "others", !.others = event.threads])
    BY <1>11, ReadTLSReturnsDoes
  <2>2. [Frm EXCEPT !.at = "others", !.others = event.threads].place.pc \in Addr
    BY <1>2, <2>1 DEF Frame
  <2>3. PlacesOutside'
    BY <2>1, <2>2, PlacesStay
  <2>4. \A t \in Thread : t # Frm.thread => thread[t].pc \in Addr
    BY <1>2, <2>1 DEF OthersOutside, InHelper
  <2>5. \A t \in Thread : thread'[t].pc \in Addr
    BY <1>1, <1>2, <2>1, <2>4, PutBackDoes DEF Moved
  <2> QED BY <1>5, <2>3, <2>5
<1>12. CASE SingleStep
  <2>1. /\ frames # <<>> /\ Frm.op = "step" /\ Replaces([Frm EXCEPT !.at = "stepping"])
        /\ StepAndWait(PutAt(Frm.thread, Frm.place), Frm.thread)
    BY <1>12, SingleStepDoes
  <2>2. [Frm EXCEPT !.at = "stepping"].place.pc \in Addr
    BY <1>2, <2>1 DEF Frame
  <2>3. PlacesOutside'
    BY <2>1, <2>2, PlacesStay
  <2>4. \A t \in Thread : thread'[t].pc \in Addr
    BY <1>1, <1>2, <1>3, <2>1, StepDoes DEF Still, Moved
  <2> QED BY <1>5, <2>3, <2>4
<1>13. CASE SingleStepReturns
  <2>1. /\ frames # <<>> /\ Frm.op = "step" /\ thread' = thread
        /\ Drops \/ frames' = <<>> \/ Replaces([Frm EXCEPT !.at = "others", !.others = event.threads])
    BY <1>13, SingleStepReturnsDoes DEF Ends
  <2>2. [Frm EXCEPT !.at = "others", !.others = event.threads].place.pc \in Addr
    BY <1>2, <2>1 DEF Frame
  <2>3. PlacesOutside'
    BY <2>1, <2>2, PlacesStay
  <2> QED BY <1>3, <1>5, <2>1, <2>3
<1>14. CASE StepUnspecifiedThread
  <2> DEFINE u == Frm.others[1]
             f == [Frm EXCEPT !.others = Tail(Frm.others)]
  <2>1. /\ frames # <<>> /\ Frm.at = "others" /\ u \in Thread
        /\ \/ Replaces(f) /\ UNCHANGED thread
           \/ Pushes(StepOverTrap(u)) /\ NoSteps(u)
    BY <1>14, StepUnspecifiedThreadDoes
  <2>2. \A t \in Thread : thread[t].pc \in Addr
    BY <1>3, <2>1 DEF Stepping
  <2>3. f.place.pc \in Addr
    BY <1>2, <2>1 DEF Frame
  <2>4. StepOverTrap(u).place.pc \in Addr
    BY <1>1, <2>1, <2>2, StepOverTrapIs
  <2> HIDE DEF f, u
  <2>5. PlacesOutside'
    BY <2>1, <2>3, <2>4, PlacesStay
  <2>6. \A t \in Thread : thread'[t].pc \in Addr
    BY <1>1, <2>1, <2>2, NoStepsDoes DEF Still
  <2> QED BY <1>5, <2>5, <2>6
<1>15. CASE StepAgain
  <2>1. frames # <<>> /\ Frm.at = "others" /\ Replaces([Frm EXCEPT !.at = "begin"]) /\ UNCHANGED thread
    BY <1>15, StepAgainDoes
  <2>2. [Frm EXCEPT !.at = "begin"].place.pc \in Addr
    BY <1>2, <2>1 DEF Frame
  <2> QED BY <1>3, <1>5, <2>1, <2>2, PlacesStay DEF Stepping
<1>16. CASE ClientWaits
  <2>1. frames' = frames /\ Waits
    BY <1>16 DEF ClientWaits
  <2>2. thread' = thread \/ \E s : Continue(thread, s)
    BY <2>1 DEF Waits, Receive, Timeout, ReceiveThreads, Ask, CheckStopReply, NoneStopped, SelectTrappedThread,
       NoneTrapped, SomeTrapped, Read, Answer, server
  <2> QED BY <1>1, <1>4, <2>1, <2>2, ContinueDoes DEF Still
<1>17. CASE ServerMoves
  <2>1. frames' = frames /\ ServerNext
    BY <1>17 DEF ServerMoves
  <2>2. ASSUME NEW t \in Thread, Execute(t) PROVE PlacesOutside' /\ OthersOutside'
    <3>1. thread'[t].pc \in Following(thread[t].pc) /\ \A u \in Thread : u # t => thread'[u] = thread[u]
      BY <1>1, <2>2, ExecuteDoes DEF OneMoves
    <3>2. thread[t].pc \in Addr => thread'[t].pc \in Addr
      BY <3>1, DebugserverAssumption DEF Following
    <3>3. OthersOutside'
      BY <2>1, <3>1, <3>2 DEF OthersOutside, InHelper
    <3> QED BY <2>1, <3>3, PlacesStay
  <2>3. ASSUME NEW t \in Thread, HitTrap(t) \/ Interfere(t) PROVE \A u \in Thread : thread'[u].pc = thread[u].pc
    BY <1>1, <2>3, HitTrapDoes, InterfereDoes DEF OneMoves, Still
  <2>4. ASSUME Stop \/ Exits PROVE \A u \in Thread : thread'[u].pc = thread[u].pc
    BY <1>1, <2>4, StopDoes, ExitsDoes DEF Still
  <2>5. Writes \/ SendReply => thread' = thread
    BY DEF Writes, SendReply
  <2> QED BY <1>4, <2>1, <2>2, <2>3, <2>4, <2>5 DEF ServerNext
<1> QED BY <1>6, <1>7, <1>8, <1>9, <1>10, <1>11, <1>12, <1>13, <1>14, <1>15, <1>16, <1>17
        DEF ProcessStep, Handlers

LEMMA HelperStays ==
  ASSUME ControlInv, QuietInv, HelperInv, [ProcessNext]_processVars
  PROVE  HelperInv'
<1>1. SUFFICES ASSUME Prompt', Open' PROVE PlacesOutside' /\ OthersOutside'
  BY DEF HelperInv
<1>2. happens' = happens /\ Prompt
  BY <1>1 DEF processVars, ProcessNext, Prompt
<1>3. ControlInv' /\ Open
  BY <1>1, ControlStays, StaysOpen
<1>4. Calm /\ PlacesOutside /\ OthersOutside
  BY <1>2, <1>3 DEF HelperInv, QuietInv, Calm
<1>5. CASE UNCHANGED processVars
  BY <1>4, <1>5 DEF processVars, server, PlacesOutside, OthersOutside, InHelper
<1>6. CASE ProcessNext
  BY <1>1, <1>3, <1>4, <1>6, OutsideStays DEF ProcessNext
<1> QED BY <1>5, <1>6

LEMMA HelperBegins ==
  ProcessInit => HelperInv
<1> SUFFICES ASSUME ProcessInit PROVE PlacesOutside /\ OthersOutside
  BY DEF HelperInv
<1>1. PICK a \in Addr : thread = [t \in Thread |->
        [pc |-> IF Lives(t) THEN a ELSE CHOOSE b \in Addr : TRUE, past |-> FALSE, inside |-> FALSE, mode |-> "held",
         hit |-> "none", stop |-> "none", steps |-> 0]]
  BY DEF ProcessInit, ServerInit
<1>2. (CHOOSE b \in Addr : TRUE) \in Addr
  BY <1>1
<1>3. \A t \in Thread : thread[t].pc \in Addr
  BY <1>1, <1>2
<1> QED BY <1>3 DEF PlacesOutside, OthersOutside, ProcessInit

\* Once CurrentGoRoutineInfo has returned, no thread is left in the client's own
\* instruction, whichever step of it fails (ReadTLS puts the registers back).
THEOREM HelperLeftCorrect == ProcessSpec => []HelperLeft
<1>1. ControlInv /\ HelperInv => HelperLeft
  <2> SUFFICES ASSUME ControlInv, HelperInv, Prompt, Tracing, frames = <<>> \/ frames[Len(frames)].op = "step"
               PROVE  \A t \in Thread : thread[t].pc \in Addr
    BY DEF HelperLeft
  <2>1. OthersOutside
    BY DEF HelperInv, Tracing, Open
  <2>2. frames = <<>> => Len(frames) = 0
    OBVIOUS
  <2> QED BY <2>1, <2>2 DEF OthersOutside, InHelper
<1> QED BY <1>1, HelperBegins, HelperStays, QuietBegins, QuietStays, ControlBegins, ControlStays, PTL DEF ProcessSpec


-----------------------------------------------------------------------------
(* Without signals only traps stop a thread.                               *)

NoneBad(s) == \A i \in DOMAIN s : s[i] # Stopped("bad access")
HasExit(s) == \E i \in DOMAIN s : s[i] = ExitPacket
TrapReasons == \A t \in Thread : {thread[t].hit, thread[t].stop} \subseteq {"none", "trap"}
\* Nobody runs on into the memory behind the helper.
HelperHeld == \A t \in Thread : /\ thread[t].pc = Helper => thread[t].mode # "runs"
                                /\ thread[t].pc = HelperEnd => thread[t].mode = "held"
\* A call that waits for a process that does not run is about to find a thread, or the exit.
Reached == call.at # "idle" /\ ~running => HasExit(due) \/ HasExit(channel) \/ TrapStopped # {}
NoError == event = Failed => link.at # "up"

TrapsOnly == TrapReasons /\ HelperHeld /\ Reached /\ NoneBad(due) /\ NoneBad(channel) /\ NoError

\* The traps are those of the breakpoints, but where a SingleStep has put back the
\* instruction of its breakpoint.
TextInv ==
  /\ \A a \in Addr : text[a] = "trap" => a \in breakpoints
  /\ \A a \in breakpoints : text[a] = "trap" \/
       \E i \in DOMAIN frames : frames[i].op = "step" /\ frames[i].place.pc = a /\ ~frames[i].place.inside

UnsignalledInv == Unsignalled /\ Open => TrapsOnly /\ TextInv

LEMMA NoNewFailure ==
  ASSUME ControlInv, ProcessStep, ~ClientWaits, NoError
  PROVE  NoError'
<1>1. NoEvent # Failed
  BY DEF NoEvent, Failed
<1>2. ASSUME UNCHANGED <<event, link>> PROVE NoError'
  BY <1>2 DEF NoError
<1>3. ASSUME NEW th, NEW t, StepAndWait(th, t) PROVE NoError'
  BY <1>1, <1>3 DEF NoError, StepAndWait
<1>4. CASE Attach
  <2>1. event # Failed /\ link.at # "up" /\ (Connect \/ Initialize)
    BY <1>4 DEF Attach
  <2>2. CASE Connect
    <3>1. (link' = [link EXCEPT !.at = "asking"] /\ event' = event) \/ link' = [link EXCEPT !.at = "closed"]
      BY <2>2 DEF Connect
    <3> QED BY <2>1, <3>1 DEF NoError, ControlInv, TypeOK, ClientTypeOK
  <2>3. CASE Initialize
    <3>1. event' = event \/ link' = link
      BY <2>3 DEF Initialize
    <3> QED BY <2>1, <3>1 DEF NoError
  <2> QED BY <2>1, <2>2, <2>3
<1>5. CASE \/ AttachFails \/ NewProcess \/ Interrupted \/ Returns \/ CurrentGoRoutineInfo \/ HandleTrap
           \/ HandleCalledFunction \/ HandlerReturns \/ StepAgain \/ SingleStepReturns \/ ReadTLSReturns
           \/ StepUnspecifiedThread \/ ServerMoves \/ \E a \in Addr : SetBreakpoint(a) \/ ClearBreakpoint(a)
  BY <1>2, <1>5 DEF AttachFails, NewProcess, Interrupted, Returns, CurrentGoRoutineInfo, HandleTrap,
     HandleCalledFunction, HandlerReturns, StepAgain, SingleStepReturns, ReadTLSReturns, StepUnspecifiedThread,
     ServerMoves, SetBreakpoint, ClearBreakpoint, client
<1>6. CASE NewProcessFails \/ Detach
  <2>1. link' = [link EXCEPT !.at = "closed"]
    BY <1>6 DEF NewProcessFails, Detach, DetachProcess
  <2> QED BY <2>1 DEF NoError, ControlInv, TypeOK, ClientTypeOK
<1>7. CASE Resumes
  <2>1. event' = NoEvent \/ UNCHANGED <<event, link>>
    BY <1>7 DEF Resumes, ContinueAndWait, client
  <2> QED BY <1>1, <1>2, <2>1 DEF NoError
<1>8. CASE ReadTLS \/ SingleStep
  <2>1. (\E th : StepAndWait(th, Frm.thread)) \/ UNCHANGED <<server, client>>
    BY <1>8 DEF ReadTLS, SingleStep
  <2> QED BY <1>2, <1>3, <2>1 DEF client
<1> QED BY <1>4, <1>5, <1>6, <1>7, <1>8 DEF ProcessStep, Handlers

LEMMA OthersHelper ==
  ASSUME Calm, PlacesOutside, OthersOutside, HelperHeld, ProcessStep, ~ClientWaits, ~ServerMoves, Open'
  PROVE  HelperHeld'
<1> USE DEF Calm
<1>1. thread \in States /\ Helper \notin Addr /\ HelperEnd \notin Addr /\ Helper # HelperEnd
  BY DebugserverAssumption DEF ControlInv, TypeOK, ServerTypeOK, States
<1>2. frames # <<>> => Frm.thread \in Thread /\ Frm.place \in Place /\ Frm.place.pc \in Addr
  BY FrmIs DEF PlacesOutside
<1>3. ASSUME \A t \in Thread : thread'[t].pc = thread[t].pc /\ thread'[t].mode = thread[t].mode
      PROVE  HelperHeld'
  BY <1>3 DEF HelperHeld
<1>4. CASE \/ Attach \/ AttachFails \/ NewProcess \/ Interrupted \/ Returns \/ CurrentGoRoutineInfo
           \/ HandlerReturns \/ StepAgain \/ SingleStepReturns
           \/ \E a \in Addr : SetBreakpoint(a) \/ ClearBreakpoint(a)
  <2>1. thread' = thread
    BY <1>4 DEF Attach, Connect, Initialize, AttachFails, NewProcess, Interrupted, Returns, CurrentGoRoutineInfo,
       HandlerReturns, StepAgain, SingleStepReturns, SetBreakpoint, ClearBreakpoint, server
  <2> QED BY <1>3, <2>1
<1>5. CASE NewProcessFails \/ Detach
  BY <1>5 DEF NewProcessFails, Detach, DetachProcess, Open, ControlInv, TypeOK, ClientTypeOK
<1>6. CASE HandleTrap \/ HandleCalledFunction \/ StepUnspecifiedThread
  <2>1. PICK t \in Thread : NoSteps(t) \/ thread' = thread
    <3>1. CASE HandleTrap \/ HandleCalledFunction
      <4>1. InHandler /\ NoSteps(Trapping)
        BY <3>1 DEF HandleTrap, HandleCalledFunction, Handles, InHandler, HandlerAt
      <4> QED BY <4>1, TrappingIs
    <3>2. CASE StepUnspecifiedThread
      BY <3>2, StepUnspecifiedThreadDoes
    <3> QED BY <1>6, <3>1, <3>2
  <2> QED BY <1>1, <1>3, <2>1, NoStepsDoes DEF Still
<1>7. CASE Resumes
  <2>1. (\E s : Continue(thread, s)) \/ thread' = thread
    BY <1>7 DEF Resumes, ContinueAndWait, server
  <2>2. frames = <<>>
    BY <1>7 DEF Resumes, ControlInv, HandlersCall, InHandler, HandlerAt
  <2>3. \A t \in Thread : thread[t].pc \in Addr
    BY <2>2 DEF OthersOutside, InHelper
  <2>4. \A t \in Thread : thread'[t].pc = thread[t].pc
    BY <1>1, <2>1, ContinueDoes DEF Still
  <2> QED BY <1>1, <2>3, <2>4 DEF HelperHeld
<1>8. CASE ReadTLS \/ SingleStep
  <2>1. PICK place \in Place : place.pc \in Addr \cup {Helper} /\ frames # <<>>
                               /\ StepAndWait(PutAt(Frm.thread, place), Frm.thread)
    <3>1. CASE ReadTLS
      <4>1. frames # <<>> /\ At(Helper) \in Place /\ StepAndWait(PutAt(Frm.thread, At(Helper)), Frm.thread)
        BY <3>1, ReadTLSDoes
      <4>2. At(Helper).pc = Helper
        BY DEF At
      <4> QED BY <4>1, <4>2
    <3>2. CASE SingleStep
      BY <1>2, <3>2, SingleStepDoes
    <3> QED BY <1>8, <3>1, <3>2
  <2>2. PICK h \in Thread : h = Frm.thread
    BY <1>2, <2>1
  <2>3. /\ thread'[h].pc = place.pc /\ thread'[h].mode \in {"held", "steps"}
        /\ \A u \in Thread : u # h => thread'[u].pc = thread[u].pc /\ thread'[u].mode = "held"
    BY <1>1, <2>1, <2>2, StepDoes DEF Moved, Still
  <2> QED BY <1>1, <2>1, <2>3 DEF HelperHeld
<1>9. CASE ReadTLSReturns
  <2>1. frames # <<>> /\ thread' = PutAt(Frm.thread, Frm.place)
    BY <1>9, ReadTLSReturnsDoes
  <2>2. PICK h \in Thread : h = Frm.thread
    BY <1>2, <2>1
  <2>3. /\ thread'[h].pc \in Addr
        /\ \A u \in Thread : u # h => thread'[u] = thread[u]
    BY <1>1, <1>2, <2>1, <2>2, PutBackDoes DEF Moved
  <2> QED BY <1>1, <2>3 DEF HelperHeld
<1> QED BY <1>4, <1>5, <1>6, <1>7, <1>8, <1>9 DEF ProcessStep, Handlers

LEMMA OnePacket ==
  /\ NoneBad(<<>>) /\ ~HasExit(<<>>)
  /\ \A p \in Packet : /\ p # Stopped("bad access") => NoneBad(<<p>>)
                       /\ p = ExitPacket => HasExit(<<p>>)
<1>1. \A p \in Packet : DOMAIN <<p>> = {1} /\ <<p>>[1] = p
  OBVIOUS
<1>2. DOMAIN <<>> = {}
  OBVIOUS
<1> QED BY <1>1, <1>2 DEF NoneBad, HasExit

LEMMA ServerTraps ==
  ASSUME Calm, Unsignalled, TrapsOnly, ServerMoves
  PROVE  TrapsOnly'
<1> USE DEF Calm
<1>1. /\ UNCHANGED <<link, call, event>> /\ ServerNext /\ thread \in States
      /\ Helper \notin Addr /\ HelperEnd \notin Addr /\ Helper # HelperEnd
      /\ Successors \in [Addr -> SUBSET Addr]
      /\ due \in Seq(Packet) /\ channel \in Seq(Packet)
  BY DebugserverAssumption DEF ServerMoves, client, ControlInv, TypeOK, ServerTypeOK, States
<1>2. NoError'
  BY <1>1 DEF NoError, TrapsOnly
<1>3. ASSUME NEW t \in Thread, OneMoves(t), thread'[t].hit \in {"none", "trap"},
             thread'[t].pc = Helper => thread'[t].mode # "runs", thread'[t].pc = HelperEnd => thread'[t].mode = "held"
      PROVE  TrapsOnly'
  <2>1. UNCHANGED <<running, due, channel>> /\ \A u \in Thread : thread'[u].stop = thread[u].stop
    BY <1>3 DEF OneMoves
  <2>2. TrapReasons' /\ HelperHeld'
    BY <1>3 DEF TrapsOnly, TrapReasons, HelperHeld, OneMoves
  <2>3. TrapStopped' = TrapStopped
    BY <2>1 DEF TrapStopped
  <2>4. Reached' /\ NoneBad(due') /\ NoneBad(channel')
    BY <1>1, <2>1, <2>3 DEF TrapsOnly, Reached, HasExit, NoneBad
  <2> QED BY <1>2, <2>2, <2>4 DEF TrapsOnly
<1>4. ASSUME NEW t \in Thread, HitTrap(t) PROVE TrapsOnly'
  <2>1. /\ OneMoves(t) /\ thread[t].pc \in Addr /\ thread'[t].pc = thread[t].pc
        /\ thread'[t].mode = "held" /\ thread'[t].hit = "trap"
    BY <1>1, <1>4, HitTrapDoes
  <2> QED BY <1>3, <2>1
<1>5. ASSUME NEW t \in Thread, Execute(t) PROVE TrapsOnly'
  <2>1. /\ OneMoves(t) /\ thread'[t].pc \in Following(thread[t].pc)
        /\ IF thread[t].mode = "steps" THEN thread'[t].mode = "held" /\ thread'[t].hit = "trap"
                                       ELSE thread'[t].mode = thread[t].mode /\ thread'[t].hit = "none"
    BY <1>1, <1>5, ExecuteDoes
  <2>2. thread[t].mode \in {"runs", "steps"} /\ thread[t].pc \in Addr \cup {Helper, HelperEnd}
    BY <1>1, <2>1 DEF OneMoves, Executes, States, ThreadState
  <2>3. thread[t].pc # HelperEnd /\ (thread[t].pc = Helper => thread[t].mode = "steps")
    BY <2>2 DEF TrapsOnly, HelperHeld
  <2>4. thread[t].pc \in Addr => thread'[t].pc \in Addr
    BY <1>1, <2>1 DEF Following
  <2>5. thread[t].pc = Helper => thread'[t].pc = HelperEnd
    BY <1>1, <2>1 DEF Following
  <2> QED BY <1>1, <1>3, <2>1, <2>2, <2>3, <2>4, <2>5
<1>6. ASSUME NEW t \in Thread, Interfere(t) PROVE FALSE
  <2>1. /\ OneMoves(t) /\ thread'[t].hit \in {"signal", "bad access"}
        /\ thread'[t].hit \in happens \/ thread[t].pc = HelperEnd
    BY <1>1, <1>6, InterfereDoes
  <2>2. thread[t].pc = HelperEnd
    BY <2>1 DEF Unsignalled
  <2> QED BY <2>1, <2>2 DEF OneMoves, Executes, TrapsOnly, HelperHeld
<1>7. ASSUME \A t \in Thread : thread'[t].pc = thread[t].pc /\ thread'[t].mode = "held" PROVE HelperHeld'
  BY <1>7 DEF HelperHeld
<1>8. CASE Stop
  <2>1. channel' = channel /\ \A t \in Thread : thread'[t].pc = thread[t].pc /\ thread'[t].mode = "held"
    BY <1>1, <1>8, StopDoes DEF Still
  <2>2. PICK R \in SUBSET Unreported : \E h \in R :
               /\ due' = <<Stopped(thread[h].hit)>> \/ due' = <<>>
               /\ \A t \in Thread :
                    /\ t \in R => thread'[t].stop = thread[t].hit /\ thread'[t].hit = "none"
                    /\ t \notin R => thread'[t].stop = thread[t].stop /\ thread'[t].hit = thread[t].hit
    BY <1>1, <1>8, StopDoes
  <2>3. PICK h \in R : due' = <<Stopped(thread[h].hit)>> \/ due' = <<>>
    BY <2>2
  <2>4. h \in Thread /\ thread[h].hit = "trap"
    BY <2>2, <2>3 DEF Unreported, TrapsOnly, TrapReasons
  <2>5. TrapReasons'
    <3> SUFFICES ASSUME NEW t \in Thread PROVE {thread'[t].hit, thread'[t].stop} \subseteq {"none", "trap"}
      BY DEF TrapReasons
    <3>1. {thread[t].hit, thread[t].stop} \subseteq {"none", "trap"}
      BY DEF TrapsOnly, TrapReasons
    <3> QED BY <2>2, <3>1
  <2>6. h \in TrapStopped'
    BY <2>2, <2>3, <2>4 DEF TrapStopped
  <2>7. Stopped("trap") # Stopped("bad access")
    BY DEF Stopped
  <2>8. NoneBad(due')
    <3>1. Stopped("trap") \in Packet
      BY PacketsAre DEF Reason
    <3>2. NoneBad(<<Stopped("trap")>>) /\ NoneBad(<<>>)
      BY <2>7, <3>1, OnePacket
    <3> QED BY <2>3, <2>4, <3>2
  <2> QED BY <1>2, <1>7, <2>1, <2>5, <2>6, <2>8 DEF TrapsOnly, Reached, NoneBad
<1>9. CASE Exits
  <2>1. channel' = channel /\ due' = <<ExitPacket>>
        /\ \A t \in Thread : /\ thread'[t].pc = thread[t].pc /\ thread'[t].mode = "held"
                             /\ thread'[t].stop = thread[t].stop /\ thread'[t].hit = "none"
    BY <1>1, <1>9, ExitsDoes DEF Still
  <2>2. TrapReasons'
    BY <2>1 DEF TrapsOnly, TrapReasons
  <2>3. ExitPacket # Stopped("bad access")
    BY DEF ExitPacket, Stopped
  <2>4. HasExit(due') /\ NoneBad(due')
    BY <2>1, <2>3, OnePacket, PacketsAre
  <2> QED BY <1>2, <1>7, <2>1, <2>2, <2>4 DEF TrapsOnly, Reached, NoneBad
<1>10. ASSUME NEW more \in Seq(Packet), channel' = channel \o more, NoneBad(more), UNCHANGED <<thread, running>>,
              HasExit(due) => HasExit(due') \/ HasExit(more), NoneBad(due')
       PROVE  TrapsOnly'
  <2>1. /\ channel' \in Seq(Packet) /\ Len(channel') = Len(channel) + Len(more)
        /\ \A i \in 1..Len(channel) : channel'[i] = channel[i]
        /\ \A i \in 1..Len(more) : channel'[Len(channel) + i] = more[i]
    BY <1>1, <1>10, ConcatProperties
  <2>2. /\ DOMAIN channel = 1..Len(channel) /\ DOMAIN more = 1..Len(more)
        /\ DOMAIN channel' = 1..(Len(channel) + Len(more)) /\ Len(channel) \in Nat /\ Len(more) \in Nat
    BY <1>1, <1>10, <2>1, ElementsOf
  <2>3. HasExit(channel) => HasExit(channel')
    BY <2>1, <2>2 DEF HasExit
  <2>4. ASSUME HasExit(more) PROVE HasExit(channel')
    <3>1. PICK i \in DOMAIN more : more[i] = ExitPacket
      BY <2>4 DEF HasExit
    <3> DEFINE j == Len(channel) + i
    <3>2. j \in DOMAIN channel' /\ channel'[j] = ExitPacket
      BY <2>1, <2>2, <3>1
    <3> HIDE DEF j
    <3> QED BY <3>2 DEF HasExit
  <2>5. NoneBad(channel')
    <3> SUFFICES ASSUME NEW i \in 1..(Len(channel) + Len(more)) PROVE channel'[i] # Stopped("bad access")
      BY <2>2 DEF NoneBad
    <3>1. CASE i <= Len(channel)
      <4>1. i \in DOMAIN channel /\ channel'[i] = channel[i]
        BY <2>1, <2>2, <3>1
      <4> QED BY <4>1 DEF TrapsOnly, NoneBad
    <3>2. CASE i > Len(channel)
      <4> DEFINE j == i - Len(channel)
      <4>1. j \in DOMAIN more /\ channel'[i] = more[j]
        BY <2>1, <2>2, <3>2
      <4> HIDE DEF j
      <4> QED BY <1>10, <4>1 DEF NoneBad
    <3>3. i <= Len(channel) \/ i > Len(channel)
      BY <2>2
    <3> QED BY <3>1, <3>2, <3>3
  <2>6. TrapReasons' /\ HelperHeld' /\ TrapStopped' = TrapStopped
    BY <1>10 DEF TrapsOnly, TrapReasons, HelperHeld, TrapStopped
  <2> QED BY <1>1, <1>2, <1>10, <2>3, <2>4, <2>5, <2>6 DEF TrapsOnly, Reached
<1>11. CASE Writes
  <2>1. channel' = channel \o <<Output>> /\ UNCHANGED <<thread, running, due>>
    BY <1>1, <1>11, AppendIsConcat, PacketsAre DEF Writes
  <2>2. Output # Stopped("bad access")
    BY DEF Output, Stopped
  <2>3. NoneBad(<<Output>>) /\ <<Output>> \in Seq(Packet)
    <3>1. Output \in Packet
      BY PacketsAre
    <3>2. NoneBad(<<Output>>)
      BY <2>2, <3>1, OnePacket
    <3> QED BY <3>1, <3>2
  <2> QED BY <1>10, <2>1, <2>3 DEF TrapsOnly
<1>12. CASE SendReply
  <2>1. channel' = channel \o due /\ due' = <<>> /\ UNCHANGED <<thread, running>>
    BY <1>12 DEF SendReply
  <2> QED BY <1>1, <1>10, <2>1, OnePacket DEF TrapsOnly
<1> QED BY <1>1, <1>4, <1>5, <1>6, <1>8, <1>9, <1>11, <1>12 DEF ServerNext


\* What is read is a part of what was under way.
LEMMA ReadRest ==
  ASSUME ServerTypeOK, NEW packets \in Packets, Read(packets)
  PROVE  /\ \A i \in DOMAIN packets : i \in DOMAIN channel /\ packets[i] = channel[i]
         /\ NoneBad(channel) => NoneBad(packets) /\ NoneBad(channel')
         /\ HasExit(channel) => HasExit(packets) \/ HasExit(channel')
         /\ UNCHANGED <<thread, text, running, due>>
<1>1. /\ packets \in Seq(Packet) /\ Len(packets) \in 1..Len(channel)
      /\ \A i \in 1..Len(packets) : packets[i] = channel[i]
      /\ channel' \in Seq(Packet) /\ Len(channel') = Len(channel) - Len(packets)
      /\ \A i \in 1..Len(channel') : channel'[i] = channel[Len(packets) + i]
      /\ UNCHANGED <<thread, text, running, due>>
  BY ReadIs
<1>2. channel \in Seq(Packet)
  BY DEF ServerTypeOK
<1>3. /\ DOMAIN packets = 1..Len(packets) /\ DOMAIN channel = 1..Len(channel)
      /\ DOMAIN channel' = 1..(Len(channel) - Len(packets)) /\ Len(packets) \in Nat /\ Len(channel) \in Nat
  BY <1>1, <1>2, ElementsOf
<1>4. \A i \in DOMAIN packets : i \in DOMAIN channel /\ packets[i] = channel[i]
  BY <1>1, <1>3
<1>5. ASSUME NEW i \in DOMAIN channel' PROVE \E j \in DOMAIN channel : channel'[i] = channel[j]
  <2> DEFINE j == Len(packets) + i
  <2>1. j \in DOMAIN channel /\ channel'[i] = channel[j]
    BY <1>1, <1>3
  <2> HIDE DEF j
  <2> QED BY <2>1
<1>6. ASSUME NEW i \in DOMAIN channel
      PROVE  \/ \E j \in DOMAIN packets : channel[i] = packets[j]
             \/ \E j \in DOMAIN channel' : channel[i] = channel'[j]
  <2>1. CASE i <= Len(packets)
    <3>1. i \in DOMAIN packets /\ packets[i] = channel[i]
      BY <1>1, <1>3, <2>1
    <3> QED BY <3>1
  <2>2. CASE i > Len(packets)
    <3> DEFINE j == i - Len(packets)
    <3>1. j \in DOMAIN channel' /\ channel'[j] = channel[i]
      BY <1>1, <1>3, <2>2
    <3> HIDE DEF j
    <3> QED BY <3>1
  <2>3. i <= Len(packets) \/ i > Len(packets)
    BY <1>3
  <2> QED BY <2>1, <2>2, <2>3
<1>7. NoneBad(channel) => NoneBad(packets) /\ NoneBad(channel')
  BY <1>4, <1>5 DEF NoneBad
<1>8. HasExit(channel) => HasExit(packets) \/ HasExit(channel')
  BY <1>6 DEF HasExit
<1> QED BY <1>1, <1>4, <1>7, <1>8

\* The reply that a call waits for.
LEMMA RepliesTraps ==
  ASSUME ControlInv, TrapsOnly, OneReply, Open', NEW packets \in Packets, Read(packets), HandleReplies(packets),
         ~running => HasExit(due) \/ HasExit(channel) \/ TrapStopped # {}
  PROVE  TrapsOnly'
<1>1. /\ ServerTypeOK /\ channel \in Seq(Packet) /\ link \in [at : {"connecting", "asking", "up", "closed"},
                                                            request : 0..5, kill : BOOLEAN]
      /\ due \in Seq(Packet)
  BY DEF ControlInv, TypeOK, ServerTypeOK, ClientTypeOK
<1>2. /\ \A i \in DOMAIN packets : i \in DOMAIN channel /\ packets[i] = channel[i]
      /\ NoneBad(packets) /\ NoneBad(channel') /\ packets \in Seq(Packet)
      /\ HasExit(channel) => HasExit(packets) \/ HasExit(channel')
      /\ UNCHANGED <<thread, text, running, due>>
  BY <1>1, ReadRest, ReadIs DEF TrapsOnly
<1>3. TrapReasons' /\ HelperHeld' /\ TrapStopped' = TrapStopped /\ NoneBad(due')
  BY <1>2 DEF TrapsOnly, TrapReasons, HelperHeld, TrapStopped
<1>4. ~HasFailed(packets)
  <2> SUFFICES ASSUME NEW k \in DOMAIN packets, packets[k] # Output,
                      packets[k] \in {Stopped("bad access"), Threads}
               PROVE  FALSE
    BY DEF HasFailed, First
  <2>1. packets[k] = Threads
    BY <1>2 DEF NoneBad
  <2>2. k \in DOMAIN channel /\ channel[k] = Threads
    BY <1>2, <2>1
  <2>3. channel[k] \in LastReply
    BY <2>1, <2>2, <1>2 DEF OneReply, EndsInReply
  <2>4. Threads \notin LastReply
    <3>1. Threads # ExitPacket /\ \A r : Stopped(r) # Threads
      BY DEF Threads, ExitPacket, Stopped
    <3> QED BY <3>1 DEF LastReply
  <2> QED BY <2>2, <2>3, <2>4
<1>5. ~HasExited(packets)
  BY <1>1 DEF HasExited, Open
<1>6. CASE WaitsStill(packets)
  <2>1. ~HasExit(packets)
    <3>1. Output # ExitPacket
      BY DEF Output, ExitPacket
    <3> QED BY <1>6, <3>1 DEF HasExit, WaitsStill
  <2>2. UNCHANGED <<event, link>>
    BY <1>6 DEF WaitsStill
  <2> QED BY <1>2, <1>3, <2>1, <2>2 DEF TrapsOnly, Reached, NoError
<1>7. ASSUME NEW r \in Reason \ {"bad access"}, Selects(packets, r) PROVE TrapsOnly'
  <2>1. PICK k \in DOMAIN packets : First(packets, k) /\ packets[k] = Stopped(r)
    BY <1>7 DEF Selects
  <2>2. UNCHANGED <<event, link>>
    BY <1>7 DEF Selects
  <2>3. Stopped(r) # ExitPacket /\ Stopped(r) # Output /\ Output # ExitPacket
    BY DEF Stopped, ExitPacket, Output
  <2>4. k \in DOMAIN channel /\ channel[k] = Stopped(r) /\ k = Len(channel)
    BY <1>2, <2>1, <2>3 DEF OneReply, EndsInReply
  <2>5. ~running /\ due = <<>>
    BY <2>3, <2>4 DEF OneReply, Outputs
  <2>6. ~HasExit(channel)
    <3>1. ASSUME NEW i \in DOMAIN channel, channel[i] = ExitPacket PROVE FALSE
      <4>1. i = Len(channel)
        BY <2>3, <3>1 DEF OneReply, EndsInReply
      <4> QED BY <2>3, <2>4, <3>1, <4>1
    <3> QED BY <3>1 DEF HasExit
  <2>7. TrapStopped # {}
    <3>1. ~HasExit(due)
      BY <2>5, OnePacket
    <3> QED BY <2>5, <2>6, <3>1
  <2> QED BY <1>2, <1>3, <2>2, <2>7 DEF TrapsOnly, Reached, NoError
<1> QED BY <1>2, <1>4, <1>5, <1>6, <1>7, HandleRepliesIs

\* NoneTrapped never finds the call without a thread.
LEMMA WaitsTraps ==
  ASSUME Calm, OnlyLiving, Found, TrapsOnly, Waits, Open'
  PROVE  TrapsOnly' /\ UNCHANGED <<thread, text>>
<1> USE DEF Calm
<1>1. /\ channel \in Seq(Packet) /\ thread \in States /\ ServerTypeOK /\ call \in Call /\ Asks
      /\ call.todo \in Seq(Thread) /\ call.found \in Seq(Thread)
  BY DEF ControlInv, TypeOK, ServerTypeOK, ClientTypeOK, States, CallsStep, Call
<1>2. call.at # "idle"
  BY WaitsOutcome DEF ControlInv, TypeOK, CallsStep
<1>3. ~running => HasExit(due) \/ HasExit(channel) \/ TrapStopped # {}
  BY <1>2 DEF TrapsOnly, Reached
<1>4. HasExit(due) => due # <<>>
  BY DEF HasExit
\* The channel holds at most the answer that was asked for.
<1>5. ASSUME UNCHANGED <<thread, running, due, link>>, NoneBad(channel'), event' = event \/ event' # Failed,
             HasExit(channel) => HasExit(channel')
      PROVE  TrapsOnly'
  <2>1. TrapReasons' /\ HelperHeld' /\ TrapStopped' = TrapStopped
    BY <1>5 DEF TrapsOnly, TrapReasons, HelperHeld, TrapStopped
  <2> QED BY <1>3, <1>5, <2>1 DEF TrapsOnly, Reached, NoError
<1>6. ASSUME NEW r \in Reason, channel = <<Stopped(r)>> PROVE ~HasExit(channel)
  <2>1. Stopped(r) # ExitPacket
    BY DEF Stopped, ExitPacket
  <2>2. \A i \in DOMAIN channel : channel[i] = Stopped(r)
    BY <1>6
  <2> QED BY <2>1, <2>2 DEF HasExit
<1>7. ~HasExit(<<>>) /\ ~HasExit(<<Threads>>)
  <2>1. Threads # ExitPacket /\ DOMAIN <<>> = {} /\ \A i \in DOMAIN <<Threads>> : <<Threads>>[i] = Threads
    BY DEF Threads, ExitPacket
  <2> QED BY <2>1 DEF HasExit
<1>8. ASSUME NEW p, channel = <<p>>, NEW packets \in Packets, Read(packets)
      PROVE  channel' = <<>> /\ packets = <<p>> /\ Head(packets) = p
  <2>1. /\ packets \in Seq(Packet) /\ Len(packets) \in 1..Len(channel)
        /\ \A i \in 1..Len(packets) : packets[i] = channel[i]
        /\ channel' \in Seq(Packet) /\ Len(channel') = Len(channel) - Len(packets)
        /\ Head(packets) = channel[1]
    BY <1>1, <1>8, ReadIs
  <2>2. Len(channel) = 1 /\ channel[1] = p
    BY <1>8
  <2>3. Len(packets) = Len(channel) /\ Len(channel') = 0
    BY <2>1, <2>2
  <2>4. packets = channel
    BY <1>1, <2>1, <2>3, SeqEqual
  <2> QED BY <1>8, <2>1, <2>2, <2>3, <2>4, ElementsOf
<1>9. ASSUME call.at \in {"checking", "selecting"}, call.asked
      PROVE  \E r \in Reason : Silent /\ channel = <<Stopped(r)>> /\ Head(call.todo) \in Thread
                               /\ r = thread[Head(call.todo)].stop
  <2>1. call.todo # <<>> /\ channel = <<Stopped(thread[call.todo[1]].stop)>> /\ Silent
    BY <1>1, <1>9 DEF Asks, Quiet
  <2>2. Head(call.todo) = call.todo[1] /\ Head(call.todo) \in Thread
    BY <1>1, <2>1, FirstOf
  <2>3. thread[Head(call.todo)].stop \in Reason
    BY <1>1, <2>2 DEF States, ThreadState
  <2> QED BY <2>1, <2>2, <2>3
<1>10. CASE Receive
  <2>1. PICK packets \in Packets : Read(packets) /\ HandleReplies(packets)
    BY <1>10 DEF Receive
  <2>2. OneReply
    BY <1>10 DEF Receive, Quiet
  <2>3. UNCHANGED <<thread, text>>
    BY <1>1, <2>1, ReadIs
  <2> QED BY <1>3, <1>4, <2>1, <2>2, <2>3, RepliesTraps
<1>11. CASE Timeout
  <2>1. /\ channel = <<>> /\ due = <<>> /\ channel' = Append(channel, Threads)
        /\ UNCHANGED <<thread, text, running, due, link, event>>
    BY <1>11 DEF Timeout, Answer
  <2>2. channel' = <<Threads>>
    BY <2>1
  <2>3. Threads # Stopped("bad access") /\ Threads \in Packet
    BY PacketsAre DEF Threads, Stopped
  <2>4. NoneBad(<<Threads>>)
    BY <2>3, OnePacket
  <2> QED BY <1>5, <1>7, <2>1, <2>2, <2>4
<1>12. CASE ReceiveThreads
  <2>1. PICK packets \in Packets :
          /\ Read(packets)
          /\ IF packets = <<Threads>>
               THEN call' = [call EXCEPT !.at = "checking", !.todo = Living] /\ UNCHANGED event
               ELSE Return(Failed)
    BY <1>12 DEF ReceiveThreads
  <2>2. Silent /\ channel = <<Threads>> /\ UNCHANGED link
    BY <1>12 DEF ReceiveThreads, Quiet
  <2>3. channel' = <<>> /\ packets = <<Threads>>
    BY <1>8, <2>1, <2>2
  <2>4. UNCHANGED <<thread, text, running, due>>
    BY <1>1, <2>1, ReadIs
  <2> QED BY <1>5, <1>7, <2>1, <2>2, <2>3, <2>4, OnePacket
<1>13. CASE Ask
  <2>1. /\ call.at \in {"checking", "selecting"} /\ call.todo # <<>> /\ ~call.asked
        /\ channel' = Append(channel, Stopped(thread[Head(call.todo)].stop))
        /\ UNCHANGED <<thread, text, running, due, link, event>>
    BY <1>13 DEF Ask, Answer
  <2>2. Silent /\ channel = <<>>
    BY <2>1 DEF Quiet
  <2>3. Head(call.todo) \in Thread
    BY <1>1, <2>1, FirstOf
  <2> DEFINE r == thread[Head(call.todo)].stop
  <2>4. r \in {"none", "trap"}
    BY <2>3 DEF TrapsOnly, TrapReasons
  <2>5. channel' = <<Stopped(r)>>
    BY <2>1, <2>2
  <2> HIDE DEF r
  <2>6. Stopped(r) \in Packet /\ Stopped(r) # Stopped("bad access")
    BY <2>4, PacketsAre DEF Reason, Stopped
  <2>7. NoneBad(<<Stopped(r)>>)
    BY <2>6, OnePacket
  <2> QED BY <1>5, <1>7, <2>1, <2>2, <2>5, <2>7
<1>14. CASE CheckStopReply
  <2>1. PICK packets \in Packets :
          /\ Read(packets)
          /\ IF Head(packets) = Stopped("none")
               THEN call' = Answered /\ UNCHANGED <<link, event, owed>>
               ELSE HandleReplies(packets)
    BY <1>14 DEF CheckStopReply
  <2>2. PICK r \in Reason : Silent /\ channel = <<Stopped(r)>>
    BY <1>9, <1>14 DEF CheckStopReply
  <2>3. ~HasExit(channel) /\ channel' = <<>> /\ Head(packets) = Stopped(r)
    BY <1>6, <1>8, <2>1, <2>2
  <2>4. UNCHANGED <<thread, text, running, due>>
    BY <1>1, <2>1, ReadIs
  <2>5. CASE Head(packets) = Stopped("none")
    BY <1>5, <2>1, <2>3, <2>4, <2>5, OnePacket
  <2>6. CASE Head(packets) # Stopped("none")
    <3>1. Stopped(r) \in LastReply
      BY <2>2, <2>3, <2>6 DEF LastReply
    <3>2. DOMAIN channel = {1} /\ Len(channel) = 1 /\ channel[1] = Stopped(r)
      BY <2>2
    <3>3. EndsInReply(channel)
      BY <3>1, <3>2 DEF EndsInReply
    <3>4. OneReply
      BY <2>2, <3>3 DEF OneReply, Silent
    <3>5. TrapStopped # {}
      BY <1>3, <1>4, <2>2, <2>3 DEF Silent
    <3> QED BY <2>1, <2>4, <2>6, <3>4, <3>5, RepliesTraps
  <2> QED BY <2>5, <2>6
<1>15. CASE NoneStopped
  BY <1>5, <1>15 DEF NoneStopped, server, TrapsOnly
<1>16. CASE SelectTrappedThread
  <2>1. PICK packets \in Packets : Read(packets)
    BY <1>16 DEF SelectTrappedThread
  <2>2. PICK r \in Reason : Silent /\ channel = <<Stopped(r)>>
    BY <1>9, <1>16 DEF SelectTrappedThread
  <2>3. ~HasExit(channel) /\ channel' = <<>>
    BY <1>6, <1>8, <2>1, <2>2
  <2>4. UNCHANGED <<thread, text, running, due, link, event>>
    BY <1>1, <1>16, <2>1, ReadIs DEF SelectTrappedThread
  <2> QED BY <1>5, <2>3, <2>4, OnePacket
<1>17. ASSUME NoneTrapped PROVE FALSE
  <2>1. call.at = "selecting" /\ call.todo = <<>> /\ call.found = <<>>
    BY <1>17 DEF NoneTrapped, Selected
  <2>2. TrapStopped = {}
    BY <2>1 DEF Found, Elements
  <2>3. Silent /\ channel = <<>>
    BY <1>1, <2>1 DEF Quiet, Asks
  <2> QED BY <1>3, <1>4, <1>7, <2>2, <2>3 DEF Silent
<1>18. CASE SomeTrapped
  <2>1. UNCHANGED <<thread, text, running, due, channel, link>>
        /\ event' \in {Trapped(call.found), Unspecified(call.found)}
    BY <1>18 DEF SomeTrapped, Return, server
  <2>2. event' # Failed
    BY <2>1 DEF Trapped, Unspecified, Failed
  <2> QED BY <1>5, <2>1, <2>2 DEF TrapsOnly
<1> QED BY <1>10, <1>11, <1>12, <1>13, <1>14, <1>15, <1>16, <1>17, <1>18 DEF Waits


-----------------------------------------------------------------------------
(* The traps in the text.                                                  *)

LEMMA TextStays ==
  ASSUME Calm, ControlInv', TrapsOnly, TextInv, ProcessStep, Open'
  PROVE  TextInv'
<1> USE DEF Calm
<1>1. /\ text \in [Addr -> {"org", "trap"}] /\ frames \in Seq(Frame) /\ breakpoints \subseteq Addr
      /\ DOMAIN frames = 1..Len(frames) /\ Len(frames) \in Nat
      /\ frames' \in Seq(Frame) /\ DOMAIN frames' = 1..Len(frames') /\ Len(frames') \in Nat
      /\ frames = <<>> <=> Len(frames) = 0
      /\ \A i \in 1..Len(frames) : frames[i] \in Frame
  BY BreakAddrAssumption, ElementsOf DEF ControlInv, TypeOK, ServerTypeOK
<1>2. frames # <<>> => Frm = frames[1] /\ Frm \in Frame /\ 1 \in DOMAIN frames /\ link.at = "up"
  BY FrmIs DEF ControlInv, HandlersCall, InHandler, HandlerAt, TypeOK, ClientTypeOK, Open
\* The addresses that SingleStep is at keep their witness.
<1> DEFINE Out(a) == \E i \in DOMAIN frames : frames[i].op = "step" /\ frames[i].place.pc = a /\ ~frames[i].place.inside
<1>3. ASSUME UNCHANGED <<text, breakpoints>>, NEW j \in {0, 1},
             \A i \in 1..Len(frames) : /\ i + j \in 1..Len(frames')
                                       /\ frames'[i + j].op = frames[i].op
                                       /\ frames[i].op = "step" => frames'[i + j].place = frames[i].place
      PROVE  TextInv'
  <2>1. ASSUME NEW a, Out(a) PROVE Out(a)'
    <3>1. PICK i \in 1..Len(frames) : frames[i].op = "step" /\ frames[i].place.pc = a /\ ~frames[i].place.inside
      BY <1>1, <2>1
    <3> DEFINE k == i + j
    <3>2. k \in DOMAIN frames' /\ frames'[k].op = "step" /\ frames'[k].place = frames[i].place
      BY <1>1, <1>3, <3>1
    <3> HIDE DEF k
    <3> QED BY <3>1, <3>2
  <2> QED BY <1>3, <2>1 DEF TextInv
<1>4. ASSUME UNCHANGED <<text, breakpoints, frames>> PROVE TextInv'
  BY <1>4 DEF TextInv
<1>5. ASSUME UNCHANGED <<text, breakpoints>>, \A i \in DOMAIN frames : frames[i].op # "step" PROVE TextInv'
  BY <1>5 DEF TextInv
<1>6. ASSUME UNCHANGED <<text, breakpoints>>, frames # <<>>, NEW f, Replaces(f), f.op = Frm.op,
             f.op = "step" => f.place = Frm.place
      PROVE  TextInv'
  <2>1. \A i \in 1..Len(frames) : /\ i + 0 \in 1..Len(frames')
                                  /\ frames'[i + 0].op = frames[i].op
                                  /\ frames[i].op = "step" => frames'[i + 0].place = frames[i].place
    BY <1>1, <1>2, <1>6 DEF Replaces
  <2> QED BY <1>3, <1>6, <2>1
<1>7. frames # <<>> /\ Frm.op = "tls" => Len(frames) = 1
  BY <1>1, <1>2 DEF ControlInv, HandlersCall, FramesNest
<1>8. frames = <<>> \/ (Len(frames) = 1 /\ Frm.op = "tls") => \A i \in DOMAIN frames : frames[i].op # "step"
  BY <1>1, <1>2
<1>9. CASE Attach \/ AttachFails \/ NewProcess \/ Interrupted \/ Returns \/ HandlerReturns \/ Resumes
  <2>1. UNCHANGED <<text, breakpoints, frames>>
    BY <1>9 DEF Attach, Connect, Initialize, AttachFails, NewProcess, Interrupted, Returns, HandlerReturns,
       Resumes, ContinueAndWait, server
  <2> QED BY <1>4, <2>1
<1>10. CASE NewProcessFails \/ Detach
  BY <1>10 DEF NewProcessFails, Detach, DetachProcess, Open, ControlInv, TypeOK, ClientTypeOK
<1>11. CASE CurrentGoRoutineInfo \/ HandleTrap \/ HandleCalledFunction
  <2>1. frames = <<>> /\ UNCHANGED <<text, breakpoints>>
    BY <1>11 DEF CurrentGoRoutineInfo, HandleTrap, HandleCalledFunction, Handles, server
  <2> QED BY <1>5, <1>8, <2>1
<1>12. ASSUME NEW a \in Addr, SetBreakpoint(a) \/ ClearBreakpoint(a) PROVE TextInv'
  <2>1. frames' = frames
    BY <1>12 DEF SetBreakpoint, ClearBreakpoint
  <2>2. \/ UNCHANGED <<text, breakpoints>>
        \/ text' = [text EXCEPT ![a] = "trap"] /\ breakpoints' = breakpoints \cup {a}
        \/ text' = [text EXCEPT ![a] = "org"] /\ breakpoints' = breakpoints \ {a}
    BY <1>12 DEF SetBreakpoint, ClearBreakpoint
  <2>3. CASE UNCHANGED <<text, breakpoints>>
    BY <1>4, <2>1, <2>3
  <2>4. CASE text' = [text EXCEPT ![a] = "trap"] /\ breakpoints' = breakpoints \cup {a}
    BY <1>1, <2>1, <2>4 DEF TextInv
  <2>5. CASE text' = [text EXCEPT ![a] = "org"] /\ breakpoints' = breakpoints \ {a}
    BY <1>1, <2>1, <2>5 DEF TextInv
  <2> QED BY <2>2, <2>3, <2>4, <2>5
<1>13. CASE ReadTLS
  <2>1. UNCHANGED <<text, breakpoints>> /\ Len(frames) = 1 /\ frames # <<>> /\ Frm.op = "tls"
    BY <1>13, ReadTLSDoes
  <2> QED BY <1>5, <1>8, <2>1
<1>14. CASE ReadTLSReturns
  <2>1. UNCHANGED <<text, breakpoints>> /\ Len(frames) = 1 /\ frames # <<>> /\ Frm.op = "tls"
    BY <1>14, ReadTLSReturnsDoes
  <2> QED BY <1>5, <1>8, <2>1
<1>15. CASE SingleStep
  <2> DEFINE f == [Frm EXCEPT !.at = "stepping"]
  <2>1. /\ frames # <<>> /\ Frm.op = "step" /\ Replaces(f) /\ breakpoints' = breakpoints
        /\ text' = IF AtBreakpoint THEN [text EXCEPT ![Frm.place.pc] = "org"] ELSE text
    BY <1>15, SingleStepDoes
  <2>2. f.op = Frm.op /\ f.place = Frm.place
    BY <1>2, <2>1 DEF Frame
  <2> HIDE DEF f
  <2>3. \A i \in 1..Len(frames) : i \in DOMAIN frames' /\ frames'[i].op = frames[i].op /\ frames'[i].place = frames[i].place
    BY <1>1, <1>2, <2>1, <2>2 DEF Replaces
  <2>4. \A a : Out(a) => Out(a)'
    BY <1>1, <2>3
  <2>5. CASE AtBreakpoint
    <3>1. Frm.place.pc \in Addr /\ Out(Frm.place.pc)
      BY <1>1, <1>2, <2>1, <2>5 DEF AtBreakpoint
    <3>2. text' = [text EXCEPT ![Frm.place.pc] = "org"]
      BY <2>1, <2>5
    <3>3. PICK b \in Addr : b = Frm.place.pc
      BY <3>1
    <3>4. text'[b] = "org" /\ \A a \in Addr : a # b => text'[a] = text[a]
      BY <1>1, <3>2, <3>3
    <3>5. Out(b)'
      BY <2>4, <3>1, <3>3
    <3>6. \A a \in breakpoints : text'[a] = "trap" \/ Out(a)'
      BY <1>1, <2>4, <3>4, <3>5 DEF TextInv
    <3> QED BY <2>1, <3>4, <3>6 DEF TextInv
  <2>6. CASE ~AtBreakpoint
    BY <2>1, <2>4, <2>6 DEF TextInv
  <2> QED BY <2>5, <2>6
<1>16. CASE SingleStepReturns
  <2>1. frames # <<>> /\ Frm.op = "step" /\ breakpoints' = breakpoints
    BY <1>16, SingleStepReturnsDoes
  <2>2. event # Failed
    BY <1>2, <2>1 DEF TrapsOnly, NoError
  <2>3. event.type # "error"
    BY <2>2 DEF ControlInv, CallsStep
  <2>4. CASE event.type = "unspecified"
    <3> DEFINE f == [Frm EXCEPT !.at = "others", !.others = event.threads]
    <3>1. Replaces(f) /\ text' = text
      BY <1>16, <2>4, SingleStepReturnsDoes
    <3>2. f.op = Frm.op /\ f.place = Frm.place
      BY <1>2, <2>1 DEF Frame
    <3> HIDE DEF f
    <3> QED BY <1>6, <2>1, <3>1, <3>2
  <2>5. CASE event.type # "unspecified"
    <3>1. /\ Drops \/ (frames' = <<>> /\ Len(frames) = 1)
          /\ text' = IF AtBreakpoint THEN [text EXCEPT ![Frm.place.pc] = "trap"] ELSE text
      BY <1>16, <2>3, <2>5, SingleStepReturnsDoes DEF Ends
    \* Only the address of the frame that is dropped loses its witness.
    <3>2. ASSUME NEW a, Out(a) PROVE Out(a)' \/ (a = Frm.place.pc /\ ~Frm.place.inside)
      <4>1. PICK i \in 1..Len(frames) : frames[i].op = "step" /\ frames[i].place.pc = a /\ ~frames[i].place.inside
        BY <1>1, <3>2
      <4>2. CASE i = 1
        BY <1>2, <2>1, <4>1, <4>2
      <4>3. CASE i # 1
        <5> DEFINE k == i - 1
        <5>1. Drops /\ k \in DOMAIN frames' /\ k + 1 = i
          <6>1. Drops
            BY <1>1, <3>1, <4>3
          <6> QED BY <1>1, <4>3, <6>1 DEF Drops
        <5>2. k = 1 => frames'[k] = [frames[i] EXCEPT !.others = Tail(frames[i].others)]
          BY <4>1, <5>1 DEF Drops
        <5>3. k # 1 => frames'[k] = frames[i]
          BY <1>1, <5>1 DEF Drops
        <5> HIDE DEF k
        <5>4. frames'[k].op = frames[i].op /\ frames'[k].place = frames[i].place
          BY <1>1, <4>1, <5>2, <5>3 DEF Frame
        <5> QED BY <4>1, <5>1, <5>4
      <4> QED BY <4>2, <4>3
    <3> DEFINE b == Frm.place.pc
    <3>3. b \in breakpoints /\ ~Frm.place.inside => b \in Addr /\ text' = [text EXCEPT ![b] = "trap"]
      BY <1>1, <3>1 DEF AtBreakpoint
    <3>4. ~(b \in breakpoints /\ ~Frm.place.inside) => text' = text
      BY <3>1 DEF AtBreakpoint
    <3>5. \A a \in Addr : a # b => text'[a] = text[a]
      BY <1>1, <3>3, <3>4
    <3>6. b \in breakpoints /\ ~Frm.place.inside => text'[b] = "trap"
      BY <1>1, <3>3
    <3>7. b \in Addr /\ ~(b \in breakpoints /\ ~Frm.place.inside) => text'[b] = text[b]
      BY <3>4
    <3>8. \A a \in breakpoints : text'[a] = "trap" \/ Out(a)'
      <4> SUFFICES ASSUME NEW a \in breakpoints, text'[a] # "trap" PROVE Out(a)'
        OBVIOUS
      <4>1. text[a] # "trap" /\ ~(a = b /\ ~Frm.place.inside)
        BY <1>1, <3>5, <3>6, <3>7
      <4>2. Out(a)
        BY <4>1 DEF TextInv
      <4> QED BY <3>2, <4>1, <4>2
    <3>9. \A a \in Addr : text'[a] = "trap" => a \in breakpoints
      BY <3>5, <3>7 DEF TextInv
    <3> QED BY <2>1, <3>8, <3>9 DEF TextInv
  <2> QED BY <2>4, <2>5
<1>17. CASE StepUnspecifiedThread
  <2> DEFINE u == Frm.others[1]
             f == [Frm EXCEPT !.others = Tail(Frm.others)]
  <2>1. /\ frames # <<>> /\ UNCHANGED <<text, breakpoints>>
        /\ Replaces(f) \/ Pushes(StepOverTrap(u))
    BY <1>17, StepUnspecifiedThreadDoes
  <2>2. f.op = Frm.op /\ f.place = Frm.place
    BY <1>2, <2>1 DEF Frame
  <2> HIDE DEF f, u
  <2>3. CASE Replaces(f)
    BY <1>6, <2>1, <2>2, <2>3
  <2>4. CASE Pushes(StepOverTrap(u))
    <3>1. \A i \in 1..Len(frames) : i + 1 \in 1..Len(frames') /\ frames'[i + 1] = frames[i]
      BY <1>1, <2>4 DEF Pushes
    <3> QED BY <1>3, <2>1, <3>1
  <2> QED BY <2>1, <2>3, <2>4
<1>18. CASE StepAgain
  <2> DEFINE f == [Frm EXCEPT !.at = "begin"]
  <2>1. frames # <<>> /\ Replaces(f) /\ UNCHANGED <<text, breakpoints>>
    BY <1>18, StepAgainDoes
  <2>2. f.op = Frm.op /\ f.place = Frm.place
    BY <1>2, <2>1 DEF Frame
  <2> HIDE DEF f
  <2> QED BY <1>6, <2>1, <2>2
<1>19. CASE ClientWaits
  <2>1. UNCHANGED <<breakpoints, frames>> /\ Waits
    BY <1>19 DEF ClientWaits
  <2>2. text' = text
    BY <2>1 DEF Waits, Receive, Timeout, ReceiveThreads, Ask, CheckStopReply, NoneStopped, SelectTrappedThread,
       NoneTrapped, SomeTrapped, Read, Answer, server
  <2> QED BY <1>4, <2>1, <2>2
<1>20. CASE ServerMoves
  <2>1. UNCHANGED <<breakpoints, frames>> /\ ServerNext
    BY <1>20 DEF ServerMoves
  <2>2. text' = text
    BY <2>1 DEF ServerNext, HitTrap, Execute, Interfere, Stop, Exits, Writes, SendReply
  <2> QED BY <1>4, <2>1, <2>2
<1> QED BY <1>9, <1>10, <1>11, <1>12, <1>13, <1>14, <1>15, <1>16, <1>17, <1>18, <1>19, <1>20
        DEF ProcessStep, Handlers

LEMMA UnsignalledStays ==
  ASSUME ControlInv, QuietInv, HelperInv, UnsignalledInv, [ProcessNext]_processVars
  PROVE  UnsignalledInv'
<1>1. SUFFICES ASSUME Unsignalled', Open' PROVE TrapsOnly' /\ TextInv'
  BY DEF UnsignalledInv
<1>2. happens' = happens /\ Unsignalled /\ Prompt
  BY <1>1 DEF processVars, ProcessNext, Unsignalled, Prompt
<1>3. ControlInv' /\ Open
  BY <1>1, ControlStays, StaysOpen
<1>4. Calm /\ PlacesOutside /\ OthersOutside /\ TrapsOnly /\ TextInv /\ OnlyLiving /\ Found
  BY <1>2, <1>3 DEF HelperInv, QuietInv, UnsignalledInv, Calm
<1>5. CASE UNCHANGED processVars
  BY <1>4, <1>5 DEF processVars, server, client, TrapsOnly, TextInv, TrapReasons, HelperHeld, Reached, NoneBad,
     HasExit, NoError, TrapStopped
<1>6. CASE ProcessNext
  <2>1. TextInv'
    BY <1>1, <1>3, <1>4, <1>6, TextStays DEF ProcessNext
  <2>2. CASE ClientWaits
    BY <1>1, <1>4, <2>1, <2>2, WaitsTraps DEF ClientWaits
  <2>3. CASE ServerMoves
    BY <1>2, <1>4, <2>1, <2>3, ServerTraps
  <2>4. CASE ~ClientWaits /\ ~ServerMoves
    <3>1. Rests \/ Resuming
      BY <1>2, <1>3, <1>4, <1>6, <2>4, OthersRest DEF ProcessNext, Calm
    <3>2. HelperHeld' /\ NoError'
      BY <1>1, <1>4, <1>6, <2>4, OthersHelper, NoNewFailure DEF ProcessNext, TrapsOnly, Calm
    <3>3. TrapReasons'
      BY <1>1, <1>4, <3>1 DEF TrapsOnly, TrapReasons, Rests, Resuming
    <3>4. UNCHANGED <<due, channel>>
      BY <3>1 DEF Rests, Resuming
    <3>5. NoneBad(due') /\ NoneBad(channel')
      BY <1>4, <3>4 DEF TrapsOnly
    <3>6. Reached'
      <4>1. CASE Rests
        <5>1. TrapStopped' = TrapStopped /\ UNCHANGED <<running, call, due, channel>>
          BY <4>1 DEF Rests, TrapStopped
        <5> QED BY <1>4, <5>1 DEF TrapsOnly, Reached, HasExit
      <4>2. CASE Resuming
        BY <4>2 DEF Resuming, Reached
      <4> QED BY <3>1, <4>1, <4>2
    <3> QED BY <2>1, <3>2, <3>3, <3>5, <3>6 DEF TrapsOnly
  <2> QED BY <2>1, <2>2, <2>3, <2>4
<1> QED BY <1>5, <1>6

LEMMA UnsignalledBegins ==
  ProcessInit => UnsignalledInv
<1> SUFFICES ASSUME ProcessInit PROVE TrapsOnly /\ TextInv
  BY DEF UnsignalledInv
<1>1. /\ \A t \in Thread : /\ thread[t].mode = "held" /\ thread[t].hit = "none" /\ thread[t].stop = "none"
      /\ text = [a \in Addr |-> "org"] /\ due = <<>> /\ channel = <<>> /\ call = Idle /\ event = NoEvent
      /\ breakpoints = {} /\ frames = <<>>
  BY DEF ProcessInit, ServerInit, ClientInit
<1>2. TrapReasons /\ HelperHeld
  BY <1>1 DEF TrapReasons, HelperHeld
<1>3. Reached /\ NoError
  BY <1>1 DEF Reached, NoError, Idle, NoEvent, Failed
<1>4. NoneBad(due) /\ NoneBad(channel)
  BY <1>1, OnePacket
<1>5. TextInv
  BY <1>1 DEF TextInv
<1> QED BY <1>2, <1>3, <1>4, <1>5 DEF TrapsOnly

\* SingleStep writes the trap again after every step without a signal, and after the
\* steps over other threads' traps inside it: no breakpoint is lost, and none is left
\* in the text.
THEOREM TextCorrect == ProcessSpec => []TextMatchesBreakpoints
<1>1. ControlInv /\ UnsignalledInv => TextMatchesBreakpoints
  <2> SUFFICES ASSUME ControlInv, TextInv
               PROVE  LET traps == {a \in Addr : text[a] = "trap"}
                          out == {frames[i].place.pc : i \in DOMAIN frames}
                      IN  traps \subseteq breakpoints /\ breakpoints \subseteq traps \cup out
    BY DEF UnsignalledInv, TextMatchesBreakpoints, Tracing, Open
  <2>1. breakpoints \subseteq Addr
    BY BreakAddrAssumption DEF ControlInv, TypeOK
  <2> QED BY <2>1 DEF TextInv
<1> QED BY <1>1, HelperBegins, HelperStays, QuietBegins, QuietStays, ControlBegins, ControlStays,
           UnsignalledBegins, UnsignalledStays, PTL DEF ProcessSpec


-----------------------------------------------------------------------------
(* One instruction at a time.                                              *)

\* No thread is found twice, and a step that ends for another thread names one.
FoundOnce ==
  /\ call.at \in {"checking", "selecting"} => Distinct(call.todo)
  /\ call.at = "selecting" => /\ Distinct(call.found)
                              /\ \A i \in DOMAIN call.found, k \in DOMAIN call.todo : call.found[i] # call.todo[k]
  /\ call.at = "idle" /\ Stepping /\ event.type = "unspecified" =>
       \E i \in DOMAIN event.threads : event.threads[i] # Frm.thread

\* A stop waits to be reported only at a thread that nobody handles, or that is stepped.
Unhit(t) == thread[t].hit = "none" \/ (Stepping /\ Frm.thread = t)
ReportedOnce ==
  /\ running => \A t \in Thread : thread[t].stop = "none"
  /\ \A t \in Thread : thread[t].stop # "none" => thread[t].hit = "none"
ReportedTodo == InHandler => \A i \in DOMAIN handling.todo : Unhit(handling.todo[i])
ReportedFrames ==
  \A i \in DOMAIN frames : /\ Unhit(frames[i].thread)
                           /\ \A k \in DOMAIN frames[i].others : Unhit(frames[i].others[k])

\* The calls inside one another are for different threads, and no outer one stops meanwhile.
NestedDistinct ==
  \A i, j \in DOMAIN frames : i < j =>
    /\ frames[i].thread # frames[j].thread
    /\ \A k \in DOMAIN frames[i].others : frames[i].others[k] # frames[j].thread
NestedStill == Stepping => \A j \in DOMAIN frames : j > 1 => thread[frames[j].thread].stop = "none"

\* While a thread is stepped the process exits, or stops that waited are reported and no
\* thread runs, or this thread alone does, for one instruction.
ExitPending == HasExit(due) \/ HasExit(channel)
Alone(t) == \A u \in Thread : u # t =>
  thread[u].mode = "held" /\ thread[u].hit = "none" /\ thread[u].stop = "none"
NotYet(t) == thread[t].hit = "none" /\ thread[t].stop = "none"
AllHeld(f) == /\ \A u \in Thread : thread[u].mode = "held"
              /\ NotYet(f.thread)
              /\ f.op = "step" => thread[f.thread].steps = 0
BeforeStep(f) == /\ NotYet(f.thread) /\ thread[f.thread].steps = 0 /\ thread[f.thread].mode # "runs"
                 /\ thread[f.thread].pc = f.place.pc /\ thread[f.thread].inside = f.place.inside
                 /\ f.place.inside \/ text[f.place.pc] = "org"
AfterStep(f) == thread[f.thread].steps = 1 /\ thread[f.thread].mode = "held"
StepsOnce(f) ==
  \/ ExitPending
  \/ AllHeld(f)
  \/ Alone(f.thread) /\ (f.op = "step" => BeforeStep(f) \/ AfterStep(f))

\* The instructions of the outer calls are counted from zero.
ZeroSteps ==
  \A i \in DOMAIN frames : frames[i].op = "step" /\ ~(i = 1 /\ Stepping) => thread[frames[i].thread].steps = 0

OneByOne ==
  /\ FoundOnce /\ ReportedOnce /\ ReportedTodo /\ ReportedFrames /\ NestedDistinct /\ NestedStill
  /\ Stepping => StepsOnce(Frm)
  /\ ZeroSteps

UndisturbedInv == Undisturbed /\ Open => OneByOne

LEMMA TailDistinct ==
  ASSUME NEW S, NEW s \in Seq(S), s # <<>>, Distinct(s)
  PROVE  /\ Distinct(Tail(s))
         /\ \A i \in DOMAIN Tail(s) : Tail(s)[i] # Head(s) /\ \E j \in DOMAIN s : Tail(s)[i] = s[j]
<1>1. /\ Head(s) = s[1] /\ Len(s) \in Nat /\ Len(s) >= 1 /\ Tail(s) \in Seq(S) /\ Len(Tail(s)) = Len(s) - 1
      /\ \A i \in 1..(Len(s) - 1) : Tail(s)[i] = s[i + 1]
  BY FirstOf
<1>2. DOMAIN s = 1..Len(s) /\ DOMAIN Tail(s) = 1..(Len(s) - 1)
  BY <1>1, ElementsOf
<1>3. ASSUME NEW i \in DOMAIN Tail(s) PROVE i \in Nat /\ i + 1 \in DOMAIN s /\ i + 1 # 1 /\ Tail(s)[i] = s[i + 1]
  BY <1>1, <1>2
<1>4. 1 \in DOMAIN s
  BY <1>1, <1>2
<1>5. ASSUME NEW i \in DOMAIN Tail(s) PROVE Tail(s)[i] # Head(s) /\ \E j \in DOMAIN s : Tail(s)[i] = s[j]
  <2> DEFINE j == i + 1
  <2>1. j \in DOMAIN s /\ j # 1 /\ Tail(s)[i] = s[j]
    BY <1>3
  <2> HIDE DEF j
  <2> QED BY <1>1, <1>4, <2>1 DEF Distinct
<1>6. ASSUME NEW i \in DOMAIN Tail(s), NEW j \in DOMAIN Tail(s), Tail(s)[i] = Tail(s)[j] PROVE i = j
  <2> DEFINE k == i + 1
             l == j + 1
  <2>1. k \in DOMAIN s /\ l \in DOMAIN s /\ s[k] = s[l]
    BY <1>3, <1>6
  <2>2. k = l => i = j
    BY <1>3
  <2> HIDE DEF k, l
  <2> QED BY <2>1, <2>2 DEF Distinct
<1> QED BY <1>5, <1>6 DEF Distinct

LEMMA AppendDistinct ==
  ASSUME NEW S, NEW s \in Seq(S), NEW e \in S, Distinct(s), \A i \in DOMAIN s : s[i] # e
  PROVE  /\ Distinct(Append(s, e))
         /\ \A i \in DOMAIN Append(s, e) : Append(s, e)[i] = e \/ \E j \in DOMAIN s : Append(s, e)[i] = s[j]
<1> DEFINE a == Append(s, e)
<1>1. /\ a \in Seq(S) /\ Len(a) = Len(s) + 1 /\ a[Len(s) + 1] = e
      /\ \A i \in 1..Len(s) : a[i] = s[i]
  BY AppendProperties
<1> HIDE DEF a
<1>2. DOMAIN s = 1..Len(s) /\ DOMAIN a = 1..(Len(s) + 1) /\ Len(s) \in Nat
  BY <1>1, ElementsOf
<1>3. \A i \in DOMAIN a : (i = Len(s) + 1 /\ a[i] = e) \/ (i \in DOMAIN s /\ a[i] = s[i])
  BY <1>1, <1>2
<1>4. Distinct(a)
  BY <1>3 DEF Distinct
<1> QED BY <1>3, <1>4 DEF a

LEMMA OnlyOne ==
  ASSUME NEW S, NEW s \in Seq(S), s # <<>>, Distinct(s), NEW e, \A i \in DOMAIN s : s[i] = e
  PROVE  s = <<e>>
<1>1. DOMAIN s = 1..Len(s) /\ Len(s) \in Nat /\ Len(s) >= 1
  BY ElementsOf, FirstOf
<1>2. Len(s) = 1
  <2>1. SUFFICES ASSUME Len(s) >= 2 PROVE FALSE
    BY <1>1
  <2>2. 1 \in DOMAIN s /\ 2 \in DOMAIN s
    BY <1>1, <2>1
  <2> QED BY <2>2 DEF Distinct
<1>3. s[1] = e
  BY <1>1, <1>2
<1>4. e \in S
  BY <1>1, <1>2, <1>3, ElementsOf
<1> QED BY <1>2, <1>3, <1>4, SeqEqual, OneElement

LEMMA NoElements == DOMAIN <<>> = {}
OBVIOUS

LEMMA WaitsFound ==
  ASSUME Calm, FoundOnce, Waits, frames' = frames, Open'
  PROVE  FoundOnce'
<1> USE DEF Calm
<1>1. /\ ServerTypeOK /\ call \in Call /\ Asks /\ call.todo \in Seq(Thread) /\ call.found \in Seq(Thread)
      /\ Stepping' = Stepping /\ Frm' = Frm
      /\ link \in [at : {"connecting", "asking", "up", "closed"}, request : 0..5, kill : BOOLEAN]
  BY DEF ControlInv, TypeOK, ClientTypeOK, CallsStep, Call, Stepping, Frm
<1>2. Living \in Seq(Thread) /\ Distinct(Living) /\ Living' = Living /\ DOMAIN <<>> = {}
  BY LivingIs, NoElements DEF Living
<1>3. ASSUME call'.at \in {"waiting", "listing"} PROVE FoundOnce'
  BY <1>3 DEF FoundOnce
<1>4. ASSUME call'.at = "checking", Distinct(call'.todo) PROVE FoundOnce'
  BY <1>4 DEF FoundOnce
<1>5. ASSUME Return(Failed) PROVE FoundOnce'
  BY <1>5 DEF FoundOnce, Return, Failed, Idle
<1>6. ASSUME NEW packets \in Packets, Read(packets), HandleReplies(packets) PROVE FoundOnce'
  <2>1. packets \in Seq(Packet)
    BY <1>1, <1>6, ReadIs
  <2>2. CASE WaitsStill(packets)
    <3>1. call' = [Idle EXCEPT !.at = "waiting", !.step = call.step]
      BY <2>2 DEF WaitsStill
    <3> QED BY <1>3, <3>1 DEF Idle
  <2>3. CASE HasExited(packets)
    BY <1>1, <2>3 DEF HasExited, Open
  <2>4. CASE HasFailed(packets)
    BY <1>5, <2>4 DEF HasFailed, Return
  <2>5. ASSUME NEW r \in Reason \ {"bad access"}, Selects(packets, r) PROVE FoundOnce'
    <3>1. call' = [Idle EXCEPT !.at = "selecting", !.step = call.step, !.header = r, !.todo = Living]
      BY <2>5 DEF Selects
    <3>2. call'.at = "selecting" /\ call'.todo = Living /\ call'.found = <<>>
      BY <3>1 DEF Idle
    <3> QED BY <1>2, <3>2 DEF FoundOnce, Distinct
  <2> QED BY <1>6, <2>1, <2>2, <2>3, <2>4, <2>5, HandleRepliesIs
<1>7. ASSUME call.asked
      PROVE  /\ Answered.at = call.at /\ Answered.todo = Tail(call.todo) /\ Answered.found = call.found
             /\ Answered \in Call /\ call.todo # <<>> /\ Head(call.todo) = call.todo[1] /\ Head(call.todo) \in Thread
             /\ 1 \in DOMAIN call.todo
  <2>1. call.todo # <<>>
    BY <1>1, <1>7 DEF Asks
  <2>2. /\ Tail(call.todo) \in Seq(Thread) /\ Head(call.todo) = call.todo[1] /\ Head(call.todo) \in Thread
        /\ 1 \in DOMAIN call.todo
    BY <1>1, <2>1, FirstOf, ElementsOf
  <2> QED BY <1>1, <2>1, <2>2 DEF Answered, Call
<1>8. CASE Receive
  BY <1>6, <1>8 DEF Receive
<1>9. CASE Timeout
  <2>1. call' = [call EXCEPT !.at = "listing"]
    BY <1>9 DEF Timeout
  <2> QED BY <1>1, <1>3, <2>1 DEF Call
<1>10. CASE ReceiveThreads
  <2>1. call' = [call EXCEPT !.at = "checking", !.todo = Living] \/ Return(Failed)
    BY <1>10 DEF ReceiveThreads
  <2> QED BY <1>1, <1>2, <1>4, <1>5, <2>1 DEF Call
<1>11. CASE Ask
  <2>1. call.at \in {"checking", "selecting"} /\ call' = [call EXCEPT !.asked = TRUE]
    BY <1>11 DEF Ask
  <2>2. call'.at = call.at /\ call'.todo = call.todo /\ call'.found = call.found
    BY <1>1, <2>1 DEF Call
  <2> QED BY <2>1, <2>2 DEF FoundOnce
<1>12. CASE CheckStopReply
  <2>1. call.at = "checking" /\ call.asked
    BY <1>12 DEF CheckStopReply
  <2>2. CASE call' = Answered
    <3>1. Distinct(Tail(call.todo))
      BY <1>1, <1>7, <2>1, TailDistinct DEF FoundOnce
    <3> QED BY <1>4, <1>7, <2>1, <2>2, <3>1
  <2> QED BY <1>6, <1>12, <2>2 DEF CheckStopReply
<1>13. CASE NoneStopped
  <2>1. call' = [call EXCEPT !.at = "waiting"]
    BY <1>13 DEF NoneStopped
  <2> QED BY <1>1, <1>3, <2>1 DEF Call
<1>14. CASE SelectTrappedThread
  <2>1. call.at = "selecting" /\ call.asked
    BY <1>14 DEF SelectTrappedThread
  <2>2. call' = Answered \/ call' = [Answered EXCEPT !.found = Append(Answered.found, Head(call.todo))]
    BY <1>14 DEF SelectTrappedThread
  <2> DEFINE h == Head(call.todo)
  <2>3. /\ call'.at = "selecting" /\ call'.todo = Tail(call.todo)
        /\ call'.found = call.found \/ call'.found = Append(call.found, h)
    BY <1>7, <2>1, <2>2 DEF Call
  <2>4. /\ Distinct(Tail(call.todo))
        /\ \A i \in DOMAIN Tail(call.todo) : Tail(call.todo)[i] # h /\ \E j \in DOMAIN call.todo : Tail(call.todo)[i] = call.todo[j]
    BY <1>1, <1>7, <2>1, TailDistinct DEF FoundOnce
  <2>5. /\ Distinct(call.found) /\ h \in Thread
        /\ \A i \in DOMAIN call.found, k \in DOMAIN call.todo : call.found[i] # call.todo[k]
        /\ \A i \in DOMAIN call.found : call.found[i] # h
    BY <1>7, <2>1 DEF FoundOnce
  <2> HIDE DEF h
  <2>6. /\ Distinct(Append(call.found, h))
        /\ \A i \in DOMAIN Append(call.found, h) : \/ Append(call.found, h)[i] = h
                                                   \/ \E j \in DOMAIN call.found : Append(call.found, h)[i] = call.found[j]
    BY <1>1, <2>5, AppendDistinct
  <2>7. Distinct(call'.found)
    BY <2>3, <2>5, <2>6
  <2>8. \A i \in DOMAIN call'.found : call'.found[i] = h \/ \E j \in DOMAIN call.found : call'.found[i] = call.found[j]
    BY <2>3, <2>6
  <2>9. \A i \in DOMAIN call'.found, k \in DOMAIN call'.todo : call'.found[i] # call'.todo[k]
    BY <2>3, <2>4, <2>5, <2>8
  <2> QED BY <2>3, <2>4, <2>7, <2>9 DEF FoundOnce
<1>15. CASE NoneTrapped
  <2>1. call' = [Idle EXCEPT !.at = "waiting", !.step = call.step]
    BY <1>15 DEF NoneTrapped
  <2> QED BY <1>3, <2>1 DEF Idle
<1>16. CASE SomeTrapped
  <2>1. /\ call.at = "selecting" /\ call.found # <<>> /\ call' = Idle
        /\ event' = IF call.step = NoThread \/ call.found = <<call.step>>
                      THEN Trapped(call.found) ELSE Unspecified(call.found)
    BY <1>16 DEF SomeTrapped, Selected, Return
  <2>2. SUFFICES ASSUME Stepping, event'.type = "unspecified"
                 PROVE  \E i \in DOMAIN event'.threads : event'.threads[i] # Frm.thread
    BY <1>1, <2>1 DEF FoundOnce, Idle
  <2>3. call.step = Frm.thread
    BY <2>1, <2>2 DEF ControlInv, CallsStep, Stepping
  <2>4. event'.threads = call.found /\ call.found # <<Frm.thread>>
    BY <2>1, <2>2, <2>3 DEF Trapped, Unspecified
  <2>5. Distinct(call.found)
    BY <2>1 DEF FoundOnce
  <2>6. ASSUME \A i \in DOMAIN call.found : call.found[i] = Frm.thread PROVE FALSE
    <3> DEFINE e == Frm.thread
    <3>1. call.found \in Seq(Thread) /\ \A i \in DOMAIN call.found : call.found[i] = e
      BY <1>1, <2>6
    <3>2. call.found # <<e>>
      BY <2>4
    <3> HIDE DEF e
    <3> QED BY <2>1, <2>5, <3>1, <3>2, OnlyOne
  <2> QED BY <2>4, <2>6
<1> QED BY <1>8, <1>9, <1>10, <1>11, <1>12, <1>13, <1>14, <1>15, <1>16 DEF Waits


\* An exit that is under way is seen by the call that waits.
LEMMA WaitsExit ==
  ASSUME Calm, Waits, Open', ExitPending
  PROVE  ExitPending'
<1> USE DEF Calm
<1>1. /\ ServerTypeOK /\ link \in [at : {"connecting", "asking", "up", "closed"}, request : 0..5, kill : BOOLEAN]
      /\ call \in Call /\ Asks /\ call.todo \in Seq(Thread) /\ thread \in States
  BY DEF ControlInv, TypeOK, ClientTypeOK, CallsStep, Call, ServerTypeOK, States
<1>2. ~HasExit(<<>>) /\ ~HasExit(<<Threads>>) /\ \A r : ~HasExit(<<Stopped(r)>>)
  <2>1. /\ Threads # ExitPacket /\ \A i \in DOMAIN <<Threads>> : <<Threads>>[i] = Threads
        /\ \A r : Stopped(r) # ExitPacket /\ \A i \in DOMAIN <<Stopped(r)>> : <<Stopped(r)>>[i] = Stopped(r)
    BY DEF Threads, ExitPacket, Stopped
  <2> QED BY <2>1, NoElements DEF HasExit
\* The process has exited while a call waits for its stop reply.
<1>3. call.at = "waiting"
  <2>1. call.at # "idle"
    BY WaitsOutcome DEF ControlInv, TypeOK, CallsStep
  <2>2. call.at \in {"checking", "selecting"} => Silent /\ (channel = <<>> \/ \E r : channel = <<Stopped(r)>>)
    BY DEF Quiet
  <2>3. call.at = "listing" => Silent /\ channel = <<Threads>>
    BY DEF Quiet
  <2>4. call.at \in {"idle", "waiting", "listing", "checking", "selecting"}
    BY <1>1 DEF Call
  <2> QED BY <1>2, <2>1, <2>2, <2>3, <2>4 DEF ExitPending, Silent
<1>4. CASE Receive
  <2>1. PICK packets \in Packets : Read(packets) /\ HandleReplies(packets)
    BY <1>4 DEF Receive
  <2>2. /\ \A i \in DOMAIN packets : i \in DOMAIN channel /\ packets[i] = channel[i]
        /\ HasExit(channel) => HasExit(packets) \/ HasExit(channel')
        /\ due' = due
    BY <1>1, <2>1, ReadRest
  <2>3. packets \in Seq(Packet) /\ OneReply
    BY <1>1, <1>3, <2>1, ReadIs DEF Quiet
  <2>4. Output # ExitPacket /\ Threads # ExitPacket /\ \A r : Stopped(r) # ExitPacket
    BY DEF Output, Threads, ExitPacket, Stopped
  <2>5. SUFFICES ASSUME HasExit(packets) PROVE FALSE
    BY <2>2 DEF ExitPending
  <2>6. PICK i \in DOMAIN packets : packets[i] = ExitPacket
    BY <2>5 DEF HasExit
  <2>7. i = Len(channel)
    <3>1. i \in DOMAIN channel /\ channel[i] # Output
      BY <2>2, <2>4, <2>6
    <3> QED BY <2>3, <3>1 DEF OneReply, EndsInReply
  <2>8. ASSUME NEW k \in DOMAIN packets, First(packets, k), packets[k] # ExitPacket PROVE FALSE
    <3>1. k \in DOMAIN channel /\ channel[k] # Output
      BY <2>2, <2>8 DEF First
    <3>2. k = Len(channel)
      BY <2>3, <3>1 DEF OneReply, EndsInReply
    <3> QED BY <2>6, <2>7, <2>8, <3>2
  <2>9. ~WaitsStill(packets) /\ ~HasExited(packets)
    BY <1>1, <2>4, <2>6 DEF WaitsStill, HasExited, Open
  <2>10. ~HasFailed(packets) /\ \A r \in Reason \ {"bad access"} : ~Selects(packets, r)
    BY <2>4, <2>8 DEF HasFailed, Selects
  <2> QED BY <2>1, <2>3, <2>9, <2>10, HandleRepliesIs
<1>5. CASE Timeout
  BY <1>2, <1>5 DEF Timeout, ExitPending
<1>6. CASE ~Receive /\ ~Timeout
  BY <1>3, <1>6 DEF Waits, ReceiveThreads, Ask, CheckStopReply, NoneStopped, SelectTrappedThread, NoneTrapped,
     SomeTrapped, Selected
<1> QED BY <1>4, <1>5, <1>6

LEMMA WaitsOneByOne ==
  ASSUME Calm, ControlInv', OneByOne, Found, OnlyLiving, TrapsOnly, Waits, Open', UNCHANGED <<frames, handling>>
  PROVE  OneByOne'
<1>1. UNCHANGED <<thread, text>>
  BY WaitsTraps
<1>2. FoundOnce'
  BY WaitsFound DEF OneByOne
<1>3. running' = running
  <2>1. ~NoneTrapped
    <3>1. SUFFICES ASSUME NoneTrapped PROVE FALSE
      OBVIOUS
    <3>2. /\ call.at = "selecting" /\ call.todo = <<>> /\ call.found = <<>>
      BY <3>1 DEF NoneTrapped, Selected
    <3>3. TrapStopped = {}
      BY <3>2, NoElements DEF Found, Elements
    <3>4. Silent /\ channel = <<>>
      BY <3>2 DEF Calm, Quiet, ControlInv, CallsStep, Asks
    <3>5. ~HasExit(due) /\ ~HasExit(channel)
      BY <3>4, NoElements DEF Silent, HasExit
    <3> QED BY <3>2, <3>3, <3>4, <3>5 DEF TrapsOnly, Reached, Silent
  <2> QED BY <2>1 DEF Waits, Receive, Timeout, ReceiveThreads, Ask, CheckStopReply, NoneStopped, SelectTrappedThread,
       SomeTrapped, Read, Answer, server
<1>4. Stepping' = Stepping /\ Frm' = Frm /\ InHandler' = InHandler
  BY DEF Stepping, Frm, InHandler
<1>5. ReportedOnce' /\ ReportedTodo' /\ ReportedFrames' /\ NestedDistinct' /\ NestedStill' /\ ZeroSteps'
  BY <1>1, <1>3, <1>4 DEF OneByOne, ReportedOnce, ReportedTodo, ReportedFrames, Unhit, NestedDistinct, NestedStill,
     ZeroSteps
<1>6. ASSUME Stepping PROVE StepsOnce(Frm)'
  <2>1. StepsOnce(Frm)
    BY <1>6 DEF OneByOne
  <2>2. CASE ExitPending
    BY <2>2, WaitsExit DEF StepsOnce
  <2>3. CASE AllHeld(Frm)
    BY <1>1, <1>4, <2>3 DEF StepsOnce, AllHeld, NotYet
  <2>4. CASE Alone(Frm.thread) /\ (Frm.op = "step" => BeforeStep(Frm) \/ AfterStep(Frm))
    BY <1>1, <1>4, <2>4 DEF StepsOnce, Alone, BeforeStep, AfterStep, NotYet
  <2> QED BY <2>1, <2>2, <2>3, <2>4 DEF StepsOnce
<1> QED BY <1>2, <1>4, <1>5, <1>6 DEF OneByOne

\* What the process does to a thread that is not the one stepped.
Undisturbs(u) ==
  /\ thread'[u].steps = thread[u].steps
  /\ thread[u].hit = "none" => thread'[u].hit = "none" /\ thread'[u].stop = thread[u].stop

LEMMA ServerOneByOne ==
  ASSUME Calm, Unsignalled, ControlInv', OneByOne, TrapsOnly, ServerMoves
  PROVE  OneByOne'
<1> USE DEF Calm
<1>1. /\ UNCHANGED <<link, call, event, breakpoints, handling, frames>> /\ ServerNext /\ thread \in States
      /\ Stepping' = Stepping /\ Frm' = Frm /\ InHandler' = InHandler /\ call \in Call
      /\ due \in Seq(Packet) /\ channel \in Seq(Packet)
  BY DEF ServerMoves, client, ControlInv, TypeOK, ServerTypeOK, ClientTypeOK, States, Stepping, Frm, InHandler
<1>2. running \/ due # <<>>
  BY <1>1 DEF ServerNext, HitTrap, Execute, Interfere, Executes, Stop, Exits, Writes, SendReply
<1>3. call.at = "waiting"
  <2>1. call.at \in {"idle", "waiting", "listing", "checking", "selecting"}
    BY <1>1 DEF Call
  <2> QED BY <1>2, <2>1 DEF Quiet, Silent
<1>4. /\ running => due = <<>> /\ ~ExitPending
  <2>1. running => due = <<>> /\ Outputs(channel)
    BY <1>3 DEF Quiet, OneReply
  <2>2. Output # ExitPacket
    BY DEF Output, ExitPacket
  <2> QED BY <2>1, <2>2, NoElements DEF ExitPending, HasExit, Outputs
<1>5. FoundOnce'
  BY <1>1, <1>3 DEF FoundOnce
\* The process, step by step.
<1>6. ASSUME NEW t \in Thread, HitTrap(t) \/ Execute(t) \/ Interfere(t) PROVE OneMoves(t)
  BY <1>1, <1>6, HitTrapDoes, ExecuteDoes, InterfereDoes
<1>7. ReportedOnce'
  <2>1. ASSUME NEW t \in Thread, OneMoves(t) PROVE ReportedOnce'
    <3>1. running /\ running' = running /\ \A u \in Thread : thread'[u].stop = thread[u].stop
      BY <2>1 DEF OneMoves, Executes
    <3> QED BY <3>1 DEF OneByOne, ReportedOnce
  <2>2. CASE Stop
    <3>1. PICK R \in SUBSET Unreported :
            \A t \in Thread : /\ t \in R => thread'[t].stop = thread[t].hit /\ thread'[t].hit = "none"
                              /\ t \notin R => thread'[t].stop = thread[t].stop /\ thread'[t].hit = thread[t].hit
      BY <1>1, <2>2, StopDoes
    <3>2. ~running'
      BY <1>1, <2>2, StopDoes
    <3> QED BY <3>1, <3>2 DEF OneByOne, ReportedOnce
  <2>3. CASE Exits
    BY <1>1, <2>3, ExitsDoes DEF ReportedOnce
  <2>4. CASE Writes \/ SendReply
    <3>1. UNCHANGED <<thread, running>>
      BY <2>4 DEF Writes, SendReply
    <3> QED BY <3>1 DEF OneByOne, ReportedOnce
  <2> QED BY <1>1, <1>6, <2>1, <2>2, <2>3, <2>4 DEF ServerNext
<1>8. CASE ~Stepping
  <2>1. frames = <<>> /\ ~InHandler
    BY <1>3, <1>8 DEF ControlInv, CallsStep, InHandler, HandlerAt
  <2> QED BY <1>1, <1>5, <1>7, <1>8, <2>1, NoElements DEF OneByOne, ReportedTodo, ReportedFrames, NestedDistinct,
          NestedStill, ZeroSteps
<1>9. CASE Stepping
  <2>1. PICK s \in Thread : s = Frm.thread
    BY <1>9, FrmIs DEF Stepping
  <2>2. frames # <<>> /\ Frm = frames[1] /\ DOMAIN frames = 1..Len(frames) /\ Len(frames) \in Nat /\ 1 \in DOMAIN frames
        /\ (\A i \in DOMAIN frames : frames[i].thread \in Thread /\ frames[i].others \in Seq(Thread))
        /\ (InHandler => \A i \in DOMAIN handling.todo : handling.todo[i] \in Thread)
    <3>1. frames # <<>>
      BY <1>9 DEF Stepping
    <3>2. \A i \in DOMAIN frames : frames[i] \in Frame
      BY ElementsOf DEF ControlInv, TypeOK
    <3>3. \A i \in DOMAIN frames : frames[i].thread \in Thread /\ frames[i].others \in Seq(Thread)
      BY <3>2, FrameFields
    <3>4. \A i \in DOMAIN handling.todo : handling.todo[i] \in Thread
      <4>1. handling.todo \in Seq(Thread)
        BY DEF ControlInv, TypeOK, Handling
      <4> QED BY <4>1, ElementsOf
    <3> QED BY <3>1, <3>3, <3>4, FrmIs
  <2>3. StepsOnce(Frm)
    BY <1>9 DEF OneByOne
  \* Only the thread that is stepped can move.
  <2>4. ASSUME NEW t \in Thread, OneMoves(t) PROVE t = s /\ Alone(s) /\ (Frm.op = "step" => BeforeStep(Frm))
    <3>1. running /\ thread[t].mode # "held"
      BY <2>4 DEF OneMoves, Executes
    <3>2. Alone(s) /\ (Frm.op = "step" => BeforeStep(Frm) \/ AfterStep(Frm))
      BY <1>4, <2>1, <2>3, <3>1 DEF StepsOnce, AllHeld
    <3>3. t = s
      BY <3>1, <3>2 DEF Alone
    <3> QED BY <2>1, <3>1, <3>2, <3>3 DEF AfterStep
  <2>5. \A u \in Thread : u # s => Undisturbs(u)
    <3>1. ASSUME NEW t \in Thread, OneMoves(t) PROVE \A u \in Thread : u # s => Undisturbs(u)
      BY <2>4, <3>1 DEF OneMoves, Undisturbs
    <3>2. CASE Stop
      <4>1. PICK R \in SUBSET Unreported :
              \A t \in Thread : /\ thread'[t].steps = thread[t].steps
                                /\ t \notin R => thread'[t].stop = thread[t].stop /\ thread'[t].hit = thread[t].hit
        BY <1>1, <3>2, StopDoes
      <4>2. \A t \in Thread : thread[t].hit = "none" => t \notin R
        BY DEF Unreported
      <4> QED BY <4>1, <4>2 DEF Undisturbs
    <3>3. CASE Exits
      BY <1>1, <3>3, ExitsDoes DEF Undisturbs
    <3>4. CASE Writes \/ SendReply
      BY <3>4 DEF Writes, SendReply, Undisturbs
    <3> QED BY <1>1, <1>6, <3>1, <3>2, <3>3, <3>4 DEF ServerNext
  <2>6. \A u \in Thread : Unhit(u) => Unhit(u)'
    BY <1>1, <1>9, <2>1, <2>5 DEF Unhit, Undisturbs
  <2>7. ReportedTodo'
    BY <1>1, <2>2, <2>6 DEF OneByOne, ReportedTodo, Unhit
  <2>8. ReportedFrames'
    <3> SUFFICES ASSUME NEW i \in DOMAIN frames
                 PROVE  Unhit(frames[i].thread)' /\ \A k \in DOMAIN frames[i].others : Unhit(frames[i].others[k])'
      BY <1>1 DEF ReportedFrames, Unhit
    <3>1. \A k \in DOMAIN frames[i].others : frames[i].others[k] \in Thread
      BY <2>2, ElementsOf
    <3> QED BY <1>1, <2>2, <2>6, <3>1 DEF OneByOne, ReportedFrames, Unhit
  \* The outer frames' threads are others.
  <2>9. \A i \in DOMAIN frames : i # 1 => frames[i].thread # s /\ frames[i].thread \in Thread
    BY <2>1, <2>2 DEF OneByOne, NestedDistinct
  <2>10. NestedDistinct' /\ NestedStill'
    <3>1. ASSUME NEW j \in DOMAIN frames, j > 1 PROVE thread'[frames[j].thread].stop = "none"
      <4>1. frames[j].thread \in Thread /\ frames[j].thread # s /\ Undisturbs(frames[j].thread)
        BY <2>2, <2>5, <2>9, <3>1
      <4>2. thread[frames[j].thread].hit = "none" /\ thread[frames[j].thread].stop = "none"
        BY <1>9, <2>1, <3>1, <4>1 DEF OneByOne, ReportedFrames, Unhit, NestedStill
      <4> QED BY <4>1, <4>2 DEF Undisturbs
    <3> QED BY <1>1, <3>1 DEF OneByOne, NestedDistinct, NestedStill
  <2>11. ZeroSteps'
    BY <1>1, <1>9, <2>5, <2>9 DEF OneByOne, ZeroSteps, Undisturbs
  <2>12. StepsOnce(Frm)'
    <3>1. ASSUME NEW t \in Thread, OneMoves(t), thread'[t].mode = "held", thread'[t].steps = 1, Frm.op = "step"
          PROVE  StepsOnce(Frm)'
      <4>1. Alone(s)' /\ AfterStep(Frm)'
        BY <1>1, <2>1, <2>4, <3>1 DEF Alone, OneMoves, AfterStep
      <4> QED BY <1>1, <2>1, <4>1 DEF StepsOnce, Alone
    <3>2. ASSUME NEW t \in Thread, OneMoves(t), Frm.op # "step" PROVE StepsOnce(Frm)'
      <4>1. Alone(s)'
        BY <2>4, <3>2 DEF Alone, OneMoves
      <4> QED BY <1>1, <2>1, <3>2, <4>1 DEF StepsOnce, Alone
    <3>3. ASSUME NEW t \in Thread, HitTrap(t), Frm.op = "step" PROVE FALSE
      <4>1. BeforeStep(Frm) /\ t = s /\ text[thread[t].pc] = "trap" /\ ~thread[t].inside
        BY <1>1, <1>6, <2>4, <3>3, HitTrapDoes DEF OneMoves, Executes
      <4> QED BY <2>1, <4>1 DEF BeforeStep
    <3>4. ASSUME NEW t \in Thread, Execute(t), Frm.op = "step" PROVE StepsOnce(Frm)'
      <4>1. BeforeStep(Frm) /\ t = s /\ thread[t].mode # "held"
        BY <1>1, <1>6, <2>4, <3>4 DEF OneMoves, Executes
      <4>2. thread[t].mode = "steps" /\ thread[t].steps = 0
        BY <1>1, <2>1, <4>1 DEF BeforeStep, States, ThreadState
      <4>3. thread'[t].mode = "held" /\ thread'[t].steps = 1
        BY <1>1, <3>4, <4>2, ExecuteDoes
      <4> QED BY <1>6, <3>1, <3>4, <4>3
    <3>5. ASSUME NEW t \in Thread, Interfere(t), Frm.op = "step" PROVE FALSE
      <4>1. /\ OneMoves(t) /\ thread'[t].hit \in {"signal", "bad access"}
            /\ thread'[t].hit \in happens \/ thread[t].pc = HelperEnd
        BY <1>1, <3>5, InterfereDoes
      <4>2. thread[t].pc = HelperEnd
        BY <4>1 DEF Unsignalled
      <4> QED BY <4>1, <4>2 DEF OneMoves, Executes, TrapsOnly, HelperHeld
    <3>6. CASE Stop
      <4>1. PICK R \in SUBSET Unreported :
              /\ R # {}
              /\ \A t \in Thread :
                   /\ thread'[t].mode = "held" /\ thread'[t].steps = thread[t].steps
                   /\ t \notin R => thread'[t].stop = thread[t].stop /\ thread'[t].hit = thread[t].hit
        BY <1>1, <3>6, StopDoes
      <4>2. \A t \in Thread : thread[t].hit = "none" => t \notin R
        BY DEF Unreported
      <4>3. running
        BY <3>6 DEF Stop
      <4>4. CASE AllHeld(Frm)
        <5>1. NotYet(s)' /\ thread'[s].steps = thread[s].steps
          BY <2>1, <4>1, <4>2, <4>4 DEF AllHeld, NotYet
        <5> QED BY <1>1, <2>1, <4>1, <4>4, <5>1 DEF AllHeld, NotYet, StepsOnce
      <4>5. CASE Alone(s) /\ (Frm.op = "step" => BeforeStep(Frm) \/ AfterStep(Frm))
        <5>1. Alone(s)'
          BY <4>1, <4>2, <4>5 DEF Alone
        <5>2. s \in R
          BY <4>1, <4>2, <4>5 DEF Alone, Unreported
        <5>3. ~BeforeStep(Frm)
          BY <2>1, <4>2, <5>2 DEF BeforeStep, NotYet
        <5>4. Frm.op = "step" => AfterStep(Frm)'
          BY <1>1, <2>1, <4>1, <4>5, <5>3 DEF AfterStep
        <5> QED BY <1>1, <2>1, <5>1, <5>4 DEF StepsOnce, Alone
      <4> QED BY <1>4, <2>1, <2>3, <4>3, <4>4, <4>5 DEF StepsOnce
    <3>7. CASE Exits
      <4>1. due' = <<ExitPacket>>
        BY <3>7 DEF Exits
      <4>2. HasExit(due')
        BY <4>1, OnePacket, PacketsAre
      <4> QED BY <4>2 DEF StepsOnce, ExitPending
    <3>8. CASE Writes \/ SendReply
      <4>1. UNCHANGED <<thread, text>>
        BY <3>8 DEF Writes, SendReply
      <4>2. ExitPending => ExitPending'
        <5>1. CASE Writes
          <6>1. channel' = Append(channel, Output) /\ due' = due
            BY <5>1 DEF Writes
          <6>2. \A i \in DOMAIN channel : i \in DOMAIN channel' /\ channel'[i] = channel[i]
            BY <1>1, <6>1, PacketsAre, AppendProperties, ElementsOf
          <6> QED BY <6>1, <6>2 DEF ExitPending, HasExit
        <5>2. CASE SendReply
          <6>1. channel' = channel \o due
            BY <5>2 DEF SendReply
          <6>2. /\ channel' \in Seq(Packet) /\ Len(channel') = Len(channel) + Len(due)
                /\ \A i \in 1..Len(channel) : channel'[i] = channel[i]
                /\ \A i \in 1..Len(due) : channel'[Len(channel) + i] = due[i]
            BY <1>1, <6>1, ConcatProperties
          <6>3. /\ DOMAIN channel = 1..Len(channel) /\ DOMAIN due = 1..Len(due)
                /\ DOMAIN channel' = 1..(Len(channel) + Len(due)) /\ Len(channel) \in Nat /\ Len(due) \in Nat
            BY <1>1, <6>2, ElementsOf
          <6>4. HasExit(channel) => HasExit(channel')
            BY <6>2, <6>3 DEF HasExit
          <6>5. ASSUME HasExit(due) PROVE HasExit(channel')
            <7>1. PICK i \in DOMAIN due : due[i] = ExitPacket
              BY <6>5 DEF HasExit
            <7> DEFINE j == Len(channel) + i
            <7>2. j \in DOMAIN channel' /\ channel'[j] = ExitPacket
              BY <6>2, <6>3, <7>1
            <7> HIDE DEF j
            <7> QED BY <7>2 DEF HasExit
          <6> QED BY <6>4, <6>5 DEF ExitPending
        <5> QED BY <3>8, <5>1, <5>2
      <4>3. AllHeld(Frm) => AllHeld(Frm)'
        BY <1>1, <4>1 DEF AllHeld, NotYet
      <4>4. Alone(Frm.thread) /\ (Frm.op = "step" => BeforeStep(Frm) \/ AfterStep(Frm)) =>
              (Alone(Frm.thread) /\ (Frm.op = "step" => BeforeStep(Frm) \/ AfterStep(Frm)))'
        BY <1>1, <4>1 DEF Alone, BeforeStep, AfterStep, NotYet
      <4> QED BY <2>3, <4>2, <4>3, <4>4 DEF StepsOnce
    <3> QED BY <1>1, <1>6, <3>2, <3>3, <3>4, <3>5, <3>6, <3>7, <3>8 DEF ServerNext
  <2> QED BY <1>1, <1>5, <1>7, <2>7, <2>8, <2>10, <2>11, <2>12 DEF OneByOne
<1> QED BY <1>8, <1>9


\* How a step of this thread or another's has ended.
LEMMA Settled ==
  ASSUME Calm, OneByOne, Found, TrapsOnly, call.at = "idle"
  PROVE  /\ \A u \in Thread : Unhit(u) => thread[u].hit = "none"
         /\ Stepping =>
              /\ event.type \in {"trapped", "unspecified"}
              /\ event.type = "unspecified" => (Frm.op = "step" => thread[Frm.thread].steps = 0)
              /\ event.type = "trapped" => (Frm.op = "step" => thread[Frm.thread].steps = 1)
<1> USE DEF Calm
<1>1. SUFFICES ASSUME Stepping
               PROVE  /\ event.type \in {"trapped", "unspecified"}
                      /\ event.type = "unspecified" => (Frm.op = "step" => thread[Frm.thread].steps = 0)
                      /\ event.type = "trapped" => (Frm.op = "step" => thread[Frm.thread].steps = 1)
                      /\ thread[Frm.thread].hit = "none"
  BY DEF Unhit
<1>2. PICK s \in Thread : s = Frm.thread
  BY <1>1, FrmIs DEF Stepping
<1>3. link.at = "up"
  BY <1>1, FrmIs DEF Stepping, ControlInv, HandlersCall, InHandler, HandlerAt, TypeOK, ClientTypeOK, Open
<1>4. event.type \in {"trapped", "unspecified"} /\ event.threads \in Seq(Thread)
  BY <1>1, <1>3 DEF ControlInv, CallsStep, TypeOK, ClientTypeOK, Event, TrapsOnly, NoError
<1>5. Elements(event.threads) = TrapStopped
  BY <1>4 DEF Found
<1>6. ~ExitPending
  BY NoElements DEF Quiet, Silent, ExitPending, HasExit
<1>7. StepsOnce(Frm)
  BY <1>1 DEF OneByOne
<1>8. CASE event.type = "trapped"
  <2>1. event.threads = <<s>>
    BY <1>1, <1>2, <1>8 DEF ControlInv, CallsStep
  <2>2. s \in Elements(event.threads)
    <3>1. 1 \in DOMAIN <<s>> /\ <<s>>[1] = s
      OBVIOUS
    <3> QED BY <2>1, <3>1 DEF Elements
  <2>3. thread[s].stop = "trap"
    BY <1>5, <2>2 DEF TrapStopped
  <2>4. thread[s].hit = "none"
    BY <2>3 DEF OneByOne, ReportedOnce
  <2>5. Frm.op = "step" => thread[s].steps = 1
    BY <1>2, <1>6, <1>7, <2>3 DEF StepsOnce, AllHeld, BeforeStep, AfterStep, NotYet
  <2> QED BY <1>2, <1>4, <1>8, <2>4, <2>5
<1>9. CASE event.type = "unspecified"
  <2>1. PICK i \in DOMAIN event.threads : event.threads[i] # s
    BY <1>1, <1>2, <1>9 DEF OneByOne, FoundOnce
  <2>2. event.threads[i] \in TrapStopped
    BY <1>5 DEF Elements
  <2>3. ~Alone(s)
    BY <2>1, <2>2 DEF Alone, TrapStopped
  <2>4. AllHeld(Frm)
    BY <1>2, <1>6, <1>7, <2>3 DEF StepsOnce
  <2> QED BY <1>2, <1>4, <1>9, <2>4 DEF AllHeld, NotYet
<1> QED BY <1>4, <1>8, <1>9

\* A step begins: ReadTLS and SingleStep.
LEMMA StartsOneByOne ==
  ASSUME Calm, Undisturbed, ControlInv', PlacesOutside, OneByOne, TextInv, ReadTLS \/ SingleStep, Open'
  PROVE  OneByOne'
<1> USE DEF Calm
<1>1. /\ thread \in States /\ frames # <<>> /\ Frm = frames[1] /\ Frm \in Frame /\ Frm.place.pc \in Addr
      /\ 1 \in DOMAIN frames /\ DOMAIN frames = 1..Len(frames) /\ Len(frames) \in Nat
      /\ DOMAIN frames' = 1..Len(frames') /\ Len(frames') \in Nat
      /\ text \in [Addr -> {"org", "trap"}]
  <2>1. frames # <<>>
    BY DEF ReadTLS, SingleStep, In
  <2>2. frames' \in Seq(Frame)
    BY DEF ControlInv, TypeOK
  <2> QED BY <2>1, <2>2, FrmIs, ElementsOf DEF PlacesOutside, ControlInv, TypeOK, ServerTypeOK, States
<1>2. \E p \in Place, f \in Frame :
        /\ Replaces(f) /\ Frm' = f /\ f.at = "stepping" /\ f.op = Frm.op /\ f.thread = Frm.thread
        /\ f.others = Frm.others /\ Frm.at = "begin" /\ call.at = "idle" /\ handling' = handling
        /\ StepAndWait(PutAt(Frm.thread, p), Frm.thread)
        /\ f.op = "step" => /\ f.place = Frm.place /\ p = Frm.place
                            /\ text' = IF AtBreakpoint THEN [text EXCEPT ![Frm.place.pc] = "org"] ELSE text
  <2>1. CASE ReadTLS
    <3> DEFINE f == [Frm EXCEPT !.at = "stepping", !.place = PlaceOf(Frm.thread)]
    <3>1. /\ Frm.op = "tls" /\ Frm.at = "begin" /\ call.at = "idle" /\ Replaces(f) /\ Frm' = f
          /\ PlaceOf(Frm.thread) \in Place /\ At(Helper) \in Place
          /\ StepAndWait(PutAt(Frm.thread, At(Helper)), Frm.thread) /\ handling' = handling
      BY <2>1, ReadTLSDoes
    <3>2. f \in Frame /\ f.at = "stepping" /\ f.op = Frm.op /\ f.thread = Frm.thread /\ f.others = Frm.others
      BY <1>1, <3>1 DEF Frame
    <3> HIDE DEF f
    <3> QED BY <3>1, <3>2
  <2>2. CASE SingleStep
    <3> DEFINE f == [Frm EXCEPT !.at = "stepping"]
    <3>1. /\ Frm.op = "step" /\ Frm.at = "begin" /\ call.at = "idle" /\ Replaces(f) /\ Frm' = f
          /\ StepAndWait(PutAt(Frm.thread, Frm.place), Frm.thread) /\ handling' = handling
          /\ text' = IF AtBreakpoint THEN [text EXCEPT ![Frm.place.pc] = "org"] ELSE text
      BY <2>2, SingleStepDoes
    <3>2. /\ f \in Frame /\ f.at = "stepping" /\ f.op = Frm.op /\ f.thread = Frm.thread /\ f.others = Frm.others
          /\ f.place = Frm.place /\ Frm.place \in Place
      BY <1>1, <3>1 DEF Frame
    <3> HIDE DEF f
    <3> QED BY <3>1, <3>2
  <2> QED BY <2>1, <2>2
<1>3. PICK p \in Place, f \in Frame :
        /\ Replaces(f) /\ Frm' = f /\ f.at = "stepping" /\ f.op = Frm.op /\ f.thread = Frm.thread
        /\ f.others = Frm.others /\ Frm.at = "begin" /\ call.at = "idle" /\ handling' = handling
        /\ StepAndWait(PutAt(Frm.thread, p), Frm.thread)
        /\ f.op = "step" => /\ f.place = Frm.place /\ p = Frm.place
                            /\ text' = IF AtBreakpoint THEN [text EXCEPT ![Frm.place.pc] = "org"] ELSE text
  BY <1>2
<1>4. PICK s \in Thread : s = Frm.thread
  BY <1>1, FrameFields
<1>5. ~Stepping /\ Stepping' /\ InHandler' = InHandler
  BY <1>3 DEF Stepping, Replaces, InHandler
<1>6. /\ thread' \in States /\ running' = TRUE /\ Moved(s, p)
      /\ thread'[s].mode = IF Unreported # {} THEN "held" ELSE "steps"
      /\ \A u \in Thread : u # s => thread'[u].mode = "held"
      /\ \A u \in Thread : /\ thread'[u].stop = "none" /\ thread'[u].hit = thread[u].hit
                           /\ thread'[u].steps = thread[u].steps
  BY <1>1, <1>3, <1>4, StepDoes DEF Undisturbed
<1>7. call'.at = "waiting"
  BY <1>3 DEF StepAndWait, Idle
<1>8. FoundOnce'
  BY <1>7 DEF FoundOnce
<1>9. ReportedOnce'
  BY <1>6 DEF ReportedOnce
<1>10. \A u \in Thread : Unhit(u) => Unhit(u)'
  BY <1>5, <1>6 DEF Unhit
\* The frames are the same but for where the innermost one is.
<1>11. /\ Len(frames') = Len(frames)
       /\ \A i \in 1..Len(frames) : /\ frames'[i].thread = frames[i].thread /\ frames'[i].op = frames[i].op
                                    /\ frames'[i].others = frames[i].others
                                    /\ frames[i].thread \in Thread /\ frames[i].others \in Seq(Thread)
  <2>1. \A i \in 1..Len(frames) : frames[i] \in Frame
    BY <1>1, ElementsOf DEF ControlInv, TypeOK
  <2>2. \A i \in 1..Len(frames) : frames[i].thread \in Thread /\ frames[i].others \in Seq(Thread)
    BY <2>1, FrameFields
  <2> QED BY <1>1, <1>3, <2>2 DEF Replaces
<1>12. ReportedTodo'
  <2>1. InHandler => \A i \in DOMAIN handling.todo : handling.todo[i] \in Thread
    <3>1. handling.todo \in Seq(Thread)
      BY DEF ControlInv, TypeOK, Handling
    <3> QED BY <3>1, ElementsOf
  <2> QED BY <1>3, <1>5, <1>10, <2>1 DEF OneByOne, ReportedTodo, Unhit
<1>13. ReportedFrames'
  <2> SUFFICES ASSUME NEW i \in 1..Len(frames)
               PROVE  /\ thread'[frames'[i].thread].hit = "none"
                      /\ \A k \in DOMAIN frames'[i].others : thread'[frames'[i].others[k]].hit = "none"
    BY <1>1, <1>11 DEF ReportedFrames, Unhit
  <2>1. \A k \in DOMAIN frames[i].others : frames[i].others[k] \in Thread
    BY <1>11, ElementsOf
  <2>2. Unhit(frames[i].thread) /\ \A k \in DOMAIN frames[i].others : Unhit(frames[i].others[k])
    BY <1>1 DEF OneByOne, ReportedFrames
  <2>3. thread[frames[i].thread].hit = "none" /\ \A k \in DOMAIN frames[i].others : thread[frames[i].others[k]].hit = "none"
    BY <1>5, <2>2 DEF Unhit
  <2>4. thread'[frames[i].thread].hit = "none" /\ \A k \in DOMAIN frames[i].others : thread'[frames[i].others[k]].hit = "none"
    BY <1>6, <1>11, <2>1, <2>3
  <2> QED BY <1>11, <2>4
<1>14. NestedDistinct' /\ NestedStill'
  <2>1. NestedDistinct'
    BY <1>1, <1>11 DEF OneByOne, NestedDistinct
  <2>2. NestedStill'
    BY <1>1, <1>6, <1>11 DEF NestedStill
  <2> QED BY <2>1, <2>2
<1>15. ZeroSteps'
  BY <1>1, <1>5, <1>6, <1>11 DEF OneByOne, ZeroSteps
<1>16. StepsOnce(Frm)'
  <2>1. NotYet(s)' /\ (f.op = "step" => thread'[s].steps = 0)
    <3>1. thread[s].hit = "none"
      BY <1>1, <1>4, <1>5 DEF OneByOne, ReportedFrames, Unhit
    <3>2. f.op = "step" => thread[s].steps = 0
      BY <1>1, <1>3, <1>4, <1>5 DEF OneByOne, ZeroSteps
    <3> QED BY <1>6, <3>1, <3>2 DEF NotYet
  <2>2. CASE Unreported # {}
    <3>1. \A u \in Thread : thread'[u].mode = "held"
      BY <1>6, <2>2
    <3> QED BY <1>3, <1>4, <2>1, <3>1 DEF StepsOnce, AllHeld, NotYet
  <2>3. CASE Unreported = {}
    <3>1. Alone(s)'
      BY <1>6, <2>3 DEF Alone, Unreported
    <3>2. ASSUME f.op = "step" PROVE BeforeStep(f)'
      <4>1. thread'[s].mode = "steps"
        BY <1>6, <2>3
      <4>2. thread'[s].pc = f.place.pc /\ thread'[s].inside = f.place.inside
        BY <1>3, <1>6, <3>2 DEF Moved
      <4>3. f.place.inside \/ text'[f.place.pc] = "org"
        <5>1. CASE AtBreakpoint
          <6>1. f.place = Frm.place /\ text' = [text EXCEPT ![Frm.place.pc] = "org"]
            BY <1>3, <3>2, <5>1
          <6> QED BY <1>1, <6>1
        <5>2. CASE ~AtBreakpoint
          <6>1. f.place = Frm.place /\ text' = text
            BY <1>3, <3>2, <5>2
          <6>2. Frm.place.inside \/ Frm.place.pc \notin breakpoints
            BY <5>2 DEF AtBreakpoint
          <6>3. Frm.place.pc \notin breakpoints => text[Frm.place.pc] = "org"
            BY <1>1 DEF TextInv
          <6> QED BY <6>1, <6>2, <6>3
        <5> QED BY <5>1, <5>2
      <4> QED BY <1>3, <1>4, <2>1, <3>2, <4>1, <4>2, <4>3 DEF BeforeStep, NotYet
    <3> QED BY <1>3, <1>4, <3>1, <3>2 DEF StepsOnce, Alone, BeforeStep, NotYet
  <2> QED BY <2>2, <2>3
<1> QED BY <1>8, <1>9, <1>12, <1>13, <1>14, <1>15, <1>16 DEF OneByOne


\* What becomes of the frames when no step begins: f is the innermost one.
FramesChange ==
  \/ frames' = <<>>
  \/ Drops
  \/ \E f : /\ frames' = <<f>> /\ f.thread = Trapping /\ f.others = <<>> /\ f.at = "begin" /\ InHandler /\ frames = <<>>
            /\ f.op = "step" => thread'[Trapping].steps = 0
  \/ frames # <<>> /\ \E f \in Frame :
       /\ Replaces(f) /\ f.thread = Frm.thread /\ f.op = Frm.op /\ f.at # "stepping"
       /\ \/ ~Stepping /\ f.others = Frm.others
          \/ ~Stepping /\ Frm.others # <<>> /\ f.others = Tail(Frm.others)
          \/ Stepping /\ event.type = "unspecified" /\ f.others = event.threads
  \/ frames # <<>> /\ \E f \in Frame :
       /\ Pushes(f) /\ f.others = <<>> /\ f.at = "begin" /\ ~Stepping
       /\ Frm.others # <<>> /\ f.thread = Frm.others[1] /\ f.thread # Frm.thread /\ thread'[f.thread].steps = 0
\* ... and of the threads to be handled.
TodoChange ==
  InHandler' => \/ InHandler /\ handling'.todo = handling.todo
                \/ InHandler /\ handling.todo # <<>> /\ handling'.todo = Tail(handling.todo)
                \/ event.type = "trapped" /\ handling'.todo = event.threads

LEMMA OthersChange ==
  ASSUME Calm, ControlInv', ProcessStep, ~ClientWaits, ~ServerMoves, ~ReadTLS, ~SingleStep, Open'
  PROVE  /\ call.at = "idle" /\ FramesChange /\ TodoChange
         /\ \A u \in Thread : thread'[u].steps \in {thread[u].steps, 0}
<1> USE DEF Calm
<1>1. thread \in States /\ frames \in Seq(Frame) /\ handling \in Handling
  BY DEF ControlInv, TypeOK, ServerTypeOK, States
<1>2. frames # <<>> => InHandler /\ Frm \in Frame
  BY FrmIs
<1>3. ASSUME NEW at \in {"failed", "resuming", "waiting", "handler", "system", "stepped", "ending", "detached"}, GoTo(at)
      PROVE  handling'.at = at /\ handling'.todo = handling.todo
  BY <1>3, GoToIs DEF ControlInv
<1>4. CASE Attach \/ AttachFails \/ NewProcess \/ Interrupted \/ Resumes
  <2>1. /\ handling.at \in {"attaching", "resuming"} /\ frames' = frames
        /\ handling' = handling \/ GoTo("failed") \/ GoTo("resuming") \/ GoTo("ending") \/ GoTo("waiting")
    BY <1>4 DEF Attach, AttachFails, NewProcess, Interrupted, Resumes
  <2>2. ~InHandler /\ frames = <<>> /\ call.at = "idle"
    <3>1. ~InHandler
      BY <2>1 DEF InHandler, HandlerAt
    <3>2. frames = <<>>
      BY <1>2, <3>1
    <3>3. call.at = "idle"
      BY <2>1 DEF ControlInv, HandlersCall
    <3> QED BY <3>1, <3>2, <3>3
  <2>3. ~InHandler'
    BY <1>3, <2>1 DEF InHandler, HandlerAt
  <2>4. \A u \in Thread : thread'[u].steps = thread[u].steps
    <3>1. thread' = thread \/ \E s : Continue(thread, s)
      BY <1>4 DEF Attach, Connect, Initialize, AttachFails, NewProcess, Interrupted, Resumes, ContinueAndWait, server
    <3> QED BY <1>1, <3>1, ContinueDoes
  <2>5. FramesChange
    <3>1. frames' = <<>>
      BY <2>1, <2>2
    <3> QED BY <3>1 DEF FramesChange
  <2>6. TodoChange
    BY <2>3 DEF TodoChange
  <2> QED BY <2>2, <2>4, <2>5, <2>6
<1>5. CASE NewProcessFails \/ Detach
  BY <1>5 DEF NewProcessFails, Detach, DetachProcess, Open, ControlInv, TypeOK, ClientTypeOK
<1>6. CASE Returns
  <2>1. /\ handling.at = "waiting" /\ call = Idle /\ UNCHANGED <<thread, frames>>
        /\ handling' = IF event.type = "trapped" THEN [at |-> "info", todo |-> event.threads]
                                                 ELSE [handling EXCEPT !.at = "ending"]
    BY <1>6 DEF Returns, server
  <2>2. frames = <<>> /\ call.at = "idle"
    BY <1>2, <2>1 DEF InHandler, HandlerAt, Idle
  <2>3. TodoChange
    BY <1>1, <2>1 DEF TodoChange, InHandler, HandlerAt, Handling
  <2> QED BY <2>1, <2>2, <2>3 DEF FramesChange
<1>7. CASE CurrentGoRoutineInfo \/ HandleTrap \/ HandleCalledFunction
  <2>1. /\ InHandler /\ frames = <<>> /\ handling' = handling
        /\ \/ frames' = <<FrameOf("tls", Trapping, PlaceOf(Trapping))>> /\ thread' = thread
           \/ frames' = <<StepOverTrap(Trapping)>> /\ NoSteps(Trapping)
           \/ /\ frames' = <<FrameOf("step", Trapping, At(thread[Trapping].pc))>> /\ NoSteps(Trapping)
              /\ thread[Trapping].pc \in Addr
    BY <1>7 DEF CurrentGoRoutineInfo, HandleTrap, HandleCalledFunction, Handles, InHandler, HandlerAt, server
  <2>2. Trapping \in Thread /\ call.at = "idle"
    BY <2>1, TrappingIs, NotWaiting DEF Stepping
  <2>3. TodoChange
    BY <2>1 DEF TodoChange
  <2>4. ASSUME frames' = <<FrameOf("tls", Trapping, PlaceOf(Trapping))>>, thread' = thread
        PROVE  FramesChange /\ \A u \in Thread : thread'[u].steps \in {thread[u].steps, 0}
    <3> DEFINE f == FrameOf("tls", Trapping, PlaceOf(Trapping))
    <3>1. f.thread = Trapping /\ f.others = <<>> /\ f.at = "begin" /\ f.op = "tls"
      BY <1>1, <2>2, PlacesAre, FrameOfIs
    <3>2. frames' = <<f>>
      BY <2>4
    <3> HIDE DEF f
    <3> QED BY <2>1, <2>4, <3>1, <3>2 DEF FramesChange
  <2>5. ASSUME NEW f, frames' = <<f>>, f.thread = Trapping, f.others = <<>>, f.at = "begin", NoSteps(Trapping)
        PROVE  FramesChange /\ \A u \in Thread : thread'[u].steps \in {thread[u].steps, 0}
    <3>1. thread'[Trapping].steps = 0 /\ \A u \in Thread : u # Trapping => thread'[u] = thread[u]
      BY <1>1, <2>2, <2>5, NoStepsDoes
    <3> QED BY <2>1, <2>5, <3>1 DEF FramesChange
  <2>6. ASSUME frames' = <<StepOverTrap(Trapping)>>, NoSteps(Trapping)
        PROVE  FramesChange /\ \A u \in Thread : thread'[u].steps \in {thread[u].steps, 0}
    <3> DEFINE f == StepOverTrap(Trapping)
    <3>1. f.thread = Trapping /\ f.others = <<>> /\ f.at = "begin" /\ frames' = <<f>>
      BY <1>1, <2>2, <2>6, StepOverTrapIs
    <3> HIDE DEF f
    <3> QED BY <2>5, <2>6, <3>1
  <2>7. ASSUME frames' = <<FrameOf("step", Trapping, At(thread[Trapping].pc))>>, NoSteps(Trapping), thread[Trapping].pc \in Addr
        PROVE  FramesChange /\ \A u \in Thread : thread'[u].steps \in {thread[u].steps, 0}
    <3> DEFINE f == FrameOf("step", Trapping, At(thread[Trapping].pc))
    <3>1. f.thread = Trapping /\ f.others = <<>> /\ f.at = "begin" /\ frames' = <<f>>
      BY <1>1, <2>2, <2>7, PlacesAre, FrameOfIs
    <3> HIDE DEF f
    <3> QED BY <2>5, <2>7, <3>1
  <2> QED BY <2>1, <2>2, <2>3, <2>4, <2>6, <2>7
<1>8. CASE HandlerReturns
  <2>1. /\ InHandler /\ frames = <<>> /\ UNCHANGED <<thread, frames>>
        /\ handling' = LET rest == Tail(handling.todo)
                       IN  [at |-> IF rest = <<>> THEN "resuming" ELSE "info", todo |-> rest]
    BY <1>8 DEF HandlerReturns, Handles, InHandler, HandlerAt, server
  <2>2. call.at = "idle" /\ handling.todo # <<>>
    BY <2>1, TrappingIs, NotWaiting DEF Stepping
  <2>3. TodoChange
    BY <2>1, <2>2 DEF TodoChange
  <2> QED BY <2>1, <2>2, <2>3 DEF FramesChange
<1>9. ASSUME NEW a \in Addr, SetBreakpoint(a) \/ ClearBreakpoint(a)
      PROVE  /\ call.at = "idle" /\ FramesChange /\ TodoChange
             /\ \A u \in Thread : thread'[u].steps \in {thread[u].steps, 0}
  <2>1. /\ frames = <<>> /\ UNCHANGED <<thread, frames>> /\ handling.at \in {"handler", "resuming"}
        /\ handling' = handling \/ GoTo("ending")
    BY <1>9 DEF SetBreakpoint, ClearBreakpoint, SetsBreakpoints, Handles
  <2>2. call.at = "idle"
    <3>1. handling.at = "handler" => InHandler
      BY DEF InHandler, HandlerAt
    <3> QED BY <2>1, <3>1, NotWaiting DEF Stepping, ControlInv, HandlersCall
  <2>3. TodoChange
    BY <1>3, <2>1 DEF TodoChange, InHandler, HandlerAt
  <2> QED BY <2>1, <2>2, <2>3 DEF FramesChange
<1>10. CASE ReadTLSReturns
  <2>1. /\ frames # <<>> /\ Stepping /\ call.at = "idle" /\ thread' = PutAt(Frm.thread, Frm.place)
        /\ IF event.type = "unspecified"
             THEN /\ Replaces([Frm EXCEPT !.at = "others", !.others = event.threads])
                  /\ event.threads \in Seq(Thread) /\ UNCHANGED handling
             ELSE frames' = <<>> /\ Ends(event.type = "trapped")
    BY <1>10, ReadTLSReturnsDoes
  <2>2. \A u \in Thread : thread'[u].steps = thread[u].steps
    BY <1>1, <1>2, <2>1, FrameFields, PutBackDoes
  <2>3. TodoChange
    <3>1. handling' = handling \/ \E at \in {"handler", "system", "stepped", "ending"} : GoTo(at)
      BY <2>1 DEF Ends
    <3> QED BY <1>2, <1>3, <2>1, <3>1 DEF TodoChange
  <2>4. FramesChange
    <3>1. CASE event.type = "unspecified"
      <4> DEFINE f == [Frm EXCEPT !.at = "others", !.others = event.threads]
      <4>1. f \in Frame /\ f.thread = Frm.thread /\ f.op = Frm.op /\ f.at = "others" /\ f.others = event.threads
        BY <1>2, <2>1, <3>1 DEF Frame
      <4>2. Replaces(f)
        BY <2>1, <3>1
      <4> HIDE DEF f
      <4> QED BY <2>1, <3>1, <4>1, <4>2 DEF FramesChange
    <3> QED BY <2>1, <3>1 DEF FramesChange
  <2> QED BY <2>1, <2>2, <2>3, <2>4
<1>11. CASE SingleStepReturns
  <2>1. /\ frames # <<>> /\ Stepping /\ call.at = "idle" /\ UNCHANGED thread
        /\ \/ /\ event.type = "unspecified"
              /\ Replaces([Frm EXCEPT !.at = "others", !.others = event.threads])
              /\ event.threads \in Seq(Thread) /\ UNCHANGED handling
           \/ Drops \/ Ends(TRUE) \/ Ends(FALSE)
    BY <1>11, SingleStepReturnsDoes
  <2>2. TodoChange
    <3>1. handling' = handling \/ \E at \in {"handler", "system", "stepped", "ending"} : GoTo(at)
      BY <2>1 DEF Ends, Drops
    <3> QED BY <1>2, <1>3, <2>1, <3>1 DEF TodoChange
  <2>3. FramesChange
    <3>1. CASE Drops \/ Ends(TRUE) \/ Ends(FALSE)
      BY <3>1 DEF FramesChange, Ends
    <3>2. CASE /\ event.type = "unspecified" /\ event.threads \in Seq(Thread)
               /\ Replaces([Frm EXCEPT !.at = "others", !.others = event.threads])
      <4> DEFINE f == [Frm EXCEPT !.at = "others", !.others = event.threads]
      <4>1. f \in Frame /\ f.thread = Frm.thread /\ f.op = Frm.op /\ f.at = "others" /\ f.others = event.threads
        BY <1>2, <2>1, <3>2 DEF Frame
      <4>2. Replaces(f)
        BY <3>2
      <4> HIDE DEF f
      <4> QED BY <2>1, <3>2, <4>1, <4>2 DEF FramesChange
    <3> QED BY <2>1, <3>1, <3>2
  <2> QED BY <2>1, <2>2, <2>3
<1>12. CASE StepUnspecifiedThread
  <2> DEFINE u == Frm.others[1]
             f == [Frm EXCEPT !.others = Tail(Frm.others)]
             g == StepOverTrap(u)
  <2>1. /\ frames # <<>> /\ Frm.at = "others" /\ Frm.others # <<>> /\ u \in Thread /\ call.at = "idle"
        /\ UNCHANGED handling
        /\ IF u = Frm.thread THEN Replaces(f) /\ UNCHANGED thread ELSE Pushes(g) /\ NoSteps(u)
    BY <1>12, StepUnspecifiedThreadDoes
  <2>2. TodoChange
    BY <1>2, <2>1 DEF TodoChange
  <2>3. ~Stepping
    BY <2>1 DEF Stepping
  <2>4. Tail(Frm.others) \in Seq(Thread)
    BY <1>2, <2>1, FrameFields, FirstOf
  <2>5. f \in Frame /\ f.thread = Frm.thread /\ f.op = Frm.op /\ f.at = "others" /\ f.others = Tail(Frm.others)
    BY <1>2, <2>1, <2>4 DEF Frame
  <2>6. g \in Frame /\ g.thread = u /\ g.others = <<>> /\ g.at = "begin"
    BY <1>1, <2>1, StepOverTrapIs
  <2>7. u # Frm.thread => thread'[u].steps = 0 /\ \A t \in Thread : t # u => thread'[t] = thread[t]
    BY <1>1, <2>1, NoStepsDoes
  <2>8. u = Frm.others[1]
    OBVIOUS
  <2> HIDE DEF f, g, u
  <2>9. FramesChange
    BY <2>1, <2>3, <2>5, <2>6, <2>7, <2>8 DEF FramesChange
  <2>10. \A t \in Thread : thread'[t].steps \in {thread[t].steps, 0}
    BY <2>1, <2>7
  <2> QED BY <2>1, <2>2, <2>9, <2>10
<1>13. CASE StepAgain
  <2> DEFINE f == [Frm EXCEPT !.at = "begin"]
  <2>1. /\ frames # <<>> /\ call.at = "idle" /\ Replaces(f) /\ UNCHANGED <<thread, handling>>
    BY <1>13, StepAgainDoes
  <2>2. f \in Frame /\ f.thread = Frm.thread /\ f.op = Frm.op /\ f.at = "begin" /\ f.others = Frm.others
    BY <1>2, <2>1 DEF Frame
  <2>3. TodoChange
    BY <1>2, <2>1 DEF TodoChange
  <2>4. ~Stepping
    BY <1>13, StepAgainDoes DEF Stepping
  <2> HIDE DEF f
  <2> QED BY <2>1, <2>2, <2>3, <2>4 DEF FramesChange
<1> QED BY <1>4, <1>5, <1>6, <1>7, <1>8, <1>9, <1>10, <1>11, <1>12, <1>13 DEF ProcessStep, Handlers


\* No stop waits to be reported at the threads that a call is for.
Fine(f) == /\ f.thread \in Thread /\ thread[f.thread].hit = "none"
           /\ \A k \in DOMAIN f.others : f.others[k] \in Thread /\ thread[f.others[k]].hit = "none"

\* What the calls s need when none of them is stepping a thread.
CallsFine(s) == \A i \in 1..Len(s) : Fine(s[i]) /\ ~(i = 1 /\ s[i].at = "stepping")
Uncounted(s) == \A i \in 1..Len(s) : s[i].op = "step" => thread'[s[i].thread].steps = 0
Apart(s) == \A i, j \in 1..Len(s) : i < j =>
  /\ s[i].thread # s[j].thread
  /\ \A k \in DOMAIN s[i].others : s[i].others[k] # s[j].thread

LEMMA TailElements ==
  ASSUME NEW S, NEW s \in Seq(S), s # <<>>, NEW k \in DOMAIN Tail(s)
  PROVE  \E m \in DOMAIN s : Tail(s)[k] = s[m]
<1>1. /\ Len(s) \in Nat /\ Len(s) >= 1 /\ Tail(s) \in Seq(S) /\ Len(Tail(s)) = Len(s) - 1
      /\ \A i \in 1..(Len(s) - 1) : Tail(s)[i] = s[i + 1]
  BY FirstOf
<1>2. k \in 1..(Len(s) - 1) /\ DOMAIN s = 1..Len(s)
  BY <1>1, ElementsOf
<1>3. k + 1 \in DOMAIN s /\ Tail(s)[k] = s[k + 1]
  BY <1>1, <1>2
<1> QED BY <1>3

\* No step begins: the calls go on, return, or make another one inside.
LEMMA OthersOneByOne ==
  ASSUME Calm, ControlInv', OneByOne, Found, TrapsOnly, ProcessStep, ~ClientWaits, ~ServerMoves,
         ~ReadTLS, ~SingleStep, Open'
  PROVE  OneByOne'
<1> USE DEF Calm
<1>1. /\ thread \in States /\ frames \in Seq(Frame) /\ frames' \in Seq(Frame) /\ FramesNest
      /\ handling \in Handling /\ handling' \in Handling /\ event.threads \in Seq(Thread)
  BY DEF ControlInv, HandlersCall, TypeOK, ServerTypeOK, ClientTypeOK, Event, States
<1>2. /\ DOMAIN frames = 1..Len(frames) /\ Len(frames) \in Nat /\ (frames # <<>> => Len(frames) >= 1)
      /\ DOMAIN frames' = 1..Len(frames') /\ Len(frames') \in Nat
      /\ frames # <<>> => Frm = frames[1]
      /\ frames' # <<>> => Frm' = frames'[1]
  BY <1>1, ElementsOf, FirstOf DEF Frm
<1>3. /\ call.at = "idle" /\ FramesChange /\ TodoChange
      /\ \A u \in Thread : thread'[u].steps \in {thread[u].steps, 0}
  BY OthersChange
<1>4. Rests \/ Resuming
  BY OthersRest
<1>5. \A u \in Thread : /\ thread'[u].hit = thread[u].hit
                        /\ thread'[u].stop \in {thread[u].stop, "none"}
  BY <1>4 DEF Rests, Resuming
<1>6. /\ \A u \in Thread : Unhit(u) => thread[u].hit = "none"
      /\ Stepping /\ event.type = "unspecified" /\ Frm.op = "step" => thread[Frm.thread].steps = 0
  BY <1>3, Settled
<1>7. \A u \in TrapStopped : u \in Thread /\ thread[u].stop = "trap" /\ thread[u].hit = "none"
  BY DEF TrapStopped, OneByOne, ReportedOnce
<1>8. event.type \in {"trapped", "unspecified"} =>
        \A k \in DOMAIN event.threads : event.threads[k] \in TrapStopped
  BY <1>3 DEF Found, Elements
\* The frames before and after the step.
<1>9. \A i \in 1..Len(frames) :
        /\ frames[i] \in Frame /\ frames[i].thread \in Thread /\ frames[i].others \in Seq(Thread)
        /\ thread[frames[i].thread].hit = "none"
        /\ \A k \in DOMAIN frames[i].others : /\ frames[i].others[k] \in Thread
                                              /\ thread[frames[i].others[k]].hit = "none"
        /\ i > 1 => frames[i].at = "others" /\ frames[i].others # <<>>
        /\ frames[i].op = "step" /\ ~(i = 1 /\ Stepping) => thread[frames[i].thread].steps = 0
  <2> SUFFICES ASSUME NEW i \in 1..Len(frames)
               PROVE  /\ frames[i] \in Frame /\ frames[i].thread \in Thread /\ frames[i].others \in Seq(Thread)
                      /\ thread[frames[i].thread].hit = "none"
                      /\ \A k \in DOMAIN frames[i].others : /\ frames[i].others[k] \in Thread
                                                            /\ thread[frames[i].others[k]].hit = "none"
                      /\ i > 1 => frames[i].at = "others" /\ frames[i].others # <<>>
                      /\ frames[i].op = "step" /\ ~(i = 1 /\ Stepping) => thread[frames[i].thread].steps = 0
    OBVIOUS
  <2>1. frames[i] \in Frame
    BY <1>1, ElementsOf
  <2>2. frames[i].thread \in Thread /\ frames[i].others \in Seq(Thread)
    BY <2>1, FrameFields
  <2>3. \A k \in DOMAIN frames[i].others : frames[i].others[k] \in Thread
    BY <2>2, ElementsOf
  <2>4. Unhit(frames[i].thread) /\ \A k \in DOMAIN frames[i].others : Unhit(frames[i].others[k])
    BY <1>2 DEF OneByOne, ReportedFrames
  <2>5. thread[frames[i].thread].hit = "none" /\ \A k \in DOMAIN frames[i].others : thread[frames[i].others[k]].hit = "none"
    BY <1>6, <2>2, <2>3, <2>4
  <2>6. i > 1 => frames[i].at = "others" /\ frames[i].others # <<>>
    BY <1>1, <1>2 DEF FramesNest
  <2>7. frames[i].op = "step" /\ ~(i = 1 /\ Stepping) => thread[frames[i].thread].steps = 0
    BY <1>2 DEF OneByOne, ZeroSteps
  <2> QED BY <2>1, <2>2, <2>3, <2>5, <2>6, <2>7
<1>10. \A i, j \in 1..Len(frames) : i < j =>
         /\ frames[i].thread # frames[j].thread
         /\ \A k \in DOMAIN frames[i].others : frames[i].others[k] # frames[j].thread
  BY <1>2 DEF OneByOne, NestedDistinct
<1>11. Stepping => \A j \in 1..Len(frames) : j > 1 => thread[frames[j].thread].stop = "none"
  BY <1>2 DEF OneByOne, NestedStill
<1>12. \A i \in 1..Len(frames) : Fine(frames[i])
  BY <1>9 DEF Fine
<1>13. CallsFine(frames') /\ Uncounted(frames') /\ Apart(frames')
  <2>1. CASE frames' = <<>>
    <3>1. 1..Len(frames') = {}
      BY <1>2, <2>1, NoElements
    <3> QED BY <3>1 DEF CallsFine, Uncounted, Apart
  <2>2. CASE Drops
    <3>1. \A i \in 1..Len(frames') :
            /\ i + 1 \in 1..Len(frames) /\ i + 1 > 1
            /\ frames'[i].op = frames[i + 1].op /\ frames'[i].thread = frames[i + 1].thread
            /\ frames'[i].at = frames[i + 1].at
            /\ \/ frames'[i].others = frames[i + 1].others
               \/ frames'[i].others = Tail(frames[i + 1].others)
      <4> SUFFICES ASSUME NEW i \in 1..Len(frames')
                   PROVE  /\ i + 1 \in 1..Len(frames) /\ i + 1 > 1
                          /\ frames'[i].op = frames[i + 1].op /\ frames'[i].thread = frames[i + 1].thread
                          /\ frames'[i].at = frames[i + 1].at
                          /\ \/ frames'[i].others = frames[i + 1].others
                             \/ frames'[i].others = Tail(frames[i + 1].others)
        OBVIOUS
      <4>1. i + 1 \in 1..Len(frames) /\ i + 1 > 1
        BY <1>2, <2>2 DEF Drops
      <4>2. CASE i = 1
        <5>1. frames[2] \in Frame /\ i + 1 = 2
          BY <1>9, <4>1, <4>2
        <5>2. frames'[1] = [frames[2] EXCEPT !.others = Tail(frames[2].others)]
          BY <2>2 DEF Drops
        <5>3. /\ frames'[1].op = frames[2].op /\ frames'[1].thread = frames[2].thread
              /\ frames'[1].at = frames[2].at /\ frames'[1].others = Tail(frames[2].others)
          BY <5>1, <5>2 DEF Frame
        <5> QED BY <4>1, <4>2, <5>1, <5>3
      <4>3. CASE i # 1
        <5>1. frames'[i] = frames[i + 1]
          BY <1>2, <2>2, <4>3 DEF Drops
        <5> QED BY <4>1, <5>1
      <4> QED BY <4>2, <4>3
    <3>2. \A i \in 1..Len(frames') : \A k \in DOMAIN frames'[i].others :
            \E m \in DOMAIN frames[i + 1].others : frames'[i].others[k] = frames[i + 1].others[m]
      <4> SUFFICES ASSUME NEW i \in 1..Len(frames'), NEW k \in DOMAIN frames'[i].others
                   PROVE  \E m \in DOMAIN frames[i + 1].others : frames'[i].others[k] = frames[i + 1].others[m]
        OBVIOUS
      <4> DEFINE s == frames[i + 1].others
      <4>1. s \in Seq(Thread) /\ s # <<>> /\ (frames'[i].others = s \/ frames'[i].others = Tail(s))
        BY <1>9, <3>1
      <4> HIDE DEF s
      <4>2. \E m \in DOMAIN s : frames'[i].others[k] = s[m]
        BY <4>1, TailElements
      <4> QED BY <4>2 DEF s
    <3>3. ASSUME NEW i \in 1..Len(frames')
          PROVE  /\ Fine(frames'[i]) /\ ~(i = 1 /\ frames'[i].at = "stepping")
                 /\ frames'[i].op = "step" => thread'[frames'[i].thread].steps = 0
      <4> DEFINE j == i + 1
      <4>1. j \in 1..Len(frames) /\ j > 1 /\ j # 1
        BY <3>1
      <4>2. /\ frames'[i].op = frames[j].op /\ frames'[i].thread = frames[j].thread
            /\ frames'[i].at = frames[j].at
            /\ \A k \in DOMAIN frames'[i].others : \E m \in DOMAIN frames[j].others : frames'[i].others[k] = frames[j].others[m]
        BY <3>1, <3>2
      <4> HIDE DEF j
      <4>3. Fine(frames'[i])
        BY <1>12, <4>1, <4>2 DEF Fine
      <4>4. frames'[i].at = "others"
        BY <1>9, <4>1, <4>2
      <4>5. frames'[i].op = "step" => thread'[frames'[i].thread].steps = 0
        BY <1>3, <1>9, <4>1, <4>2
      <4> QED BY <4>3, <4>4, <4>5
    <3>4. ASSUME NEW i \in 1..Len(frames'), NEW j \in 1..Len(frames'), i < j
          PROVE  /\ frames'[i].thread # frames'[j].thread
                 /\ \A k \in DOMAIN frames'[i].others : frames'[i].others[k] # frames'[j].thread
      <4> DEFINE a == i + 1
                 b == j + 1
      <4>1. a \in 1..Len(frames) /\ b \in 1..Len(frames) /\ a < b
        BY <3>1, <3>4
      <4>2. /\ frames'[i].thread = frames[a].thread /\ frames'[j].thread = frames[b].thread
            /\ \A k \in DOMAIN frames'[i].others : \E m \in DOMAIN frames[a].others : frames'[i].others[k] = frames[a].others[m]
        BY <3>1, <3>2
      <4> HIDE DEF a, b
      <4> QED BY <1>10, <4>1, <4>2
    <3> QED BY <3>3, <3>4 DEF CallsFine, Uncounted, Apart
  <2>3. ASSUME NEW f, frames' = <<f>>, f.thread = Trapping, f.others = <<>>, f.at = "begin", InHandler,
               f.op = "step" => thread'[Trapping].steps = 0
        PROVE  CallsFine(frames') /\ Uncounted(frames') /\ Apart(frames')
    <3>1. 1..Len(frames') = {1} /\ frames'[1] = f
      BY <2>3
    <3>2. Trapping \in Thread /\ 1 \in DOMAIN handling.todo /\ Trapping = handling.todo[1]
      <4>1. handling.todo # <<>> /\ handling.todo \in Seq(Thread)
        BY <1>1, <2>3 DEF ControlInv, HandlersCall, Handling
      <4> QED BY <4>1, FirstOf, ElementsOf DEF Trapping
    <3>3. thread[Trapping].hit = "none"
      BY <1>6, <2>3, <3>2 DEF OneByOne, ReportedTodo
    <3>4. Fine(f)
      BY <2>3, <3>2, <3>3, NoElements DEF Fine
    <3> QED BY <2>3, <3>1, <3>4 DEF CallsFine, Uncounted, Apart
  <2>4. ASSUME frames # <<>>, NEW f \in Frame, Replaces(f), f.thread = Frm.thread, f.op = Frm.op, f.at # "stepping",
               \/ ~Stepping /\ f.others = Frm.others
               \/ ~Stepping /\ Frm.others # <<>> /\ f.others = Tail(Frm.others)
               \/ Stepping /\ event.type = "unspecified" /\ f.others = event.threads
        PROVE  CallsFine(frames') /\ Uncounted(frames') /\ Apart(frames')
    <3>1. /\ Len(frames') = Len(frames) /\ Frm = frames[1] /\ 1 \in 1..Len(frames) /\ frames'[1] = f
          /\ \A i \in 1..Len(frames) : i # 1 => frames'[i] = frames[i]
      BY <1>2, <2>4 DEF Replaces
    <3>2. Frm.thread \in Thread /\ thread[Frm.thread].hit = "none" /\ Frm.others \in Seq(Thread)
      BY <1>9, <3>1
    <3>3. \/ \A k \in DOMAIN f.others : \E m \in DOMAIN Frm.others : f.others[k] = Frm.others[m]
          \/ Stepping /\ \A k \in DOMAIN f.others : f.others[k] \in TrapStopped
      <4>1. CASE f.others = Frm.others
        BY <4>1
      <4>2. CASE Frm.others # <<>> /\ f.others = Tail(Frm.others)
        BY <3>2, <4>2, TailElements
      <4>3. CASE Stepping /\ event.type = "unspecified" /\ f.others = event.threads
        BY <1>8, <4>3
      <4> QED BY <2>4, <4>1, <4>2, <4>3
    <3>4. Fine(f)
      <4>1. \A k \in DOMAIN f.others : f.others[k] \in Thread /\ thread[f.others[k]].hit = "none"
        <5>1. \A m \in DOMAIN Frm.others : Frm.others[m] \in Thread /\ thread[Frm.others[m]].hit = "none"
          BY <1>9, <3>1
        <5> QED BY <1>7, <3>3, <5>1
      <4> QED BY <2>4, <3>2, <4>1 DEF Fine
    <3>5. CallsFine(frames')
      BY <1>12, <2>4, <3>1, <3>4 DEF CallsFine
    <3>6. f.op = "step" => thread[Frm.thread].steps = 0
      BY <1>6, <1>9, <2>4, <3>1
    <3>7. Uncounted(frames')
      <4> SUFFICES ASSUME NEW i \in 1..Len(frames), frames'[i].op = "step" PROVE thread'[frames'[i].thread].steps = 0
        BY <3>1 DEF Uncounted
      <4>1. CASE i = 1
        BY <1>3, <2>4, <3>1, <3>2, <3>6, <4>1
      <4>2. CASE i # 1
        BY <1>3, <1>9, <3>1, <4>2
      <4> QED BY <4>1, <4>2
    <3>8. Apart(frames')
      <4> SUFFICES ASSUME NEW i \in 1..Len(frames), NEW j \in 1..Len(frames), i < j
                   PROVE  /\ frames'[i].thread # frames'[j].thread
                          /\ \A k \in DOMAIN frames'[i].others : frames'[i].others[k] # frames'[j].thread
        BY <3>1 DEF Apart
      <4>1. frames'[j] = frames[j] /\ j > 1
        BY <1>2, <3>1
      <4>2. CASE i # 1
        BY <1>10, <3>1, <4>1, <4>2
      <4>3. CASE i = 1
        <5>1. /\ Frm.thread # frames[j].thread
              /\ \A m \in DOMAIN Frm.others : Frm.others[m] # frames[j].thread
          BY <1>10, <3>1, <4>3
        <5>2. \A k \in DOMAIN f.others : f.others[k] # frames[j].thread
          <6>1. Stepping => frames[j].thread \notin TrapStopped
            BY <1>7, <1>11, <4>1
          <6> QED BY <3>3, <5>1, <6>1
        <5> QED BY <2>4, <3>1, <4>1, <4>3, <5>1, <5>2
      <4> QED BY <4>2, <4>3
    <3> QED BY <3>5, <3>7, <3>8
  <2>5. ASSUME frames # <<>>, NEW f \in Frame, Pushes(f), f.others = <<>>, f.at = "begin", ~Stepping,
               Frm.others # <<>>, f.thread = Frm.others[1], f.thread # Frm.thread, thread'[f.thread].steps = 0
        PROVE  CallsFine(frames') /\ Uncounted(frames') /\ Apart(frames')
    <3>1. /\ Frm = frames[1] /\ 1 \in 1..Len(frames) /\ 1 \in DOMAIN frames[1].others
      <4>1. Frm = frames[1] /\ 1 \in 1..Len(frames)
        BY <1>2, <2>5
      <4>2. frames[1].others \in Seq(Thread) /\ frames[1].others # <<>>
        BY <1>9, <2>5, <4>1
      <4> QED BY <4>1, <4>2, ElementsOf
    <3>2. f.thread \in Thread /\ thread[f.thread].hit = "none"
      BY <1>9, <2>5, <3>1
    <3>3. Fine(f)
      BY <2>5, <3>2, NoElements DEF Fine
    <3>4. \A i \in 1..Len(frames') : \/ i = 1 /\ frames'[i] = f
                                     \/ i > 1 /\ i - 1 \in 1..Len(frames) /\ frames'[i] = frames[i - 1]
      BY <1>2, <2>5 DEF Pushes
    <3>5. \A i \in 1..Len(frames') : Fine(frames'[i]) /\ ~(i = 1 /\ frames'[i].at = "stepping")
      BY <1>12, <2>5, <3>3, <3>4
    <3>6. \A i \in 1..Len(frames') : frames'[i].op = "step" => thread'[frames'[i].thread].steps = 0
      <4> SUFFICES ASSUME NEW i \in 1..Len(frames'), frames'[i].op = "step"
                   PROVE  thread'[frames'[i].thread].steps = 0
        OBVIOUS
      <4>1. CASE i = 1
        BY <2>5, <3>4, <4>1
      <4>2. CASE i # 1
        <5> DEFINE a == i - 1
        <5>1. a \in 1..Len(frames) /\ frames'[i] = frames[a]
          BY <3>4, <4>2
        <5> HIDE DEF a
        <5>2. frames[a].thread \in Thread /\ thread[frames[a].thread].steps = 0
          BY <1>9, <2>5, <5>1
        <5> QED BY <1>3, <5>1, <5>2
      <4> QED BY <4>1, <4>2
    <3>7. \A j \in 1..Len(frames) : f.thread # frames[j].thread
      <4> SUFFICES ASSUME NEW j \in 1..Len(frames) PROVE f.thread # frames[j].thread
        OBVIOUS
      <4>1. CASE j = 1
        BY <2>5, <3>1, <4>1
      <4>2. CASE j # 1
        <5>1. 1 < j
          BY <1>2, <4>2
        <5> QED BY <1>10, <2>5, <3>1, <5>1
      <4> QED BY <4>1, <4>2
    <3>8. Apart(frames')
      <4> SUFFICES ASSUME NEW i \in 1..Len(frames'), NEW j \in 1..Len(frames'), i < j
                   PROVE  /\ frames'[i].thread # frames'[j].thread
                          /\ \A k \in DOMAIN frames'[i].others : frames'[i].others[k] # frames'[j].thread
        BY DEF Apart
      <4> DEFINE b == j - 1
      <4>1. b \in 1..Len(frames) /\ frames'[j] = frames[b]
        BY <3>4
      <4>2. CASE i = 1
        <5>1. frames'[i] = f
          BY <3>4, <4>2
        <5> HIDE DEF b
        <5> QED BY <2>5, <3>7, <4>1, <5>1, NoElements
      <4>3. CASE i # 1
        <5> DEFINE a == i - 1
        <5>1. a \in 1..Len(frames) /\ frames'[i] = frames[a] /\ a < b
          BY <3>4, <4>3
        <5> HIDE DEF a, b
        <5> QED BY <1>10, <4>1, <5>1
      <4> QED BY <4>2, <4>3
    <3> QED BY <3>5, <3>6, <3>8 DEF CallsFine, Uncounted
  <2> QED BY <1>3, <2>1, <2>2, <2>3, <2>4, <2>5 DEF FramesChange
<1>14. ~Stepping'
  <2>1. frames' # <<>> => 1 \in 1..Len(frames')
    BY <1>1, <1>2, ElementsOf
  <2> QED BY <1>2, <1>13, <2>1 DEF Stepping, CallsFine
<1>15. FoundOnce' /\ NestedStill' /\ (Stepping => StepsOnce(Frm))'
  <2>1. call'.at \in {"idle", "waiting"}
    BY <1>3, <1>4 DEF Rests, Resuming
  <2> QED BY <1>14, <2>1 DEF FoundOnce, NestedStill
<1>16. ReportedOnce'
  <2>1. CASE Rests
    <3>1. running' = FALSE
      BY <1>3, <2>1 DEF Rests, Quiet, Silent, ControlInv, TypeOK, ServerTypeOK
    <3> QED BY <1>5, <2>1, <3>1 DEF Rests, OneByOne, ReportedOnce
  <2>2. CASE Resuming
    BY <2>2 DEF Resuming, ReportedOnce
  <2> QED BY <1>4, <2>1, <2>2
<1>17. ReportedTodo'
  <2> SUFFICES ASSUME InHandler', NEW i \in DOMAIN handling'.todo
               PROVE  handling'.todo[i] \in Thread /\ thread[handling'.todo[i]].hit = "none"
    BY <1>5 DEF ReportedTodo, Unhit
  <2>1. handling'.todo[i] \in Thread
    <3>1. handling'.todo \in Seq(Thread)
      BY <1>1 DEF Handling
    <3> QED BY <3>1, ElementsOf
  <2>2. ASSUME InHandler, NEW m \in DOMAIN handling.todo, handling'.todo[i] = handling.todo[m]
        PROVE  thread[handling'.todo[i]].hit = "none"
    <3>1. Unhit(handling.todo[m])
      BY <2>2 DEF OneByOne, ReportedTodo
    <3> QED BY <1>6, <2>1, <2>2, <3>1
  <2>3. CASE InHandler /\ handling'.todo = handling.todo
    <3>1. i \in DOMAIN handling.todo /\ handling'.todo[i] = handling.todo[i] /\ InHandler
      BY <2>3
    <3> QED BY <2>1, <2>2, <3>1
  <2>4. CASE InHandler /\ handling.todo # <<>> /\ handling'.todo = Tail(handling.todo)
    <3>1. handling.todo \in Seq(Thread)
      BY <1>1 DEF Handling
    <3>2. PICK m \in DOMAIN handling.todo : handling'.todo[i] = handling.todo[m]
      BY <2>4, <3>1, TailElements
    <3>3. InHandler
      BY <2>4
    <3> QED BY <2>1, <2>2, <3>2, <3>3
  <2>5. CASE event.type = "trapped" /\ handling'.todo = event.threads
    BY <1>7, <1>8, <2>5
  <2> QED BY <1>3, <2>1, <2>3, <2>4, <2>5 DEF TodoChange
<1>18. ReportedFrames'
  <2>1. \A i \in 1..Len(frames') : Fine(frames'[i])
    BY <1>13 DEF CallsFine
  <2>2. \A i \in 1..Len(frames') :
          /\ thread'[frames'[i].thread].hit = "none"
          /\ \A k \in DOMAIN frames'[i].others : thread'[frames'[i].others[k]].hit = "none"
    BY <1>5, <2>1 DEF Fine
  <2> QED BY <1>2, <2>2 DEF ReportedFrames, Unhit
<1>19. NestedDistinct' /\ ZeroSteps'
  BY <1>2, <1>13 DEF Uncounted, Apart, NestedDistinct, ZeroSteps
<1> QED BY <1>15, <1>16, <1>17, <1>18, <1>19 DEF OneByOne


LEMMA UndisturbedStays ==
  ASSUME ControlInv, QuietInv, HelperInv, UnsignalledInv, UndisturbedInv, [ProcessNext]_processVars
  PROVE  UndisturbedInv'
<1>1. SUFFICES ASSUME Undisturbed', Open' PROVE OneByOne'
  BY DEF UndisturbedInv
<1>2. happens' = happens /\ Undisturbed /\ Unsignalled /\ Prompt
  BY <1>1 DEF processVars, ProcessNext, Undisturbed, Unsignalled, Prompt
<1>3. ControlInv' /\ Open
  BY <1>1, ControlStays, StaysOpen
<1>4. Calm /\ PlacesOutside /\ TrapsOnly /\ TextInv /\ OnlyLiving /\ Found /\ OneByOne
  BY <1>2, <1>3 DEF HelperInv, QuietInv, UnsignalledInv, UndisturbedInv, Calm
<1>5. CASE UNCHANGED processVars
  BY <1>4, <1>5 DEF processVars, server, client, OneByOne, FoundOnce, ReportedOnce, ReportedTodo, ReportedFrames,
     NestedDistinct, NestedStill, StepsOnce, ZeroSteps, Unhit, Stepping, InHandler, Frm, ExitPending, AllHeld, Alone,
     NotYet, BeforeStep, AfterStep
<1>6. CASE ProcessNext
  <2>1. CASE ClientWaits
    <3>1. Waits /\ UNCHANGED <<frames, handling>>
      BY <2>1 DEF ClientWaits
    <3> QED BY <1>1, <1>3, <1>4, <3>1, WaitsOneByOne
  <2>2. CASE ServerMoves
    BY <1>2, <1>3, <1>4, <2>2, ServerOneByOne
  <2>3. CASE ReadTLS \/ SingleStep
    BY <1>1, <1>2, <1>3, <1>4, <2>3, StartsOneByOne
  <2>4. CASE ~ClientWaits /\ ~ServerMoves /\ ~ReadTLS /\ ~SingleStep
    <3>1. ProcessStep
      BY <1>6 DEF ProcessNext
    <3> QED BY <1>1, <1>3, <1>4, <2>4, <3>1, OthersOneByOne
  <2> QED BY <2>1, <2>2, <2>3, <2>4
<1> QED BY <1>5, <1>6

LEMMA UndisturbedBegins ==
  ProcessInit => UndisturbedInv
<1> SUFFICES ASSUME ProcessInit PROVE OneByOne
  BY DEF UndisturbedInv
<1>1. /\ frames = <<>> /\ call = Idle /\ running = FALSE /\ handling.at = "attaching"
      /\ \A t \in Thread : thread[t].stop = "none"
  BY DEF ProcessInit, ServerInit, ClientInit
<1>2. DOMAIN frames = {} /\ ~Stepping /\ ~InHandler /\ call.at = "idle"
  BY <1>1, NoElements DEF Stepping, InHandler, HandlerAt, Idle
<1> QED BY <1>1, <1>2 DEF OneByOne, FoundOnce, ReportedOnce, ReportedTodo, ReportedFrames, NestedDistinct, NestedStill,
     ZeroSteps

\* A call that fails makes every other one fail.
LEMMA FailureReturns ==
  ASSUME ControlInv, frames # <<>>, ReturnFrom(FALSE)
  PROVE  ~StepReturns
<1>1. Ends(FALSE)
  BY FrmIs, ReturnFromIs
<1>2. frames' = <<>> /\ \E at \in {"system", "ending"} : GoTo(at)
  BY <1>1 DEF Ends
<1>3. handling'.at # "stepped"
  BY <1>2 DEF GoTo, ControlInv, TypeOK, Handling
<1> QED BY <1>2, <1>3 DEF StepReturns

\* Only SingleStep's own step lets it return.
LEMMA ReturnsAfterStep ==
  ASSUME ControlInv, ProcessStep, StepReturns
  PROVE  /\ frames # <<>> /\ Frm.op = "step" /\ Stepping /\ call.at = "idle" /\ event.type = "trapped" /\ Open
<1>1. /\ frames # <<>> /\ Frm.op = "step" /\ Len(frames') # Len(frames) /\ frames' # frames
      /\ Len(frames') = Len(frames) - 1
  BY FrmIs DEF StepReturns
<1>2. Frm \in Frame /\ InHandler /\ FramesOK /\ Len(frames) \in Nat
  BY <1>1, FrmIs
<1>3. ~ReturnFrom(FALSE)
  BY <1>1, FailureReturns
<1>4. ASSUME NEW f \in Frame, f.op = Frm.op, Becomes(f) PROVE FALSE
  BY <1>1, <1>2, <1>4, BecomesIs DEF Replaces
<1>5. SingleStepReturns
  <2>1. ~ClientWaits /\ ~ServerMoves /\ ~\E a \in Addr : SetBreakpoint(a) \/ ClearBreakpoint(a)
    BY <1>1 DEF ClientWaits, ServerMoves, SetBreakpoint, ClearBreakpoint
  <2>2. ~(Attach \/ AttachFails \/ NewProcess \/ NewProcessFails \/ Resumes \/ Interrupted \/ Returns \/ Detach)
    BY <1>2 DEF InHandler, HandlerAt, Attach, AttachFails, NewProcess, NewProcessFails, Resumes, Interrupted, Returns,
       Detach
  <2>3. ~(CurrentGoRoutineInfo \/ HandleTrap \/ HandleCalledFunction \/ HandlerReturns)
    BY <1>1 DEF CurrentGoRoutineInfo, HandleTrap, HandleCalledFunction, HandlerReturns, Handles
  <2>4. ~(ReadTLS \/ ReadTLSReturns)
    BY <1>1 DEF ReadTLS, ReadTLSReturns, In
  <2>5. ~SingleStep
    <3>1. [Frm EXCEPT !.at = "stepping"] \in Frame /\ [Frm EXCEPT !.at = "stepping"].op = Frm.op
      BY <1>2 DEF Frame
    <3> QED BY <1>3, <1>4, <3>1 DEF SingleStep
  <2>6. ~StepAgain
    <3>1. [Frm EXCEPT !.at = "begin"] \in Frame /\ [Frm EXCEPT !.at = "begin"].op = Frm.op
      BY <1>2 DEF Frame
    <3> QED BY <1>4, <3>1 DEF StepAgain
  <2>7. ~StepUnspecifiedThread
    <3> SUFFICES ASSUME StepUnspecifiedThread PROVE FALSE
      OBVIOUS
    <3> DEFINE u == Head(Frm.others)
               f == [Frm EXCEPT !.others = Tail(Frm.others)]
    <3>1. Frm.others # <<>> /\ Frm.others \in Seq(Thread)
      BY <1>2, FrameFields DEF StepUnspecifiedThread
    <3>2. u \in Thread /\ Tail(Frm.others) \in Seq(Thread)
      BY <3>1, FirstOf
    <3>3. f \in Frame /\ f.op = Frm.op
      BY <1>2, <3>2 DEF Frame
    <3>4. Becomes(f) \/ frames' = <<StepOverTrap(u)>> \o frames
      BY <1>3 DEF StepUnspecifiedThread
    <3>5. CASE Becomes(f)
      <4> HIDE DEF f
      <4> QED BY <1>4, <3>3, <3>5
    <3>6. CASE frames' = <<StepOverTrap(u)>> \o frames
      <4> HIDE DEF u
      <4>1. frames \in Seq(Frame) /\ thread \in States
        BY DEF ControlInv, TypeOK, ServerTypeOK, States
      <4>2. StepOverTrap(u) \in Frame
        BY <3>2, <4>1, StepOverTrapIs
      <4>3. Len(frames') = Len(frames) + 1
        BY <3>6, <4>1, <4>2, Prepend
      <4> QED BY <1>1, <1>2, <4>3
    <3> QED BY <3>4, <3>5, <3>6
  <2> QED BY <2>1, <2>2, <2>3, <2>4, <2>5, <2>6, <2>7 DEF ProcessStep, Handlers
<1>6. Stepping /\ call = Idle /\ call.at = "idle"
  BY <1>5 DEF SingleStepReturns, In, Stepping, Idle
<1>7. event.type = "trapped"
  <2>1. event.type # "unspecified"
    <3> SUFFICES ASSUME event.type = "unspecified" PROVE FALSE
      OBVIOUS
    <3> DEFINE f == [Frm EXCEPT !.at = "others", !.others = event.threads]
    <3>1. Becomes(f)
      BY <1>5 DEF SingleStepReturns, StepOthers
    <3>2. event.threads \in Seq(Thread)
      BY DEF ControlInv, TypeOK, ClientTypeOK, Event
    <3>3. f \in Frame /\ f.op = Frm.op
      BY <1>2, <3>2 DEF Frame
    <3> HIDE DEF f
    <3> QED BY <1>4, <3>1, <3>3
  <2> QED BY <1>3, <1>5, <2>1 DEF SingleStepReturns
<1>8. Open
  BY <1>6, <1>7 DEF ControlInv, CallsStep, Exited, Open
<1> QED BY <1>1, <1>6, <1>7, <1>8

\* Unless a signal comes, or a thread runs on while another one is stepped over its trap,
\* SingleStep returns after exactly one instruction of its thread, however often it had
\* to be tried again and whichever steps over other threads' traps it was in
\* (SingleStep, singleStepUnspecifiedThreads).
THEOREM UndisturbedStepCorrect == ProcessSpec => UndisturbedSteppedOne
<1>1. ASSUME ControlInv, QuietInv, UnsignalledInv, UndisturbedInv, [ProcessNext]_processVars
      PROVE  [Undisturbed => Steps]_processVars
  <2> SUFFICES ASSUME ProcessNext, Undisturbed, StepReturns PROVE thread[Frm.thread].steps = 1
    BY <1>1 DEF Steps
  <2>1. /\ frames # <<>> /\ Frm.op = "step" /\ Stepping /\ call.at = "idle" /\ event.type = "trapped" /\ Open
    BY <1>1, ReturnsAfterStep DEF ProcessNext
  <2>2. Calm /\ OneByOne /\ Found /\ TrapsOnly
    BY <1>1, <2>1 DEF ProcessNext, Calm, Undisturbed, Unsignalled, Prompt, QuietInv, UnsignalledInv, UndisturbedInv
  <2> QED BY <2>1, <2>2, Settled
<1> QED BY <1>1, HelperBegins, HelperStays, QuietBegins, QuietStays, ControlBegins, ControlStays,
           UnsignalledBegins, UnsignalledStays, UndisturbedBegins, UndisturbedStays, PTL
    DEF ProcessSpec, UndisturbedSteppedOne

=============================================================================
