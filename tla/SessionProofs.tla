---------------------------- MODULE SessionProofs ----------------------------
(***************************************************************************)
(* Proofs about Session, for any window of the channel, any number of      *)
(* values and of lost connections: what the driver receives, and that its  *)
(* steps are those of the runtime of Runner.                               *)
(***************************************************************************)
EXTENDS Session, WellFoundedInduction, TLAPS

Event == Terminal \cup {"started", "output"}

TypeOK ==
  /\ rt \in {"spawn", "prompt", "deliver", "closing"} \cup Preparing \cup Waiting \cup Finished
  /\ rtq \in Seq(Event)
  /\ log \in Seq(Values \cup {"response"})
  /\ pos \in Nat /\ last \in Nat
  /\ rx \in Seq(Nat) /\ taken \in Seq(Nat)

(* The ids the driver has received and those in its channel are 1..last;   *)
(* a connection that counts is no further, and never behind the log.       *)
Contiguous ==
  /\ \A i \in 1..Len(taken) : taken[i] = i
  /\ \A i \in 1..Len(rx) : rx[i] = Len(taken) + i
  /\ last = Len(taken) + Len(rx) /\ last <= Len(log)
  /\ sse # "failed" => pos <= last

(* The response of the prompt is the last value of the Agent. *)
ResponseLast ==
  /\ \A i \in 1..Len(log) : log[i] = "response" => agent = "answered" /\ i = Len(log)
  /\ \A i \in 1..Len(log) : log[i] # "response" => i <= MaxLog
  /\ post = "resp" => agent = "answered"

(* Until it reports, the driver has sent "started" and one event for each  *)
(* update, and it stops for one reason.                                    *)
DriverInv ==
  /\ rt \in {"spawn", "health", "agents"} => rtq = << >>
  /\ rt \notin {"closing"} \cup Finished => Len(rtq) <= Len(taken) + 1
  /\ rt \in {"spawn", "prompt"} \cup Preparing => why = None
  /\ rt \in {"spawn"} \cup Preparing => agent = "idle"
  /\ rt \in {"spawn", "health", "agents", "initialize", "subscribe"} => sse = "none"
  /\ reply => rt \in {"prompt"} \cup Waiting

Inv == TypeOK /\ Contiguous /\ ResponseLast /\ DriverInv
-----------------------------------------------------------------------------
(* Sequences. *)

(* A value moves from the channel to the driver. *)
LEMMA TakeShifts ==
  ASSUME NEW t \in Seq(Nat), NEW r \in Seq(Nat), r # << >>,
         \A i \in 1..Len(t) : t[i] = i,
         \A i \in 1..Len(r) : r[i] = Len(t) + i
  PROVE  /\ Append(t, Head(r)) \in Seq(Nat) /\ Tail(r) \in Seq(Nat)
         /\ Len(Append(t, Head(r))) = Len(t) + 1 /\ Len(Tail(r)) = Len(r) - 1
         /\ Head(r) = Len(t) + 1 /\ Len(r) >= 1
         /\ \A i \in 1..(Len(t) + 1) : Append(t, Head(r))[i] = i
         /\ \A i \in 1..(Len(r) - 1) : Tail(r)[i] = (Len(t) + 1) + i
<1>1. Len(t) \in Nat /\ Len(r) \in Nat /\ Len(r) >= 1 /\ Head(r) = r[1]
  OBVIOUS
<1>2. Head(r) = Len(t) + 1
  BY <1>1
<1>3. /\ Append(t, Head(r)) \in Seq(Nat) /\ Tail(r) \in Seq(Nat)
      /\ Len(Append(t, Head(r))) = Len(t) + 1 /\ Len(Tail(r)) = Len(r) - 1
  OBVIOUS
<1>4. ASSUME NEW i \in 1..(Len(t) + 1)  PROVE Append(t, Head(r))[i] = i
  BY <1>1, <1>2
<1>5. ASSUME NEW i \in 1..(Len(r) - 1)  PROVE Tail(r)[i] = (Len(t) + 1) + i
  <2>1. Tail(r)[i] = r[i + 1] /\ i + 1 \in 1..Len(r)
    BY <1>1
  <2>2. r[i + 1] = Len(t) + (i + 1)
    BY <2>1
  <2> QED  BY <1>1, <2>1, <2>2
<1> QED  BY <1>1, <1>2, <1>3, <1>4, <1>5

(* A value of the Agent joins a sequence. *)
LEMMA AppendValue ==
  ASSUME NEW S, NEW q \in Seq(S), NEW v \in S
  PROVE  /\ Append(q, v) \in Seq(S)
         /\ Len(q) \in Nat /\ Len(Append(q, v)) = Len(q) + 1
         /\ \A i \in 1..Len(q) : Append(q, v)[i] = q[i]
         /\ Append(q, v)[Len(q) + 1] = v
OBVIOUS

(* The next value enters the channel. *)
LEMMA DeliverShifts ==
  ASSUME NEW t \in Seq(Nat), NEW r \in Seq(Nat), NEW p \in Nat, NEW l \in Nat,
         l = Len(t) + Len(r), p <= l, ~(p + 1 <= l),
         \A i \in 1..Len(r) : r[i] = Len(t) + i
  PROVE  /\ Append(r, p + 1) \in Seq(Nat) /\ p + 1 \in Nat
         /\ p + 1 = Len(t) + Len(Append(r, p + 1))
         /\ \A i \in 1..Len(Append(r, p + 1)) : Append(r, p + 1)[i] = Len(t) + i
<1>1. p = l /\ Len(t) \in Nat /\ Len(r) \in Nat
  OBVIOUS
<1>2. /\ Append(r, p + 1) \in Seq(Nat) /\ Len(Append(r, p + 1)) = Len(r) + 1
      /\ \A i \in 1..Len(r) : Append(r, p + 1)[i] = r[i]
      /\ Append(r, p + 1)[Len(r) + 1] = p + 1
  OBVIOUS
<1>3. ASSUME NEW i \in 1..(Len(r) + 1)  PROVE Append(r, p + 1)[i] = Len(t) + i
  <2>1. CASE i \in 1..Len(r)
    BY <2>1, <1>2
  <2>2. CASE i = Len(r) + 1
    BY <2>2, <1>1, <1>2
  <2> QED  BY <1>1, <2>1, <2>2
<1> QED  BY <1>1, <1>2, <1>3

-----------------------------------------------------------------------------
(* What the driver receives. *)

Taking ==
  \/ TakeResponse \/ TakeUpdate \/ TakePermission \/ TakeUnanswerable \/ TakeQuestion

(* A value is taken: its number is the next one. *)
LEMMA TakeStep ==
  ASSUME Inv, NEW kind, Take(kind)
  PROVE  /\ Contiguous' /\ rx' \in Seq(Nat) /\ taken' \in Seq(Nat)
         /\ Len(taken') = Len(taken) + 1
         /\ Len(taken) + 1 \in 1..Len(log) /\ log[Len(taken) + 1] = kind
<1>1. /\ taken \in Seq(Nat) /\ rx \in Seq(Nat) /\ last \in Nat /\ Len(log) \in Nat
      /\ \A i \in 1..Len(taken) : taken[i] = i
      /\ \A i \in 1..Len(rx) : rx[i] = Len(taken) + i
      /\ last = Len(taken) + Len(rx) /\ last <= Len(log)
      /\ sse # "failed" => pos <= last
  BY DEF Inv, TypeOK, Contiguous
<1>2. /\ rx # << >> /\ log[Head(rx)] = kind /\ rx' = Tail(rx)
      /\ taken' = Append(taken, Head(rx)) /\ UNCHANGED <<log, pos, last, sse>>
  BY DEF Take
<1>3. /\ Append(taken, Head(rx)) \in Seq(Nat) /\ Tail(rx) \in Seq(Nat)
      /\ Len(Append(taken, Head(rx))) = Len(taken) + 1 /\ Len(Tail(rx)) = Len(rx) - 1
      /\ Head(rx) = Len(taken) + 1 /\ Len(rx) >= 1
      /\ \A i \in 1..(Len(taken) + 1) : Append(taken, Head(rx))[i] = i
      /\ \A i \in 1..(Len(rx) - 1) : Tail(rx)[i] = (Len(taken) + 1) + i
  BY <1>1, <1>2, TakeShifts
<1>4. Len(taken) \in Nat /\ Len(rx) \in Nat
  BY <1>1
<1>5. Contiguous'
  BY <1>1, <1>2, <1>3, <1>4 DEF Contiguous
<1>6. Len(taken) + 1 \in 1..Len(log)
  BY <1>1, <1>3, <1>4
<1> QED  BY <1>2, <1>3, <1>5, <1>6

(* The log grows, by a value or by the response. *)
LEMMA LogStep ==
  ASSUME Inv, AgentEmits \/ AgentAnswers
  PROVE  Contiguous' /\ ResponseLast' /\ log' \in Seq(Values \cup {"response"})
<1>1. /\ log \in Seq(Values \cup {"response"}) /\ last \in Nat
      /\ last = Len(taken) + Len(rx) /\ last <= Len(log)
      /\ \A i \in 1..Len(taken) : taken[i] = i
      /\ \A i \in 1..Len(rx) : rx[i] = Len(taken) + i
      /\ sse # "failed" => pos <= last
  BY DEF Inv, TypeOK, Contiguous
<1>2. agent = "working" /\ UNCHANGED <<post, taken, rx, last, pos, sse>>
  BY DEF AgentEmits, AgentAnswers, stream
<1>3. /\ \A i \in 1..Len(log) : log[i] # "response" /\ i <= MaxLog
      /\ post # "resp"
  BY <1>2 DEF Inv, ResponseLast
<1>4. Len(log) \in Nat /\ Len(log) <= MaxLog
  <2>1. Len(log) \in Nat
    BY <1>1
  <2>2. CASE Len(log) = 0
    BY <2>2, LogAssumption
  <2>3. CASE Len(log) # 0
    BY <2>1, <2>3, <1>3
  <2> QED  BY <2>1, <2>2, <2>3
<1>5. CASE log' = log
  BY <1>1, <1>2, <1>3, <1>5 DEF Contiguous, ResponseLast
<1>6. ASSUME NEW v \in Values \cup {"response"}, log' = Append(log, v),
             v = "response" => agent' = "answered",
             v # "response" => Len(log) < MaxLog
      PROVE  Contiguous' /\ ResponseLast' /\ log' \in Seq(Values \cup {"response"})
  <2>1. /\ log' \in Seq(Values \cup {"response"}) /\ Len(log') = Len(log) + 1
        /\ \A i \in 1..Len(log) : log'[i] = log[i]
        /\ log'[Len(log) + 1] = v
    BY <1>1, <1>6, AppendValue
  <2>2. Contiguous'
    BY <1>1, <1>2, <1>4, <2>1 DEF Contiguous
  <2>3. ASSUME NEW i \in 1..Len(log')
        PROVE  /\ log'[i] = "response" => agent' = "answered" /\ i = Len(log')
               /\ log'[i] # "response" => i <= MaxLog
    <3>1. CASE i \in 1..Len(log)
      BY <3>1, <2>1, <1>3
    <3>2. CASE i = Len(log) + 1
      BY <3>2, <2>1, <1>4, <1>6, LogAssumption
    <3> QED  BY <1>4, <2>1, <3>1, <3>2
  <2> QED  BY <1>2, <1>3, <2>1, <2>2, <2>3 DEF ResponseLast
<1>7. CASE AgentEmits
  <2>1. PICK v \in Values : log' = Append(log, v) /\ Len(log) < MaxLog
    BY <1>7 DEF AgentEmits
  <2>2. v # "response"
    BY DEF Values
  <2> QED  BY <1>6, <2>1, <2>2
<1>8. CASE AgentAnswers
  <2>1. agent' = "answered" /\ (log' = log \/ log' = Append(log, "response"))
    BY <1>8 DEF AgentAnswers
  <2> QED  BY <1>1, <1>5, <1>6, <2>1
<1> QED  BY <1>7, <1>8
(* Steps that leave the values of the Agent where they are. *)
Still ==
  \/ CancelArrives \/ ServerExits \/ HealthAnswer \/ AgentsAnswer \/ AgentsRefused
  \/ Initialized \/ SessionCreated \/ StartPrompt \/ PostAnswer \/ Drop \/ ReplyAnswered
  \/ ReplyRefused \/ CancelDelivered \/ Spawn \/ SpawnFails \/ ChildPoll \/ Close
  \/ PrepareFails \/ SeesCancel \/ Timeout \/ StreamLost \/ TakePost \/ CancelUndelivered
  \/ StopUnconfirmed \/ GraceEnds \/ StreamJoined

LEMMA NextSplit ==
  Next => \/ Still \/ Subscribed \/ Deliver \/ Reconnect
          \/ AgentEmits \/ AgentAnswers \/ Taking
BY Zenon DEF Next, External, Still, Taking

LEMMA StillStep == Still => UNCHANGED <<log, pos, sse, last, rx, taken>>
<1>1. CancelArrives \/ ServerExits \/ HealthAnswer \/ AgentsAnswer \/ AgentsRefused
      \/ Initialized \/ SessionCreated \/ StartPrompt \/ PostAnswer \/ Drop
      => UNCHANGED <<log, pos, sse, last, rx, taken>>
  BY DEF CancelArrives, ServerExits, HealthAnswer, AgentsAnswer, AgentsRefused, Initialized,
     SessionCreated, StartPrompt, PostAnswer, Drop, stream
<1>2. ReplyAnswered \/ ReplyRefused \/ CancelDelivered \/ Spawn \/ SpawnFails \/ ChildPoll
      \/ Close \/ PrepareFails
      => UNCHANGED <<log, pos, sse, last, rx, taken>>
  BY DEF ReplyAnswered, ReplyRefused, CancelDelivered, Spawn, SpawnFails, ChildPoll, Close,
     PrepareFails, stream
<1>3. SeesCancel \/ Timeout \/ StreamLost \/ TakePost \/ CancelUndelivered \/ StopUnconfirmed
      \/ GraceEnds \/ StreamJoined
      => UNCHANGED <<log, pos, sse, last, rx, taken>>
  BY DEF SeesCancel, Timeout, StreamLost, TakePost, CancelUndelivered, StopUnconfirmed,
     GraceEnds, StreamJoined, stream
<1> QED  BY <1>1, <1>2, <1>3 DEF Still

LEMMA TakingStep ==
  ASSUME Inv, Taking
  PROVE  /\ Contiguous' /\ rx' \in Seq(Nat) /\ taken' \in Seq(Nat)
         /\ Len(taken') = Len(taken) + 1
         /\ UNCHANGED <<post, up, agent, log, conn, pos, drops, sse, last>>
<1>1. \E kind : Take(kind)
  BY DEF Taking, TakeResponse, TakeUpdate, TakePermission, TakeUnanswerable, TakeQuestion
<1>2. PICK kind : Take(kind)
  BY <1>1
<1>3. UNCHANGED <<post, up, agent, log, conn, pos, drops, sse, last>>
  BY <1>2 DEF Take
<1> QED  BY <1>2, <1>3, TakeStep

(* The stream task connects, or passes on the next value. *)
LEMMA StreamStep ==
  ASSUME Inv, Subscribed \/ Deliver \/ Reconnect
  PROVE  /\ Contiguous' /\ pos' \in Nat /\ last' \in Nat /\ rx' \in Seq(Nat)
         /\ UNCHANGED <<rtq, post, agent, log, taken, reply, why>>
         /\ UNCHANGED rt \/ Subscribed
<1>1. /\ taken \in Seq(Nat) /\ rx \in Seq(Nat) /\ pos \in Nat /\ last \in Nat
      /\ Len(taken) \in Nat /\ Len(rx) \in Nat /\ Len(log) \in Nat
      /\ \A i \in 1..Len(taken) : taken[i] = i
      /\ \A i \in 1..Len(rx) : rx[i] = Len(taken) + i
      /\ last = Len(taken) + Len(rx) /\ last <= Len(log)
      /\ sse # "failed" => pos <= last
  BY DEF Inv, TypeOK, Contiguous
<1>2. CASE Subscribed
  <2>1. /\ UNCHANGED <<pos, last, rx, taken, log, rtq, post, agent, reply, why>>
    BY <1>2 DEF Subscribed, Move
  <2>2. sse # "failed"
    BY <1>2 DEF Subscribed, Inv, DriverInv
  <2> QED  BY <1>1, <1>2, <2>1, <2>2 DEF Contiguous
<1>3. CASE Reconnect
  <2>1. /\ UNCHANGED <<last, rx, taken, log, sse, rt, rtq, post, agent, reply, why>>
        /\ pos' \in 0..last
    BY <1>3 DEF Reconnect, driver
  <2> QED  BY <1>1, <2>1 DEF Contiguous
<1>4. CASE Deliver
  <2>1. /\ sse = "run" /\ pos < Len(log) /\ pos' = pos + 1
        /\ UNCHANGED <<taken, log, rt, rtq, post, agent, reply, why>>
    BY <1>4 DEF Deliver, Listening, driver
  <2>2. CASE pos + 1 <= last
    <3>1. UNCHANGED <<rx, last, sse>>
      BY <1>4, <2>1, <2>2 DEF Deliver, Duplicate
    <3> QED  BY <1>1, <2>1, <2>2, <3>1 DEF Contiguous
  <2>3. CASE ~(pos + 1 <= last) /\ log[pos + 1] = "undecodable"
    <3>1. sse' = "failed" /\ UNCHANGED <<rx, last>>
      BY <1>4, <2>1, <2>3 DEF Deliver, Duplicate
    <3> QED  BY <1>1, <2>1, <3>1 DEF Contiguous
  <2>4. CASE ~(pos + 1 <= last) /\ log[pos + 1] # "undecodable"
    <3>1. rx' = Append(rx, pos + 1) /\ last' = pos + 1
      BY <1>4, <2>1, <2>4 DEF Deliver, Duplicate
    <3>2. /\ Append(rx, pos + 1) \in Seq(Nat) /\ pos + 1 \in Nat
          /\ pos + 1 = Len(taken) + Len(Append(rx, pos + 1))
          /\ \A i \in 1..Len(Append(rx, pos + 1)) : Append(rx, pos + 1)[i] = Len(taken) + i
      BY <1>1, <2>1, <2>4, DeliverShifts
    <3>3. pos + 1 <= Len(log)
      BY <1>1, <2>1
    <3> QED  BY <1>1, <2>1, <3>1, <3>2, <3>3 DEF Contiguous
  <2> QED  BY <2>2, <2>3, <2>4
<1> QED  BY <1>2, <1>3, <1>4

LEMMA ContiguousStep == Inv /\ [Next]_vars => Contiguous'
<1> SUFFICES ASSUME Inv, [Next]_vars  PROVE Contiguous'
  OBVIOUS
<1>1. CASE UNCHANGED <<log, pos, sse, last, rx, taken>>
  BY <1>1 DEF Inv, Contiguous
<1>2. CASE UNCHANGED vars
  BY <1>1, <1>2 DEF vars, stream
<1> QED  BY <1>1, <1>2, NextSplit, StillStep, StreamStep, LogStep, TakingStep

(* Only the end of the turn of the Agent changes it while it may answer. *)
LEMMA ResponseStep == Inv /\ [Next]_vars => ResponseLast'
<1> SUFFICES ASSUME Inv, [Next]_vars  PROVE ResponseLast'
  OBVIOUS
<1>1. CASE UNCHANGED <<log, agent, post>>
  BY <1>1 DEF Inv, ResponseLast
<1>2. CASE PostAnswer
  <2>1. (post' = "resp" => agent = "answered") /\ UNCHANGED <<log, agent>>
    BY <1>2 DEF PostAnswer
  <2> QED  BY <2>1 DEF Inv, ResponseLast
<1>3. CASE StartPrompt
  <2>1. post' = "sent" /\ agent = "idle" /\ UNCHANGED log
    BY <1>3 DEF StartPrompt, Inv, DriverInv, Preparing
  <2> QED  BY <2>1 DEF Inv, ResponseLast
<1>4. CASE TakePost
  <2>1. post' = "read" /\ UNCHANGED <<agent, log>>
    BY <1>4 DEF TakePost
  <2> QED  BY <2>1 DEF Inv, ResponseLast
<1>5. CASE Still /\ ~PostAnswer /\ ~StartPrompt /\ ~TakePost
  <2>1. CancelArrives \/ ServerExits \/ HealthAnswer \/ AgentsAnswer \/ AgentsRefused
        \/ Initialized \/ SessionCreated \/ Drop \/ ReplyAnswered \/ ReplyRefused
        \/ CancelDelivered => UNCHANGED <<log, agent, post>>
    BY DEF CancelArrives, ServerExits, HealthAnswer, AgentsAnswer, AgentsRefused, Initialized,
       SessionCreated, Drop, ReplyAnswered, ReplyRefused, CancelDelivered
  <2>2. Spawn \/ SpawnFails \/ ChildPoll \/ Close \/ PrepareFails \/ SeesCancel \/ Timeout
        \/ StreamLost \/ CancelUndelivered \/ StopUnconfirmed \/ GraceEnds \/ StreamJoined
        => UNCHANGED <<log, agent, post>>
    BY DEF Spawn, SpawnFails, ChildPoll, Close, PrepareFails, SeesCancel, Timeout, StreamLost,
       CancelUndelivered, StopUnconfirmed, GraceEnds, StreamJoined
  <2> QED  BY <1>1, <1>5, <2>1, <2>2 DEF Still
<1>6. CASE UNCHANGED vars
  BY <1>1, <1>6 DEF vars
<1> QED
  BY <1>1, <1>2, <1>3, <1>4, <1>5, <1>6, NextSplit, StreamStep, LogStep, TakingStep
-----------------------------------------------------------------------------
(* The driver. *)

Phases == {"spawn", "prompt", "deliver", "closing"} \cup Preparing \cup Waiting \cup Finished

DriverOK == DriverInv /\ rt \in Phases /\ rtq \in Seq(Event)

(* The run ends, with an event or not. *)
Ends ==
  /\ rt' \in {"closing", "ok", "err"} /\ reply' = FALSE
  /\ rtq' = rtq \/ \E e \in Terminal : rtq' = Append(rtq, e)

LEMMA EndStep ==
  ASSUME Inv, Ends
  PROVE  DriverOK'
<1>1. rtq \in Seq(Event) /\ Terminal \subseteq Event
  BY DEF Inv, TypeOK, Event
<1>2. rtq' \in Seq(Event)
  BY <1>1, AppendValue DEF Ends
<1>3. rt' \in {"closing"} \cup Finished /\ reply' = FALSE
  BY DEF Ends, Finished
<1>4. DriverInv'
  BY <1>3 DEF DriverInv, Finished, Preparing
<1> QED  BY <1>2, <1>3, <1>4 DEF DriverOK, Phases

LEMMA EndActions ==
  ASSUME Inv,
         \/ SpawnFails \/ ChildPoll \/ Close \/ AgentsRefused \/ PrepareFails \/ StreamLost
         \/ CancelUndelivered \/ StopUnconfirmed \/ GraceEnds \/ StreamJoined
         \/ ReplyRefused \/ TakeUnanswerable \/ TakeResponse
  PROVE  Ends
<1>1. {"failed", "uncertain", "completed", "cancelled"} \subseteq Terminal
  BY DEF Terminal
<1>2. reply => rt \in {"prompt"} \cup Waiting
  BY DEF Inv, DriverInv
<1>3. CASE SpawnFails \/ Close \/ StreamJoined
  <2>1. /\ rt \in {"spawn", "closing"} \/ ~reply
        /\ rt' \in {"ok", "err"} /\ UNCHANGED <<rtq, reply>>
    BY <1>3 DEF SpawnFails, Close, StreamJoined, Move
  <2>2. reply' = FALSE
    BY <1>2, <2>1 DEF Waiting, Inv, TypeOK, DriverInv
  <2> QED  BY <2>1, <2>2 DEF Ends
<1>4. CASE ChildPoll \/ AgentsRefused \/ PrepareFails \/ StreamLost
  BY <1>1, <1>4 DEF ChildPoll, AgentsRefused, PrepareFails, StreamLost, Report, Move, Ends
<1>5. CASE CancelUndelivered \/ StopUnconfirmed \/ GraceEnds
  BY <1>1, <1>5 DEF CancelUndelivered, StopUnconfirmed, GraceEnds, Completion, Report, Move,
     Ends
<1>6. CASE InboundFails /\ rt \in {"prompt"} \cup Waiting
  BY <1>1, <1>6 DEF InboundFails, Waiting, Completion, Report, Move, Ends
<1>7. CASE ReplyRefused
  BY <1>2, <1>6, <1>7 DEF ReplyRefused
<1>8. CASE TakeUnanswerable
  BY <1>6, <1>8 DEF TakeUnanswerable, Take
<1>9. CASE TakeResponse
  <2>1. PICK e \in Terminal : Report(e)
    <3>1. (IF why = "cancel" THEN "cancelled" ELSE "failed") \in Terminal
      BY <1>1
    <3>2. Completion \subseteq Terminal
      BY <1>1 DEF Completion
    <3> QED  BY <1>9, <3>1, <3>2 DEF TakeResponse
  <2> QED  BY <2>1 DEF Report, Move, Ends
<1> QED  BY <1>3, <1>4, <1>5, <1>7, <1>8, <1>9

(* Steps of the tasks and the server that leave the driver where it is. *)
LEMMA IdleStep ==
  ASSUME Inv,
         \/ UNCHANGED vars \/ CancelArrives \/ ServerExits \/ Drop \/ PostAnswer
         \/ Deliver \/ Reconnect \/ AgentEmits \/ AgentAnswers
  PROVE  DriverOK'
<1>1. UNCHANGED <<rt, rtq, why, reply, taken>>
  BY DEF vars, CancelArrives, ServerExits, Drop, PostAnswer, Deliver, Reconnect, AgentEmits,
     AgentAnswers, driver
<1>2. agent = "idle" => agent' = agent
  BY DEF vars, CancelArrives, ServerExits, Drop, PostAnswer, Deliver, Reconnect, AgentEmits,
     AgentAnswers, driver
<1>3. sse = "none" => sse' = sse
  BY DEF vars, CancelArrives, ServerExits, Drop, PostAnswer, Deliver, Reconnect, AgentEmits,
     AgentAnswers, driver, stream, Listening
<1> QED  BY <1>1, <1>2, <1>3 DEF Inv, TypeOK, DriverInv, DriverOK, Phases

(* The driver goes on to the next request. *)
LEMMA MoveStep ==
  ASSUME Inv,
         \/ Spawn \/ HealthAnswer \/ AgentsAnswer \/ Initialized \/ Subscribed
         \/ SessionCreated \/ StartPrompt
  PROVE  DriverOK'
<1>1. /\ rtq \in Seq(Event)
      /\ rt \in {"spawn", "health", "agents"} => rtq = << >>
      /\ rt \notin {"closing"} \cup Finished => Len(rtq) <= Len(taken) + 1
      /\ rt \in {"spawn", "prompt"} \cup Preparing => why = None
      /\ rt \in {"spawn"} \cup Preparing => agent = "idle"
      /\ rt \in {"spawn", "health", "agents", "initialize", "subscribe"} => sse = "none"
      /\ reply => rt \in {"prompt"} \cup Waiting
      /\ Len(taken) \in Nat
  BY DEF Inv, TypeOK, DriverInv
<1>2. /\ rt \in {"spawn"} \cup Preparing /\ ~reply /\ reply' = reply
      /\ why = None /\ why' = None /\ taken' = taken
  BY <1>1 DEF Spawn, HealthAnswer, AgentsAnswer, Initialized, Subscribed, SessionCreated,
     StartPrompt, Move, Preparing, Waiting
<1>3. Len(rtq) <= Len(taken) + 1
  BY <1>1, <1>2 DEF Preparing, Finished
<1>4. CASE AgentsAnswer
  <2>1. rtq = << >> /\ rtq' = Append(rtq, "started") /\ rt' = "initialize"
        /\ UNCHANGED <<agent, sse>> /\ sse = "none" /\ agent = "idle"
    BY <1>1, <1>4 DEF AgentsAnswer, Move, Preparing, stream
  <2>2. rtq' \in Seq(Event) /\ Len(rtq') = 1
    BY <2>1 DEF Event
  <2> QED  BY <1>1, <1>2, <2>1, <2>2 DEF DriverInv, DriverOK, Phases, Preparing, Finished
<1>5. CASE StartPrompt
  <2>1. rt' = "prompt" /\ rtq' = rtq
    BY <1>5 DEF StartPrompt, Move
  <2> QED  BY <1>1, <1>2, <1>3, <2>1 DEF DriverInv, DriverOK, Phases, Preparing, Finished
<1>6. CASE Subscribed \/ SessionCreated
  <2>1. rt' \in {"session", "model"} /\ rtq' = rtq /\ agent' = agent /\ agent = "idle"
    BY <1>1, <1>2, <1>6 DEF Subscribed, SessionCreated, Move
  <2> QED  BY <1>1, <1>2, <1>3, <2>1 DEF DriverInv, DriverOK, Phases, Preparing, Finished
<1>7. CASE Spawn \/ HealthAnswer \/ Initialized
  <2>1. /\ \/ rt' \in {"health", "agents"} /\ rtq = << >>
           \/ rt' = "subscribe"
        /\ UNCHANGED <<rtq, agent, sse>> /\ sse = "none" /\ agent = "idle"
    BY <1>1, <1>2, <1>7 DEF Spawn, HealthAnswer, Initialized, Move, Preparing, stream
  <2> QED  BY <1>1, <1>2, <1>3, <2>1 DEF DriverInv, DriverOK, Phases, Preparing, Finished
<1> QED  BY <1>4, <1>5, <1>6, <1>7

(* The select, the wait for the stop and the answer to a reply. *)
LEMMA SelectStep ==
  ASSUME Inv, SeesCancel \/ Timeout \/ CancelDelivered \/ ReplyAnswered \/ TakePost
  PROVE  DriverOK'
<1>1. /\ rtq \in Seq(Event) /\ rt \in Phases /\ "uncertain" \in Terminal
      /\ rt \notin {"closing"} \cup Finished => Len(rtq) <= Len(taken) + 1
      /\ rt = "prompt" => why = None
      /\ reply => rt \in {"prompt"} \cup Waiting
  BY DEF Inv, TypeOK, DriverInv, Phases, Terminal
<1>2. CASE SeesCancel \/ Timeout \/ CancelDelivered
  <2>1. /\ rt \in {"prompt", "deliver"} /\ rt' \in {"deliver", "stopping"}
        /\ UNCHANGED <<rtq, taken, reply>> /\ ~reply
    BY <1>1, <1>2 DEF SeesCancel, Timeout, CancelDelivered, GiveUp, Selecting, Waiting
  <2> QED  BY <1>1, <2>1 DEF DriverInv, DriverOK, Phases, Preparing, Finished, Waiting
<1>3. CASE ReplyAnswered
  <2>1. /\ rt \in {"prompt"} \cup Waiting /\ reply' = FALSE
        /\ UNCHANGED <<rt, why, rtq, taken>>
    BY <1>1, <1>3 DEF ReplyAnswered, Move
  <2> QED  BY <1>1, <2>1 DEF DriverInv, DriverOK, Phases, Preparing, Finished, Waiting
<1>4. CASE TakePost /\ post = "error"
  <2>1. Ends
    BY <1>1, <1>4 DEF TakePost, Selecting, Move, Ends
  <2> QED  BY <2>1, EndStep
<1>5. CASE TakePost /\ post # "error"
  <2>1. /\ rt = "prompt" /\ rt' \in {"prompt", "grace"} /\ ~reply
        /\ UNCHANGED <<why, rtq, taken, reply>>
    BY <1>5 DEF TakePost, Selecting, Move
  <2> QED  BY <1>1, <2>1 DEF DriverInv, DriverOK, Phases, Preparing, Finished, Waiting
<1> QED  BY <1>2, <1>3, <1>4, <1>5

(* A value of the Agent is handled. *)
LEMMA HandleStep ==
  ASSUME Inv, TakeUpdate \/ TakePermission \/ TakeQuestion
  PROVE  DriverOK'
<1>1. /\ rtq \in Seq(Event) /\ taken \in Seq(Nat)
      /\ rt \notin {"closing"} \cup Finished => Len(rtq) <= Len(taken) + 1
      /\ rt = "prompt" => why = None
  BY DEF Inv, TypeOK, DriverInv
<1>2. Len(taken') = Len(taken) + 1
  BY TakingStep DEF Taking
<1>3. rt \in {"prompt"} \cup Waiting /\ ~reply
  BY DEF TakeUpdate, TakePermission, TakeQuestion, Take
<1>4. Len(rtq) <= Len(taken) + 1 /\ Len(taken) \in Nat /\ Len(rtq) \in Nat
  BY <1>1, <1>3 DEF Waiting, Finished
<1>5. CASE TakeUpdate
  <2>1. rtq' = Append(rtq, "output") /\ reply' = FALSE /\ UNCHANGED <<rt, why>>
    BY <1>5 DEF TakeUpdate, Move
  <2>2. rtq' \in Seq(Event) /\ Len(rtq') = Len(rtq) + 1
    BY <1>1, <2>1, AppendValue DEF Event
  <2>3. Len(rtq') <= Len(taken') + 1
    BY <1>2, <1>4, <2>2
  <2> QED
    BY <1>1, <1>3, <2>1, <2>2, <2>3 DEF DriverInv, DriverOK, Phases, Preparing, Finished,
       Waiting
<1>6. CASE TakePermission \/ (TakeQuestion /\ rt # "prompt")
  <2>1. UNCHANGED <<rt, why, rtq>>
    BY <1>6 DEF TakePermission, TakeQuestion, Move
  <2>2. Len(rtq') <= Len(taken') + 1
    BY <1>2, <1>4, <2>1
  <2> QED
    BY <1>1, <1>3, <2>1, <2>2 DEF DriverInv, DriverOK, Phases, Preparing, Finished, Waiting
<1>7. CASE TakeQuestion /\ rt = "prompt"
  <2>1. Ends
    BY <1>3, <1>7 DEF TakeQuestion, Ends, Terminal
  <2> QED  BY <2>1, EndStep
<1> QED  BY <1>5, <1>6, <1>7

LEMMA DriverStep == Inv /\ [Next]_vars => DriverOK'
<1> SUFFICES ASSUME Inv, [Next]_vars  PROVE DriverOK'
  OBVIOUS
<1>1. \/ SpawnFails \/ ChildPoll \/ Close \/ AgentsRefused \/ PrepareFails \/ StreamLost
      \/ CancelUndelivered \/ StopUnconfirmed \/ GraceEnds \/ StreamJoined
      \/ ReplyRefused \/ TakeUnanswerable \/ TakeResponse
      => DriverOK'
  BY EndActions, EndStep
<1> QED
  BY <1>1, IdleStep, MoveStep, SelectStep, HandleStep DEF Next, External

LEMMA TypeStep == Inv /\ [Next]_vars => TypeOK'
<1> SUFFICES ASSUME Inv, [Next]_vars  PROVE TypeOK'
  OBVIOUS
<1>1. rt' \in Phases /\ rtq' \in Seq(Event)
  BY DriverStep DEF DriverOK
<1>2. TypeOK
  BY DEF Inv
<1>3. /\ log' \in Seq(Values \cup {"response"})
      /\ pos' \in Nat /\ last' \in Nat /\ rx' \in Seq(Nat) /\ taken' \in Seq(Nat)
  <2>1. CASE UNCHANGED <<log, pos, sse, last, rx, taken>>
    BY <1>2, <2>1 DEF TypeOK
  <2>2. CASE Subscribed \/ Deliver \/ Reconnect
    BY <1>2, <2>2, StreamStep DEF TypeOK
  <2>3. CASE AgentEmits \/ AgentAnswers
    <3>1. UNCHANGED <<pos, last, rx, taken>>
      BY <2>3 DEF AgentEmits, AgentAnswers, stream
    <3> QED  BY <1>2, <2>3, <3>1, LogStep DEF TypeOK
  <2>4. CASE Taking
    BY <1>2, <2>4, TakingStep DEF TypeOK
  <2>5. CASE UNCHANGED vars
    BY <2>1, <2>5 DEF vars, stream
  <2> QED  BY <2>1, <2>2, <2>3, <2>4, <2>5, NextSplit, StillStep
<1> QED  BY <1>1, <1>3 DEF TypeOK, Phases

LEMMA InvInit == Init => Inv
<1> SUFFICES ASSUME Init  PROVE Inv
  OBVIOUS
<1> USE DEF Init
<1>1. TypeOK /\ Contiguous /\ ResponseLast
  BY DEF TypeOK, Contiguous, ResponseLast
<1>2. DriverInv
  BY DEF DriverInv
<1> QED  BY <1>1, <1>2 DEF Inv

LEMMA InvHolds == Spec => []Inv
<1>1. Inv /\ [Next]_vars => Inv'
  BY TypeStep, ContiguousStep, ResponseStep, DriverStep DEF Inv, DriverOK
<1> QED  BY InvInit, <1>1, PTL DEF Spec

(* Across lost connections and replays the driver receives each value of   *)
(* the Agent once and in order.                                            *)
THEOREM OnceInOrder == Spec => []ReceivedOnceInOrder
<1>1. Inv => ReceivedOnceInOrder
  <2> SUFFICES ASSUME Inv  PROVE ReceivedOnceInOrder
    OBVIOUS
  <2>1. taken \in Seq(Nat) /\ \A i \in 1..Len(taken) : taken[i] = i
    BY DEF Inv, TypeOK, Contiguous
  <2>2. taken = [i \in 1..Len(taken) |-> taken[i]] /\ DOMAIN taken = 1..Len(taken)
    BY <2>1
  <2> QED  BY <2>1, <2>2 DEF ReceivedOnceInOrder
<1> QED  BY InvHolds, <1>1, PTL
-----------------------------------------------------------------------------
(* The steps of Runner. *)

(* A non-empty set of naturals has a least element. *)
LEMMA LeastNat ==
  ASSUME NEW T, T \subseteq Nat, T # {}
  PROVE  \E x \in T : \A y \in T : x <= y
<1>1. PICK x \in T : \A y \in T : <<y, x>> \notin OpToRel(<, Nat)
  BY NatLessThanWellFounded, WFMin
<1>2. ASSUME NEW y \in T  PROVE x <= y
  <2>1. ~(y < x)
    BY <1>1 DEF OpToRel
  <2>2. x \in Nat /\ y \in Nat
    OBVIOUS
  <2> QED  BY <2>1, <2>2
<1> QED  BY <1>2

(* The first terminal event of q, as Reported has it. *)
FirstOf(q) ==
  LET ends == {i \in DOMAIN q : q[i] \in Terminal}
  IN IF ends = {} THEN None ELSE q[CHOOSE i \in ends : \A j \in ends : i <= j]

(* It is the one at the least index. *)
LEMMA FirstOfIs ==
  ASSUME NEW q \in Seq(Event)
  PROVE  \/ /\ FirstOf(q) = None
            /\ \A i \in DOMAIN q : q[i] \notin Terminal
         \/ \E i \in DOMAIN q :
              /\ q[i] \in Terminal /\ FirstOf(q) = q[i]
              /\ \A j \in DOMAIN q : q[j] \in Terminal => i <= j
<1> DEFINE ends == {i \in DOMAIN q : q[i] \in Terminal}
           first == CHOOSE i \in ends : \A j \in ends : i <= j
<1>1. FirstOf(q) = IF ends = {} THEN None ELSE q[first]
  BY DEF FirstOf
<1>2. DOMAIN q = 1..Len(q) /\ Len(q) \in Nat
  OBVIOUS
<1>3. CASE ends = {}
  BY <1>1, <1>3
<1>4. CASE ends # {}
  <2>1. ends \subseteq Nat
    BY <1>2
  <2> HIDE DEF ends
  <2>2. \E x \in ends : \A y \in ends : x <= y
    BY <1>4, <2>1, LeastNat
  <2>3. first \in ends /\ \A y \in ends : first <= y
    BY <2>2
  <2> HIDE DEF first
  <2> QED  BY <1>1, <1>4, <2>3 DEF ends
<1> QED  BY <1>3, <1>4

(* An event joins the queue. *)
LEMMA FirstOfAppend ==
  ASSUME NEW q \in Seq(Event), NEW e \in Event
  PROVE  /\ e \notin Terminal => FirstOf(Append(q, e)) = FirstOf(q)
         /\ e \in Terminal =>
              FirstOf(Append(q, e)) = IF FirstOf(q) = None THEN e ELSE FirstOf(q)
<1> DEFINE a == Append(q, e)
<1>1. /\ a \in Seq(Event) /\ Len(q) \in Nat /\ DOMAIN q = 1..Len(q)
      /\ DOMAIN a = 1..(Len(q) + 1) /\ a[Len(q) + 1] = e
      /\ \A i \in 1..Len(q) : a[i] = q[i]
  OBVIOUS
<1> HIDE DEF a
<1>2. CASE \E i \in DOMAIN q : /\ q[i] \in Terminal /\ FirstOf(q) = q[i]
                                /\ \A j \in DOMAIN q : q[j] \in Terminal => i <= j
  <2>1. PICK i \in DOMAIN q : /\ q[i] \in Terminal /\ FirstOf(q) = q[i]
                              /\ \A j \in DOMAIN q : q[j] \in Terminal => i <= j
    BY <1>2
  <2>2. i \in DOMAIN a /\ a[i] = q[i]
    BY <1>1
  <2>3. PICK k \in DOMAIN a : /\ a[k] \in Terminal /\ FirstOf(a) = a[k]
                              /\ \A j \in DOMAIN a : a[j] \in Terminal => k <= j
    BY <1>1, <2>1, <2>2, FirstOfIs
  <2>4. k <= i
    BY <2>1, <2>2, <2>3
  <2>5. k \in DOMAIN q /\ a[k] = q[k]
    BY <1>1, <2>4
  <2>6. k = i
    BY <1>1, <2>1, <2>3, <2>4, <2>5
  <2>7. FirstOf(a) = FirstOf(q)
    BY <2>1, <2>2, <2>3, <2>6
  <2>8. FirstOf(q) # None
    BY <2>1, NoneAssumption
  <2> QED  BY <2>7, <2>8 DEF a
<1>3. CASE FirstOf(q) = None /\ \A i \in DOMAIN q : q[i] \notin Terminal
  <2>1. CASE e \notin Terminal
    <3>1. \A i \in DOMAIN a : a[i] \notin Terminal
      BY <1>1, <1>3, <2>1
    <3>2. FirstOf(a) = None
      BY <1>1, <3>1, FirstOfIs
    <3> QED  BY <1>3, <2>1, <3>2 DEF a
  <2>2. CASE e \in Terminal
    <3>1. PICK k \in DOMAIN a : a[k] \in Terminal /\ FirstOf(a) = a[k]
      BY <1>1, <2>2, FirstOfIs
    <3>2. k = Len(q) + 1
      BY <1>1, <1>3, <3>1
    <3> QED  BY <1>1, <1>3, <2>2, <3>1, <3>2 DEF a
  <2> QED  BY <2>1, <2>2
<1> QED  BY <1>2, <1>3, FirstOfIs

(* Events of the driver, as Runner sees them. *)
LEMMA Sends ==
  ASSUME Inv, NEW e \in Terminal, rtq' = Append(rtq, e)
  PROVE  Reported' = IF Reported = None THEN e ELSE Reported
<1>1. Reported = FirstOf(rtq) /\ Reported' = FirstOf(rtq')
  BY DEF Reported, FirstOf
<1>2. rtq \in Seq(Event) /\ e \in Event
  BY DEF Inv, TypeOK, Event
<1> QED  BY <1>1, <1>2, FirstOfAppend

LEMMA Tells ==
  ASSUME Inv, NEW e \in {"started", "output"}, rtq' = Append(rtq, e)
  PROVE  Reported' = Reported
<1>1. Reported = FirstOf(rtq) /\ Reported' = FirstOf(rtq')
  BY DEF Reported, FirstOf
<1>2. rtq \in Seq(Event) /\ e \in Event /\ e \notin Terminal
  BY DEF Inv, TypeOK, Event, Terminal
<1> QED  BY <1>1, <1>2, FirstOfAppend

LEMMA Silent == UNCHANGED rtq => Reported' = Reported
BY DEF Reported

(* Why the runtime of Runner stops. *)
Why == IF why = "question" THEN None ELSE why

(* Nothing Runner sees moves. *)
Stutters == UNCHANGED <<RuntimePhase, Why, rtcancel, rtq, agent, Reported>>

LEMMA StutterIs == Stutters => UNCHANGED R!rtVars
BY DEF Stutters, Why, R!rtVars

LEMMA StillSteps ==
  ASSUME Inv,
         \/ Spawn \/ HealthAnswer \/ Initialized \/ Subscribed \/ SessionCreated
         \/ TakePermission \/ (TakeQuestion /\ rt # "prompt") \/ (TakePost /\ post = "ack")
         \/ ReplyAnswered \/ CancelDelivered
         \/ ServerExits \/ Drop \/ PostAnswer \/ Deliver \/ Reconnect \/ AgentEmits
         \/ UNCHANGED vars
  PROVE  Stutters
<1>1. CASE Spawn \/ HealthAnswer \/ Initialized \/ Subscribed \/ SessionCreated
  <2>1. /\ UNCHANGED <<why, rtcancel, rtq, agent>>
        /\ RuntimePhase' = RuntimePhase
    BY <1>1 DEF Spawn, HealthAnswer, Initialized, Subscribed, SessionCreated, Move,
       RuntimePhase
  <2> QED  BY <2>1, Silent DEF Stutters, Why
<1>2. CASE CancelDelivered
  <2>1. /\ UNCHANGED <<why, rtcancel, rtq, agent>>
        /\ RuntimePhase' = RuntimePhase
    BY <1>2 DEF CancelDelivered, RuntimePhase
  <2> QED  BY <2>1, Silent DEF Stutters, Why
<1>3. CASE \/ TakePermission \/ (TakeQuestion /\ rt # "prompt") \/ (TakePost /\ post = "ack")
           \/ ReplyAnswered
  <2>1. UNCHANGED <<rt, why, rtcancel, rtq, agent>>
    BY <1>3 DEF TakePermission, TakeQuestion, Take, TakePost, ReplyAnswered, Move
  <2> QED  BY <2>1, Silent DEF Stutters, Why, RuntimePhase
<1>4. CASE \/ ServerExits \/ Drop \/ PostAnswer \/ Deliver \/ Reconnect \/ AgentEmits
           \/ UNCHANGED vars
  <2>1. UNCHANGED <<rt, why, rtcancel, rtq, agent>>
    BY <1>4 DEF ServerExits, Drop, PostAnswer, Deliver, Reconnect, AgentEmits, vars, driver
  <2> QED  BY <2>1, Silent DEF Stutters, Why, RuntimePhase
<1> QED  BY <1>1, <1>2, <1>3, <1>4
(* The three shapes of a step of the runtime: it moves, it sends an end,   *)
(* and it reports one.                                                     *)
LEMMA MoveIs == \A p : RuntimePhase' = p => R!RtMove(p)
BY DEF R!RtMove, R!execVars

LEMMA SendIs ==
  ASSUME Inv, NEW e \in Terminal, rtq' = Append(rtq, e), UNCHANGED <<Why, rtcancel, agent>>
  PROVE  R!Send(e)
BY Sends DEF R!Send, Why

LEMMA ReportIs ==
  ASSUME Inv, NEW e \in Terminal, Report(e), UNCHANGED agent
  PROVE  R!Report(e)
<1>1. rtq' = Append(rtq, e) /\ rt' = "closing" /\ UNCHANGED <<why, rtcancel>>
  BY DEF Report, Move
<1>2. R!Send(e)
  BY <1>1, SendIs DEF Why
<1>3. RuntimePhase' = "closing"
  BY <1>1 DEF RuntimePhase
<1> QED  BY <1>2, <1>3, MoveIs DEF R!Report

LEMMA ErrorIs ==
  ASSUME Inv, rt \notin Finished, rt' = "err", rtq' = Append(rtq, "uncertain"),
         UNCHANGED <<why, rtcancel, agent>>
  PROVE  R!RtError
<1>1. R!Send("uncertain")
  BY SendIs DEF Why, Terminal
<1>2. RuntimePhase' = "err" /\ RuntimePhase \notin {"ok", "err"}
  BY DEF RuntimePhase, Finished, Inv, TypeOK
<1> QED  BY <1>1, <1>2, MoveIs DEF R!RtError, R!Alive, R!RtFinished

LEMMA PreparationSteps ==
  ASSUME Inv,
         \/ SpawnFails \/ AgentsAnswer \/ AgentsRefused \/ PrepareFails \/ StartPrompt
         \/ ChildPoll \/ Close
  PROVE  R!RtNext
<1> USE DEF R!Alive
<1>1. CASE SpawnFails
  <2>1. RuntimePhase = "prepare" /\ RuntimePhase' = "err"
    BY <1>1 DEF SpawnFails, Move, RuntimePhase
  <2>2. UNCHANGED <<Why, rtcancel, rtq, agent, Reported>>
    BY <1>1, Silent DEF SpawnFails, Move, Why
  <2> QED  BY <2>1, <2>2, MoveIs DEF R!RtSpawnFails, R!RtNext, Why
<1>2. CASE AgentsAnswer
  <2>1. RuntimePhase = "prepare" /\ RuntimePhase' = "session"
    BY <1>2 DEF AgentsAnswer, Move, RuntimePhase
  <2>2. rtq' = Append(rtq, "started") /\ UNCHANGED <<Why, rtcancel, agent, Reported>>
    BY <1>2, Tells DEF AgentsAnswer, Move, Why
  <2> QED  BY <2>1, <2>2, MoveIs DEF R!RtStarted, R!RtNext, Why
<1>3. CASE AgentsRefused \/ PrepareFails
  <2>1. RuntimePhase \in {"prepare", "session"}
    BY <1>3 DEF AgentsRefused, PrepareFails, RuntimePhase, Preparing
  <2>2. R!Report("failed")
    BY <1>3, ReportIs DEF AgentsRefused, PrepareFails, Terminal
  <2> QED  BY <2>1, <2>2 DEF R!RtPrepareFails, R!RtNext
<1>4. CASE StartPrompt
  <2>1. RuntimePhase = "session" /\ RuntimePhase' = "prompt" /\ agent' = "working"
    BY <1>4 DEF StartPrompt, Move, RuntimePhase
  <2>2. UNCHANGED <<Why, rtcancel, rtq, Reported>>
    BY <1>4, Silent DEF StartPrompt, Move, Why
  <2> QED  BY <2>1, <2>2, MoveIs DEF R!RtPrompt, R!RtNext, Why
<1>5. CASE ChildPoll
  <2>1. R!RtError
    BY <1>5, ErrorIs DEF ChildPoll, Move
  <2> QED  BY <2>1 DEF R!RtNext
<1>6. CASE Close
  <2>1. RuntimePhase = "closing" /\ RuntimePhase' = "ok"
    BY <1>6 DEF Close, Move, RuntimePhase
  <2>2. UNCHANGED <<Why, rtcancel, rtq, agent, Reported>>
    BY <1>6, Silent DEF Close, Move, Why
  <2> QED  BY <2>1, <2>2, MoveIs DEF R!RtClose, R!RtNext, Why
<1> QED  BY <1>1, <1>2, <1>3, <1>4, <1>5, <1>6

(* An answer of the Agent that has arrived was given. *)
LEMMA AnswerSeen ==
  ASSUME Inv, Take("response")
  PROVE  agent = "answered"
<1>1. Len(taken) + 1 \in 1..Len(log) /\ log[Len(taken) + 1] = "response"
  BY TakeStep
<1> QED  BY <1>1 DEF Inv, ResponseLast

(* Room for an update: the Agent has emitted no more than its bound. *)
LEMMA UpdateFits ==
  ASSUME Inv, Take("update")
  PROVE  Len(rtq) < MaxLog + 1
<1>1. /\ Len(taken) + 1 \in 1..Len(log) /\ log[Len(taken) + 1] = "update"
      /\ taken \in Seq(Nat) /\ rtq \in Seq(Event)
  BY TakeStep DEF Inv, TypeOK
<1>2. Len(taken) + 1 <= MaxLog
  BY <1>1 DEF Inv, ResponseLast
<1>3. Len(rtq) <= Len(taken) + 1
  BY DEF Take, Inv, DriverInv, Waiting, Finished
<1> QED  BY <1>1, <1>2, <1>3, LogAssumption

LEMMA SelectSteps ==
  ASSUME Inv,
         \/ SeesCancel \/ Timeout \/ StreamLost \/ (TakePost /\ post # "ack")
         \/ AgentAnswers
  PROVE  R!RtNext
<1> USE DEF R!Alive
<1>1. CASE SeesCancel
  <2>1. RuntimePhase = "prompt" /\ RuntimePhase' = "stopping" /\ Why' = "cancel"
    BY <1>1 DEF SeesCancel, Selecting, GiveUp, RuntimePhase, Why
  <2>2. rtcancel /\ rtcancel' = FALSE /\ UNCHANGED <<rtq, agent, Reported>>
    BY <1>1, Silent DEF SeesCancel
  <2> QED  BY <2>1, <2>2, MoveIs DEF R!RtCancel, R!RtNext, Why
<1>2. CASE Timeout
  <2>1. RuntimePhase = "prompt" /\ RuntimePhase' = "stopping" /\ Why' = "timeout"
    BY <1>2 DEF Timeout, Selecting, GiveUp, RuntimePhase, Why
  <2>2. ~rtcancel /\ UNCHANGED <<rtcancel, rtq, agent, Reported>>
    BY <1>2, Silent DEF Timeout
  <2> QED  BY <2>1, <2>2, MoveIs DEF R!RtTimeout, R!RtNext, Why
<1>3. CASE StreamLost
  <2>1. RuntimePhase = "prompt" /\ ~rtcancel
    BY <1>3 DEF StreamLost, Selecting, RuntimePhase
  <2>2. R!Report("uncertain")
    BY <1>3, ReportIs DEF StreamLost, Terminal
  <2> QED  BY <2>1, <2>2 DEF R!RtStreamLost, R!RtNext
<1>4. CASE TakePost /\ post = "resp"
  <2>1. RuntimePhase = "prompt" /\ RuntimePhase' = "grace" /\ ~rtcancel
    BY <1>4 DEF TakePost, Selecting, Move, RuntimePhase
  <2>2. agent = "answered"
    BY <1>4 DEF Inv, ResponseLast
  <2>3. UNCHANGED <<Why, rtcancel, rtq, agent, Reported>>
    BY <1>4, Silent DEF TakePost, Move, Why
  <2> QED  BY <2>1, <2>2, <2>3, MoveIs DEF R!RtPostAnswered, R!RtNext, Why
<1>5. CASE TakePost /\ post = "error"
  <2>1. R!RtError
    BY <1>5, ErrorIs DEF TakePost, Selecting, Move, Finished
  <2> QED  BY <2>1 DEF R!RtNext
<1>6. CASE AgentAnswers
  <2>1. /\ agent = "working" /\ agent' = "answered" /\ rt \notin Finished
        /\ UNCHANGED <<rt, why, rtcancel, rtq>>
    BY <1>6 DEF AgentAnswers, driver
  <2>2. RuntimePhase \notin {"ok", "err"} /\ RuntimePhase' = RuntimePhase
    BY <2>1 DEF RuntimePhase, Finished, Inv, TypeOK
  <2>3. UNCHANGED <<Why, Reported>>
    BY <2>1, Silent DEF Why
  <2>4. R!RtMove(RuntimePhase)
    BY <2>2, MoveIs
  <2> QED  BY <2>1, <2>2, <2>3, <2>4 DEF R!AgentAnswers, R!RtFinished, R!RtNext, Why
<1>7. TakePost => post \in {"ack", "resp", "error"}
  BY DEF TakePost
<1> QED  BY <1>1, <1>2, <1>3, <1>4, <1>5, <1>6, <1>7

(* A value that cannot be handled, or a reply that is refused. *)
LEMMA InboundSteps ==
  ASSUME Inv, InboundFails, UNCHANGED agent, rt \in {"prompt"} \cup Waiting
  PROVE  R!RtNext
<1> USE DEF R!Alive
<1>1. CASE rt = "prompt"
  <2>1. R!RtError
    BY <1>1, ErrorIs DEF InboundFails, Move, Finished
  <2> QED  BY <2>1 DEF R!RtNext
<1>2. CASE rt = "stopping"
  <2>1. R!Report("uncertain") /\ RuntimePhase = "stopping"
    BY <1>2, ReportIs DEF InboundFails, RuntimePhase, Terminal
  <2> QED  BY <2>1 DEF R!RtStopUnconfirmed, R!RtNext
<1>3. CASE rt = "grace"
  <2>1. PICK e \in Completion : Report(e)
    BY <1>3 DEF InboundFails
  <2>2. R!Report(e) /\ RuntimePhase = "grace"
    BY <1>3, <2>1, ReportIs DEF RuntimePhase, Completion, Terminal
  <2> QED  BY <2>2 DEF R!RtGraceEnds, R!RtNext, R!Completion, Completion
<1> QED  BY <1>1, <1>2, <1>3 DEF Waiting

LEMMA StopSteps ==
  ASSUME Inv,
         \/ CancelUndelivered \/ StopUnconfirmed \/ GraceEnds \/ StreamJoined
         \/ ReplyRefused \/ TakeUnanswerable
  PROVE  R!RtNext
<1> USE DEF R!Alive
<1>1. CASE CancelUndelivered \/ StopUnconfirmed
  <2>1. R!Report("uncertain") /\ RuntimePhase = "stopping"
    BY <1>1, ReportIs DEF CancelUndelivered, StopUnconfirmed, RuntimePhase, Terminal
  <2> QED  BY <2>1 DEF R!RtStopUnconfirmed, R!RtNext
<1>2. CASE GraceEnds
  <2>1. PICK e \in Completion : Report(e)
    BY <1>2 DEF GraceEnds
  <2>2. R!Report(e) /\ RuntimePhase = "grace"
    BY <1>2, <2>1, ReportIs DEF GraceEnds, RuntimePhase, Completion, Terminal
  <2> QED  BY <2>2 DEF R!RtGraceEnds, R!RtNext, R!Completion, Completion
<1>3. CASE ReplyRefused
  <2>1. rt \in {"prompt"} \cup Waiting
    BY <1>3 DEF ReplyRefused, Inv, DriverInv
  <2> QED  BY <1>3, <2>1, InboundSteps DEF ReplyRefused
<1>4. CASE TakeUnanswerable
  <2>1. rt \in {"prompt"} \cup Waiting
    BY <1>4 DEF TakeUnanswerable, Take
  <2> QED  BY <1>4, <2>1, InboundSteps DEF TakeUnanswerable, Take
<1>5. CASE StreamJoined
  <2>1. RuntimePhase \in {"prompt", "grace", "stopping"} /\ RuntimePhase' = "err"
    BY <1>5 DEF StreamJoined, Move, RuntimePhase, Waiting
  <2>2. UNCHANGED <<Why, rtcancel, rtq, agent, Reported>>
    BY <1>5, Silent DEF StreamJoined, Move, Why
  <2> QED  BY <2>1, <2>2, MoveIs DEF R!RtPanics, R!RtNext, Why
<1> QED  BY <1>1, <1>2, <1>3, <1>4, <1>5

LEMMA HandleSteps ==
  ASSUME Inv, TakeUpdate \/ TakeResponse \/ (TakeQuestion /\ rt = "prompt")
  PROVE  R!RtNext
<1> USE DEF R!Alive
<1>1. CASE TakeUpdate
  <2>1. Take("update") /\ rt \in {"prompt", "grace", "stopping"}
    BY <1>1 DEF TakeUpdate, Take, Waiting
  <2>2. RuntimePhase \in {"prompt", "grace", "stopping"} /\ RuntimePhase' = RuntimePhase
    BY <1>1, <2>1 DEF TakeUpdate, Move, RuntimePhase
  <2>3. rtq' = Append(rtq, "output") /\ UNCHANGED <<Why, rtcancel, agent, Reported>>
    BY <1>1, <2>1, Tells DEF TakeUpdate, Take, Move, Why
  <2>4. Len(rtq) + Len(<< >>) + Len(<< >>) < MaxLog + 1
    <3>1. Len(rtq) \in Nat
      BY DEF Inv, TypeOK
    <3> QED  BY <2>1, <3>1, UpdateFits
  <2>5. R!RtMove(RuntimePhase)
    BY <2>2, MoveIs
  <2> QED  BY <2>2, <2>3, <2>4, <2>5 DEF R!RtOutput, R!RtNext, Why
<1>2. CASE TakeResponse
  <2>1. /\ Take("response") /\ UNCHANGED agent
        /\ rt \in {"grace", "stopping"} \/ (rt = "prompt" /\ ~rtcancel)
    BY <1>2 DEF TakeResponse, Take, Waiting
  <2>2. agent = "answered"
    BY <2>1, AnswerSeen
  <2>3. CASE rt = "stopping"
    <3> DEFINE e == IF why = "cancel" THEN "cancelled" ELSE "failed"
    <3>1. Report(e) /\ e \in Terminal
      BY <1>2, <2>3 DEF TakeResponse, Terminal
    <3>2. R!Report(e)
      BY <2>1, <3>1, ReportIs
    <3>3. RuntimePhase = "stopping"
      BY <2>3 DEF RuntimePhase
    <3>4. e = IF Why = "cancel" THEN "cancelled" ELSE "failed"
      <4>1. None # "cancel"
        BY NoneAssumption
      <4> QED  BY <4>1 DEF Why
    <3> QED  BY <2>2, <3>2, <3>3, <3>4 DEF R!RtStopped, R!Stopped, R!RtNext, Why
  <2>4. CASE rt # "stopping"
    <3>1. PICK e \in Completion : Report(e)
      BY <1>2, <2>4 DEF TakeResponse
    <3>2. R!Report(e)
      BY <2>1, <3>1, ReportIs DEF Completion, Terminal
    <3>3. RuntimePhase = rt
      BY <2>1 DEF RuntimePhase
    <3> QED
      BY <2>1, <2>2, <2>4, <3>2, <3>3 DEF R!RtAnswered, R!RtGraceEnds, R!RtNext,
         R!Completion, Completion
  <2> QED  BY <2>3, <2>4
<1>3. CASE TakeQuestion /\ rt = "prompt"
  <2>1. /\ rtq' = Append(rtq, "failed") /\ rt' = "closing" /\ why' = "question"
        /\ UNCHANGED <<rtcancel, agent>> /\ ~rtcancel
    BY <1>3 DEF TakeQuestion, Take, Waiting
  <2>2. why = None
    BY <1>3 DEF Inv, DriverInv
  <2>3. UNCHANGED Why
    BY <2>1, <2>2 DEF Why
  <2>4. R!Send("failed")
    BY <2>1, <2>3, SendIs DEF Terminal
  <2>5. RuntimePhase = "prompt" /\ RuntimePhase' = "closing"
    BY <1>3, <2>1 DEF RuntimePhase
  <2> QED  BY <2>1, <2>4, <2>5, MoveIs DEF R!Report, R!RtQuestion, R!RtNext
<1> QED  BY <1>1, <1>2, <1>3

(* Each step of the driver, the server, the event stream and the prompt    *)
(* task is one the runtime of Runner takes, or none.                       *)
THEOREM DriverRefines == Spec => RuntimeSteps
<1>1. Inv /\ [Next]_vars => [R!RtNext \/ CancelArrives]_(R!rtVars)
  <2> SUFFICES ASSUME Inv, [Next]_vars
               PROVE  R!RtNext \/ CancelArrives \/ UNCHANGED R!rtVars
    OBVIOUS
  <2>1. TakePost \/ TakeQuestion
        => R!RtNext \/ UNCHANGED R!rtVars
    BY StillSteps, StutterIs, SelectSteps, HandleSteps
  <2> QED
    BY <2>1, StillSteps, StutterIs, PreparationSteps, SelectSteps, StopSteps, HandleSteps
       DEF Next, External
<1> QED  BY InvHolds, <1>1, PTL DEF Spec, RuntimeSteps
=============================================================================
