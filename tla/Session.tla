------------------------------- MODULE Session -------------------------------
(***************************************************************************)
(* One run of the runtime (crates/runtime-sandbox-agent/src/lib.rs): the   *)
(* driver, its event stream task and its prompt task, against a Sandbox    *)
(* Agent server that may answer late or never, lose connections or exit.   *)
(* It is the detail of the runtime steps of Runner.                        *)
(*                                                                         *)
(* The server keeps the values of the Agent in log; the number of a value  *)
(* is its SSE id.  A timer may fire whenever the driver polls it.          *)
(***************************************************************************)
EXTENDS Naturals, Sequences

CONSTANTS
  None,
  MaxLog,    \* bound: values the Agent emits before its response
  MaxDrops,  \* bound: connections of the event stream that break
  Window     \* capacity of the channel from the event stream task, 256

ASSUME WindowAssumption == Window \in Nat \ {0}

ASSUME LogAssumption == MaxLog \in Nat

VARIABLES
  rt,        \* phase of the driver
  why,       \* what made it stop the session
  rtcancel,  \* the watch channel holds an unread cancellation
  rtq,       \* events sent to the worker so far
  reply,     \* the driver awaits the answer to a permission reply
  post,      \* prompt task: "none", "sent", "ack", "resp", "error" or "read"
  up,        \* the server process runs
  agent,     \* "idle", "working" or "answered"
  log,       \* values of the Agent in the server's SSE buffer
  conn,      \* the event stream has a connection
  pos,       \* last value the server has sent on it
  drops,
  sse,       \* event stream task: "none", "run" or "failed"
  last,      \* its last_event_id, 0 for none
  rx,        \* ids in its channel
  taken      \* ids the driver has received, in order

driver == <<rt, why, rtcancel, rtq, reply>>

stream == <<conn, pos, drops, sse, last, rx>>

vars == <<driver, post, up, agent, log, stream, taken>>

Preparing == {"health", "agents", "initialize", "subscribe", "session", "model"}

Waiting == {"stopping", "grace"}   \* in wait_for_prompt_response

Finished == {"ok", "err"}

Terminal == {"completed", "failed", "cancelled", "uncertain"}

(* The None of an Option is no value it may hold. *)
ASSUME NoneAssumption == None \notin Terminal \cup {"cancel"}

Init ==
  /\ rt = "spawn" /\ why = None /\ rtcancel = FALSE /\ rtq = << >>
  /\ reply = FALSE /\ post = "none" /\ up = FALSE
  /\ agent = "idle" /\ log = << >>
  /\ conn = FALSE /\ pos = 0 /\ drops = 0 /\ sse = "none" /\ last = 0 /\ rx = << >>
  /\ taken = << >>

Move(to) == rt' = to /\ UNCHANGED <<why, rtcancel>>

(* A terminal event: the prompt and event stream tasks are aborted, DELETE
   and stop_child are still to come. *)
Report(e) ==
  /\ rtq' = Append(rtq, e) /\ reply' = FALSE
  /\ Move("closing")

(* External: a cancellation is passed on by the worker. *)
CancelArrives ==
  /\ ~rtcancel /\ rt \notin Finished
  /\ rtcancel' = TRUE
  /\ UNCHANGED <<rt, why, rtq, reply, post, up, agent, log, stream, taken>>

-----------------------------------------------------------------------------
(* run(): the server process. *)

Spawn ==
  /\ rt = "spawn"
  /\ up' = TRUE /\ Move("health")
  /\ UNCHANGED <<rtq, reply, post, agent, log, stream, taken>>

SpawnFails ==
  /\ rt = "spawn" /\ Move("err")
  /\ UNCHANGED <<rtq, reply, post, up, agent, log, stream, taken>>

(* External. *)
ServerExits ==
  /\ up
  /\ up' = FALSE /\ conn' = FALSE
  /\ UNCHANGED <<driver, post, agent, log, pos, drops, sse, last, rx, taken>>

(* child_poll sees the exit and drops run_inner wherever it is. *)
ChildPoll ==
  /\ ~up /\ rt \notin Finished \cup {"spawn"}
  /\ rtq' = Append(rtq, "uncertain") /\ reply' = FALSE /\ Move("err")
  /\ UNCHANGED <<post, up, agent, log, stream, taken>>

(* DELETE has been answered or has timed out, stop_child kills the server. *)
Close ==
  /\ rt = "closing"
  /\ up' = FALSE /\ conn' = FALSE /\ Move("ok")
  /\ UNCHANGED <<rtq, reply, post, agent, log, pos, drops, sse, last, rx, taken>>

-----------------------------------------------------------------------------
(* prepare_session(): nobody looks at the watch channel. *)

(* External: the server answers. *)
HealthAnswer ==
  /\ rt = "health" /\ up /\ Move("agents")
  /\ UNCHANGED <<rtq, reply, post, up, agent, log, stream, taken>>

AgentsAnswer ==
  /\ rt = "agents" /\ up /\ Move("initialize")
  /\ rtq' = Append(rtq, "started")
  /\ UNCHANGED <<reply, post, up, agent, log, stream, taken>>

(* The Agent is not there, or the answer is an error. *)
AgentsRefused ==
  /\ rt = "agents" /\ Report("failed")
  /\ UNCHANGED <<post, up, agent, log, stream, taken>>

Initialized ==
  /\ rt = "initialize" /\ up /\ Move("subscribe")
  /\ UNCHANGED <<rtq, reply, post, up, agent, log, stream, taken>>

(* subscribe_sse *)
Subscribed ==
  /\ rt = "subscribe" /\ up /\ Move("session")
  /\ conn' = TRUE /\ sse' = "run"
  /\ UNCHANGED <<rtq, reply, post, up, agent, log, pos, drops, last, rx, taken>>

(* A model is set if the request names one. *)
SessionCreated ==
  /\ rt = "session" /\ up /\ Move("model")
  /\ UNCHANGED <<rtq, reply, post, up, agent, log, stream, taken>>

(* drive_prompt() spawns the prompt task. *)
StartPrompt ==
  /\ rt \in {"session", "model"} /\ up /\ Move("prompt")
  /\ post' = "sent" /\ agent' = "working"
  /\ UNCHANGED <<rtq, reply, up, log, stream, taken>>

(* Fault: session/new is sent without the timer of control_rpc. *)
PrepareFailsBug ==
  /\ rt \in Preparing \ {"agents", "session"} /\ Report("failed")
  /\ UNCHANGED <<post, up, agent, log, stream, taken>>

(* The timers of wait_for_health, control_rpc and open_sse, or an error
   answer.  The query of the agents has no timer. *)
PrepareFails ==
  /\ rt \in Preparing \ {"agents"} /\ Report("failed")
  /\ UNCHANGED <<post, up, agent, log, stream, taken>>

-----------------------------------------------------------------------------
(* External: the Agent, and the server's answer to the POST of the prompt. *)

Values == {"update", "permission", "question", "undecodable"}

AgentEmits ==
  /\ up /\ agent = "working" /\ Len(log) < MaxLog /\ rt \notin Finished
  /\ \E v \in Values : log' = Append(log, v)
  /\ UNCHANGED <<driver, post, up, agent, stream, taken>>

(* The response may not be mirrored on the event stream. *)
AgentAnswers ==
  /\ up /\ agent = "working" /\ rt \notin Finished
  /\ agent' = "answered"
  /\ log' \in {log, Append(log, "response")}
  /\ UNCHANGED <<driver, post, up, stream, taken>>

(* The POST is acknowledged, answered with the response, or refused. *)
PostAnswer ==
  /\ post = "sent" /\ rt = "prompt"
  /\ post' \in {"ack", "error"} \cup (IF agent = "answered" THEN {"resp"} ELSE {})
  /\ UNCHANGED <<driver, up, agent, log, stream, taken>>

-----------------------------------------------------------------------------
(* The event stream task of subscribe_sse(). *)

Listening == sse = "run" /\ rt \in {"session", "model", "prompt", "deliver"} \cup Waiting

(* Fault: values that have been received already are passed on again. *)
DuplicateBug(id) == FALSE

Duplicate(id) == id <= last

(* The next value arrives.  tx.send waits for room in the channel. *)
Deliver ==
  /\ Listening /\ conn /\ pos < Len(log) /\ Len(rx) < Window
  /\ pos' = pos + 1
  /\ IF Duplicate(pos') THEN UNCHANGED <<rx, last, sse, conn>>
     ELSE IF log[pos'] = "undecodable"
     THEN sse' = "failed" /\ conn' = FALSE /\ UNCHANGED <<rx, last>>
     ELSE rx' = Append(rx, pos') /\ last' = pos' /\ UNCHANGED <<sse, conn>>
  /\ UNCHANGED <<driver, post, up, agent, log, drops, taken>>

(* External: the connection breaks. *)
Drop ==
  /\ Listening /\ conn /\ drops < MaxDrops
  /\ conn' = FALSE /\ drops' = drops + 1
  /\ UNCHANGED <<driver, post, up, agent, log, pos, sse, last, rx, taken>>

(* open_sse with Last-Event-ID: the server leaves out at most the values up
   to that one. *)
Reconnect ==
  /\ Listening /\ ~conn /\ up
  /\ conn' = TRUE /\ pos' \in 0..last
  /\ UNCHANGED <<driver, post, up, agent, log, drops, sse, last, rx, taken>>

-----------------------------------------------------------------------------
(* drive_prompt(): a biased select; its arms are polled in the order of the
   actions, and not at all while a permission reply is awaited. *)

Selecting == rt = "prompt" /\ ~reply

GiveUp(reason) == why' = reason /\ rt' = "deliver"

SeesCancel ==
  /\ Selecting /\ rtcancel
  /\ rtcancel' = FALSE /\ GiveUp("cancel")
  /\ UNCHANGED <<rtq, reply, post, up, agent, log, stream, taken>>

(* The run or the idle deadline. *)
Timeout ==
  /\ Selecting /\ ~rtcancel
  /\ GiveUp("timeout")
  /\ UNCHANGED <<rtcancel, rtq, reply, post, up, agent, log, stream, taken>>

(* A value is received, in the select or in wait_for_prompt_response. *)
Take(kind) ==
  /\ ~reply /\ ((rt = "prompt" /\ ~rtcancel) \/ rt \in Waiting)
  /\ rx # << >> /\ log[Head(rx)] = kind
  /\ rx' = Tail(rx) /\ taken' = Append(taken, Head(rx))
  /\ UNCHANGED <<post, up, agent, log, conn, pos, drops, sse, last>>

Completion == {"completed", "failed"}

(* The response of the prompt. *)
TakeResponse ==
  /\ Take("response")
  /\ \E e \in IF rt = "stopping" THEN {IF why = "cancel" THEN "cancelled" ELSE "failed"}
              ELSE Completion : Report(e)

(* handle_inbound *)
TakeUpdate ==
  /\ Take("update")
  /\ rtq' = Append(rtq, "output") /\ reply' = FALSE /\ Move(rt)

(* respond_permission posts the reply and awaits its answer, with no timer. *)
TakePermission ==
  /\ Take("permission")
  /\ reply' = TRUE /\ Move(rt) /\ UNCHANGED rtq

(* An error of handle_inbound ends the run, the wait for the stop, or the
   wait for the mirrored response. *)
InboundFails ==
  CASE rt = "prompt"   -> rtq' = Append(rtq, "uncertain") /\ reply' = FALSE /\ Move("err")
    [] rt = "stopping" -> Report("uncertain")
    [] rt = "grace"    -> \E e \in Completion : Report(e)

(* No option can be selected. *)
TakeUnanswerable == Take("permission") /\ InboundFails

(* Outside the select a question is no reason to stop. *)
TakeQuestion ==
  /\ Take("question")
  /\ IF rt = "prompt"
     THEN /\ rtq' = Append(rtq, "failed") /\ rt' = "closing" /\ why' = "question"
          /\ UNCHANGED <<reply, rtcancel>>
     ELSE Move(rt) /\ UNCHANGED <<rtq, reply>>

(* The channel of the failed task is closed and empty. *)
StreamLost ==
  /\ Selecting /\ ~rtcancel /\ rx = << >> /\ sse = "failed"
  /\ Report("uncertain")
  /\ UNCHANGED <<post, up, agent, log, stream, taken>>

(* The prompt task is done. *)
TakePost ==
  /\ Selecting /\ ~rtcancel /\ rx = << >> /\ sse = "run"
  /\ post \in {"ack", "resp", "error"} /\ post' = "read"
  /\ CASE post = "ack"   -> Move(rt) /\ UNCHANGED <<rtq, reply>>
       [] post = "resp"  -> Move("grace") /\ UNCHANGED <<rtq, reply>>
       [] post = "error" -> rtq' = Append(rtq, "uncertain") /\ UNCHANGED reply /\ Move("err")
  /\ UNCHANGED <<up, agent, log, stream, taken>>

(* External: the answer to a permission reply. *)
ReplyAnswered ==
  /\ reply /\ up
  /\ reply' = FALSE /\ Move(rt)
  /\ UNCHANGED <<rtq, post, up, agent, log, stream, taken>>

ReplyRefused ==
  /\ reply /\ InboundFails
  /\ UNCHANGED <<post, up, agent, log, stream, taken>>

-----------------------------------------------------------------------------
(* cancel_session() and wait_for_prompt_response(). *)

CancelDelivered ==
  /\ rt = "deliver" /\ up
  /\ rt' = "stopping"
  /\ UNCHANGED <<why, rtcancel, rtq, reply, post, up, agent, log, stream, taken>>

(* Fault: only an error answer ends the delivery. *)
CancelUndeliveredBug ==
  /\ rt = "deliver" /\ up /\ log # << >>
  /\ Report("uncertain")
  /\ UNCHANGED <<post, up, agent, log, stream, taken>>

(* Ten seconds without an answer, or an error answer. *)
CancelUndelivered ==
  /\ rt = "deliver" /\ Report("uncertain")
  /\ UNCHANGED <<post, up, agent, log, stream, taken>>

(* Fault: the Agent is taken to have stopped. *)
StopUnconfirmedBug ==
  /\ rt = "stopping" /\ Report(IF why = "cancel" THEN "cancelled" ELSE "failed")
  /\ UNCHANGED <<post, up, agent, log, stream, taken>>

(* Ten seconds without the response, or the channel of the failed event
   stream task is closed and empty. *)
StopUnconfirmed ==
  /\ rt = "stopping" /\ Report("uncertain")
  /\ UNCHANGED <<post, up, agent, log, stream, taken>>

(* Two seconds without the mirrored response, or the closed channel: the
   response of the POST counts. *)
GraceEnds ==
  /\ rt = "grace" /\ \E e \in Completion : Report(e)
  /\ UNCHANGED <<post, up, agent, log, stream, taken>>

(***************************************************************************)
(* A select takes the result of the failed event stream task from its join *)
(* handle before the channel yields None.  drive_prompt awaits the handle  *)
(* again before it sends the completion: Tokio panics, and the task of the *)
(* runtime ends with nothing reported.  In drive_prompt the select polls   *)
(* the channel first, and the task fails between the two polls.            *)
(***************************************************************************)
StreamJoined ==
  /\ sse = "failed" /\ ~reply
  /\ (rt = "prompt" /\ ~rtcancel) \/ rt \in Waiting
  /\ Move("err")
  /\ UNCHANGED <<rtq, reply, post, up, agent, log, stream, taken>>

-----------------------------------------------------------------------------

External ==
  \/ CancelArrives \/ ServerExits \/ HealthAnswer \/ AgentsAnswer \/ AgentsRefused
  \/ Initialized \/ Subscribed \/ SessionCreated \/ StartPrompt \/ AgentEmits \/ AgentAnswers
  \/ PostAnswer \/ Drop \/ ReplyAnswered \/ ReplyRefused \/ CancelDelivered

Next ==
  \/ External
  \/ Spawn \/ SpawnFails \/ ChildPoll \/ Close \/ PrepareFails \/ Deliver \/ Reconnect
  \/ SeesCancel \/ Timeout \/ TakeResponse \/ TakeUpdate \/ TakePermission
  \/ TakeUnanswerable \/ TakeQuestion \/ StreamLost \/ TakePost
  \/ CancelUndelivered \/ StopUnconfirmed \/ GraceEnds \/ StreamJoined

Spec == Init /\ [][Next]_vars

(***************************************************************************)
(* The tasks are polled and their timers fire; the deadlines are polled    *)
(* before the event stream, so a flood of values cannot keep them waiting. *)
(* The server owes nothing.                                                *)
(***************************************************************************)
FairSpec ==
  /\ Spec
  /\ WF_vars(Spawn \/ SpawnFails) /\ WF_vars(ChildPoll) /\ WF_vars(Close)
  /\ WF_vars(PrepareFails)
  /\ SF_vars(SeesCancel \/ Timeout)
  /\ WF_vars(CancelUndelivered) /\ WF_vars(StopUnconfirmed) /\ WF_vars(GraceEnds)

(* The server answers the two requests that have no timer. *)
ServerAnswers ==
  WF_vars(AgentsAnswer \/ AgentsRefused) /\ WF_vars(ReplyAnswered \/ ReplyRefused)

-----------------------------------------------------------------------------
(* Properties. *)

RuntimePhase ==
  CASE rt \in {"spawn", "health", "agents"} -> "prepare"
    [] rt \in {"initialize", "subscribe", "session", "model"} -> "session"
    [] rt = "deliver" -> "stopping"
    [] OTHER -> rt

(* The first terminal event. *)
Reported ==
  LET ends == {i \in DOMAIN rtq : rtq[i] \in Terminal}
  IN IF ends = {} THEN None ELSE rtq[CHOOSE i \in ends : \A j \in ends : i <= j]

R == INSTANCE Runner WITH
       MaxSignals <- 0, MaxInFlight <- MaxLog + 1,
       signals <- 0, unseen <- FALSE, exec <- "loop", cancelling <- FALSE,
       held <- None, outcome <- None, begun <- FALSE, sup <- "loop", wrk <- "loop",
       rt <- RuntimePhase, why <- IF why = "question" THEN None ELSE why,
       reported <- Reported,
       ctl1 <- << >>, ctl2 <- << >>, out2 <- << >>, out1 <- << >>

(***************************************************************************)
(* Whatever the server, the event stream and the prompt task do, each step *)
(* of the driver is one the runtime of Runner takes, or none: the results  *)
(* about Runner hold for the code's HTTP, SSE and timer detail.            *)
(***************************************************************************)
RuntimeSteps == [][R!RtNext \/ CancelArrives]_(R!rtVars)

(***************************************************************************)
(* Across lost connections and replays the driver receives each value of   *)
(* the Agent once and in order, up to one it cannot decode.                *)
(***************************************************************************)
ReceivedOnceInOrder == taken = [i \in DOMAIN taken |-> i]

(***************************************************************************)
(* Once the driver has decided to stop, or has the response of the POST,   *)
(* the run ends even if the server never answers again.                    *)
(***************************************************************************)
StopBounded == rt \in {"deliver", "closing"} \cup Waiting ~> rt \in Finished

(***************************************************************************)
(* If the server answers the query of the agents and permission replies,   *)
(* the timers of the runtime end every run.                                *)
(***************************************************************************)
RunEnds == ServerAnswers => <>(rt \in Finished)

(***************************************************************************)
(* docs/sandbox-agent-runtime.md:126 has the response of the POST close    *)
(* the turn when the event stream does not mirror it in time: as long as   *)
(* the server runs, a driver that has it reports a completion.             *)
(***************************************************************************)
PostResponseCloses ==
  [][rt = "grace" /\ rt' # "grace" /\ up
       => \E e \in Completion : rtq' = Append(rtq, e)]_vars

(***************************************************************************)
(* docs/submission-api.md:312 counts the run timeout from the start of the *)
(* attempt, and line 379 makes its end a failed or an uncertain one: a run *)
(* in which the prompt has been sent ends by itself.                       *)
(***************************************************************************)
RunTimeoutBounds == rt = "prompt" ~> rt \in Finished
=============================================================================
