------------------------------- MODULE Runner -------------------------------
(***************************************************************************)
(* One attempt below run_attempt: execute() in the daemon, the supervisor  *)
(* process it spawns, the sandboxed worker process (crates/runner) and the *)
(* runtime task of the worker that drives the Agent                        *)
(* (crates/runtime-sandbox-agent).  They are linked by four pipes; each    *)
(* process may be killed, and a pipe whose reader is gone refuses writes.  *)
(*                                                                         *)
(* Events that do not end the run differ in nothing that matters here:     *)
(* "started" and "output" stand for all of them.  Session refines the      *)
(* steps of the runtime (RtNext) down to the HTTP requests.                *)
(***************************************************************************)
EXTENDS Naturals, Sequences

CONSTANTS
  None,
  MaxSignals,  \* bound: cancellation signals sent by the daemon
  MaxInFlight  \* bound: no output while so many events are on their way

VARIABLES
  signals,     \* cancellation signals sent so far
  unseen,      \* the watch channel of the attempt holds an unread change
  exec,        \* execute(): "spawn", "loop", "wait" (for the exit), "done", or
               \* "gone" with its daemon
  cancelling,  \* its cancellation deadline is armed
  held,        \* terminal event it withholds until the runner has exited
  outcome,     \* what run_attempt is told; None so far
  begun,       \* history: run_attempt has been given "started"
  sup,         \* supervisor: "none", "start", "loop", "exit0" or "exit1"
  wrk,         \* worker: "none", "loop", "ending", "exit0" or "exit1"
  rt,          \* phase of the runtime task
  why,         \* what made the runtime stop the session
  rtcancel,    \* watch channel of the runtime holds an unread cancellation
  rtq,         \* events the runtime has sent to the worker
  agent,       \* "idle", "working" or "answered" (the prompt has its response)
  reported,    \* history: the first terminal event of the runtime
  ctl1, ctl2,  \* control pipes: execute -> supervisor -> worker
  out2, out1   \* event pipes: worker -> supervisor -> execute

execVars == <<signals, unseen, exec, cancelling, held, outcome, begun>>

rtVars == <<rt, why, rtcancel, rtq, agent, reported>>

vars == <<execVars, sup, wrk, rtVars, ctl1, ctl2, out2, out1>>

Confirmed == {"completed", "failed", "cancelled"}

Terminal == Confirmed \cup {"uncertain"}

Dead == {"exit0", "exit1"}

(* The None of an Option is no value it may hold. *)
ASSUME NoneAssumption == None \notin Terminal \cup {"cancel"}

Init ==
  /\ signals = 0 /\ unseen = FALSE
  /\ exec = "spawn" /\ cancelling = FALSE /\ held = None /\ outcome = None
  /\ begun = FALSE
  /\ sup = "none" /\ wrk = "none"
  /\ rt = "none" /\ why = None /\ rtcancel = FALSE /\ rtq = << >>
  /\ agent = "idle" /\ reported = None
  /\ ctl1 = << >> /\ ctl2 = << >> /\ out2 = << >> /\ out1 = << >>

-----------------------------------------------------------------------------
(* execute() *)

(* cancel handlers and the shutdown write true into the watch channel. *)
Signal ==
  /\ signals < MaxSignals /\ exec \notin {"done", "gone"}
  /\ signals' = signals + 1 /\ unseen' = TRUE
  /\ UNCHANGED <<exec, cancelling, held, outcome, begun, sup, wrk, rtVars,
                 ctl1, ctl2, out2, out1>>

ExecSpawn ==
  /\ exec = "spawn"
  /\ exec' = "loop" /\ sup' = "start"
  /\ UNCHANGED <<signals, unseen, cancelling, held, outcome, begun, wrk, rtVars,
                 ctl1, ctl2, out2, out1>>

(* execute returns; an error becomes runner_lost in run_attempt, which is
   uncertain as well.  A supervisor that still runs is sent SIGKILL
   (terminate, kill_on_drop); SupFails is its death. *)
Return(result) ==
  /\ exec' = "done" /\ outcome' = result
  /\ UNCHANGED <<signals, unseen, cancelling, held, begun, sup, wrk, rtVars,
                 ctl1, ctl2, out2, out1>>

ExecSpawnFails == exec = "spawn" /\ Return("uncertain")

(* Fault: the signal is passed on, but no deadline is set. *)
ExecCancelBug ==
  /\ exec = "loop" /\ unseen /\ sup \notin Dead
  /\ unseen' = FALSE
  /\ ctl1' = Append(ctl1, "cancel")
  /\ UNCHANGED <<signals, exec, cancelling, held, outcome, begun, sup, wrk, rtVars,
                 ctl2, out2, out1>>

ExecCancel ==
  /\ exec = "loop" /\ unseen /\ sup \notin Dead
  /\ unseen' = FALSE /\ cancelling' = TRUE
  /\ ctl1' = Append(ctl1, "cancel")
  /\ UNCHANGED <<signals, exec, held, outcome, begun, sup, wrk, rtVars, ctl2,
                 out2, out1>>

(* The write fails: nobody reads the control pipe any more. *)
ExecCancelFails == exec = "loop" /\ unseen /\ sup \in Dead /\ Return("uncertain")

(* The cancellation is not confirmed within ten seconds. *)
ExecDeadline == exec = "loop" /\ cancelling /\ Return("uncertain")

ExecTerminal ==
  /\ exec = "loop" /\ out1 # << >> /\ Head(out1) \in Terminal
  /\ exec' = "wait" /\ held' = Head(out1) /\ out1' = Tail(out1)
  /\ UNCHANGED <<signals, unseen, cancelling, outcome, begun, sup, wrk, rtVars,
                 ctl1, ctl2, out2>>

ExecEvent ==
  /\ exec = "loop" /\ out1 # << >> /\ Head(out1) \notin Terminal
  /\ out1' = Tail(out1) /\ begun' = (begun \/ Head(out1) = "started")
  /\ UNCHANGED <<signals, unseen, exec, cancelling, held, outcome, sup, wrk, rtVars,
                 ctl1, ctl2, out2>>

(* End of the event pipe without a terminal event. *)
ExecEof == exec = "loop" /\ out1 = << >> /\ sup \in Dead /\ Return("uncertain")

ExecExit ==
  /\ exec = "wait" /\ sup \in Dead
  /\ Return(IF sup = "exit0" THEN held ELSE "uncertain")

(* The runner does not exit within ten seconds. *)
ExecExitTimeout == exec = "wait" /\ sup \notin Dead /\ Return("uncertain")

(* The daemon is killed.  Nobody signals the supervisor: its control pipe
   yields end of file for ever, which it polls in its select and ignores. *)
DaemonDies ==
  /\ exec \in {"spawn", "loop", "wait"}
  /\ exec' = "gone"
  /\ UNCHANGED <<signals, unseen, cancelling, held, outcome, begun, sup, wrk, rtVars,
                 ctl1, ctl2, out2, out1>>

-----------------------------------------------------------------------------
(* supervisor() *)

SupStart ==
  /\ sup = "start"
  /\ sup' = "loop" /\ wrk' = "loop" /\ rt' = "prepare"
  /\ UNCHANGED <<execVars, why, rtcancel, rtq, agent, reported,
                 ctl1, ctl2, out2, out1>>

(* An error of the supervisor, or the loss of its process.  The worker goes
   with it (--die-with-parent), a moment later: WrkFails. *)
SupFails ==
  /\ sup \in {"start", "loop"}
  /\ sup' = "exit1"
  /\ UNCHANGED <<execVars, wrk, rtVars, ctl1, ctl2, out2, out1>>

(* A cancellation for a worker that is gone is a write error. *)
SupControl ==
  /\ sup = "loop" /\ ctl1 # << >>
  /\ ctl1' = Tail(ctl1)
  /\ IF wrk \in Dead THEN sup' = "exit1" /\ UNCHANGED ctl2
     ELSE ctl2' = Append(ctl2, Head(ctl1)) /\ UNCHANGED sup
  /\ UNCHANGED <<execVars, wrk, rtVars, out2, out1>>

(* An event for a daemon that is gone is a write error. *)
SupForward ==
  /\ sup = "loop" /\ out2 # << >> /\ out2' = Tail(out2)
  /\ IF exec \in {"done", "gone"} THEN sup' = "exit1" /\ UNCHANGED out1
     ELSE out1' = Append(out1, Head(out2)) /\ UNCHANGED sup
  /\ UNCHANGED <<execVars, wrk, rtVars, ctl1, ctl2>>

(* Fault: a terminal event on its way ends the supervisor. *)
SupEofBug ==
  /\ sup = "loop" /\ out2 = << >> /\ wrk \in {"ending", "exit0", "exit1"}
  /\ sup' = IF wrk = "exit1" THEN "exit1" ELSE "exit0"
  /\ UNCHANGED <<execVars, wrk, rtVars, ctl1, ctl2, out2, out1>>

(* The worker's exit status becomes the supervisor's. *)
SupEof ==
  /\ sup = "loop" /\ out2 = << >> /\ wrk \in Dead
  /\ sup' = wrk
  /\ UNCHANGED <<execVars, wrk, rtVars, ctl1, ctl2, out2, out1>>

-----------------------------------------------------------------------------
(* worker() *)

RtFinished == rt \in {"ok", "err"}

(* An error of the worker, or the loss of its sandbox. *)
WrkFails ==
  /\ wrk \in {"loop", "ending"}
  /\ wrk' = "exit1"
  /\ UNCHANGED <<execVars, sup, rtVars, ctl1, ctl2, out2, out1>>

(* Fault: a cancellation that finds the runtime ended is confirmed. *)
WrkControlBug ==
  /\ wrk = "loop" /\ ctl2 # << >>
  /\ ctl2' = Tail(ctl2)
  /\ IF RtFinished
     THEN wrk' = "exit0" /\ out2' = Append(out2, "cancelled") /\ UNCHANGED rtcancel
     ELSE rtcancel' = TRUE /\ UNCHANGED <<wrk, out2>>
  /\ UNCHANGED <<execVars, sup, rt, why, rtq, agent, reported, ctl1, out1>>

(* A cancellation for a runtime that has ended is an error: its receiver is
   gone.  The worker then exits without the events still in the channel. *)
WrkControl ==
  /\ wrk = "loop" /\ ctl2 # << >>
  /\ ctl2' = Tail(ctl2)
  /\ IF RtFinished THEN wrk' = "exit1" /\ UNCHANGED rtcancel
     ELSE rtcancel' = TRUE /\ UNCHANGED wrk
  /\ UNCHANGED <<execVars, sup, rt, why, rtq, agent, reported, ctl1, out2, out1>>

WrkEvent ==
  /\ wrk = "loop" /\ rtq # << >>
  /\ out2' = Append(out2, Head(rtq)) /\ rtq' = Tail(rtq)
  /\ wrk' = IF Head(rtq) \in Terminal THEN "ending" ELSE "loop"
  /\ UNCHANGED <<execVars, sup, rt, why, rtcancel, agent, reported, ctl1, ctl2, out1>>

(* The terminal event is written: join the runtime task and exit. *)
WrkEnd ==
  /\ wrk = "ending" /\ RtFinished
  /\ wrk' = "exit0"
  /\ UNCHANGED <<execVars, sup, rtVars, ctl1, ctl2, out2, out1>>

FirstTerminal(q) ==
  CHOOSE i \in DOMAIN q : q[i] \in Terminal /\ \A j \in 1..(i-1) : q[j] \notin Terminal

(* The join of the runtime task is seen before its last events: they are
   drained, unless the runtime ended with an error. *)
WrkJoin ==
  /\ wrk = "loop" /\ RtFinished
  /\ IF rt = "ok" /\ \E i \in DOMAIN rtq : rtq[i] \in Terminal
     THEN /\ out2' = out2 \o SubSeq(rtq, 1, FirstTerminal(rtq))
          /\ wrk' = "exit0"
     ELSE wrk' = "exit1" /\ UNCHANGED out2
  /\ UNCHANGED <<execVars, sup, rtVars, ctl1, ctl2, out1>>

-----------------------------------------------------------------------------
(* run() of the runtime, a task of the worker *)

Alive == wrk \in {"loop", "ending"}

RtMove(to) ==
  /\ rt' = to
  /\ UNCHANGED <<execVars, sup, wrk, ctl1, ctl2, out2, out1>>

(* The runtime sends terminal event e. *)
Send(e) ==
  /\ rtq' = Append(rtq, e)
  /\ reported' = IF reported = None THEN e ELSE reported
  /\ UNCHANGED <<why, rtcancel, agent>>

(* The session ends with event e; DELETE and stop_child are still to come. *)
Report(e) == Send(e) /\ RtMove("closing")

RtStarted ==
  /\ Alive /\ rt = "prepare"
  /\ rtq' = Append(rtq, "started")
  /\ RtMove("session") /\ UNCHANGED <<why, rtcancel, agent, reported>>

RtPrompt ==
  /\ Alive /\ rt = "session"
  /\ agent' = "working"
  /\ RtMove("prompt") /\ UNCHANGED <<why, rtcancel, rtq, reported>>

(* run: no port, no server process or no HTTP client; nothing is reported. *)
RtSpawnFails ==
  /\ Alive /\ rt = "prepare"
  /\ RtMove("err") /\ UNCHANGED <<why, rtcancel, rtq, agent, reported>>

(* run_inner: preparation fails. *)
RtPrepareFails == Alive /\ rt \in {"prepare", "session"} /\ Report("failed")

(* handle_inbound: an update of the Agent arrives, asked to stop or not, and
   perhaps after it has answered. *)
RtOutput ==
  /\ Alive /\ rt \in {"prompt", "grace", "stopping"}
  /\ Len(rtq) + Len(out2) + Len(out1) < MaxInFlight
  /\ rtq' = Append(rtq, "output")
  /\ RtMove(rt) /\ UNCHANGED <<why, rtcancel, agent, reported>>

(* External: the Agent ends its turn, on its own or on request. *)
AgentAnswers ==
  /\ Alive /\ agent = "working" /\ ~RtFinished
  /\ agent' = "answered"
  /\ RtMove(rt) /\ UNCHANGED <<why, rtcancel, rtq, reported>>

(* The select is biased: a cancellation goes before everything else. *)
RtCancel ==
  /\ Alive /\ rt = "prompt" /\ rtcancel
  /\ rtcancel' = FALSE /\ why' = "cancel"
  /\ RtMove("stopping") /\ UNCHANGED <<rtq, agent, reported>>

(* Fault: the deadline of the run is kept by the daemon. *)
RtTimeoutBug ==
  /\ Alive /\ rt = "prompt" /\ ~rtcancel /\ exec # "gone"
  /\ why' = "timeout"
  /\ RtMove("stopping") /\ UNCHANGED <<rtcancel, rtq, agent, reported>>

(* The run or the idle timeout. *)
RtTimeout ==
  /\ Alive /\ rt = "prompt" /\ ~rtcancel
  /\ why' = "timeout"
  /\ RtMove("stopping") /\ UNCHANGED <<rtcancel, rtq, agent, reported>>

(* completion_from_response: the Agent ended its turn, or stopped otherwise. *)
Completion == {"completed", "failed"}

(* The event stream carries the response. *)
RtAnswered ==
  /\ Alive /\ rt = "prompt" /\ ~rtcancel /\ agent = "answered"
  /\ \E e \in Completion : Report(e)

(* The POST of the prompt carries it: the stream gets two more seconds, in
   which nobody looks at the watch channel. *)
RtPostAnswered ==
  /\ Alive /\ rt = "prompt" /\ ~rtcancel /\ agent = "answered"
  /\ RtMove("grace") /\ UNCHANGED <<why, rtcancel, rtq, agent, reported>>

RtGraceEnds == Alive /\ rt = "grace" /\ \E e \in Completion : Report(e)

(* An interactive question: the Agent is given up while it works. *)
RtQuestion == Alive /\ rt = "prompt" /\ ~rtcancel /\ Report("failed")

RtStreamLost == Alive /\ rt = "prompt" /\ ~rtcancel /\ Report("uncertain")

(* Fault: a stop that was only asked for counts as a stop. *)
StoppedBug == TRUE

(* wait_for_prompt_response saw the response of the prompt in time. *)
Stopped == agent = "answered"

RtStopped ==
  /\ Alive /\ rt = "stopping" /\ Stopped
  /\ Report(IF why = "cancel" THEN "cancelled" ELSE "failed")

(* session/cancel is not delivered, or not answered in time. *)
RtStopUnconfirmed == Alive /\ rt = "stopping" /\ Report("uncertain")

(* An error of the session, or the exit of the Sandbox Agent server. *)
RtError ==
  /\ Alive /\ ~RtFinished
  /\ Send("uncertain") /\ RtMove("err")

(* drive_prompt panics on the join handle of a failed event stream task: the
   runtime task ends with nothing reported. *)
RtPanics ==
  /\ Alive /\ rt \in {"prompt", "grace", "stopping"}
  /\ RtMove("err") /\ UNCHANGED <<why, rtcancel, rtq, agent, reported>>

RtClose ==
  /\ Alive /\ rt = "closing"
  /\ RtMove("ok") /\ UNCHANGED <<why, rtcancel, rtq, agent, reported>>

-----------------------------------------------------------------------------

RtNext ==
  \/ RtSpawnFails \/ RtStarted \/ RtPrompt \/ RtPrepareFails \/ RtOutput \/ AgentAnswers
  \/ RtCancel \/ RtTimeout \/ RtAnswered \/ RtPostAnswered \/ RtGraceEnds \/ RtQuestion
  \/ RtStreamLost \/ RtStopped \/ RtStopUnconfirmed \/ RtError \/ RtPanics
  \/ RtClose

Next ==
  \/ Signal \/ DaemonDies
  \/ ExecSpawn \/ ExecSpawnFails \/ ExecCancel \/ ExecCancelFails \/ ExecDeadline
  \/ ExecTerminal \/ ExecEvent \/ ExecEof \/ ExecExit \/ ExecExitTimeout
  \/ SupStart \/ SupFails \/ SupControl \/ SupForward \/ SupEof
  \/ WrkFails \/ WrkControl \/ WrkEvent \/ WrkEnd \/ WrkJoin
  \/ RtNext

Spec == Init /\ [][Next]_vars

(***************************************************************************)
(* Fairness for execute() alone: its timers fire and the daemon polls it.  *)
(* The supervisor, the worker and the Agent may hang for ever.             *)
(***************************************************************************)
FairSpec ==
  /\ Spec
  /\ WF_vars(ExecSpawn \/ ExecSpawnFails)
  /\ WF_vars(ExecCancel \/ ExecCancelFails)
  /\ WF_vars(ExecDeadline)
  /\ WF_vars(ExecExit \/ ExecExitTimeout)

(***************************************************************************)
(* Fairness for what is below execute(): each process is scheduled and the *)
(* timers of the runtime fire; the first one stands for an answer of the   *)
(* Sandbox Agent too, whose absence Session studies.  The kernel kills the *)
(* worker of a dead supervisor, and the daemon one it has given up.        *)
(***************************************************************************)
BelowFair ==
  /\ WF_vars(RtStarted \/ RtPrompt \/ RtPrepareFails)
  /\ WF_vars(RtCancel \/ RtTimeout)
  /\ WF_vars(RtGraceEnds) /\ WF_vars(RtStopUnconfirmed) /\ WF_vars(RtClose)
  /\ WF_vars(WrkEvent) /\ WF_vars(WrkEnd) /\ WF_vars(WrkJoin)
  /\ WF_vars(SupStart) /\ WF_vars(SupForward) /\ WF_vars(SupEof)
  /\ WF_vars(sup \in Dead /\ WrkFails)
  /\ WF_vars(exec = "done" /\ SupFails)

-----------------------------------------------------------------------------
(* Properties. *)

(***************************************************************************)
(* A confirmed outcome frees the slot of the source and the workspace, so  *)
(* it must not be reported while anything of the attempt still runs: the   *)
(* terminal event is withheld until the supervisor, hence the sandbox, is  *)
(* gone.  Some paths (an interactive question, a server that exits) report *)
(* an end before the Agent has stopped.                                    *)
(***************************************************************************)
ConfirmedMeansGone == outcome \in Confirmed => sup \in Dead /\ wrk \in Dead

(***************************************************************************)
(* A run is reported completed or cancelled only if the Agent answered and *)
(* run_attempt knows that it started, cancelled only if somebody asked for *)
(* it, whatever order cancellations, timeouts and the answer arrive in.    *)
(* Daemon's Reportable takes this for granted.                             *)
(***************************************************************************)
OutcomeIsEarned ==
  /\ outcome \in {"completed", "cancelled"} => agent = "answered" /\ begun
  /\ outcome = "cancelled" => signals > 0

(***************************************************************************)
(* A cancellation is answered even if every process below the daemon       *)
(* hangs: execute gives up at its deadline.                                *)
(***************************************************************************)
CancelAnswered == signals > 0 ~> (outcome # None \/ exec = "gone")

(***************************************************************************)
(* What the daemon confirms is the first end the runtime reported, with    *)
(* four pipes, a second terminal event (a server that exits while the      *)
(* session closes) and cancellations that arrive after the end in between: *)
(* a late cancellation may cost a finished run its result, it never turns  *)
(* it into another one.                                                    *)
(***************************************************************************)
ConfirmedIsReported == outcome \in Confirmed => outcome = reported

(***************************************************************************)
(* Nothing of an attempt outlives it for ever, if what is below execute()  *)
(* runs at all.  An orphan of a dead daemon works on, but no longer than   *)
(* its own deadlines allow.                                                *)
(***************************************************************************)
LeftBehindEnds == BelowFair =>
  (exec \in {"done", "gone"} ~> sup \in Dead \cup {"none"} /\ wrk \in Dead \cup {"none"})
=============================================================================
